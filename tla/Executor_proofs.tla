-------------------------- MODULE Executor_proofs --------------------------
(***************************************************************************)
(* What one instruction does to the stacks and the pointers of an          *)
(* executor, for every program and every limit.  EngineExecutor_proofs and *)
(* DebugSession_proofs rest on the lemmas of this module.                  *)
(*                                                                         *)
(* Pushing a frame, popping one and writing a return address keep          *)
(* StackShape and StackOK; InstrOK says the same of execute_instr, from    *)
(* one lemma per instruction; InstrEffect and InstrFrames say what an      *)
(* instruction does to the frames and what it reports of it.               *)
(***************************************************************************)
EXTENDS Executor, SequenceTheorems, TLAPS

\* The instance stack under the newest frame of fs.
Popped(fs, insts) == IF Last(fs).changed THEN Front(insts) ELSE insts

Changes(insts, inst) == inst # NoInstance /\ (insts # <<>> => inst # Last(insts))

\* The instance stack above which the new frame runs.
Pushed(insts, inst) == IF Changes(insts, inst) THEN Append(insts, inst) ELSE insts

\* The frames with another return address in the newest.
Put(fs, addr) == [fs EXCEPT ![Len(fs)].ip = addr]

NewFrame(f, off, changed) ==
    [func |-> f, ip |-> Entry(f), off |-> off, changed |-> changed]

-----------------------------------------------------------------------------
(* Sequences.                                                              *)

\* Front drops the last element and keeps the others.
LEMMA FrontFacts ==
    ASSUME NEW S, NEW s \in Seq(S), s # <<>>
    PROVE  /\ Front(s) \in Seq(S)
           /\ Len(Front(s)) = Len(s) - 1
           /\ \A i \in 1 .. Len(s) - 1 : Front(s)[i] = s[i]
           /\ Len(s) \in Nat \ {0}
           /\ Last(s) \in S /\ Last(s) = s[Len(s)]
<1>1. Len(s) \in Nat \ {0}
  BY EmptySeq
<1>2. Last(s) = s[Len(s)] /\ Last(s) \in S
  BY <1>1 DEF Last
<1>3. PICK n \in Nat : n + 1 = Len(s)
  BY <1>1
<1>4. Front(s) = SubSeq(s, 1, n) /\ Len(s) - 1 = n
  BY <1>3 DEF Front
<1>5. SubSeq(s, 1, n) \in Seq(S)
  BY <1>3
<1>6. Len(SubSeq(s, 1, n)) = n
  BY <1>3
<1>7. \A i \in 1 .. n : SubSeq(s, 1, n)[i] = s[i]
  BY <1>3
<1> QED
  BY <1>1, <1>2, <1>4, <1>5, <1>6, <1>7

\* Append adds one element and keeps the others.
LEMMA AppendFacts ==
    ASSUME NEW S, NEW s \in Seq(S), NEW x \in S
    PROVE  /\ Append(s, x) \in Seq(S)
           /\ Append(s, x) # <<>>
           /\ Len(Append(s, x)) = Len(s) + 1
           /\ \A i \in 1 .. Len(s) : Append(s, x)[i] = s[i]
           /\ Append(s, x)[Len(s) + 1] = x
           /\ Last(Append(s, x)) = x
           /\ Len(s) \in Nat
  BY DEF Last

\* A sequence that is not empty is longer than some number.
LEMMA PredLen ==
    ASSUME NEW S, NEW s \in Seq(S), s # <<>>
    PROVE  \E m \in Nat : m + 1 = Len(s)
<1>1. Len(s) \in Nat \ {0}
  BY EmptySeq
<1>2. Len(s) - 1 \in Nat /\ (Len(s) - 1) + 1 = Len(s)
  BY <1>1
<1> QED BY <1>2

\* Front of a sequence of m + 1 elements.
LEMMA FrontOf ==
    ASSUME NEW S, NEW s \in Seq(S), NEW m \in Nat, m + 1 = Len(s)
    PROVE  /\ Front(s) \in Seq(S) /\ Len(Front(s)) = m /\ Len(s) - 1 = m
           /\ \A i \in 1 .. m : Front(s)[i] = s[i]
           /\ Last(s) = s[m + 1] /\ Last(s) \in S /\ s # <<>>
<1>1. s # <<>> /\ Len(s) - 1 = m
  BY EmptySeq
<1> QED BY <1>1, FrontFacts

\* A sequence of length 0 is empty, and only that.
LEMMA EmptyFacts ==
    ASSUME NEW S, NEW s \in Seq(S)
    PROVE  Len(s) \in Nat /\ (s = <<>> <=> Len(s) = 0)
  BY EmptySeq

\* Two sequences that differ in their last element have the same Front.
LEMMA SameFront ==
    ASSUME NEW S, NEW s \in Seq(S), NEW t \in Seq(S), s # <<>>, t # <<>>,
           Len(s) = Len(t), \A i \in 1 .. Len(s) - 1 : s[i] = t[i]
    PROVE  Front(s) = Front(t)
<1>1. /\ Front(s) \in Seq(S) /\ Len(Front(s)) = Len(s) - 1
      /\ \A i \in 1 .. Len(s) - 1 : Front(s)[i] = s[i]
  BY FrontFacts
<1>2. /\ Front(t) \in Seq(S) /\ Len(Front(t)) = Len(t) - 1
      /\ \A i \in 1 .. Len(t) - 1 : Front(t)[i] = t[i]
  BY FrontFacts
<1> QED BY SMTT(30), <1>1, <1>2, SeqEqual

\* A sequence that is one shorter and agrees is the Front.
LEMMA IsFront ==
    ASSUME NEW S, NEW s \in Seq(S), NEW t \in Seq(S), s # <<>>,
           Len(t) = Len(s) - 1, \A i \in 1 .. Len(t) : t[i] = s[i]
    PROVE  t = Front(s)
<1>1. /\ Front(s) \in Seq(S) /\ Len(Front(s)) = Len(s) - 1
      /\ \A i \in 1 .. Len(s) - 1 : Front(s)[i] = s[i]
  BY FrontFacts
<1> QED BY <1>1, SeqEqual

\* Writing the return address of the newest frame changes nothing else.
LEMMA PutFacts ==
    ASSUME NEW fs \in Seq(Frame), fs # <<>>, NEW addr \in Place
    PROVE  LET gs == Put(fs, addr) IN
           /\ gs \in Seq(Frame) /\ Len(gs) = Len(fs) /\ gs # <<>>
           /\ Last(gs) = [Last(fs) EXCEPT !.ip = addr]
           /\ \A i \in 1 .. Len(fs) - 1 : gs[i] = fs[i]
           /\ \A i \in 1 .. Len(fs) : /\ gs[i].func = fs[i].func
                                      /\ gs[i].off = fs[i].off
                                      /\ gs[i].changed = fs[i].changed
<1> DEFINE n == Len(fs)
           fr == [fs[n] EXCEPT !.ip = addr]
           gs == [fs EXCEPT ![n] = fr]
<1>1. n \in Nat \ {0} /\ n \in 1 .. n /\ fs[n] \in Frame /\ Last(fs) = fs[n]
  <2>1. n \in Nat \ {0} /\ Last(fs) \in Frame /\ Last(fs) = fs[n]
    BY FrontFacts
  <2> QED BY <2>1
<1>2. /\ fr \in Frame /\ fr.func = fs[n].func /\ fr.off = fs[n].off
      /\ fr.changed = fs[n].changed
  BY <1>1 DEF Frame, Place
<1>3. /\ gs \in Seq(Frame) /\ Len(gs) = n
      /\ \A j \in 1 .. n : gs[j] = IF j = n THEN fr ELSE fs[j]
  BY <1>1, <1>2, ExceptSeq
<1> HIDE DEF gs, fr
<1>4. gs # <<>> /\ Last(gs) = fr
  BY <1>1, <1>3 DEF Last
<1> QED
  BY <1>1, <1>2, <1>3, <1>4 DEF gs, fr, Put

-----------------------------------------------------------------------------
(* The instance stack beside the frames.                                   *)

\* A frame that is pushed counts the instance it brings.
LEMMA IndexPush ==
    ASSUME NEW fs \in Seq(Frame), NEW insts \in Seq(Inst), NEW idx,
           InstanceIndex(fs, insts, idx), NEW fr \in Frame, NEW js \in Seq(Inst),
           fs = <<>> => fr.changed,
           Len(js) = IF fr.changed THEN Len(insts) + 1 ELSE Len(insts),
           NEW jdx, jdx = [i \in 0 .. Len(fs) + 1 |->
                              IF i = Len(fs) + 1 THEN Len(js) ELSE idx[i]]
    PROVE  InstanceIndex(Append(fs, fr), js, jdx)
<1> DEFINE gs == Append(fs, fr)
           n == Len(fs)
<1>1. /\ gs \in Seq(Frame) /\ gs # <<>> /\ Len(gs) = n + 1 /\ n \in Nat
      /\ \A i \in 1 .. n : gs[i] = fs[i]
      /\ gs[n + 1] = fr
  BY AppendFacts
<1>2. Len(insts) \in Nat /\ Len(js) \in Nat /\ Len(js) >= Len(insts)
  BY EmptyFacts
<1>3. /\ idx \in [0 .. n -> 0 .. Len(insts)] /\ idx[0] = 0 /\ idx[n] = Len(insts)
      /\ \A i \in 1 .. n : idx[i] = IF fs[i].changed THEN idx[i - 1] + 1 ELSE idx[i - 1]
      /\ \A i, j \in 0 .. n : i <= j => idx[i] <= idx[j]
      /\ fs # <<>> => fs[1].changed
  BY DEF InstanceIndex
<1>4. (fs = <<>> <=> n = 0)
      /\ jdx = [i \in 0 .. n + 1 |-> IF i = n + 1 THEN Len(js) ELSE idx[i]]
  BY EmptyFacts
<1> HIDE DEF gs, n
<1>5. jdx \in [0 .. n + 1 -> 0 .. Len(js)] /\ jdx[0] = 0 /\ jdx[n + 1] = Len(js)
  BY <1>1, <1>2, <1>3, <1>4
<1>6. \A i \in 1 .. n + 1 :
          jdx[i] = IF gs[i].changed THEN jdx[i - 1] + 1 ELSE jdx[i - 1]
  <2> TAKE i \in 1 .. n + 1
  <2>1. CASE i = n + 1
    <3>1. jdx[i] = Len(js) /\ jdx[i - 1] = Len(insts) /\ gs[i] = fr
      BY <2>1, <1>1, <1>3, <1>4
    <3> QED BY <3>1
  <2>2. CASE i # n + 1
    <3>1. i \in 1 .. n /\ i - 1 \in 0 .. n /\ jdx[i] = idx[i] /\ jdx[i - 1] = idx[i - 1]
          /\ gs[i] = fs[i]
      BY <2>2, <1>1, <1>4
    <3> QED BY <3>1, <1>3
  <2> QED BY <2>1, <2>2
<1>7. \A i, j \in 0 .. n + 1 : i <= j => jdx[i] <= jdx[j]
  <2> TAKE i, j \in 0 .. n + 1
  <2> HAVE i <= j
  <2>1. CASE j = n + 1
    BY <2>1, <1>2, <1>5
  <2>2. CASE j # n + 1
    <3>1. i \in 0 .. n /\ j \in 0 .. n /\ jdx[i] = idx[i] /\ jdx[j] = idx[j]
      BY <2>2, <1>1, <1>4
    <3> QED BY <3>1, <1>3
  <2> QED BY <2>1, <2>2
<1>8. gs[1].changed
  BY <1>1, <1>3, <1>4
<1>9. InstanceIndex(gs, js, jdx)
  BY <1>1, <1>5, <1>6, <1>7, <1>8 DEF InstanceIndex
<1> QED BY <1>9 DEF gs

\* A frame that is popped takes the instance it brought along.
LEMMA IndexPop ==
    ASSUME NEW fs \in Seq(Frame), NEW insts \in Seq(Inst), NEW idx,
           InstanceIndex(fs, insts, idx), fs # <<>>,
           NEW jdx, jdx = [i \in 0 .. Len(fs) - 1 |-> idx[i]]
    PROVE  /\ Popped(fs, insts) \in Seq(Inst)
           /\ InstanceIndex(Front(fs), Popped(fs, insts), jdx)
           /\ \A i \in 1 .. Len(Popped(fs, insts)) : Popped(fs, insts)[i] = insts[i]
           /\ Last(fs).changed => insts # <<>>
<1> DEFINE gs == Front(fs)
           js == Popped(fs, insts)
<1>1. PICK m \in Nat : m + 1 = Len(fs)
  BY PredLen
<1>2. /\ gs \in Seq(Frame) /\ Len(gs) = m /\ Len(fs) - 1 = m
      /\ \A i \in 1 .. m : gs[i] = fs[i]
      /\ Last(fs) = fs[m + 1]
  BY ZenonT(40), <1>1, FrontOf
<1>3. /\ idx \in [0 .. m + 1 -> 0 .. Len(insts)] /\ idx[0] = 0
      /\ idx[m + 1] = Len(insts)
      /\ \A i \in 1 .. m + 1 :
            idx[i] = IF fs[i].changed THEN idx[i - 1] + 1 ELSE idx[i - 1]
      /\ \A i, j \in 0 .. m + 1 : i <= j => idx[i] <= idx[j]
      /\ fs[1].changed
  BY <1>1 DEF InstanceIndex
<1>4. idx[m] \in 0 .. Len(insts) /\ Len(insts) \in Nat
      /\ Len(insts) = IF Last(fs).changed THEN idx[m] + 1 ELSE idx[m]
  <2>1. m + 1 \in 1 .. m + 1 /\ m \in 0 .. m + 1 /\ (m + 1) - 1 = m
    BY <1>1
  <2> QED BY <1>2, <1>3, <2>1, EmptyFacts
<1>5. Last(fs).changed => insts # <<>>
  BY <1>4, EmptyFacts
<1>6. /\ js \in Seq(Inst) /\ Len(js) = idx[m]
      /\ \A i \in 1 .. Len(js) : js[i] = insts[i]
  <2>1. CASE Last(fs).changed
    <3>1. /\ js = Front(insts) /\ js \in Seq(Inst) /\ Len(js) = Len(insts) - 1
          /\ \A i \in 1 .. Len(insts) - 1 : js[i] = insts[i]
      BY <2>1, <1>5, FrontFacts DEF Popped
    <3> QED BY <2>1, <3>1, <1>4
  <2>2. CASE ~Last(fs).changed
    BY <2>2, <1>4 DEF Popped
  <2> QED BY <2>1, <2>2
<1> HIDE DEF gs, js
<1>0. jdx = [i \in 0 .. m |-> idx[i]]
  BY <1>2
<1>7. jdx \in [0 .. m -> 0 .. Len(js)] /\ jdx[0] = 0 /\ jdx[m] = Len(js)
  <2>1. \A i \in 0 .. m : i \in 0 .. m + 1 /\ idx[i] \in Nat /\ idx[i] <= idx[m]
    BY <1>3, <1>4
  <2> QED BY <2>1, <1>0, <1>3, <1>4, <1>6
<1>8. \A i \in 1 .. m : jdx[i] = IF gs[i].changed THEN jdx[i - 1] + 1 ELSE jdx[i - 1]
  <2> TAKE i \in 1 .. m
  <2>1. i \in 1 .. m + 1 /\ jdx[i] = idx[i] /\ jdx[i - 1] = idx[i - 1] /\ gs[i] = fs[i]
    BY <1>0, <1>2
  <2> QED BY <2>1, <1>3
<1>9. \A i, j \in 0 .. m : i <= j => jdx[i] <= jdx[j]
  BY SMTT(30), <1>0, <1>3
<1>10. gs # <<>> => gs[1].changed
  <2>1. gs # <<>> => m # 0
    BY <1>2, EmptyFacts
  <2> QED BY <2>1, <1>2, <1>3
<1>11. InstanceIndex(gs, js, jdx)
  BY <1>2, <1>7, <1>8, <1>9, <1>10 DEF InstanceIndex
<1> QED BY <1>2, <1>5, <1>6, <1>11 DEF gs, js

\* Another return address counts nothing.
LEMMA IndexPut ==
    ASSUME NEW fs \in Seq(Frame), NEW insts \in Seq(Inst), NEW idx,
           InstanceIndex(fs, insts, idx), NEW gs \in Seq(Frame), Len(gs) = Len(fs),
           \A i \in 1 .. Len(fs) : gs[i].changed = fs[i].changed
    PROVE  InstanceIndex(gs, insts, idx)
<1>1. Len(fs) \in Nat /\ (fs = <<>> <=> Len(fs) = 0) /\ (gs = <<>> <=> Len(gs) = 0)
  BY EmptyFacts
<1>2. gs # <<>> => gs[1].changed
  <2>1. gs # <<>> => fs # <<>> /\ 1 \in 1 .. Len(fs)
    BY <1>1
  <2> QED BY <2>1 DEF InstanceIndex
<1>3. \A i \in 1 .. Len(gs) : idx[i] = IF gs[i].changed THEN idx[i - 1] + 1 ELSE idx[i - 1]
  BY DEF InstanceIndex
<1> QED BY <1>2, <1>3 DEF InstanceIndex

\* The newest frame runs in the newest instance, and there is one.
LEMMA IndexTop ==
    ASSUME NEW fs \in Seq(Frame), NEW insts \in Seq(Inst), NEW idx,
           InstanceIndex(fs, insts, idx)
    PROVE  /\ fs # <<>> <=> insts # <<>>
           /\ insts # <<>> => Last(insts) = insts[Len(insts)] /\ Last(insts) \in Inst
           /\ \A i \in 1 .. Len(fs) : idx[i] \in 1 .. Len(insts)
           /\ idx[Len(fs)] = Len(insts)
<1>1. Len(fs) \in Nat /\ Len(insts) \in Nat /\ (fs = <<>> <=> Len(fs) = 0)
      /\ (insts = <<>> <=> Len(insts) = 0)
  BY EmptyFacts
<1>2. \A i \in 1 .. Len(fs) : idx[i] \in 1 .. Len(insts)
  <2> TAKE i \in 1 .. Len(fs)
  <2>1. 1 \in 1 .. Len(fs) /\ 1 \in 0 .. Len(fs) /\ i \in 0 .. Len(fs) /\ fs # <<>>
    BY <1>1
  <2>2. idx[1] = 1
    BY <2>1 DEF InstanceIndex
  <2>3. idx[1] <= idx[i] /\ idx[i] \in 0 .. Len(insts)
    BY <2>1 DEF InstanceIndex
  <2> QED BY <2>2, <2>3, <1>1
<1>3. idx[Len(fs)] = Len(insts) /\ idx[0] = 0
  BY DEF InstanceIndex
<1>4. insts # <<>> => Last(insts) = insts[Len(insts)] /\ Last(insts) \in Inst
  BY FrontFacts
<1>5. fs # <<>> <=> insts # <<>>
  <2>1. CASE fs = <<>>
    BY <2>1, <1>1, <1>3
  <2>2. CASE fs # <<>>
    <3>1. Len(fs) \in 1 .. Len(fs)
      BY <2>2, <1>1
    <3>2. Len(insts) \in 1 .. Len(insts)
      BY <3>1, <1>2, <1>3
    <3> QED BY <2>2, <3>2, <1>1
  <2> QED BY <2>1, <2>2
<1> QED BY <1>2, <1>3, <1>4, <1>5

-----------------------------------------------------------------------------
(* Stacks that fit each other.                                             *)

\* Nothing is on the stacks.
LEMMA EmptyOK ==
    ASSUME NEW h, NEW base
    PROVE  StackShape(<<>>, <<>>, h) /\ StackOK(<<>>, <<>>, h, base)
<1> DEFINE idx == [i \in 0 .. 0 |-> 0]
<1>1. Len(<<>>) = 0 /\ RecursionLimit \in Nat
  BY ExecutorAssumption
<1>2. idx \in [0 .. Len(<<>>) -> 0 .. Len(<<>>)] /\ InstanceIndex(<<>>, <<>>, idx)
  BY <1>1 DEF InstanceIndex
<1> HIDE DEF idx
<1>3. Coherent(<<>>, <<>>)
  BY <1>1, <1>2 DEF Coherent
<1> QED BY <1>1, <1>2, <1>3 DEF StackShape, StackOK

\* The frame that is pushed.
LEMMA PushFrame ==
    ASSUME NEW f \in Funcs, NEW off \in Nat, NEW ch \in BOOLEAN
    PROVE  /\ NewFrame(f, off, ch) \in Frame
           /\ NewFrame(f, off, ch).off = off /\ NewFrame(f, off, ch).func = f
           /\ NewFrame(f, off, ch).ip = Entry(f)
           /\ NewFrame(f, off, ch).changed = ch
           /\ Addressed(NewFrame(f, off, ch))
<1>1. 1 \in Executable(f)
  BY ExecutorAssumption DEF WellFormed
<1> QED BY <1>1 DEF NewFrame, Frame, Place, Entry, Addressed

\* The instance that is pushed with it.
LEMMA PushInstance ==
    ASSUME NEW insts \in Seq(Inst), NEW inst \in Inst \cup {NoInstance}
    PROVE  LET js == Pushed(insts, inst) IN
           /\ Changes(insts, inst) \in BOOLEAN
           /\ js \in Seq(Inst)
           /\ Changes(insts, inst) => inst \in Inst /\ js = Append(insts, inst)
           /\ ~Changes(insts, inst) => js = insts
           /\ Len(js) = IF Changes(insts, inst) THEN Len(insts) + 1 ELSE Len(insts)
<1>1. CASE Changes(insts, inst)
  BY <1>1, AppendFacts DEF Changes, Pushed
<1>2. CASE ~Changes(insts, inst)
  BY <1>2 DEF Changes, Pushed
<1> QED BY <1>1, <1>2

\* Pushing a frame above all cells in use.
LEMMA ShapePush ==
    ASSUME NEW fs \in Seq(Frame), NEW insts \in Seq(Inst), NEW h \in Nat,
           StackShape(fs, insts, h), Len(fs) < RecursionLimit,
           NEW f \in Funcs, NEW off \in Nat, off >= h, NEW h2 \in Nat, off <= h2,
           NEW inst \in Inst \cup {NoInstance}, fs = <<>> => inst # NoInstance
    PROVE  StackShape(Append(fs, NewFrame(f, off, Changes(insts, inst))),
                      Pushed(insts, inst), h2)
<1> DEFINE ch == Changes(insts, inst)
           fr == NewFrame(f, off, ch)
           gs == Append(fs, fr)
           js == Pushed(insts, inst)
<1>1. PICK idx \in [0 .. Len(fs) -> 0 .. Len(insts)] : InstanceIndex(fs, insts, idx)
  BY DEF StackShape
<1>0. /\ ch \in BOOLEAN /\ js \in Seq(Inst)
      /\ Len(js) = IF ch THEN Len(insts) + 1 ELSE Len(insts)
      /\ fs = <<>> => (insts = <<>> => ch)
  BY PushInstance DEF Changes
<1> HIDE DEF ch, js
<1>2. /\ fr \in Frame /\ fr.off = off /\ fr.changed = ch
  BY <1>0, PushFrame
<1>3. fs = <<>> => fr.changed
  BY <1>0, <1>1, <1>2, IndexTop
<1> HIDE DEF fr
<1>4. /\ gs \in Seq(Frame) /\ gs # <<>> /\ Len(gs) = Len(fs) + 1 /\ Len(fs) \in Nat
      /\ \A i \in 1 .. Len(fs) : gs[i] = fs[i]
      /\ gs[Len(fs) + 1] = fr /\ Last(gs) = fr
  BY <1>2, AppendFacts
<1> DEFINE jdx == [i \in 0 .. Len(fs) + 1 |-> IF i = Len(fs) + 1 THEN Len(js) ELSE idx[i]]
<1> HIDE DEF jdx
<1>5. InstanceIndex(gs, js, jdx)
  BY <1>0, <1>1, <1>2, <1>3, IndexPush DEF jdx
<1> HIDE DEF gs
<1>6. jdx \in [0 .. Len(gs) -> 0 .. Len(js)]
  BY <1>5 DEF InstanceIndex
<1>7. \A i \in 1 .. Len(gs) - 1 : gs[i].off <= gs[i + 1].off
  <2> TAKE i \in 1 .. Len(gs) - 1
  <2>1. CASE i = Len(fs)
    <3>1. fs # <<>> /\ Last(fs) = fs[i] /\ Last(fs) \in Frame
      BY SMTT(30), <2>1, <1>4, EmptyFacts, FrontFacts
    <3>2. fs[i].off <= h /\ fs[i].off \in Nat
      BY <3>1 DEF StackShape, Frame
    <3> QED BY <2>1, <3>2, <1>2, <1>4
  <2>2. CASE i # Len(fs)
    <3>1. i \in 1 .. Len(fs) - 1 /\ i \in 1 .. Len(fs) /\ i + 1 \in 1 .. Len(fs)
      BY <2>2, <1>4
    <3> QED BY <3>1, <1>4 DEF StackShape
  <2> QED BY <2>1, <2>2
<1>8. Len(gs) <= RecursionLimit
  BY <1>4, ExecutorAssumption
<1>9. StackShape(gs, js, h2)
  BY <1>2, <1>4, <1>5, <1>6, <1>7, <1>8 DEF StackShape
<1> QED BY <1>9 DEF gs, js, fr, ch

\* Popping the newest frame frees the cells from its offset on.
LEMMA ShapePop ==
    ASSUME NEW fs \in Seq(Frame), NEW insts \in Seq(Inst), NEW h \in Nat,
           StackShape(fs, insts, h), fs # <<>>,
           NEW h2 \in Nat, h2 >= Last(fs).off
    PROVE  /\ Front(fs) \in Seq(Frame) /\ Popped(fs, insts) \in Seq(Inst)
           /\ StackShape(Front(fs), Popped(fs, insts), h2)
           /\ Len(Front(fs)) < RecursionLimit
           /\ Last(fs).off \in Nat /\ Last(fs).off <= h
<1> DEFINE gs == Front(fs)
           js == Popped(fs, insts)
<1>1. PICK idx \in [0 .. Len(fs) -> 0 .. Len(insts)] : InstanceIndex(fs, insts, idx)
  BY DEF StackShape
<1>2. PICK m \in Nat : m + 1 = Len(fs)
  BY PredLen
<1>3. /\ gs \in Seq(Frame) /\ Len(gs) = m /\ Len(fs) - 1 = m
      /\ \A i \in 1 .. m : gs[i] = fs[i]
      /\ Last(fs) = fs[m + 1] /\ Last(fs) \in Frame
  BY SMTT(30), <1>2, FrontOf
<1> DEFINE jdx == [i \in 0 .. Len(fs) - 1 |-> idx[i]]
<1> HIDE DEF jdx
<1>4. js \in Seq(Inst) /\ InstanceIndex(gs, js, jdx)
  BY <1>1, IndexPop DEF jdx
<1> HIDE DEF gs, js
<1>5. jdx \in [0 .. Len(gs) -> 0 .. Len(js)]
  BY <1>4 DEF InstanceIndex
<1>6. \A i \in 1 .. Len(gs) - 1 : gs[i].off <= gs[i + 1].off
  <2> TAKE i \in 1 .. Len(gs) - 1
  <2>1. i \in 1 .. Len(fs) - 1 /\ i \in 1 .. m /\ i + 1 \in 1 .. m
    BY <1>2, <1>3
  <2> QED BY <2>1, <1>3 DEF StackShape
<1>7. gs # <<>> => Last(gs).off <= h2
  <2> SUFFICES ASSUME gs # <<>> PROVE Last(gs).off <= h2
    OBVIOUS
  <2>1. m \in 1 .. m
    BY <1>3, EmptyFacts
  <2>0. Last(gs) = gs[m] /\ Last(gs) \in Frame
    BY <1>3, FrontFacts
  <2>2. fs[m].off <= fs[m + 1].off
    BY <2>1, <1>2 DEF StackShape
  <2>3. Last(gs).off = fs[m].off /\ Last(gs).off \in Nat /\ fs[m + 1].off \in Nat
    BY <2>0, <2>1, <1>3 DEF Frame
  <2> QED BY <2>2, <2>3, <1>3
<1>8. Len(gs) <= RecursionLimit /\ Len(gs) < RecursionLimit
  BY <1>2, <1>3, ExecutorAssumption DEF StackShape
<1>9. StackShape(gs, js, h2)
  BY <1>4, <1>5, <1>6, <1>7, <1>8 DEF StackShape
<1>10. Last(fs).off \in Nat /\ Last(fs).off <= h
  BY <1>3 DEF StackShape, Frame
<1> QED BY <1>3, <1>4, <1>8, <1>9, <1>10 DEF gs, js

\* Writing a return address, and using more cells.
LEMMA ShapePut ==
    ASSUME NEW fs \in Seq(Frame), NEW insts \in Seq(Inst), NEW h \in Nat,
           StackShape(fs, insts, h), fs # <<>>, NEW addr \in Place,
           NEW h2 \in Nat, h2 >= h
    PROVE  StackShape(Put(fs, addr), insts, h2)
<1> DEFINE gs == Put(fs, addr)
<1>1. /\ gs \in Seq(Frame) /\ Len(gs) = Len(fs) /\ gs # <<>>
      /\ \A i \in 1 .. Len(fs) : /\ gs[i].off = fs[i].off
                                 /\ gs[i].changed = fs[i].changed
  BY PutFacts
<1> HIDE DEF gs
<1>2. Len(fs) \in Nat \ {0} /\ Last(fs) = fs[Len(fs)] /\ Last(gs) = gs[Len(fs)]
      /\ Last(fs) \in Frame
  BY <1>1, FrontFacts
<1>3. PICK idx \in [0 .. Len(fs) -> 0 .. Len(insts)] : InstanceIndex(fs, insts, idx)
  BY DEF StackShape
<1>4. InstanceIndex(gs, insts, idx)
  BY <1>1, <1>3, IndexPut
<1>5. \A i \in 1 .. Len(gs) - 1 : gs[i].off <= gs[i + 1].off
  <2> TAKE i \in 1 .. Len(gs) - 1
  <2>1. i \in 1 .. Len(fs) - 1 /\ i \in 1 .. Len(fs) /\ i + 1 \in 1 .. Len(fs)
    BY <1>1, <1>2
  <2> QED BY <2>1, <1>1 DEF StackShape
<1>6. Last(gs).off <= h2
  <2>1. Last(fs).off <= h /\ Last(fs).off \in Nat
    BY <1>2 DEF StackShape, Frame
  <2>2. Last(gs).off = Last(fs).off
    BY <1>1, <1>2
  <2> QED BY <2>1, <2>2
<1>7. StackShape(gs, insts, h2)
  BY <1>1, <1>3, <1>4, <1>5, <1>6 DEF StackShape
<1> QED BY <1>7 DEF gs

-----------------------------------------------------------------------------
(* Stacks in order.                                                        *)

\* The newest frame runs in the newest instance, its own.
LEMMA TopInstance ==
    ASSUME NEW fs \in Seq(Frame), NEW insts \in Seq(Inst), Coherent(fs, insts)
    PROVE  /\ fs # <<>> <=> insts # <<>>
           /\ fs # <<>> => Last(insts) = InstanceOf[Last(fs).func]
<1>1. PICK idx \in [0 .. Len(fs) -> 0 .. Len(insts)] :
          /\ InstanceIndex(fs, insts, idx)
          /\ \A i \in 1 .. Len(fs) : insts[idx[i]] = InstanceOf[fs[i].func]
  BY DEF Coherent
<1>2. /\ fs # <<>> <=> insts # <<>>
      /\ insts # <<>> => Last(insts) = insts[Len(insts)]
      /\ idx[Len(fs)] = Len(insts)
  BY <1>1, IndexTop
<1>3. ASSUME fs # <<>> PROVE Last(insts) = InstanceOf[Last(fs).func]
  <2>1. Len(fs) \in Nat \ {0} /\ Last(fs) = fs[Len(fs)]
    BY <1>3, FrontFacts
  <2>2. Len(fs) \in 1 .. Len(fs)
    BY <2>1
  <2> QED BY <1>1, <1>2, <1>3, <2>1, <2>2
<1> QED BY <1>2, <1>3

\* Pushing a frame that runs in the instance of its function.
LEMMA OrderPush ==
    ASSUME NEW fs \in Seq(Frame), NEW insts \in Seq(Inst), NEW h \in Nat, NEW base,
           StackOK(fs, insts, h, base),
           NEW f \in Funcs, NEW off \in Nat, off >= h, fs = <<>> => off = base,
           NEW h2 \in Nat, off + Regs[f] <= h2,
           NEW inst \in Inst \cup {NoInstance},
           \/ inst = InstanceOf[f]
           \/ inst = NoInstance /\ insts # <<>> /\ Last(insts) = InstanceOf[f]
    PROVE  StackOK(Append(fs, NewFrame(f, off, Changes(insts, inst))),
                   Pushed(insts, inst), h2, base)
<1> DEFINE ch == Changes(insts, inst)
           fr == NewFrame(f, off, ch)
           gs == Append(fs, fr)
           js == Pushed(insts, inst)
           n == Len(fs)
<1>1. PICK idx \in [0 .. Len(fs) -> 0 .. Len(insts)] :
          /\ InstanceIndex(fs, insts, idx)
          /\ \A i \in 1 .. Len(fs) : insts[idx[i]] = InstanceOf[fs[i].func]
  BY DEF StackOK, Coherent
<1>2. InstanceOf[f] # NoInstance
  BY ExecutorAssumption
<1>3. /\ ch \in BOOLEAN /\ js \in Seq(Inst)
      /\ ch => inst \in Inst /\ js = Append(insts, inst)
      /\ ~ch => js = insts
      /\ Len(js) = IF ch THEN Len(insts) + 1 ELSE Len(insts)
  BY PushInstance
<1>4. /\ fs # <<>> <=> insts # <<>>
      /\ insts # <<>> => Last(insts) = insts[Len(insts)]
      /\ \A i \in 1 .. n : idx[i] \in 1 .. Len(insts)
  BY <1>1, IndexTop
<1>5. /\ ch => inst = InstanceOf[f]
      /\ ~ch => insts # <<>> /\ Last(insts) = InstanceOf[f]
  BY <1>2 DEF Changes
<1> HIDE DEF ch, js
<1>6. /\ js[Len(js)] = InstanceOf[f]
      /\ \A i \in 1 .. Len(insts) : js[i] = insts[i]
  <2>1. CASE ch
    <3>1. inst \in Inst /\ js = Append(insts, inst) /\ Len(js) = Len(insts) + 1
      BY <2>1, <1>3
    <3>2. js[Len(insts) + 1] = inst
      BY <3>1
    <3>3. \A i \in 1 .. Len(insts) : js[i] = insts[i]
      BY <3>1
    <3> QED BY <2>1, <3>1, <3>2, <3>3, <1>5
  <2>2. CASE ~ch
    BY <2>2, <1>3, <1>4, <1>5
  <2> QED BY <2>1, <2>2
<1>7. /\ fr \in Frame /\ fr.off = off /\ fr.func = f /\ fr.changed = ch
      /\ Addressed(fr) /\ Regs[f] \in Nat
      /\ fs = <<>> => fr.changed
  BY <1>3, <1>4, <1>5, PushFrame, ExecutorAssumption
<1> HIDE DEF fr
<1>8. /\ gs \in Seq(Frame) /\ gs # <<>> /\ Len(gs) = n + 1 /\ n \in Nat
      /\ \A i \in 1 .. n : gs[i] = fs[i]
      /\ gs[n + 1] = fr /\ Last(gs) = fr
  BY <1>7, AppendFacts
<1> DEFINE jdx == [i \in 0 .. n + 1 |-> IF i = n + 1 THEN Len(js) ELSE idx[i]]
<1> HIDE DEF jdx
<1>9. InstanceIndex(gs, js, jdx)
  BY <1>1, <1>3, <1>7, IndexPush DEF jdx
<1> HIDE DEF gs, n
<1>10. \A i \in 1 .. Len(gs) : js[jdx[i]] = InstanceOf[gs[i].func]
  <2> TAKE i \in 1 .. Len(gs)
  <2>1. CASE i = n + 1
    BY <2>1, <1>6, <1>7, <1>8 DEF jdx
  <2>2. CASE i # n + 1
    <3>1. i \in 1 .. n /\ gs[i] = fs[i] /\ jdx[i] = idx[i]
      BY <2>2, <1>8 DEF jdx
    <3> QED BY <3>1, <1>1, <1>4, <1>6 DEF n
  <2> QED BY <2>1, <2>2
<1>11. Coherent(gs, js)
  <2>1. jdx \in [0 .. Len(gs) -> 0 .. Len(js)]
    BY <1>9 DEF InstanceIndex
  <2> QED BY <2>1, <1>9, <1>10 DEF Coherent
<1>12. \A i \in 1 .. Len(gs) - 1 : gs[i].off + Regs[gs[i].func] <= gs[i + 1].off
  <2> TAKE i \in 1 .. Len(gs) - 1
  <2>1. CASE i = n
    <3>0. fs # <<>> /\ i \in 1 .. n
      BY <2>1, <1>8, EmptyFacts DEF n
    <3>1. fs # <<>> /\ Last(fs) = fs[i] /\ Last(fs) \in Frame
      BY <2>1, <3>0, FrontFacts DEF n
    <3>2. fs[i].off + Regs[fs[i].func] <= h /\ fs[i].off \in Nat
          /\ Regs[fs[i].func] \in Nat
      BY <3>1, ExecutorAssumption DEF StackOK, Frame
    <3>3. gs[i] = fs[i] /\ gs[i + 1] = fr
      BY <2>1, <3>0, <1>8
    <3> QED BY SMTT(30), <3>2, <3>3, <1>7
  <2>2. CASE i # n
    <3>1. i \in 1 .. n - 1 /\ i \in 1 .. n /\ i + 1 \in 1 .. n
      BY <2>2, <1>8
    <3> QED BY <3>1, <1>8 DEF StackOK, n
  <2> QED BY <2>1, <2>2
<1>13. \A i \in 1 .. Len(gs) : Addressed(gs[i])
  <2> TAKE i \in 1 .. Len(gs)
  <2>1. CASE i = n + 1
    BY <2>1, <1>7, <1>8
  <2>2. CASE i # n + 1
    <3>1. i \in 1 .. n /\ gs[i] = fs[i]
      BY <2>2, <1>8
    <3> QED BY <3>1 DEF StackOK, n
  <2> QED BY <2>1, <2>2
<1>14. gs[1].off = base
  <2>1. CASE fs = <<>>
    <3>1. n = 0
      BY <2>1, EmptyFacts DEF n
    <3> QED BY <2>1, <3>1, <1>7, <1>8
  <2>2. CASE fs # <<>>
    <3>1. 1 \in 1 .. n
      BY <2>2, FrontFacts DEF n
    <3> QED BY <2>2, <3>1, <1>8 DEF StackOK
  <2> QED BY <2>1, <2>2
<1>15. StackOK(gs, js, h2, base)
  BY <1>7, <1>8, <1>11, <1>12, <1>13, <1>14 DEF StackOK
<1> QED BY <1>15 DEF gs, js, fr, ch

\* Popping the newest frame: the one below can go on, in the instance that is
\* on top again.
LEMMA OrderPop ==
    ASSUME NEW fs \in Seq(Frame), NEW insts \in Seq(Inst), NEW h \in Nat, NEW base,
           StackOK(fs, insts, h, base), fs # <<>>,
           NEW h2 \in Nat, h2 >= Last(fs).off
    PROVE  /\ StackOK(Front(fs), Popped(fs, insts), h2, base)
           /\ Front(fs) # <<>> => Addressed(Last(Front(fs)))
           /\ Front(fs) # <<>> /\ ~Last(fs).changed =>
                 InstanceOf[Last(fs).func] = InstanceOf[Last(Front(fs)).func]
           /\ Front(fs) = <<>> => Last(fs).changed /\ Last(fs).off = base
<1> DEFINE gs == Front(fs)
           js == Popped(fs, insts)
<1>1. PICK idx \in [0 .. Len(fs) -> 0 .. Len(insts)] :
          /\ InstanceIndex(fs, insts, idx)
          /\ \A i \in 1 .. Len(fs) : insts[idx[i]] = InstanceOf[fs[i].func]
  BY DEF StackOK, Coherent
<1>2. PICK m \in Nat : m + 1 = Len(fs)
  BY PredLen
<1>3. /\ gs \in Seq(Frame) /\ Len(gs) = m /\ Len(fs) - 1 = m
      /\ \A i \in 1 .. m : gs[i] = fs[i]
      /\ Last(fs) = fs[m + 1] /\ Last(fs) \in Frame
  BY ZenonT(40), <1>2, FrontOf
<1> DEFINE jdx == [i \in 0 .. Len(fs) - 1 |-> idx[i]]
<1> HIDE DEF jdx
<1>4. /\ js \in Seq(Inst) /\ InstanceIndex(gs, js, jdx)
      /\ \A i \in 1 .. Len(js) : js[i] = insts[i]
  BY <1>1, IndexPop DEF jdx
<1> HIDE DEF gs, js
<1>5. \A i \in 1 .. m : jdx[i] \in 1 .. Len(js)
  BY <1>3, <1>4, IndexTop
<1>6. \A i \in 1 .. Len(gs) : js[jdx[i]] = InstanceOf[gs[i].func]
  <2> TAKE i \in 1 .. Len(gs)
  <2>1. i \in 1 .. m /\ i \in 1 .. Len(fs) /\ gs[i] = fs[i] /\ jdx[i] = idx[i]
    BY <1>2, <1>3 DEF jdx
  <2> QED BY <2>1, <1>1, <1>4, <1>5
<1>7. Coherent(gs, js)
  <2>1. jdx \in [0 .. Len(gs) -> 0 .. Len(js)]
    BY <1>4 DEF InstanceIndex
  <2> QED BY <2>1, <1>4, <1>6 DEF Coherent
<1>8. \A i \in 1 .. Len(gs) - 1 : gs[i].off + Regs[gs[i].func] <= gs[i + 1].off
  <2> TAKE i \in 1 .. Len(gs) - 1
  <2>1. i \in 1 .. Len(fs) - 1 /\ i \in 1 .. m /\ i + 1 \in 1 .. m
    BY <1>2, <1>3
  <2> QED BY <2>1, <1>3 DEF StackOK
<1>9. \A i \in 1 .. Len(gs) : Addressed(gs[i])
  BY <1>2, <1>3 DEF StackOK
<1>10. ASSUME gs # <<>>
       PROVE  /\ Last(gs).off + Regs[Last(gs).func] <= h2
              /\ gs[1].off = base /\ Addressed(Last(gs))
  <2>1. m \in 1 .. m /\ 1 \in 1 .. m
    BY <1>3, <1>10, EmptyFacts
  <2>2. Last(gs) = gs[m] /\ Last(gs) \in Frame
    BY <1>3, <1>10, FrontFacts
  <2>3. fs[m].off + Regs[fs[m].func] <= fs[m + 1].off
    BY <2>1, <1>2 DEF StackOK
  <2>4. Last(gs) = fs[m] /\ Last(gs).off \in Nat /\ Regs[Last(gs).func] \in Nat
        /\ fs[m + 1].off \in Nat
    BY <2>1, <2>2, <1>3, ExecutorAssumption DEF Frame
  <2>5. gs[1] = fs[1] /\ fs[1].off = base
    BY <2>1, <1>3 DEF StackOK
  <2>6. Addressed(Last(gs))
    BY <2>1, <2>2, <1>3, <1>9
  <2> QED BY <2>3, <2>4, <2>5, <2>6, <1>3
<1>11. StackOK(gs, js, h2, base)
  BY <1>7, <1>8, <1>9, <1>10 DEF StackOK
<1>12. ASSUME gs # <<>>, ~Last(fs).changed
       PROVE  InstanceOf[Last(fs).func] = InstanceOf[Last(gs).func]
  <2>1. js = insts /\ Coherent(fs, insts)
    BY <1>12 DEF js, Popped, StackOK
  <2> QED BY <2>1, <1>3, <1>7, <1>12, TopInstance
<1>13. gs = <<>> => Last(fs).changed /\ Last(fs).off = base
  <2>1. gs = <<>> => m = 0
    BY <1>3, EmptyFacts
  <2> QED BY <2>1, <1>1, <1>3 DEF InstanceIndex, StackOK
<1> QED BY <1>10, <1>11, <1>12, <1>13 DEF gs, js

\* Writing a return address from which the newest frame can go on.
LEMMA OrderPut ==
    ASSUME NEW fs \in Seq(Frame), NEW insts \in Seq(Inst), NEW h \in Nat, NEW base,
           StackOK(fs, insts, h, base), fs # <<>>, NEW addr \in Place,
           addr.func = Last(fs).func, addr.pc \in Executable(addr.func)
    PROVE  StackOK(Put(fs, addr), insts, h, base)
<1> DEFINE gs == Put(fs, addr)
<1>1. /\ gs \in Seq(Frame) /\ Len(gs) = Len(fs) /\ gs # <<>>
      /\ Last(gs) = [Last(fs) EXCEPT !.ip = addr]
      /\ \A i \in 1 .. Len(fs) - 1 : gs[i] = fs[i]
      /\ \A i \in 1 .. Len(fs) : /\ gs[i].func = fs[i].func
                                 /\ gs[i].off = fs[i].off
                                 /\ gs[i].changed = fs[i].changed
  BY PutFacts
<1> HIDE DEF gs
<1>2. Len(fs) \in Nat \ {0} /\ Last(fs) = fs[Len(fs)] /\ Last(fs) \in Frame
      /\ Last(gs) = gs[Len(fs)] /\ Last(gs) \in Frame
  <2>1. Last(gs) = gs[Len(gs)] /\ Last(gs) \in Frame
    BY <1>1, FrontFacts
  <2> QED BY <1>1, <2>1, FrontFacts
<1>3. /\ Last(gs).ip = addr /\ Last(gs).func = Last(fs).func
      /\ Last(gs).off = Last(fs).off
  BY <1>1, <1>2 DEF Frame
<1>4. PICK idx \in [0 .. Len(fs) -> 0 .. Len(insts)] :
          /\ InstanceIndex(fs, insts, idx)
          /\ \A i \in 1 .. Len(fs) : insts[idx[i]] = InstanceOf[fs[i].func]
  BY DEF StackOK, Coherent
<1>5. InstanceIndex(gs, insts, idx)
  BY <1>1, <1>4, IndexPut
<1>6. Coherent(gs, insts)
  <2>1. \A i \in 1 .. Len(gs) : insts[idx[i]] = InstanceOf[gs[i].func]
    BY <1>1, <1>4
  <2> QED BY <2>1, <1>1, <1>5 DEF Coherent
<1>7. \A i \in 1 .. Len(gs) : Addressed(gs[i])
  <2> TAKE i \in 1 .. Len(gs)
  <2>1. CASE i = Len(fs)
    BY <2>1, <1>2, <1>3 DEF Addressed
  <2>2. CASE i # Len(fs)
    <3>1. i \in 1 .. Len(fs) - 1 /\ i \in 1 .. Len(fs)
      BY <2>2, <1>1, <1>2
    <3> QED BY <3>1, <1>1 DEF StackOK
  <2> QED BY <2>1, <2>2
<1>8. \A i \in 1 .. Len(gs) - 1 : gs[i].off + Regs[gs[i].func] <= gs[i + 1].off
  <2> TAKE i \in 1 .. Len(gs) - 1
  <2>1. i \in 1 .. Len(fs) - 1 /\ i \in 1 .. Len(fs) /\ i + 1 \in 1 .. Len(fs)
    BY <1>1, <1>2
  <2> QED BY <2>1, <1>1 DEF StackOK
<1>9. gs[1].off = base
  <2>1. 1 \in 1 .. Len(fs)
    BY <1>2
  <2> QED BY <2>1, <1>1 DEF StackOK
<1>10. StackOK(gs, insts, h, base)
  BY <1>3, <1>6, <1>7, <1>8, <1>9 DEF StackOK
<1> QED BY <1>10 DEF gs

-----------------------------------------------------------------------------
(* What an instruction starts from and what it leaves.                     *)

\* The executor stands on an instruction and there is a frame.
Ready ==
    /\ ExecutorTyped
    /\ StackShape(frames, instances, height)
    /\ frames # <<>>
    /\ ip.func \in Funcs /\ ip.pc \in Executable(ip.func)

\* What every instruction leaves, whatever it was called on.
Shaped ==
    /\ ExecutorTyped
    /\ StackShape(frames, instances, height)
    /\ ip.func \in Funcs

\* What an instruction that started in order leaves, by its signal.
Kept(out, base) ==
    /\ out.sig = "Next" => InOrder(base)'
    /\ out.sig = "End" => frames' = <<>>
    /\ out.sig = "HostErr" =>
          frames' # <<>> /\ StackOK(frames', instances', height', base)

\* The facts every instruction starts from.
LEMMA ReadyFacts ==
    ASSUME Ready
    PROVE  /\ frames \in Seq(Frame) /\ frames # <<>>
           /\ Len(frames) \in Nat \ {0} /\ Len(frames) <= RecursionLimit
           /\ Last(frames) \in Frame
           /\ Last(frames).off \in Nat /\ Last(frames).off <= height
           /\ instances \in Seq(Inst) /\ instances # <<>> /\ Last(instances) \in Inst
           /\ height \in Nat /\ height < MaxHeight /\ cap \in Nat
           /\ StackShape(frames, instances, height)
           /\ ip \in Place /\ ip.pc \in Executable(ip.func)
           /\ sp \in [off : Nat, cap : Nat]
           /\ cache \in [inst : Inst \cup {NoInstance}, pages : Nat]
           /\ pages \in Nat /\ pages <= MaxPages
           /\ Instr \in Instruction /\ WellFormed(ip.func)
           /\ MaxHeight \in Nat /\ MaxPages \in Nat /\ RecursionLimit \in Nat
<1>1. MaxHeight \in Nat /\ MaxPages \in Nat /\ RecursionLimit \in Nat
  BY ExecutorAssumption
<1>2. /\ frames \in Seq(Frame) /\ instances \in Seq(Inst)
      /\ height \in Nat /\ height < MaxHeight /\ cap \in Nat
      /\ pages \in Nat /\ pages <= MaxPages
      /\ sp \in [off : Nat, cap : Nat]
      /\ cache \in [inst : Inst \cup {NoInstance}, pages : Nat]
  BY <1>1 DEF Ready, ExecutorTyped
<1>3. frames # <<>> /\ StackShape(frames, instances, height)
  BY DEF Ready
<1>4. Len(frames) \in Nat \ {0} /\ Last(frames) \in Frame
  BY <1>2, <1>3, FrontFacts
<1>5. PICK idx \in [0 .. Len(frames) -> 0 .. Len(instances)] :
          InstanceIndex(frames, instances, idx)
  BY <1>3 DEF StackShape
<1>6. instances # <<>> /\ Last(instances) \in Inst
  BY <1>2, <1>3, <1>5, IndexTop
<1>7. ip \in Place /\ ip.func \in Funcs /\ ip.pc \in Executable(ip.func)
  BY DEF Ready, ExecutorTyped, Place
<1>8. Code[ip.func] \in Seq(Instruction) /\ WellFormed(ip.func)
  BY <1>7, ExecutorAssumption
<1>9. Instr \in Instruction
  <2>1. ip.pc \in DOMAIN Code[ip.func]
    BY <1>7 DEF Executable
  <2> QED BY <2>1, <1>8 DEF Instr
<1>10. Last(frames).off \in Nat /\ Last(frames).off <= height
  BY <1>3, <1>4 DEF StackShape, Frame
<1>11. Len(frames) <= RecursionLimit
  BY <1>3 DEF StackShape
<1> QED
  BY <1>1, <1>2, <1>3, <1>4, <1>6, <1>7, <1>8, <1>9, <1>10, <1>11

\* Where ip may be moved to.
LEMMA Places ==
    ASSUME Ready
    PROVE  /\ \A n \in Nat : At(n) \in Place /\ At(n).func = ip.func
                               /\ At(n).pc = ip.pc + n
           /\ Resolved \in Place /\ Resolved.func = ip.func
           /\ Instr.words \in Nat /\ At(1 + Instr.words) \in Place
           /\ At(1 + Instr.words).func = ip.func
           /\ \A f \in Funcs : Entry(f) \in Place /\ 1 \in Executable(f)
<1>1. ip \in Place /\ Instr \in Instruction
  BY ReadyFacts
<1>2. \A n \in Nat : At(n) \in Place /\ At(n).func = ip.func /\ At(n).pc = ip.pc + n
  BY <1>1 DEF At, Place
<1>3. \A f \in Funcs : Entry(f) \in Place /\ 1 \in Executable(f)
  BY ExecutorAssumption DEF Entry, Place, WellFormed
<1>4. Instr.words \in Nat
  BY <1>1 DEF Instruction
<1>5. Resolved \in Place /\ Resolved.func = ip.func
  BY <1>1, <1>2 DEF Resolved
<1> QED BY <1>2, <1>3, <1>4, <1>5

\* The word after an instruction that stays in its function or comes back.
LEMMA NextPlace ==
    ASSUME Ready, \/ Instr.op \in {"memory_grow", "return_nez"}
                  \/ Instr.op \in CallOps /\ ~Instr.tail
    PROVE  At(1 + Instr.words).pc \in Executable(ip.func)
<1>1. ip.pc \in Executable(ip.func) /\ WellFormed(ip.func)
  BY ReadyFacts
<1>2. ip.pc + 1 + Instr.words \in Executable(ip.func)
  BY <1>1 DEF WellFormed, Instr
<1>3. ip.pc \in Nat /\ Instr.words \in Nat
  BY ReadyFacts, Places DEF Place
<1> QED BY <1>2, <1>3, Places

\* The capacity a reservation leaves.
LEMMA ReservedNat ==
    ASSUME NEW h \in Nat, NEW c \in Nat, NEW n \in Nat
    PROVE  /\ ReservedAt(h, c, n) \in Nat
           /\ \A l \in Nat : RootReserved(h, c, l, n) \in Nat
  BY DEF RootReserved, ReservedAt

\* What push does, in the terms of the lemmas above.
LEMMA PushStep ==
    ASSUME NEW fs, NEW insts, NEW f, NEW off, NEW inst,
           push(fs, insts, f, off, inst)
    PROVE  /\ frames' = Append(fs, NewFrame(f, off, Changes(insts, inst)))
           /\ instances' = Pushed(insts, inst)
  BY DEF push, NewFrame, Changes, Pushed

-----------------------------------------------------------------------------
(* One lemma per instruction.                                              *)

\* An instruction that leaves both stacks alone.
LEMMA StayOK ==
    ASSUME Ready, NEW out, NEW base,
           UNCHANGED <<frames, instances, height, cap, sp>>,
           ip' \in Place, ip'.func = ip.func,
           pages' \in 0 .. MaxPages,
           cache' \in [inst : Inst \cup {NoInstance}, pages : Nat],
           out.sig \in {"Next", "Err"},
           out.sig = "Next" => ip'.pc \in Executable(ip.func),
           cache = Cached(InstanceOf[ip.func], pages) =>
               cache' = Cached(InstanceOf[ip.func], pages')
    PROVE  Shaped' /\ (InOrder(base) => Kept(out, base))
<1>1. Shaped'
  BY ReadyFacts DEF Shaped, Ready, ExecutorTyped, Place
<1>2. ASSUME InOrder(base) PROVE Kept(out, base)
  BY <1>2 DEF Kept, InOrder
<1> QED BY <1>1, <1>2

\* An instruction that leaves the memory and the cache alone.
LEMMA SameMemory ==
    ASSUME Ready, UNCHANGED <<cache, pages>>
    PROVE  /\ pages' \in 0 .. MaxPages
           /\ cache' \in [inst : Inst \cup {NoInstance}, pages : Nat]
           /\ cache = Cached(InstanceOf[ip.func], pages) =>
                 cache' = Cached(InstanceOf[ip.func], pages')
<1>1. cache' = cache /\ pages' = pages
  OBVIOUS
<1>2. pages \in 0 .. MaxPages
  BY ReadyFacts
<1> QED BY <1>1, <1>2, ReadyFacts

\* An instruction that only moves ip inside its body.
LEMMA PlainOK ==
    ASSUME Ready, NEW out, NEW base, execute_plain(out)
    PROVE  Shaped' /\ (InOrder(base) => Kept(out, base))
<1>1. PICK pc \in Instr.to : ip' = [ip EXCEPT !.pc = pc]
  BY DEF execute_plain
<1>2. pc \in Executable(ip.func)
  BY <1>1, ReadyFacts DEF execute_plain, WellFormed, Instr
<1>3. pc \in Nat
  BY <1>1, ReadyFacts DEF Instruction
<1>4. ip' \in Place /\ ip'.func = ip.func /\ ip'.pc = pc
  BY <1>1, <1>3, ReadyFacts DEF Place
<1>5. out.sig = "Next" /\ UNCHANGED <<frames, instances, height, cap, sp, cache, pages>>
  BY DEF execute_plain, Done
<1> QED BY <1>2, <1>4, <1>5, StayOK, SameMemory

\* A trap leaves everything as it is.
LEMMA TrapOK ==
    ASSUME Ready, NEW out, NEW base, execute_trap(out)
    PROVE  Shaped' /\ (InOrder(base) => Kept(out, base))
<1>1. out.sig = "Err" /\ UNCHANGED execVars
  BY DEF execute_trap, Done
<1> QED BY <1>1, StayOK, SameMemory, ReadyFacts DEF execVars, Place

\* memory.grow, with the cache reloaded when the memory moved.
LEMMA GrowOK ==
    ASSUME Ready, NEW out, NEW base, execute_memory_grow(out)
    PROVE  Shaped' /\ (InOrder(base) => Kept(out, base))
<1>1. out.sig = "Next" /\ ip' = At(1 + Instr.words)
      /\ Instr.op = "memory_grow" /\ UNCHANGED <<frames, instances, height, cap, sp>>
  BY DEF execute_memory_grow, Done
<1>2. ip' \in Place /\ ip'.func = ip.func /\ ip'.pc \in Executable(ip.func)
  BY <1>1, Places, NextPlace
<1>3. /\ pages' \in 0 .. MaxPages
      /\ cache' \in [inst : Inst \cup {NoInstance}, pages : Nat]
      /\ cache = Cached(InstanceOf[ip.func], pages) =>
            cache' = Cached(InstanceOf[ip.func], pages')
  <2>1. CASE UNCHANGED <<pages, cache>>
    BY <2>1, SameMemory
  <2>2. CASE /\ pages < MaxPages /\ pages' = pages + 1
             /\ cache' = [cache EXCEPT !.pages = pages']
    BY SMTT(30), <2>2, ReadyFacts DEF Cached
  <2> QED BY <2>1, <2>2 DEF execute_memory_grow
<1> QED BY <1>1, <1>2, <1>3, StayOK

\* A call that is refused before a stack is touched.
LEMMA RefusedOK ==
    ASSUME Ready, NEW out, NEW base, call_refused(out)
    PROVE  Shaped' /\ (InOrder(base) => Kept(out, base))
<1>1. out.sig = "Err" /\ ip' = Resolved
      /\ UNCHANGED <<frames, instances, height, cap, sp, cache, pages>>
  BY DEF call_refused, Done
<1>2. ip' \in Place /\ ip'.func = ip.func
  BY <1>1, Places
<1> QED BY <1>1, <1>2, StayOK, SameMemory

\* A conditional return whose condition is zero.
LEMMA NotTakenOK ==
    ASSUME Ready, NEW out, NEW base, return_not_taken(out)
    PROVE  Shaped' /\ (InOrder(base) => Kept(out, base))
<1>1. out.sig = "Next" /\ ip' = At(1 + Instr.words) /\ Instr.op = "return_nez"
      /\ UNCHANGED <<frames, instances, height, cap, sp, cache, pages>>
  BY DEF return_not_taken, Returned
<1>2. ip' \in Place /\ ip'.func = ip.func /\ ip'.pc \in Executable(ip.func)
  BY <1>1, Places, NextPlace
<1> QED BY <1>1, <1>2, StayOK, SameMemory

\* return_impl: the caller goes on at its return address, in its own
\* registers and its own instance; the last frame ends the call.
LEMMA ReturnOK ==
    ASSUME Ready, NEW out, NEW base, execute_return(out)
    PROVE  Shaped' /\ (InOrder(base) => Kept(out, base))
<1> DEFINE fs == Front(frames)
           insts == Popped(frames, instances)
           caller == Last(fs)
<1>1. /\ frames' = fs /\ instances' = insts
      /\ height' = Last(frames).off /\ UNCHANGED <<cap, pages>>
      /\ cache' = IF Last(frames).changed /\ insts # <<>>
                  THEN Cached(Last(insts), pages) ELSE cache
  BY DEF execute_return, InstancesAfterPop, Popped
<1>2. /\ fs \in Seq(Frame) /\ insts \in Seq(Inst)
      /\ StackShape(fs, insts, height')
      /\ height' \in 0 .. MaxHeight - 1 /\ height' \in Nat
  <2>1. height' \in 0 .. MaxHeight - 1 /\ height' \in Nat
        /\ height' >= Last(frames).off
    BY <1>1, ReadyFacts
  <2> QED BY <2>1, ShapePop, ReadyFacts
<1>3. fs = <<>> <=> Len(frames) = 1
  <2>1. Len(fs) = Len(frames) - 1
    BY ReadyFacts, FrontFacts
  <2>2. fs = <<>> <=> Len(fs) = 0
    BY <1>2, EmptyFacts
  <2> QED BY <2>1, <2>2, ReadyFacts
<1>4. /\ fs = <<>> => /\ ip' \in {ip, At(1)} /\ sp' = sp /\ out.sig = "End"
      /\ fs # <<>> => /\ ip' = caller.ip /\ sp' = [off |-> caller.off, cap |-> cap]
                      /\ out.sig = "Next"
  BY <1>3 DEF execute_return, Returned
<1>5. fs # <<>> => caller \in Frame
  BY <1>2, FrontFacts
<1>6. ip' \in Place /\ sp' \in [off : Nat, cap : Nat]
  <2>1. CASE fs = <<>>
    BY <2>1, <1>4, Places, ReadyFacts
  <2>2. CASE fs # <<>>
    BY <2>2, <1>4, <1>5, ReadyFacts DEF Frame
  <2> QED BY <2>1, <2>2
<1>7. cache' \in [inst : Inst \cup {NoInstance}, pages : Nat]
  <2>1. insts # <<>> => Last(insts) \in Inst
    BY <1>2, FrontFacts
  <2> QED BY <2>1, <1>1, ReadyFacts DEF Cached
<1>8. Shaped'
  BY <1>1, <1>2, <1>6, <1>7, ReadyFacts DEF Shaped, ExecutorTyped, Place
<1>9. ASSUME InOrder(base) PROVE Kept(out, base)
  <2>1. CASE fs = <<>>
    BY <2>1, <1>1, <1>4 DEF Kept
  <2>2. CASE fs # <<>>
    <3>1. /\ StackOK(fs, insts, height', base) /\ Addressed(caller)
          /\ ~Last(frames).changed =>
                InstanceOf[Last(frames).func] = InstanceOf[caller.func]
      <4>1. StackOK(frames, instances, height, base) /\ height' >= Last(frames).off
        BY <1>1, <1>9, ReadyFacts DEF InOrder
      <4> QED BY <4>1, <2>2, <1>2, OrderPop, ReadyFacts
    <3>2. insts # <<>> /\ Last(insts) = InstanceOf[caller.func]
      <4>1. Coherent(fs, insts)
        BY <3>1 DEF StackOK
      <4> QED BY <4>1, <2>2, <1>2, TopInstance
    <3>3. cache' = Cached(InstanceOf[caller.func], pages')
      BY <3>1, <3>2, <1>1, <1>9 DEF InOrder
    <3>4. ip'.func = caller.func /\ ip'.pc \in Executable(ip'.func)
      BY <2>2, <3>1, <1>4 DEF Addressed
    <3> HIDE DEF fs, insts, caller
    <3>5. frames' # <<>> /\ StackOK(frames', instances', height', base)
          /\ Last(frames') = caller
      BY <2>2, <3>1, <1>1 DEF caller
    <3>6. sp' = [off |-> caller.off, cap |-> cap'] /\ out.sig = "Next"
      BY <2>2, <1>1, <1>4
    <3>7. InOrder(base)'
      BY <3>3, <3>4, <3>5, <3>6 DEF InOrder
    <3> QED BY <3>6, <3>7 DEF Kept
  <2> QED BY <2>1, <2>2
<1> QED BY <1>8, <1>9

\* Entering a function whose frame was pushed.
LEMMA EnterOK ==
    ASSUME Ready, NEW f \in Funcs, NEW off \in Nat, NEW base,
           frames' \in Seq(Frame), instances' \in Seq(Inst),
           StackShape(frames', instances', height'),
           height' \in 0 .. MaxHeight - 1, cap' \in Nat,
           init_call_frame(f, off), pages' = pages,
           cache' \in [inst : Inst \cup {NoInstance}, pages : Nat]
    PROVE  /\ Shaped'
           /\ /\ frames' # <<>> /\ Last(frames').func = f /\ Last(frames').off = off
              /\ StackOK(frames', instances', height', base)
              /\ cache' = Cached(InstanceOf[f], pages)
              => InOrder(base)'
<1>1. ip' = Entry(f) /\ sp' = [off |-> off, cap |-> cap']
  BY DEF init_call_frame
<1>2. ip'.func = f /\ ip'.pc = 1 /\ 1 \in Executable(f) /\ ip' \in Place
  BY <1>1, Places DEF Entry
<1>3. Shaped'
  <2>1. pages' \in 0 .. MaxPages
    BY ReadyFacts
  <2> QED BY <2>1, <1>1, <1>2 DEF Shaped, ExecutorTyped, Place
<1> QED BY <1>1, <1>2, <1>3 DEF InOrder

\* What a call that may succeed knows of its callee.
LEMMA CalleeFacts ==
    ASSUME Ready, Instr.op \in CallOps, NEW f \in Instr.callees \cap Funcs
    PROVE  /\ Regs[f] \in Nat
           /\ InstanceArg(f) \in Inst \cup {NoInstance}
           /\ \/ InstanceArg(f) = InstanceOf[f] /\ InstanceOf[f] # NoInstance
              \/ /\ InstanceArg(f) = NoInstance
                 /\ InstanceOf[f] = InstanceOf[ip.func]
           /\ CacheAfterCall(f) \in [inst : Inst \cup {NoInstance}, pages : Nat]
           /\ cache = Cached(InstanceOf[ip.func], pages) =>
                 CacheAfterCall(f) = Cached(InstanceOf[f], pages)
<1>1. Instr.op = "call" => InstanceOf[f] = InstanceOf[ip.func]
  BY ReadyFacts DEF WellFormed, Instr
<1>2. InstanceOf[f] \in Inst /\ InstanceOf[f] # NoInstance /\ Regs[f] \in Nat
  BY ExecutorAssumption DEF Inst
<1>3. CacheAfterCall(f) \in [inst : Inst \cup {NoInstance}, pages : Nat]
  BY <1>2, ReadyFacts DEF CacheAfterCall, Cached
<1> QED BY <1>1, <1>2, <1>3 DEF InstanceArg, CacheAfterCall

\* The height and capacity after a call reserved the registers of its callee.
LEMMA CallCells ==
    ASSUME Ready, NEW r \in Nat, Fits(r)
    PROVE  /\ height + r \in 0 .. MaxHeight - 1 /\ height + r \in Nat
           /\ Reserved(r) \in Nat
           /\ Last(frames).off + r \in 0 .. MaxHeight - 1
<1>1. r < MaxHeight - height
  BY DEF Fits, FitsAt
<1>2. Reserved(r) \in Nat
  BY ReadyFacts, ReservedNat DEF Reserved
<1>3. /\ height \in Nat /\ MaxHeight \in Nat
      /\ Last(frames).off \in Nat /\ Last(frames).off <= height
  BY ReadyFacts
<1>4. height + r \in Nat /\ height + r < MaxHeight
  BY <1>1, <1>3
<1>5. height + r \in 0 .. MaxHeight - 1
  BY <1>3, <1>4
<1>6. \A o \in Nat : o <= height => o + r \in Nat /\ o + r <= MaxHeight - 1
  BY <1>3, <1>4
<1> HIDE DEF Ready
<1>7. Last(frames).off + r \in Nat /\ Last(frames).off + r <= MaxHeight - 1
  BY <1>3, <1>6
<1>8. \A x \in Nat : x <= MaxHeight - 1 => x \in 0 .. MaxHeight - 1
  BY <1>3
<1> QED BY <1>2, <1>4, <1>5, <1>7, <1>8

\* A nested call of a compiled function.
LEMMA CallOK ==
    ASSUME Ready, NEW out, NEW base, NEW f \in Funcs, call_compiled(f, out)
    PROVE  Shaped' /\ (InOrder(base) => Kept(out, base))
<1> DEFINE addr == At(1 + Instr.words)
           fs == Put(frames, addr)
           inst == InstanceArg(f)
           fr == NewFrame(f, height, Changes(instances, inst))
<1>1. /\ Instr.op \in CallOps /\ ~Instr.tail /\ f \in Instr.callees \cap Funcs
      /\ Fits(Regs[f]) /\ height' = height + Regs[f] /\ cap' = Reserved(Regs[f])
      /\ init_call_frame(f, height) /\ pages' = pages
      /\ Len(frames) # RecursionLimit
      /\ cache' = CacheAfterCall(f) /\ out.sig = "Next"
  BY DEF call_compiled, Nested, Called
<1>2. push(fs, instances, f, height, inst)
  BY DEF call_compiled, CallersAt, Put
<1>3. frames' = Append(fs, fr) /\ instances' = Pushed(instances, inst)
  BY <1>2, PushStep
<1>4. addr \in Place /\ addr.func = ip.func /\ addr.pc \in Executable(ip.func)
  BY <1>1, Places, NextPlace
<1>5. /\ Regs[f] \in Nat
      /\ inst \in Inst \cup {NoInstance}
      /\ \/ inst = InstanceOf[f] /\ InstanceOf[f] # NoInstance
         \/ inst = NoInstance /\ InstanceOf[f] = InstanceOf[ip.func]
      /\ cache' \in [inst : Inst \cup {NoInstance}, pages : Nat]
      /\ cache = Cached(InstanceOf[ip.func], pages) =>
            cache' = Cached(InstanceOf[f], pages)
  BY <1>1, CalleeFacts
<1>6. height' \in 0 .. MaxHeight - 1 /\ height' \in Nat /\ cap' \in Nat
      /\ height <= height' /\ height + Regs[f] <= height'
  <2>1. height + Regs[f] \in 0 .. MaxHeight - 1 /\ Reserved(Regs[f]) \in Nat
    BY <1>1, <1>5, CallCells
  <2>2. height \in Nat /\ Regs[f] \in Nat
    BY <1>5, ReadyFacts
  <2>3. height' = height + Regs[f] /\ cap' = Reserved(Regs[f])
    BY <1>1
  <2>4. height <= height + Regs[f] /\ height + Regs[f] \in Nat
    BY <2>2
  <2> HIDE DEF fs, inst, addr, fr
  <2> QED BY <2>1, <2>3, <2>4
<1>7. fs \in Seq(Frame) /\ Len(fs) = Len(frames) /\ fs # <<>>
  BY <1>4, PutFacts, ReadyFacts
<1>8. StackShape(fs, instances, height) /\ Len(fs) < RecursionLimit
  BY <1>1, <1>4, <1>7, ShapePut, ReadyFacts
<1>9. instances' \in Seq(Inst) /\ Changes(instances, inst) \in BOOLEAN
  BY <1>3, <1>5, PushInstance, ReadyFacts
<1>10. fr \in Frame /\ fr.func = f /\ fr.off = height
  BY <1>9, PushFrame, ReadyFacts
<1> HIDE DEF fs, inst, addr
<1>11. frames' \in Seq(Frame) /\ frames' # <<>> /\ Last(frames') = fr
  BY <1>3, <1>7, <1>10, AppendFacts
<1>12. StackShape(frames', instances', height')
  BY SMTT(30), <1>3, <1>5, <1>6, <1>7, <1>8, ShapePush, ReadyFacts
<1>13. Shaped' /\ (/\ StackOK(frames', instances', height', base)
                   /\ cache' = Cached(InstanceOf[f], pages)
                   => InOrder(base)')
  BY <1>1, <1>5, <1>6, <1>9, <1>10, <1>11, <1>12, EnterOK, ReadyFacts
<1>14. ASSUME InOrder(base) PROVE StackOK(frames', instances', height', base)
  <2>1. /\ StackOK(frames, instances, height, base)
        /\ addr.func = Last(frames).func /\ addr.pc \in Executable(addr.func)
    BY <1>4, <1>14 DEF InOrder
  <2>2. StackOK(fs, instances, height, base)
    BY <2>1, <1>4, OrderPut, ReadyFacts DEF fs
  <2>3. Last(instances) = InstanceOf[ip.func]
    <3>1. Coherent(frames, instances)
      BY <2>1 DEF StackOK
    <3> QED BY <3>1, <1>14, TopInstance, ReadyFacts DEF InOrder
  <2>4. /\ instances \in Seq(Inst) /\ instances # <<>>
        /\ height \in Nat /\ height >= height
    BY ReadyFacts
  <2>5. \/ inst = InstanceOf[f]
        \/ inst = NoInstance /\ instances # <<>> /\ Last(instances) = InstanceOf[f]
    BY <2>3, <2>4, <1>5
  <2>6. StackOK(Append(fs, NewFrame(f, height, Changes(instances, inst))),
                Pushed(instances, inst), height', base)
    BY <2>2, <2>4, <2>5, <1>5, <1>6, <1>7, OrderPush
  <2> QED BY <2>6, <1>3
<1> QED BY <1>1, <1>5, <1>13, <1>14 DEF Kept, InOrder

\* A nested call at the recursion limit: the executor is already in the
\* callee, and the call ends with an error.
LEMMA OverflowOK ==
    ASSUME Ready, NEW out, NEW base, NEW f \in Funcs, call_overflow(f, out)
    PROVE  Shaped' /\ (InOrder(base) => Kept(out, base))
<1> DEFINE addr == At(1 + Instr.words)
<1>1. /\ Instr.op \in CallOps /\ ~Instr.tail /\ f \in Instr.callees \cap Funcs
      /\ Fits(Regs[f]) /\ height' = height + Regs[f] /\ cap' = Reserved(Regs[f])
      /\ init_call_frame(f, height) /\ pages' = pages
      /\ UNCHANGED <<instances, cache>> /\ out.sig = "Err"
  BY DEF call_overflow, Nested, Done
<1>2. frames' = Put(frames, addr)
  BY DEF call_overflow, CallersAt, Put
<1>3. Regs[f] \in Nat /\ addr \in Place
  BY <1>1, CalleeFacts, Places
<1>4. height' \in 0 .. MaxHeight - 1 /\ height' \in Nat /\ cap' \in Nat
      /\ height' >= height
  <2>1. height + Regs[f] \in 0 .. MaxHeight - 1 /\ Reserved(Regs[f]) \in Nat
    BY <1>1, <1>3, CallCells
  <2>2. height \in Nat /\ Regs[f] \in Nat
    BY <1>3, ReadyFacts
  <2>3. height' = height + Regs[f] /\ cap' = Reserved(Regs[f])
    BY <1>1
  <2>4. height + Regs[f] >= height /\ height + Regs[f] \in Nat
    BY <2>2
  <2> QED BY <2>1, <2>3, <2>4
<1>5. frames' \in Seq(Frame)
  BY <1>2, <1>3, PutFacts, ReadyFacts
<1>6. StackShape(frames', instances', height')
  BY <1>1, <1>2, <1>3, <1>4, ShapePut, ReadyFacts
<1>7. Shaped'
  BY <1>1, <1>4, <1>5, <1>6, EnterOK, ReadyFacts
<1> QED BY <1>1, <1>7 DEF Kept

\* The root frame brought its instance.
LEMMA RootChanged ==
    ASSUME Ready, Front(frames) = <<>>
    PROVE  Last(frames).changed
<1>1. Len(frames) = 1
  <2>1. Len(Front(frames)) = Len(frames) - 1 /\ Front(frames) \in Seq(Frame)
    BY ReadyFacts, FrontFacts
  <2>2. Len(Front(frames)) = 0
    BY <2>1, EmptyFacts
  <2> QED BY <2>1, <2>2, ReadyFacts
<1>2. Last(frames) = frames[1]
  BY <1>1, ReadyFacts, FrontFacts
<1>3. PICK idx \in [0 .. Len(frames) -> 0 .. Len(instances)] :
          InstanceIndex(frames, instances, idx)
  BY ReadyFacts DEF StackShape
<1> QED BY <1>2, <1>3, ReadyFacts DEF InstanceIndex

\* A tail call: the caller's frame is gone, its cells are the callee's.
LEMMA TailOK ==
    ASSUME Ready, NEW out, NEW base, NEW f \in Funcs, return_call_compiled(f, out)
    PROVE  Shaped' /\ (InOrder(base) => Kept(out, base))
<1> DEFINE caller == Last(frames)
           off == caller.off
           fs == Front(frames)
           insts == Popped(frames, instances)
           inst == IF InstanceArg(f) = NoInstance /\ caller.changed
                   THEN Last(instances) ELSE InstanceArg(f)
           fr == NewFrame(f, off, Changes(insts, inst))
<1>1. /\ Instr.op \in CallOps /\ f \in Instr.callees \cap Funcs
      /\ Fits(Regs[f]) /\ height' = off + Regs[f] /\ cap' = Reserved(Regs[f])
      /\ init_call_frame(f, off) /\ pages' = pages
      /\ cache' = CacheAfterCall(f) /\ out.sig = "Next"
  BY DEF return_call_compiled, Called
<1>2. push(fs, insts, f, off, inst)
  BY DEF return_call_compiled, InstancesAfterPop, Popped
<1>3. frames' = Append(fs, fr) /\ instances' = Pushed(insts, inst)
  BY <1>2, PushStep
<1>4. /\ Regs[f] \in Nat
      /\ InstanceArg(f) \in Inst \cup {NoInstance}
      /\ \/ InstanceArg(f) = InstanceOf[f] /\ InstanceOf[f] # NoInstance
         \/ InstanceArg(f) = NoInstance /\ InstanceOf[f] = InstanceOf[ip.func]
      /\ cache' \in [inst : Inst \cup {NoInstance}, pages : Nat]
      /\ cache = Cached(InstanceOf[ip.func], pages) =>
            cache' = Cached(InstanceOf[f], pages)
  BY <1>1, CalleeFacts
<1>5. NoInstance \notin Inst /\ Last(instances) \in Inst
  BY ExecutorAssumption, ReadyFacts DEF Inst
<1>6. inst \in Inst \cup {NoInstance} /\ (fs = <<>> => inst # NoInstance)
  BY <1>4, <1>5, RootChanged
<1>7. off \in Nat /\ off >= off /\ height' \in Nat /\ off <= height'
      /\ off + Regs[f] <= height' /\ height' \in 0 .. MaxHeight - 1 /\ cap' \in Nat
  <2>1. off + Regs[f] \in 0 .. MaxHeight - 1 /\ Reserved(Regs[f]) \in Nat
    BY <1>1, <1>4, CallCells
  <2>2. off \in Nat
    BY ReadyFacts
  <2> QED BY <2>1, <2>2, <1>1, <1>4
<1>8. /\ fs \in Seq(Frame) /\ insts \in Seq(Inst)
      /\ StackShape(fs, insts, off) /\ Len(fs) < RecursionLimit
  BY <1>7, ShapePop, ReadyFacts
<1>9. instances' \in Seq(Inst) /\ Changes(insts, inst) \in BOOLEAN
  BY <1>3, <1>6, <1>8, PushInstance
<1>10. fr \in Frame /\ fr.func = f /\ fr.off = off
  BY <1>7, <1>9, PushFrame
<1>11. ASSUME InOrder(base)
       PROVE  /\ StackOK(fs, insts, off, base) /\ (fs = <<>> => off = base)
              /\ \/ inst = InstanceOf[f]
                 \/ inst = NoInstance /\ insts # <<>> /\ Last(insts) = InstanceOf[f]
  <2>1. StackOK(frames, instances, height, base) /\ Coherent(frames, instances)
        /\ ip.func = caller.func
    BY <1>11 DEF InOrder, StackOK
  <2>2. Last(instances) = InstanceOf[ip.func]
    BY <2>1, TopInstance, ReadyFacts
  <2>3. StackOK(fs, insts, off, base) /\ (fs = <<>> => off = base)
    BY <2>1, <1>7, OrderPop, ReadyFacts
  <2>4. ~caller.changed => insts = instances
    BY DEF Popped
  <2>5. \/ inst = InstanceOf[f]
        \/ inst = NoInstance /\ insts # <<>> /\ Last(insts) = InstanceOf[f]
    BY <2>2, <2>4, <1>4, ReadyFacts
  <2> QED BY <2>3, <2>5
<1> HIDE DEF fs, inst, insts, off, caller
<1>12. frames' \in Seq(Frame) /\ frames' # <<>> /\ Last(frames') = fr
  BY <1>3, <1>8, <1>10, AppendFacts
<1>13. StackShape(frames', instances', height')
  <2>1. StackShape(Append(fs, NewFrame(f, off, Changes(insts, inst))),
                   Pushed(insts, inst), height')
    BY <1>6, <1>7, <1>8, ShapePush
  <2> QED BY <2>1, <1>3
<1>14. Shaped' /\ (/\ StackOK(frames', instances', height', base)
                   /\ cache' = Cached(InstanceOf[f], pages)
                   => InOrder(base)')
  BY <1>1, <1>4, <1>7, <1>9, <1>10, <1>12, <1>13, EnterOK
<1>15. ASSUME InOrder(base) PROVE StackOK(frames', instances', height', base)
  <2>1. StackOK(Append(fs, NewFrame(f, off, Changes(insts, inst))),
                Pushed(insts, inst), height', base)
    BY <1>11, <1>15, <1>6, <1>7, <1>8, OrderPush
  <2> QED BY <2>1, <1>3
<1> QED BY <1>1, <1>4, <1>14, <1>15 DEF Kept, InOrder

\* What running a host function leaves: sp follows the buffer, the cache is
\* that of the instance that is handed in, and only a return is a "Next".
LEMMA HostFacts ==
    ASSUME Ready, NEW h \in Hosts, NEW inst \in Inst, NEW hostErr \in {"Err", "HostErr"},
           NEW out, RunHost(h, inst, hostErr, out)
    PROVE  /\ height' = height /\ cap' \in Nat
           /\ sp' \in [off : Nat, cap : Nat]
           /\ pages' \in 0 .. MaxPages
           /\ cache' \in [inst : Inst \cup {NoInstance}, pages : Nat]
           /\ sp = [off |-> Last(frames).off, cap |-> cap] =>
                 sp' = [off |-> Last(frames).off, cap |-> cap']
           /\ out.sig \in {"Next", "Err", hostErr}
           /\ out.sig = "Next" => h \in Succeeds /\ cache' = Cached(inst, pages')
<1>1. height' = height
  BY DEF RunHost
<1>2. cap' \in Nat
  <2>1. InOut[h] \in Nat
    BY ExecutorAssumption
  <2> QED BY <2>1, ReadyFacts, ReservedNat DEF RunHost, Reserved
<1>3. /\ sp' \in [off : Nat, cap : Nat]
      /\ sp = [off |-> Last(frames).off, cap |-> cap] =>
            sp' = [off |-> Last(frames).off, cap |-> cap']
  BY <1>2, ReadyFacts DEF RunHost, on_resize
<1>4. pages' \in 0 .. MaxPages /\ pages' \in Nat
  BY ReadyFacts DEF RunHost
<1>5. CASE /\ h \in Succeeds
           /\ cache' = Cached(inst, pages')
           /\ \/ out = Called(h)
              \/ HookFails /\ out = Done("Err")
  <2>1. cache' \in [inst : Inst \cup {NoInstance}, pages : Nat]
    BY <1>4, <1>5 DEF Cached
  <2>2. out.sig \in {"Next", "Err", hostErr}
    BY <1>5 DEF Called, Done
  <2> QED BY <2>1, <2>2, <1>1, <1>2, <1>3, <1>4, <1>5
<1>6. CASE h \in Fails /\ UNCHANGED cache /\ out = Done(hostErr)
  <2>1. cache' \in [inst : Inst \cup {NoInstance}, pages : Nat]
    BY <1>6, ReadyFacts
  <2>2. out.sig = hostErr /\ hostErr # "Next"
    BY <1>6 DEF Done
  <2> QED BY <2>1, <2>2, <1>1, <1>2, <1>3, <1>4
<1> QED BY <1>5, <1>6 DEF RunHost

\* A nested call of a host function.
LEMMA HostOK ==
    ASSUME Ready, NEW out, NEW base, NEW h \in Hosts, call_host(h, out)
    PROVE  Shaped' /\ (InOrder(base) => Kept(out, base))
<1> DEFINE addr == At(1 + Instr.words)
<1>1. /\ Instr.op \in CallOps /\ ~Instr.tail
      /\ ip' = addr /\ instances' = instances
      /\ RunHost(h, Last(instances), "HostErr", out)
  BY DEF call_host
<1>2. frames' = Put(frames, addr)
  BY DEF call_host, CallersAt, Put
<1>3. addr \in Place /\ addr.func = ip.func /\ addr.pc \in Executable(ip.func)
  BY <1>1, Places, NextPlace
<1>4. /\ height' = height /\ cap' \in Nat
      /\ sp' \in [off : Nat, cap : Nat]
      /\ pages' \in 0 .. MaxPages
      /\ cache' \in [inst : Inst \cup {NoInstance}, pages : Nat]
      /\ sp = [off |-> Last(frames).off, cap |-> cap] =>
            sp' = [off |-> Last(frames).off, cap |-> cap']
      /\ out.sig \in {"Next", "Err", "HostErr"}
      /\ out.sig = "Next" => cache' = Cached(Last(instances), pages')
  BY <1>1, HostFacts, ReadyFacts
<1>5. /\ frames' \in Seq(Frame) /\ frames' # <<>>
      /\ Last(frames') = [Last(frames) EXCEPT !.ip = addr]
  BY <1>2, <1>3, PutFacts, ReadyFacts
<1>6. Last(frames').func = Last(frames).func /\ Last(frames').off = Last(frames).off
  BY <1>5, ReadyFacts DEF Frame
<1>7. StackShape(frames', instances', height')
  <2>1. height' \in Nat /\ height' >= height
    BY SMTT(30), <1>4, ReadyFacts
  <2> QED BY <2>1, <1>1, <1>2, <1>3, ShapePut, ReadyFacts
<1>8. Shaped'
  <2>1. height' \in 0 .. MaxHeight - 1 /\ instances' \in Seq(Inst)
    BY <1>1, <1>4 DEF Ready, ExecutorTyped
  <2> QED BY <2>1, <1>1, <1>3, <1>4, <1>5, <1>7 DEF Shaped, ExecutorTyped, Place
<1>9. ASSUME InOrder(base) PROVE Kept(out, base)
  <2>1. /\ StackOK(frames, instances, height, base) /\ Coherent(frames, instances)
        /\ ip.func = Last(frames).func
        /\ sp = [off |-> Last(frames).off, cap |-> cap]
    BY <1>9 DEF InOrder, StackOK
  <2>2. StackOK(frames', instances', height', base)
    <3>1. addr.func = Last(frames).func /\ addr.pc \in Executable(addr.func)
      BY <2>1, <1>3
    <3>2. StackOK(Put(frames, addr), instances, height, base)
      BY <3>1, <2>1, <1>3, OrderPut, ReadyFacts
    <3> QED BY <3>2, <1>1, <1>2, <1>4
  <2>3. Last(instances) = InstanceOf[ip.func]
    BY <2>1, TopInstance, ReadyFacts
  <2>4. ip' = addr
    BY <1>1
  <2> HIDE DEF addr
  <2>5. out.sig = "Next" => InOrder(base)'
    BY <2>1, <2>2, <2>3, <2>4, <1>3, <1>4, <1>5, <1>6 DEF InOrder
  <2> QED BY <2>2, <2>5, <1>4, <1>5 DEF Kept
<1> QED BY <1>8, <1>9

\* A tail call of a host function pops the frame first.  When the host
\* function returns the executor stays in the frame that is gone: no order.
LEMMA TailHostOK ==
    ASSUME Ready, NEW out, NEW base, NEW h \in Hosts, return_call_host(h, out)
    PROVE  Shaped' /\ (TailHostsFail /\ InOrder(base) => Kept(out, base))
<1> DEFINE fs == Front(frames)
           insts == Popped(frames, instances)
<1>1. /\ Instr.tail /\ h \in Instr.callees \cap Hosts
      /\ frames' = fs /\ instances' = insts
  BY DEF return_call_host, InstancesAfterPop, Popped
<1>2. Len(fs) = Len(frames) - 1 /\ (fs = <<>> <=> Len(frames) = 1)
  <2>1. Len(fs) = Len(frames) - 1 /\ fs \in Seq(Frame)
    BY ReadyFacts, FrontFacts
  <2>2. fs = <<>> <=> Len(fs) = 0
    BY <2>1, EmptyFacts
  <2> QED BY SMTT(30), <2>1, <2>2, ReadyFacts
<1>3. /\ ip' \in Place /\ height' = height /\ cap' \in Nat
      /\ sp' \in [off : Nat, cap : Nat]
      /\ pages' \in 0 .. MaxPages
      /\ cache' \in [inst : Inst \cup {NoInstance}, pages : Nat]
      /\ out.sig \in {"Next", "Err", "HostErr"}
      /\ out.sig = "Next" => h \in Succeeds
      /\ out.sig = "HostErr" => fs # <<>>
  <2>1. CASE /\ Fits(InOut[h])
             /\ ip' = At(Instr.words)
             /\ RunHost(h, Last(instances),
                        IF Len(frames) = 1 THEN "Err" ELSE "HostErr", out)
    <3> DEFINE err == IF Len(frames) = 1 THEN "Err" ELSE "HostErr"
    <3>1. err \in {"Err", "HostErr"} /\ Last(instances) \in Inst
      BY ReadyFacts
    <3>2. ip' \in Place
      BY <2>1, Places
    <3>3. RunHost(h, Last(instances), err, out)
      BY <2>1
    <3>4. err = "HostErr" => fs # <<>>
      BY <1>2
    <3> HIDE DEF err, fs
    <3>5. /\ height' = height /\ cap' \in Nat
          /\ sp' \in [off : Nat, cap : Nat]
          /\ pages' \in 0 .. MaxPages
          /\ cache' \in [inst : Inst \cup {NoInstance}, pages : Nat]
          /\ out.sig \in {"Next", "Err", err}
          /\ out.sig = "Next" => h \in Succeeds
      BY <3>1, <3>3, HostFacts
    <3> QED BY <3>1, <3>2, <3>4, <3>5
  <2>2. CASE /\ ip' = Resolved /\ out = Done("Err")
             /\ UNCHANGED <<height, cap, sp, cache, pages>>
    <3>1. ip' \in Place
      BY <2>2, Places
    <3>2. out.sig = "Err"
      BY <2>2 DEF Done
    <3>3. /\ height' = height /\ cap' = cap /\ sp' = sp /\ cache' = cache
          /\ pages' = pages
      BY <2>2
    <3>4. pages' \in 0 .. MaxPages
      BY <3>3, ReadyFacts
    <3> QED BY <3>1, <3>2, <3>3, <3>4, ReadyFacts
  <2> QED BY <2>1, <2>2 DEF return_call_host
<1>4. height' \in Nat /\ height' >= Last(frames).off
  BY <1>3, ReadyFacts
<1>5. /\ fs \in Seq(Frame) /\ insts \in Seq(Inst)
      /\ StackShape(fs, insts, height')
  BY <1>4, ShapePop, ReadyFacts
<1>6. Shaped'
  <2>1. height' \in 0 .. MaxHeight - 1
    BY <1>3 DEF Ready, ExecutorTyped
  <2> QED BY <2>1, <1>1, <1>3, <1>5 DEF Shaped, ExecutorTyped, Place
<1>7. ASSUME TailHostsFail, InOrder(base) PROVE Kept(out, base)
  <2>1. h \notin Succeeds
    <3>1. ip.func \in Funcs /\ ip.pc \in Executable(ip.func)
      BY ReadyFacts DEF Place
    <3> QED BY <3>1, <1>1, <1>7 DEF TailHostsFail, Instr
  <2>2. StackOK(fs, insts, height', base)
    <3>1. StackOK(frames, instances, height, base)
      BY <1>7 DEF InOrder
    <3> QED BY <3>1, <1>4, OrderPop, ReadyFacts
  <2> QED BY <2>1, <2>2, <1>1, <1>3 DEF Kept
<1> QED BY <1>6, <1>7

-----------------------------------------------------------------------------
(* Every instruction.                                                      *)

\* Whatever the program, an instruction leaves stacks that fit each other; a
\* program in which no tail-called host function returns stays in order.
LEMMA InstrOK ==
    ASSUME Ready, NEW out, NEW base, execute_instr(out)
    PROVE  /\ Shaped'
           /\ TailHostsFail /\ InOrder(base) => Kept(out, base)
<1>1. CASE execute_plain(out)
  BY <1>1, PlainOK
<1>2. CASE execute_trap(out)
  BY <1>2, TrapOK
<1>3. CASE execute_memory_grow(out)
  BY <1>3, GrowOK
<1>4. CASE call_refused(out)
  BY <1>4, RefusedOK
<1>5. CASE \E f \in Funcs : call_compiled(f, out)
  BY <1>5, CallOK
<1>6. CASE \E f \in Funcs : call_overflow(f, out)
  BY <1>6, OverflowOK
<1>7. CASE \E f \in Funcs : return_call_compiled(f, out)
  BY <1>7, TailOK
<1>8. CASE \E h \in Hosts : call_host(h, out)
  BY <1>8, HostOK
<1>9. CASE \E h \in Hosts : return_call_host(h, out)
  BY <1>9, TailHostOK
<1>10. CASE execute_return(out)
  BY <1>10, ReturnOK
<1>11. CASE return_not_taken(out)
  BY <1>11, NotTakenOK
<1> QED
  BY <1>1, <1>2, <1>3, <1>4, <1>5, <1>6, <1>7, <1>8, <1>9, <1>10, <1>11
     DEF execute_instr

-----------------------------------------------------------------------------
(* What an instruction does to the frames, and what it reports of it.      *)

\* The callers of the newest frame are the same frames.
SameCallers == \A i \in 1 .. Len(frames) - 1 : frames'[i] = frames[i]

\* The newest frame goes on in its function: it called no Wasm function.
Stays(out) ==
    /\ Len(frames') = Len(frames) /\ SameCallers
    /\ Last(frames').func = Last(frames).func
    /\ ip' \in Place /\ ip'.func = ip.func
    /\ out.sig \in {"Next", "Err", "HostErr"}
    /\ out.sig = "HostErr" => Last(frames').ip = ip'
    /\ out.pop => Instr.op = "return_nez"
    /\ \/ out.call = Null
       \/ Instr.op \in CallOps /\ \E h \in Instr.callees \cap Hosts : out = Called(h)

\* The call stack is full.
Overflows(out) ==
    /\ Len(frames') = Len(frames) /\ SameCallers
    /\ Last(frames').func = Last(frames).func
    /\ out.sig = "Err"

\* A frame of f is pushed; its caller keeps a place of its function.
Enters(f, out) ==
    /\ Instr.op \in CallOps /\ ~Instr.tail /\ f \in Instr.callees \cap Funcs
    /\ Len(frames') = Len(frames) + 1 /\ SameCallers
    /\ frames'[Len(frames)].func = Last(frames).func
    /\ frames'[Len(frames)].ip \in Place /\ frames'[Len(frames)].ip.func = ip.func
    /\ Last(frames').func = f /\ ip' = Entry(f)
    /\ out = Called(f)

\* A frame of f takes the place of the newest.
Replaces(f, out) ==
    /\ Instr.op \in CallOps /\ Instr.tail /\ f \in Instr.callees \cap Funcs
    /\ Len(frames') = Len(frames) /\ SameCallers
    /\ Last(frames').func = f /\ ip' = Entry(f)
    /\ out = Called(f)

\* The newest frame returns to its caller, or ends the call.
Returns(out) ==
    /\ Instr.op \in ReturnOps
    /\ frames' = Front(frames)
    /\ IF Len(frames) = 1
       THEN out = Returned("End") /\ ip' = (IF Instr.words = 0 THEN ip ELSE At(1))
       ELSE out = Returned("Next") /\ ip' = Last(Front(frames)).ip

\* The newest frame is gone before the host function runs.
Vacates(out) ==
    /\ Instr.op \in CallOps /\ Instr.tail
    /\ frames' = Front(frames)
    /\ out.sig \in {"Next", "Err", "HostErr"} /\ ~out.pop
    /\ out.sig = "Next" => Instr.callees \cap Succeeds # {}
    /\ out.sig = "HostErr" => Len(frames) # 1
    /\ out.call = Null

\* An instruction that does not touch the frames stays.
LEMMA UntouchedStays ==
    ASSUME Ready, NEW out, frames' = frames, ip' \in Place, ip'.func = ip.func,
           out.sig \in {"Next", "Err"}, out.pop => Instr.op = "return_nez",
           out.call = Null
    PROVE  Stays(out)
<1>1. Len(frames') = Len(frames) /\ Last(frames').func = Last(frames).func
      /\ SameCallers
  BY DEF SameCallers
<1> QED BY <1>1 DEF Stays

\* The instructions that move ip, grow the memory or are refused.
LEMMA SimpleEffect ==
    ASSUME Ready, NEW out,
           \/ execute_plain(out) \/ execute_trap(out) \/ execute_memory_grow(out)
           \/ call_refused(out) \/ return_not_taken(out)
    PROVE  Stays(out)
<1>1. ip' \in Place /\ ip'.func = ip.func
  <2>1. CASE execute_plain(out)
    <3>1. PICK pc \in Instr.to : ip' = [ip EXCEPT !.pc = pc]
      BY <2>1 DEF execute_plain
    <3>2. pc \in Nat
      BY ReadyFacts DEF Instruction
    <3> QED BY <3>1, <3>2, ReadyFacts DEF Place
  <2>2. CASE execute_trap(out)
    BY <2>2, ReadyFacts DEF execute_trap, execVars
  <2>3. CASE execute_memory_grow(out) \/ return_not_taken(out)
    BY <2>3, Places DEF execute_memory_grow, return_not_taken
  <2>4. CASE call_refused(out)
    BY <2>4, Places DEF call_refused
  <2> QED BY <2>1, <2>2, <2>3, <2>4
<1>2. frames' = frames
  BY DEF execute_plain, execute_trap, execute_memory_grow, call_refused,
         return_not_taken, execVars
<1>3. /\ out.sig \in {"Next", "Err"} /\ out.call = Null
      /\ out.pop => Instr.op = "return_nez"
  BY DEF execute_plain, execute_trap, execute_memory_grow, call_refused,
         return_not_taken, Done, Returned
<1> QED BY <1>1, <1>2, <1>3, UntouchedStays

\* Writing the return address leaves the callers and the function alone.
LEMMA PutEffect ==
    ASSUME Ready, NEW addr \in Place, frames' = Put(frames, addr)
    PROVE  /\ Len(frames') = Len(frames) /\ SameCallers
           /\ Last(frames').func = Last(frames).func /\ Last(frames').ip = addr
<1>1. /\ Len(frames') = Len(frames)
      /\ Last(frames') = [Last(frames) EXCEPT !.ip = addr]
      /\ \A i \in 1 .. Len(frames) - 1 : frames'[i] = frames[i]
  BY PutFacts, ReadyFacts
<1>2. Last(frames').func = Last(frames).func /\ Last(frames').ip = addr
  BY <1>1, ReadyFacts DEF Frame
<1> QED BY <1>1, <1>2 DEF SameCallers

\* A nested call of a Wasm function.
LEMMA CallEffect ==
    ASSUME Ready, NEW out, NEW f \in Funcs, call_compiled(f, out)
    PROVE  Enters(f, out)
<1> DEFINE addr == At(1 + Instr.words)
           fs == Put(frames, addr)
           fr == NewFrame(f, height, Changes(instances, InstanceArg(f)))
<1>1. /\ Instr.op \in CallOps /\ ~Instr.tail /\ f \in Instr.callees \cap Funcs
      /\ ip' = Entry(f) /\ out = Called(f)
  BY DEF call_compiled, Nested, init_call_frame
<1>2. push(fs, instances, f, height, InstanceArg(f))
  BY DEF call_compiled, CallersAt, Put
<1>3. frames' = Append(fs, fr)
  BY <1>2, PushStep
<1>4. addr \in Place /\ addr.func = ip.func
  BY Places
<1>5. /\ fs \in Seq(Frame) /\ Len(fs) = Len(frames) /\ fs # <<>>
      /\ Last(fs) = [Last(frames) EXCEPT !.ip = addr]
      /\ \A i \in 1 .. Len(frames) - 1 : fs[i] = frames[i]
  BY <1>4, PutFacts, ReadyFacts
<1>6. fr \in Frame /\ fr.func = f
  <2>1. Changes(instances, InstanceArg(f)) \in BOOLEAN
    BY DEF Changes
  <2> QED BY <2>1, PushFrame, ReadyFacts
<1>7. Last(fs) = fs[Len(frames)]
  BY <1>5, FrontFacts
<1>8. Last(fs).func = Last(frames).func /\ Last(fs).ip = addr
  BY <1>5, ReadyFacts DEF Frame
<1>9. Len(frames) \in Nat \ {0}
  BY ReadyFacts
<1> HIDE DEF fs, fr, addr
<1>10. /\ Len(frames') = Len(frames) + 1 /\ Last(frames') = fr
       /\ \A i \in 1 .. Len(frames) : frames'[i] = fs[i]
  BY <1>3, <1>5, <1>6, AppendFacts
<1>11. frames'[Len(frames)] = Last(fs)
  BY <1>7, <1>9, <1>10
<1>12. SameCallers
  BY <1>5, <1>9, <1>10 DEF SameCallers
<1> QED BY <1>1, <1>4, <1>6, <1>8, <1>10, <1>11, <1>12 DEF Enters

\* A tail call of a Wasm function.
LEMMA TailEffect ==
    ASSUME Ready, NEW out, NEW f \in Funcs, return_call_compiled(f, out)
    PROVE  Replaces(f, out)
<1> DEFINE fs == Front(frames)
<1>1. /\ Instr.op \in CallOps /\ Instr.tail /\ f \in Instr.callees \cap Funcs
      /\ ip' = Entry(f) /\ out = Called(f)
  BY DEF return_call_compiled, init_call_frame
<1>2. PICK ch \in BOOLEAN : frames' = Append(fs, NewFrame(f, Last(frames).off, ch))
  BY DEF return_call_compiled, push, NewFrame
<1> DEFINE fr == NewFrame(f, Last(frames).off, ch)
<1>3. fr \in Frame /\ fr.func = f
  BY PushFrame, ReadyFacts
<1>4. /\ fs \in Seq(Frame) /\ Len(fs) = Len(frames) - 1
      /\ \A i \in 1 .. Len(frames) - 1 : fs[i] = frames[i]
  BY FrontFacts, ReadyFacts
<1>5. frames' = Append(fs, fr)
  BY <1>2
<1> HIDE DEF fs, fr
<1>6. /\ Len(frames') = Len(fs) + 1 /\ Last(frames') = fr
      /\ \A i \in 1 .. Len(fs) : frames'[i] = fs[i]
  BY <1>3, <1>4, <1>5, AppendFacts
<1>7. Len(frames') = Len(frames)
  BY <1>4, <1>6, ReadyFacts
<1>8. SameCallers
  BY <1>4, <1>6 DEF SameCallers
<1> QED BY <1>1, <1>3, <1>6, <1>7, <1>8 DEF Replaces

\* Host functions: what RunHost reports.
LEMMA HostEffect ==
    ASSUME NEW h, NEW inst, NEW hostErr \in {"Err", "HostErr"}, NEW out,
           RunHost(h, inst, hostErr, out)
    PROVE  /\ out.sig \in {"Next", "Err", hostErr} /\ ~out.pop
           /\ out.sig = "Next" => h \in Succeeds
           /\ out = Called(h) \/ out.call = Null
<1>1. CASE h \in Succeeds /\ out = Called(h)
  BY <1>1 DEF Called
<1>2. CASE out = Done("Err")
  BY <1>2 DEF Done
<1>3. CASE out = Done(hostErr)
  BY <1>3 DEF Done
<1> QED BY <1>1, <1>2, <1>3 DEF RunHost

\* Every instruction does one of six things to the frames.
LEMMA InstrEffect ==
    ASSUME Ready, NEW out, execute_instr(out)
    PROVE  \/ Stays(out) \/ Overflows(out) \/ Returns(out) \/ Vacates(out)
           \/ \E f \in Funcs : Enters(f, out) \/ Replaces(f, out)
<1>1. CASE \/ execute_plain(out) \/ execute_trap(out) \/ execute_memory_grow(out)
           \/ call_refused(out) \/ return_not_taken(out)
  BY <1>1, SimpleEffect
<1>2. CASE \E f \in Funcs : call_compiled(f, out)
  BY <1>2, CallEffect
<1>3. CASE \E f \in Funcs : return_call_compiled(f, out)
  BY <1>3, TailEffect
<1>4. CASE \E f \in Funcs : call_overflow(f, out)
  <2>1. out.sig = "Err" /\ frames' = Put(frames, At(1 + Instr.words))
    BY <1>4 DEF call_overflow, CallersAt, Put, Done
  <2> QED BY <2>1, PutEffect, Places DEF Overflows
<1>5. CASE \E h \in Hosts : call_host(h, out)
  <2>1. PICK h \in Hosts : call_host(h, out)
    BY <1>5
  <2>2. /\ Instr.op \in CallOps
        /\ h \in Instr.callees \cap Hosts /\ ip' = At(1 + Instr.words)
        /\ RunHost(h, Last(instances), "HostErr", out)
    BY <2>1 DEF call_host
  <2>3. frames' = Put(frames, At(1 + Instr.words))
    BY <2>1 DEF call_host, CallersAt, Put
  <2>4. /\ Len(frames') = Len(frames) /\ SameCallers
        /\ Last(frames').func = Last(frames).func
        /\ Last(frames').ip = ip' /\ ip' \in Place /\ ip'.func = ip.func
    BY <2>2, <2>3, PutEffect, Places
  <2>5. /\ out.sig \in {"Next", "Err", "HostErr"} /\ ~out.pop
        /\ out = Called(h) \/ out.call = Null
    BY <2>2, HostEffect
  <2> QED BY <2>2, <2>4, <2>5 DEF Stays
<1>6. CASE \E h \in Hosts : return_call_host(h, out)
  <2>1. PICK h \in Hosts : return_call_host(h, out)
    BY <1>6
  <2>2. Instr.op \in CallOps /\ Instr.tail /\ h \in Instr.callees
        /\ frames' = Front(frames)
    BY <2>1 DEF return_call_host
  <2>3. CASE RunHost(h, Last(instances),
                     IF Len(frames) = 1 THEN "Err" ELSE "HostErr", out)
    <3> DEFINE err == IF Len(frames) = 1 THEN "Err" ELSE "HostErr"
    <3>1. err \in {"Err", "HostErr"} /\ RunHost(h, Last(instances), err, out)
      BY <2>3
    <3>2. err = "HostErr" => Len(frames) # 1
      OBVIOUS
    <3> HIDE DEF err
    <3>3. /\ out.sig \in {"Next", "Err", err} /\ ~out.pop
          /\ out.sig = "Next" => h \in Succeeds
          /\ out = Called(h) \/ out.call = Null
      BY <3>1, HostEffect
    <3>4. out.call = Null
      BY <2>2, <3>3 DEF Called
    <3> QED BY <2>2, <3>1, <3>2, <3>3, <3>4 DEF Vacates
  <2>4. CASE out = Done("Err")
    BY <2>2, <2>4 DEF Vacates, Done
  <2> QED BY <2>1, <2>3, <2>4 DEF return_call_host
<1>7. CASE execute_return(out)
  BY <1>7 DEF execute_return, Returns
<1> QED
  BY <1>1, <1>2, <1>3, <1>4, <1>5, <1>6, <1>7 DEF execute_instr

\* What the debugger compares: an instruction changes the number of frames by
\* at most one and leaves the callers of the newest frame alone.
LEMMA InstrFrames ==
    ASSUME Ready, NEW out, execute_instr(out)
    PROVE  /\ frames' \in Seq(Frame) /\ SameCallers
           /\ \/ Len(frames') = Len(frames)
              \/ Len(frames') = Len(frames) - 1 /\ frames' = Front(frames)
              \/ Len(frames') = Len(frames) + 1 /\ \E f \in Funcs : Enters(f, out)
<1>1. frames' \in Seq(Frame)
  <2>1. Shaped'
    BY InstrOK
  <2> QED BY <2>1 DEF Shaped, ExecutorTyped
<1>2. CASE Stays(out)
  BY <1>1, <1>2 DEF Stays
<1>3. CASE Overflows(out)
  BY <1>1, <1>3 DEF Overflows
<1>4. CASE Returns(out) \/ Vacates(out)
  <2>1. frames' = Front(frames)
    BY <1>4 DEF Returns, Vacates
  <2>2. frames \in Seq(Frame) /\ frames # <<>>
    BY ReadyFacts
  <2>3. /\ Len(Front(frames)) = Len(frames) - 1
        /\ \A i \in 1 .. Len(frames) - 1 : Front(frames)[i] = frames[i]
    BY <2>2, FrontFacts
  <2> QED BY <2>3, <1>1, <2>1, <2>2 DEF SameCallers
<1>5. CASE \E f \in Funcs : Enters(f, out)
  BY <1>1, <1>5 DEF Enters
<1>6. CASE \E f \in Funcs : Replaces(f, out)
  BY <1>1, <1>6 DEF Replaces
<1> QED BY <1>2, <1>3, <1>4, <1>5, <1>6, InstrEffect
=============================================================================

--------------------------- MODULE CmdArgs_proofs ---------------------------
(* Proofs about the command argument builder of natnet.go.                 *)
EXTENDS CmdArgs, IndexLemmas, SequenceTheorems, FiniteSetTheorems, TLAPS

USE CmdArgsAssumption

\* The builder's two sequences only ever hold well-formed CmdArgs, and
\* together never more than MaxArgs of them: every method appends a
\* constructor's result or a caller's list of CmdArgs, within the bound.
THEOREM TypeCorrect == Spec => []TypeOK
<1>1. Init => TypeOK
  BY DEF Init, TypeOK
<1>2. TypeOK /\ [Next]_vars => TypeOK'
  <2> SUFFICES ASSUME TypeOK, [Next]_vars PROVE TypeOK'
    OBVIOUS
  <2>1. ASSUME NEW k \in Keys, AppendNoValue(k) PROVE TypeOK'
    <3>1. NewCmdArgNoValue(k) \in CmdArg
      BY DEF NewCmdArgNoValue, CmdArg
    <3>2. QED
      BY <2>1, <3>1 DEF AppendNoValue, Room, TypeOK
  <2>2. ASSUME NEW k \in Keys, NEW v \in Values, AppendArg(k, v) PROVE TypeOK'
    <3>1. NewCmdArg(k, v) \in CmdArg
      BY DEF NewCmdArg, CmdArg
    <3>2. QED
      BY <2>2, <3>1 DEF AppendArg, Room, TypeOK
  <2>3. ASSUME NEW l \in ArgLists, AppendCmdArgs(l) PROVE TypeOK'
    <3>1. l \in Seq(CmdArg)
      OBVIOUS
    <3>2. args \o l \in Seq(CmdArg) /\ Len(args \o l) = Len(args) + Len(l)
      BY <3>1, ConcatProperties DEF TypeOK
    <3>3. CASE l = <<>>
      BY <2>3, <3>3 DEF AppendCmdArgs, TypeOK
    <3>4. CASE l # <<>>
      <4>1. args' = args \o l /\ overrides' = overrides /\ Room(Len(l))
        BY <2>3, <3>4 DEF AppendCmdArgs
      <4>2. QED
        BY <4>1, <3>2 DEF Room, TypeOK
    <3>5. QED
      BY <3>3, <3>4
  <2>4. ASSUME NEW l \in ArgLists, AppendOverride(l) PROVE TypeOK'
    <3>1. l \in Seq(CmdArg)
      OBVIOUS
    <3>2. overrides \o l \in Seq(CmdArg)
          /\ Len(overrides \o l) = Len(overrides) + Len(l)
      BY <3>1, ConcatProperties DEF TypeOK
    <3>3. CASE l = <<>>
      BY <2>4, <3>3 DEF AppendOverride, TypeOK
    <3>4. CASE l # <<>>
      <4>1. overrides' = overrides \o l /\ args' = args /\ Room(Len(l))
        BY <2>4, <3>4 DEF AppendOverride
      <4>2. QED
        BY <4>1, <3>2 DEF Room, TypeOK
    <3>5. QED
      BY <3>3, <3>4
  <2>5. CASE UNCHANGED vars
    BY <2>5 DEF vars, TypeOK
  <2>6. QED
    BY <2>1, <2>2, <2>3, <2>4, <2>5 DEF Next
<1>3. QED
  BY <1>1, <1>2, PTL DEF Spec

-----------------------------------------------------------------------------
(***************************************************************************)
(* Args().  The two loops are recursive functions over 0..n; the lemmas    *)
(* below unfold them, and properties of all their values are proved by     *)
(* induction over a set of naturals (SetInduction of IndexLemmas).         *)
(***************************************************************************)

(* The first loop: ScanSteps(all)[i] is one ScanStep after [i - 1].        *)
LEMMA ScanStepsDef ==
  ASSUME NEW all \in Seq(CmdArg)
  PROVE  ScanSteps(all) = [i \in 0..Len(all) |->
                             IF i = 0 THEN ScanInit ELSE ScanStep(ScanSteps(all)[i - 1], all[i])]
<1>1. FiniteNatInductiveDefHypothesis(ScanSteps(all), ScanInit,
                                      LAMBDA v, i : ScanStep(v, all[i]), 0, Len(all))
  BY DEF FiniteNatInductiveDefHypothesis, ScanSteps
<1>0. Len(all) \in Nat
  BY LenProperties
<1>2. FiniteNatInductiveDefConclusion(ScanSteps(all), ScanInit,
                                      LAMBDA v, i : ScanStep(v, all[i]), 0, Len(all))
  BY <1>0, <1>1, FiniteNatInductiveDef
<1> QED
  BY <1>2 DEF FiniteNatInductiveDefConclusion

(* The second loop: EmitSteps(scan)[j] extends [j - 1] by the tokens of    *)
(* the j-th key unless its argument is deleted.                            *)
LEMMA EmitStepsDef ==
  ASSUME NEW scan, scan.orderK \in Seq(Keys)
  PROVE  EmitSteps(scan) = [j \in 0..Len(scan.orderK) |->
                              IF j = 0 THEN <<>>
                              ELSE IF scan.m[scan.orderK[j]].Del THEN EmitSteps(scan)[j - 1]
                              ELSE EmitSteps(scan)[j - 1] \o ArgTokens(scan.m[scan.orderK[j]])]
<1> DEFINE Def(v, j) == IF scan.m[scan.orderK[j]].Del THEN v
                        ELSE v \o ArgTokens(scan.m[scan.orderK[j]])
<1>1. FiniteNatInductiveDefHypothesis(EmitSteps(scan), <<>>, Def, 0, Len(scan.orderK))
  BY DEF FiniteNatInductiveDefHypothesis, EmitSteps
<1>0. Len(scan.orderK) \in Nat
  BY LenProperties
<1>2. FiniteNatInductiveDefConclusion(EmitSteps(scan), <<>>, Def, 0, Len(scan.orderK))
  BY <1>0, <1>1, FiniteNatInductiveDef
<1> QED
  BY <1>2 DEF FiniteNatInductiveDefConclusion

(* The tokens of one argument: its key, then values only.                  *)
LEMMA TokensShape ==
  ASSUME NEW arg \in CmdArg
  PROVE  LET t == ArgTokens(arg) IN
         /\ t \in Seq(Keys \cup Values)
         /\ Len(t) >= 1
         /\ t[1] = arg.K
         /\ \A q \in 2..Len(t) : t[q] \in Values
<1>1. CASE arg.V = NoValue
  BY <1>1 DEF ArgTokens, CmdArg
<1>2. CASE arg.V # NoValue /\ arg.Parts = NoParts
  BY <1>2 DEF ArgTokens, CmdArg
<1>3. CASE arg.V # NoValue /\ arg.Parts # NoParts
  <2>1. arg.Parts \in PartsFns /\ arg.V \in Values /\ arg.K \in Keys
    BY <1>3 DEF CmdArg
  <2>2. ArgTokens(arg) = ApplyParts(arg.Parts, arg.K, arg.V)
    BY <1>3 DEF ArgTokens
  <2>3. LET t == ApplyParts(arg.Parts, arg.K, arg.V) IN
        /\ t \in Seq(Keys \cup Values)
        /\ t # <<>>
        /\ t[1] = arg.K
        /\ \A i \in 2..Len(t) : t[i] \in Values
    BY <2>1, PartsAssumption
  <2> QED
    BY <2>2, <2>3, EmptySeq
<1> QED
  BY <1>1, <1>2, <1>3


-----------------------------------------------------------------------------
(* What the first loop has built after the first i arguments of all.      *)

\* Some argument among the first i has key k.
Occurs(all, i, k) == \E j \in 1..i : all[j].K = k

\* Key k stands in orderK o.
InOrderK(o, k) == \E a \in 1..Len(o) : o[a] = k

\* orderK holds keys, each once, and m maps every key to a CmdArg or NoArg.
ScanTypeOK(sc) ==
    /\ sc.orderK \in Seq(Keys)
    /\ \A a, b \in 1..Len(sc.orderK) : sc.orderK[a] = sc.orderK[b] => a = b
    /\ sc.m \in [Keys -> CmdArg \cup {NoArg}]

\* m[k] is NoArg exactly for the keys not met yet, and otherwise the last
\* argument met with key k.
ScanMap(all, i, sc) ==
    /\ \A k \in Keys : sc.m[k] = NoArg <=> ~Occurs(all, i, k)
    /\ \A k \in Keys : Occurs(all, i, k) =>
          \E j \in 1..i : /\ all[j].K = k
                          /\ sc.m[k] = all[j]
                          /\ \A j2 \in j + 1..i : all[j2].K # k

\* orderK holds exactly the keys met, each before a later key's first
\* occurrence.
ScanOrder(all, i, sc) ==
    /\ \A k \in Keys : InOrderK(sc.orderK, k) <=> Occurs(all, i, k)
    /\ \A a1, a2 \in 1..Len(sc.orderK) : a1 < a2 =>
          \E j1 \in 1..i : /\ all[j1].K = sc.orderK[a1]
                           /\ \A j2 \in 1..j1 : all[j2].K # sc.orderK[a2]

ScanOK(all, i, sc) == ScanTypeOK(sc) /\ ScanMap(all, i, sc) /\ ScanOrder(all, i, sc)

(* Before the first argument the loop state is ScanInit.                   *)
LEMMA ScanOKInit ==
  ASSUME NEW all \in Seq(CmdArg)
  PROVE  ScanOK(all, 0, ScanInit)
BY EmptySeq DEF ScanOK, ScanTypeOK, ScanMap, ScanOrder, ScanInit, Occurs, InOrderK

(* One iteration of the first loop keeps ScanOK.                           *)
LEMMA ScanOKStep ==
  ASSUME NEW all \in Seq(CmdArg), NEW i \in 1..Len(all), NEW prev,
         ScanOK(all, i - 1, prev)
  PROVE  ScanOK(all, i, ScanStep(prev, all[i]))
<1> DEFINE arg == all[i]
           k0 == arg.K
           sc == ScanStep(prev, arg)
           o == prev.orderK
<1>0. /\ ScanTypeOK(prev)
      /\ ScanMap(all, i - 1, prev)
      /\ ScanOrder(all, i - 1, prev)
  BY DEF ScanOK
<1>1. arg \in CmdArg /\ k0 \in Keys /\ arg # NoArg
  <2>1. arg \in CmdArg
    BY ElementOfSeq
  <2> QED
    BY <2>1 DEF CmdArg
<1>2. \A k \in Keys : Occurs(all, i, k) <=> Occurs(all, i - 1, k) \/ k = k0
  BY DEF Occurs
<1>3. sc.m = [prev.m EXCEPT ![k0] = arg]
  BY DEF ScanStep
<1>4. /\ o \in Seq(Keys)
      /\ \A a, b \in 1..Len(o) : o[a] = o[b] => a = b
      /\ prev.m \in [Keys -> CmdArg \cup {NoArg}]
  BY <1>0 DEF ScanTypeOK
<1>5. \A k \in Keys : prev.m[k] = NoArg <=> ~Occurs(all, i - 1, k)
  BY <1>0 DEF ScanMap
<1>6. \A k \in Keys : InOrderK(o, k) <=> Occurs(all, i - 1, k)
  BY <1>0 DEF ScanOrder
<1>7. ScanMap(all, i, sc)
  <2>1. ASSUME NEW k \in Keys PROVE sc.m[k] = NoArg <=> ~Occurs(all, i, k)
    <3>1. CASE k = k0
      BY <1>1, <1>2, <1>3, <1>4, <3>1
    <3>2. CASE k # k0
      BY <1>2, <1>3, <1>4, <1>5, <3>2
    <3> QED
      BY <3>1, <3>2
  <2>2. ASSUME NEW k \in Keys, Occurs(all, i, k)
        PROVE  \E j \in 1..i : /\ all[j].K = k
                               /\ sc.m[k] = all[j]
                               /\ \A j2 \in j + 1..i : all[j2].K # k
    <3>1. CASE k = k0
      BY <1>1, <1>3, <1>4, <3>1
    <3>2. CASE k # k0
      <4>1. Occurs(all, i - 1, k)
        BY <1>2, <2>2, <3>2
      <4>2. PICK j \in 1..(i - 1) : /\ all[j].K = k
                                    /\ prev.m[k] = all[j]
                                    /\ \A j2 \in j + 1..(i - 1) : all[j2].K # k
        BY <4>1, <1>0 DEF ScanMap
      <4>3. sc.m[k] = all[j]
        BY <4>2, <1>3, <1>4, <3>2
      <4> QED
        BY <4>2, <4>3, <3>2
    <3> QED
      BY <3>1, <3>2
  <2> QED
    BY <2>1, <2>2 DEF ScanMap
<1>8. sc.m \in [Keys -> CmdArg \cup {NoArg}]
  BY <1>1, <1>3, <1>4
<1>9. CASE prev.m[k0] = NoArg
  <2>1. sc.orderK = Append(o, k0)
    BY <1>9 DEF ScanStep
  <2>2. ~Occurs(all, i - 1, k0) /\ ~InOrderK(o, k0)
    BY <1>9, <1>1, <1>5, <1>6
  <2>3. /\ Append(o, k0) \in Seq(Keys)
        /\ Len(Append(o, k0)) = Len(o) + 1
        /\ \A a \in 1..Len(o) : Append(o, k0)[a] = o[a]
        /\ Append(o, k0)[Len(o) + 1] = k0
    BY <1>1, <1>4, AppendProperties
  <2>4. Len(o) \in Nat
    BY <1>4, LenProperties
  <2>5. \A a, b \in 1..Len(sc.orderK) : sc.orderK[a] = sc.orderK[b] => a = b
    BY <1>4, <2>1, <2>2, <2>3, <2>4 DEF InOrderK
  <2>6. \A k \in Keys : InOrderK(sc.orderK, k) <=> Occurs(all, i, k)
    <3> TAKE k \in Keys
    <3>1. InOrderK(sc.orderK, k) <=> InOrderK(o, k) \/ k = k0
      BY <2>1, <2>3, <2>4 DEF InOrderK
    <3> QED
      BY <3>1, <1>2, <1>6
  <2>7. ASSUME NEW a1 \in 1..Len(sc.orderK), NEW a2 \in 1..Len(sc.orderK), a1 < a2
        PROVE  \E j1 \in 1..i : /\ all[j1].K = sc.orderK[a1]
                                /\ \A j2 \in 1..j1 : all[j2].K # sc.orderK[a2]
    <3>1. a1 \in 1..Len(o) /\ sc.orderK[a1] = o[a1]
      BY <2>7, <2>1, <2>3, <2>4
    <3>2. CASE a2 \in 1..Len(o)
      <4>1. sc.orderK[a2] = o[a2]
        BY <3>2, <2>1, <2>3
      <4>2. PICK j1 \in 1..(i - 1) : /\ all[j1].K = o[a1]
                                     /\ \A j2 \in 1..j1 : all[j2].K # o[a2]
        BY <3>1, <3>2, <2>7, <1>0 DEF ScanOrder
      <4> QED
        BY <4>1, <4>2, <3>1
    <3>3. CASE a2 = Len(o) + 1
      <4>1. sc.orderK[a2] = k0
        BY <3>3, <2>1, <2>3
      <4>2. Occurs(all, i - 1, o[a1])
        BY <3>1, <1>4, <1>6 DEF InOrderK
      <4>3. PICK j1 \in 1..(i - 1) : all[j1].K = o[a1]
        BY <4>2 DEF Occurs
      <4>4. \A j2 \in 1..j1 : all[j2].K # k0
        BY <4>3, <2>2 DEF Occurs
      <4> QED
        BY <4>1, <4>3, <4>4, <3>1
    <3> QED
      BY <3>2, <3>3, <2>1, <2>3, <2>4
  <2> QED
    BY <1>7, <1>8, <2>1, <2>3, <2>5, <2>6, <2>7
       DEF ScanOK, ScanTypeOK, ScanOrder
<1>10. CASE prev.m[k0] # NoArg
  <2>1. sc.orderK = o
    BY <1>10 DEF ScanStep
  <2>2. Occurs(all, i - 1, k0)
    BY <1>10, <1>1, <1>5
  <2>3. \A k \in Keys : InOrderK(sc.orderK, k) <=> Occurs(all, i, k)
    BY <2>1, <2>2, <1>2, <1>6
  <2>4. \A a1, a2 \in 1..Len(sc.orderK) : a1 < a2 =>
          \E j1 \in 1..i : /\ all[j1].K = sc.orderK[a1]
                           /\ \A j2 \in 1..j1 : all[j2].K # sc.orderK[a2]
    <3> SUFFICES ASSUME NEW a1 \in 1..Len(o), NEW a2 \in 1..Len(o), a1 < a2
                 PROVE  \E j1 \in 1..i : /\ all[j1].K = o[a1]
                                         /\ \A j2 \in 1..j1 : all[j2].K # o[a2]
      BY <2>1
    <3>1. PICK j1 \in 1..(i - 1) : /\ all[j1].K = o[a1]
                                   /\ \A j2 \in 1..j1 : all[j2].K # o[a2]
      BY <1>0 DEF ScanOrder
    <3> QED
      BY <3>1
  <2> QED
    BY <1>4, <1>7, <1>8, <2>1, <2>3, <2>4 DEF ScanOK, ScanTypeOK, ScanOrder
<1> QED
  BY <1>9, <1>10


(* The first loop, run over all of all, ends in a state satisfying ScanOK. *)
LEMMA ScanArgsOK ==
  ASSUME NEW all \in Seq(CmdArg)
  PROVE  ScanOK(all, Len(all), ScanArgs(all))
<1> DEFINE s == ScanSteps(all)
           n == Len(all)
           S == {i \in Nat : i <= n => ScanOK(all, i, s[i])}
<1>1. n \in Nat
  BY LenProperties
<1>2. s = [i \in 0..n |-> IF i = 0 THEN ScanInit ELSE ScanStep(s[i - 1], all[i])]
  BY ScanStepsDef
<1>3. 0 \in S
  <2>1. s[0] = ScanInit
    BY <1>1, <1>2
  <2> QED
    BY <2>1, ScanOKInit
<1>4. \A i \in S \cap Nat : i + 1 \in S
  <2> TAKE i \in S \cap Nat
  <2> SUFFICES ASSUME i + 1 <= n PROVE ScanOK(all, i + 1, s[i + 1])
    OBVIOUS
  <2>1. ScanOK(all, (i + 1) - 1, s[i])
    BY <1>1
  <2>2. s[i + 1] = ScanStep(s[i], all[i + 1])
    BY <1>1, <1>2
  <2>3. i + 1 \in 1..Len(all)
    BY <1>1
  <2> QED
    BY <2>1, <2>2, <2>3, ScanOKStep
<1>5. Nat \subseteq S
  BY <1>3, <1>4, SetInduction
<1> QED
  BY <1>1, <1>5 DEF ScanArgs


-----------------------------------------------------------------------------
(* What the second loop has emitted after the first j keys of orderK.     *)

\* A scan whose keys each map to a CmdArg with that key.
ScanShape(sc) ==
    /\ ScanTypeOK(sc)
    /\ \A a \in 1..Len(sc.orderK) : /\ sc.m[sc.orderK[a]] \in CmdArg
                                    /\ sc.m[sc.orderK[a]].K = sc.orderK[a]

\* The tokens of the a-th key, and whether its argument survives.
Blk(sc, a) == ArgTokens(sc.m[sc.orderK[a]])
Live(sc, a) == ~sc.m[sc.orderK[a]].Del

\* Every key token belongs to a surviving one of the first j keys and stands
\* once; every surviving key has its tokens in a block starting at its key;
\* keys stand in orderK order.
EmitOK(sc, j, e) ==
    /\ e \in Seq(Keys \cup Values)
    /\ \A p \in 1..Len(e) : e[p] \in Keys =>
          \E a \in 1..j : Live(sc, a) /\ e[p] = sc.orderK[a]
    /\ \A a \in 1..j : Live(sc, a) =>
          \E p \in 1..Len(e) :
             /\ p + Len(Blk(sc, a)) - 1 <= Len(e)
             /\ \A q \in 1..Len(Blk(sc, a)) : e[p + q - 1] = Blk(sc, a)[q]
    /\ \A p1, p2 \in 1..Len(e) : e[p1] \in Keys /\ e[p1] = e[p2] => p1 = p2
    /\ \A p1, p2 \in 1..Len(e) : \A a1, a2 \in 1..j :
          p1 < p2 /\ e[p1] = sc.orderK[a1] /\ e[p2] = sc.orderK[a2] => a1 < a2

(* The scan Args() ends with has that shape.                               *)
LEMMA ScanOKShape ==
  ASSUME NEW all \in Seq(CmdArg), NEW sc, ScanOK(all, Len(all), sc)
  PROVE  ScanShape(sc)
<1>1. ScanTypeOK(sc)
  BY DEF ScanOK
<1>2. ASSUME NEW a \in 1..Len(sc.orderK)
      PROVE  sc.m[sc.orderK[a]] \in CmdArg /\ sc.m[sc.orderK[a]].K = sc.orderK[a]
  <2> DEFINE k == sc.orderK[a]
  <2>1. k \in Keys
    BY <1>1, ElementOfSeq DEF ScanTypeOK
  <2>2. Occurs(all, Len(all), k)
    BY <2>1 DEF ScanOK, ScanOrder, InOrderK
  <2>3. PICK j \in 1..Len(all) : all[j].K = k /\ sc.m[k] = all[j]
    BY <2>1, <2>2 DEF ScanOK, ScanMap
  <2>4. all[j] \in CmdArg
    BY <2>3, ElementOfSeq
  <2> QED
    BY <2>3, <2>4
<1> QED
  BY <1>1, <1>2 DEF ScanShape


(* Before the first key nothing is emitted.                                *)
LEMMA EmitOKInit ==
  ASSUME NEW sc
  PROVE  EmitOK(sc, 0, <<>>)
BY EmptySeq DEF EmitOK

(* One iteration of the second loop keeps EmitOK.                          *)
LEMMA EmitOKStep ==
  ASSUME NEW sc, ScanShape(sc), NEW j \in 1..Len(sc.orderK), NEW e,
         EmitOK(sc, j - 1, e)
  PROVE  EmitOK(sc, j, IF Live(sc, j) THEN e \o Blk(sc, j) ELSE e)
<1> DEFINE o == sc.orderK
<1>1. /\ o \in Seq(Keys)
      /\ \A a, b \in 1..Len(o) : o[a] = o[b] => a = b
      /\ Len(o) \in Nat
  BY LenProperties DEF ScanShape, ScanTypeOK
<1>2. /\ e \in Seq(Keys \cup Values)
      /\ Len(e) \in Nat
      /\ \A p \in 1..Len(e) : e[p] \in Keys =>
            \E a \in 1..j - 1 : Live(sc, a) /\ e[p] = o[a]
  BY LenProperties DEF EmitOK
\* A key already emitted belongs to one of the first j - 1 keys.
<1>3. \A p \in 1..Len(e), a \in 1..j : e[p] = o[a] => a <= j - 1
  <2> TAKE p \in 1..Len(e), a \in 1..j
  <2> HAVE e[p] = o[a]
  <2>1. e[p] \in Keys
    BY <1>1, ElementOfSeq
  <2>2. PICK b \in 1..j - 1 : Live(sc, b) /\ e[p] = o[b]
    BY <2>1, <1>2
  <2>3. a \in 1..Len(o) /\ b \in 1..Len(o)
    OBVIOUS
  <2>4. o[a] = o[b]
    BY <2>2
  <2>5. a = b
    BY <2>3, <2>4, <1>1
  <2> QED
    BY <2>5
<1>4. CASE ~Live(sc, j)
  <2>1. \A p \in 1..Len(e) : e[p] \in Keys =>
          \E a \in 1..j : Live(sc, a) /\ e[p] = o[a]
    BY <1>2
  <2>2. \A a \in 1..j : Live(sc, a) =>
          \E p \in 1..Len(e) :
             /\ p + Len(Blk(sc, a)) - 1 <= Len(e)
             /\ \A q \in 1..Len(Blk(sc, a)) : e[p + q - 1] = Blk(sc, a)[q]
    BY <1>4 DEF EmitOK
  <2>3. \A p1, p2 \in 1..Len(e) : \A a1, a2 \in 1..j :
          p1 < p2 /\ e[p1] = o[a1] /\ e[p2] = o[a2] => a1 < a2
    <3> TAKE p1, p2 \in 1..Len(e)
    <3> TAKE a1, a2 \in 1..j
    <3> HAVE p1 < p2 /\ e[p1] = o[a1] /\ e[p2] = o[a2]
    <3>1. a1 \in 1..j - 1 /\ a2 \in 1..j - 1
      BY <1>3
    <3> QED
      BY <3>1 DEF EmitOK
  <2> QED
    BY <1>4, <2>1, <2>2, <2>3 DEF EmitOK
<1>5. CASE Live(sc, j)
  <2> DEFINE T == Blk(sc, j)
             L == Len(e)
             e2 == e \o T
  <2>1. /\ T \in Seq(Keys \cup Values)
        /\ Len(T) >= 1
        /\ T[1] = o[j]
        /\ \A q \in 2..Len(T) : T[q] \in Values
        /\ Len(T) \in Nat
    <3>1. sc.m[o[j]] \in CmdArg /\ sc.m[o[j]].K = o[j]
      BY DEF ScanShape
    <3> QED
      BY <3>1, TokensShape, LenProperties DEF Blk
  <2>2. /\ e2 \in Seq(Keys \cup Values)
        /\ Len(e2) = L + Len(T)
        /\ \A p \in 1..L + Len(T) : e2[p] = IF p <= L THEN e[p] ELSE T[p - L]
    BY <1>2, <2>1, ConcatProperties
  <2>3. \A p \in 1..L : e2[p] = e[p]
    BY <2>1, <2>2, <1>2
  <2>4. e2[L + 1] = o[j] /\ L + 1 \in 1..Len(e2)
    BY <2>1, <2>2, <1>2
  <2>5. \A p \in 1..Len(e2) : e2[p] \in Keys => p <= L \/ p = L + 1
    <3> TAKE p \in 1..Len(e2)
    <3> HAVE e2[p] \in Keys
    <3> SUFFICES ASSUME p > L + 1 PROVE FALSE
      BY <1>2
    <3>1. e2[p] = T[p - L] /\ p - L \in 2..Len(T)
      BY <2>2, <1>2
    <3> QED
      BY <3>1, <2>1
  <2>6. \A p \in 1..Len(e2) : e2[p] \in Keys =>
          \E a \in 1..j : Live(sc, a) /\ e2[p] = o[a]
    <3> TAKE p \in 1..Len(e2)
    <3> HAVE e2[p] \in Keys
    <3>1. CASE p <= L
      BY <3>1, <2>3, <1>2
    <3>2. CASE p = L + 1
      BY <3>2, <2>4, <1>5
    <3> QED
      BY <3>1, <3>2, <2>5
  <2>7. \A a \in 1..j : Live(sc, a) =>
          \E p \in 1..Len(e2) :
             /\ p + Len(Blk(sc, a)) - 1 <= Len(e2)
             /\ \A q \in 1..Len(Blk(sc, a)) : e2[p + q - 1] = Blk(sc, a)[q]
    <3> TAKE a \in 1..j
    <3> HAVE Live(sc, a)
    <3>1. CASE a = j
      <4>0. Blk(sc, a) = T
        BY <3>1
      <4>1. \A q \in 1..Len(T) : e2[(L + 1) + q - 1] = T[q]
        BY <2>1, <2>2, <1>2
      <4>2. L + 1 \in 1..Len(e2) /\ (L + 1) + Len(T) - 1 <= Len(e2)
        BY <2>1, <2>2, <1>2
      <4>3. \E x \in 1..Len(e2) : /\ x + Len(T) - 1 <= Len(e2)
                                  /\ \A q \in 1..Len(T) : e2[x + q - 1] = T[q]
        BY <4>1, <4>2
      <4> QED
        BY <4>0, <4>3
    <3>2. CASE a # j
      <4>1. PICK p \in 1..L :
               /\ p + Len(Blk(sc, a)) - 1 <= L
               /\ \A q \in 1..Len(Blk(sc, a)) : e[p + q - 1] = Blk(sc, a)[q]
        BY <3>2 DEF EmitOK
      <4>2. Len(Blk(sc, a)) \in Nat
        <5>1. sc.m[o[a]] \in CmdArg
          BY DEF ScanShape
        <5> QED
          BY <5>1, TokensShape, LenProperties DEF Blk
      <4>3. \A q \in 1..Len(Blk(sc, a)) : p + q - 1 \in 1..L
        BY <4>1, <4>2, <1>2
      <4>4. \A q \in 1..Len(Blk(sc, a)) : e2[p + q - 1] = Blk(sc, a)[q]
        BY <4>1, <4>3, <2>3
      <4>5. p \in 1..Len(e2) /\ p + Len(Blk(sc, a)) - 1 <= Len(e2)
        BY <4>1, <4>2, <2>1, <2>2, <1>2
      <4> QED
        BY <4>4, <4>5
    <3> QED
      BY <3>1, <3>2
  <2>8. \A p1, p2 \in 1..Len(e2) : e2[p1] \in Keys /\ e2[p1] = e2[p2] => p1 = p2
    <3> TAKE p1, p2 \in 1..Len(e2)
    <3> HAVE e2[p1] \in Keys /\ e2[p1] = e2[p2]
    <3>1. CASE p1 <= L /\ p2 <= L
      BY <3>1, <2>3, <1>2 DEF EmitOK
    <3>2. ASSUME NEW x \in 1..L, NEW y \in {L + 1}, e2[x] = e2[y]
          PROVE  FALSE
      <4>1. e[x] = o[j]
        BY <3>2, <2>3, <2>4
      <4> QED
        BY <4>1, <1>3
    <3> QED
      BY <3>1, <3>2, <2>5, <1>2
  <2>9. \A p1, p2 \in 1..Len(e2) : \A a1, a2 \in 1..j :
          p1 < p2 /\ e2[p1] = o[a1] /\ e2[p2] = o[a2] => a1 < a2
    <3> TAKE p1, p2 \in 1..Len(e2)
    <3> TAKE a1, a2 \in 1..j
    <3> HAVE p1 < p2 /\ e2[p1] = o[a1] /\ e2[p2] = o[a2]
    <3>1. e2[p1] \in Keys /\ e2[p2] \in Keys
      BY <1>1, ElementOfSeq
    <3>2. p1 <= L
      BY <3>1, <2>5, <1>2
    <3>3. e[p1] = o[a1] /\ a1 <= j - 1
      BY <3>2, <2>3, <1>3
    <3>4. CASE p2 <= L
      <4>1. e[p2] = o[a2] /\ a2 <= j - 1
        BY <3>4, <2>3, <1>3
      <4> QED
        BY <3>2, <3>3, <3>4, <4>1 DEF EmitOK
    <3>5. CASE p2 = L + 1
      <4>1. a2 = j
        BY <3>5, <2>4, <1>1
      <4> QED
        BY <3>3, <4>1
    <3> QED
      BY <3>1, <3>4, <3>5, <2>5
  <2> QED
    BY <1>5, <2>2, <2>6, <2>7, <2>8, <2>9 DEF EmitOK
<1> QED
  BY <1>4, <1>5


(* The second loop, run over all of orderK, ends in a state satisfying     *)
(* EmitOK.                                                                 *)
LEMMA EmitArgsOK ==
  ASSUME NEW sc, ScanShape(sc)
  PROVE  EmitOK(sc, Len(sc.orderK), EmitArgs(sc))
<1> DEFINE e == EmitSteps(sc)
           n == Len(sc.orderK)
           S == {j \in Nat : j <= n => EmitOK(sc, j, e[j])}
<1>0. sc.orderK \in Seq(Keys)
  BY DEF ScanShape, ScanTypeOK
<1>1. n \in Nat
  BY <1>0, LenProperties
<1>2. e = [j \in 0..n |-> IF j = 0 THEN <<>>
                         ELSE IF sc.m[sc.orderK[j]].Del THEN e[j - 1]
                         ELSE e[j - 1] \o ArgTokens(sc.m[sc.orderK[j]])]
  BY <1>0, EmitStepsDef
<1>3. 0 \in S
  BY <1>1, <1>2, EmitOKInit
<1>4. \A j \in S \cap Nat : j + 1 \in S
  <2> TAKE j \in S \cap Nat
  <2> SUFFICES ASSUME j + 1 <= n PROVE EmitOK(sc, j + 1, e[j + 1])
    OBVIOUS
  <2>1. EmitOK(sc, (j + 1) - 1, e[j])
    BY <1>1
  <2>0. sc.m[sc.orderK[j + 1]].Del \in BOOLEAN
    <3>1. sc.m[sc.orderK[j + 1]] \in CmdArg
      BY <1>1 DEF ScanShape
    <3> QED
      BY <3>1 DEF CmdArg
  <2>2. e[j + 1] = IF Live(sc, j + 1) THEN e[j] \o Blk(sc, j + 1) ELSE e[j]
    BY <2>0, <1>1, <1>2 DEF Live, Blk
  <2>3. j + 1 \in 1..Len(sc.orderK)
    BY <1>1
  <2> QED
    BY <2>1, <2>2, <2>3, EmitOKStep
<1>5. Nat \subseteq S
  BY <1>3, <1>4, SetInduction
<1> QED
  BY <1>1, <1>5 DEF EmitArgs


-----------------------------------------------------------------------------
(* Args() on the builder's two sequences.                                  *)

\* The state of the first loop when Args() has walked both sequences.
SC == ScanArgs(Scanned)

(* The scanned sequence is args followed by overrides, and both loops end  *)
(* in states satisfying ScanOK and EmitOK.                                 *)
LEMMA ArgsFacts ==
  ASSUME TypeOK
  PROVE  /\ Scanned \in Seq(CmdArg)
         /\ Len(Scanned) = Len(args) + Len(overrides)
         /\ \A i \in 1..Len(Scanned) :
               Scanned[i] = IF i <= Len(args) THEN args[i] ELSE overrides[i - Len(args)]
         /\ ScanOK(Scanned, Len(Scanned), SC)
         /\ ScanShape(SC)
         /\ EmitOK(SC, Len(SC.orderK), Args)
<1>1. /\ Scanned \in Seq(CmdArg)
      /\ Len(Scanned) = Len(args) + Len(overrides)
      /\ \A i \in 1..Len(Scanned) :
            Scanned[i] = IF i <= Len(args) THEN args[i] ELSE overrides[i - Len(args)]
  BY ConcatProperties DEF TypeOK, Scanned
<1>2. ScanOK(Scanned, Len(Scanned), SC)
  BY <1>1, ScanArgsOK DEF SC
<1>3. ScanShape(SC)
  BY <1>1, <1>2, ScanOKShape
<1>4. EmitOK(SC, Len(SC.orderK), Args)
  BY <1>3, EmitArgsOK DEF Args, SC
<1> QED
  BY <1>1, <1>2, <1>3, <1>4

(* A key stands at most at one position of Args().                         *)
LEMMA KeyPosUnique ==
  ASSUME TypeOK, NEW k \in Keys, NEW p1 \in ArgsKeyPos(k), NEW p2 \in ArgsKeyPos(k)
  PROVE  p1 = p2
<1>1. EmitOK(SC, Len(SC.orderK), Args)
  BY ArgsFacts
<1> QED
  BY <1>1 DEF EmitOK, ArgsKeyPos

(* A key stands in Args() exactly when its last argument survives, and    *)
(* then with all the tokens of that argument.                             *)
LEMMA KeyOutcome ==
  ASSUME TypeOK, NEW k \in Keys, Occurs(Scanned, Len(Scanned), k)
  PROVE  /\ SC.m[k] \in CmdArg
         /\ SC.m[k].K = k
         /\ SC.m[k].Del => ArgsKeyPos(k) = {}
         /\ ~SC.m[k].Del => EmittedAt(SC.m[k])
<1> DEFINE o == SC.orderK
           w == SC.m[k]
<1>1. ScanShape(SC) /\ EmitOK(SC, Len(o), Args) /\ ScanOK(Scanned, Len(Scanned), SC)
  BY ArgsFacts
<1>2. PICK a \in 1..Len(o) : o[a] = k
  BY <1>1 DEF ScanOK, ScanOrder, InOrderK
<1>3. /\ w \in CmdArg
      /\ w.K = k
      /\ \A b \in 1..Len(o) : o[b] = k => b = a
  BY <1>1, <1>2 DEF ScanShape, ScanTypeOK
<1>4. Args \in Seq(Keys \cup Values) /\ Len(Args) \in Nat
  BY <1>1, LenProperties DEF EmitOK
<1>5. ASSUME w.Del PROVE ArgsKeyPos(k) = {}
  <2> SUFFICES ASSUME NEW p \in ArgsKeyPos(k) PROVE FALSE
    OBVIOUS
  <2>1. p \in 1..Len(Args) /\ Args[p] = k
    BY DEF ArgsKeyPos
  <2>2. PICK b \in 1..Len(o) : Live(SC, b) /\ Args[p] = o[b]
    BY <2>1, <1>1 DEF EmitOK
  <2>3. b = a
    BY <2>1, <2>2, <1>3
  <2> QED
    BY <2>2, <2>3, <1>2, <1>5 DEF Live
<1>6. ASSUME ~w.Del PROVE EmittedAt(w)
  <2> DEFINE t == ArgTokens(w)
  <2>1. Live(SC, a) /\ Blk(SC, a) = t
    BY <1>2, <1>6 DEF Live, Blk
  <2>2. PICK p \in 1..Len(Args) :
           /\ p + Len(t) - 1 <= Len(Args)
           /\ \A q \in 1..Len(t) : Args[p + q - 1] = t[q]
    BY <2>1, <1>1 DEF EmitOK
  <2>3. /\ t \in Seq(Keys \cup Values)
        /\ Len(t) >= 1
        /\ t[1] = k
        /\ Len(t) \in Nat
    BY <1>3, TokensShape, LenProperties
  <2>4. p \in ArgsKeyPos(k)
    BY <2>2, <2>3 DEF ArgsKeyPos
  <2>5. SubSeq(Args, p, p + Len(t) - 1) = t
    <3>1. /\ SubSeq(Args, p, p + Len(t) - 1) \in Seq(Keys \cup Values)
          /\ Len(SubSeq(Args, p, p + Len(t) - 1)) = Len(t)
          /\ \A i \in 1..Len(t) : SubSeq(Args, p, p + Len(t) - 1)[i] = Args[p + i - 1]
      <4>1. \A i \in p..(p + Len(t) - 1) : Args[i] \in Keys \cup Values
        BY <1>4, <2>2, <2>3, ElementOfSeq
      <4> QED
        BY <4>1, <2>3, SubSeqProperties
    <3> QED
      BY <3>1, <2>2, <2>3, SeqEqual
  <2>6. ArgsKeyPos(w.K) = ArgsKeyPos(k)
    BY <1>3
  <2> QED
    BY <2>2, <2>4, <2>5, <2>6 DEF EmittedAt
<1> QED
  BY <1>3, <1>5, <1>6

(* Whatever sequence of calls built the CmdArgs, Args() names each key at  *)
(* most once.                                                              *)
LEMMA KeyOnceInv == TypeOK => ArgsKeyOnce
<1> SUFFICES ASSUME TypeOK, NEW k \in Keys PROVE Cardinality(ArgsKeyPos(k)) <= 1
  BY DEF ArgsKeyOnce
<1>1. CASE ArgsKeyPos(k) = {}
  BY <1>1, FS_EmptySet
<1>2. CASE ArgsKeyPos(k) # {}
  <2>1. PICK p \in ArgsKeyPos(k) : TRUE
    BY <1>2
  <2>2. ArgsKeyPos(k) = {p}
    BY <2>1, KeyPosUnique
  <2>3. Cardinality({p}) = 1
    BY FS_Singleton
  <2> QED
    BY <2>2, <2>3
<1> QED
  BY <1>1, <1>2


(* LastArg and FirstIdx pick the greatest and the least position of a key. *)
LEMMA LastFirstIdx ==
  ASSUME NEW s \in Seq(CmdArg), NEW k, HasKey(s, k)
  PROVE  /\ \E m \in KeyIdx(s, k) : /\ \A j \in KeyIdx(s, k) : j <= m
                                     /\ LastArg(s, k) = s[m]
         /\ FirstIdx(s, k) \in KeyIdx(s, k)
         /\ \A j \in KeyIdx(s, k) : FirstIdx(s, k) <= j
<1>1. /\ Len(s) \in Nat
      /\ KeyIdx(s, k) \in SUBSET (1..Len(s))
      /\ KeyIdx(s, k) # {}
  BY LenProperties DEF HasKey, KeyIdx
<1>2. \E i \in KeyIdx(s, k) : \A j \in KeyIdx(s, k) : j <= i
  BY <1>1, MinMaxIdx
<1>3. \E i \in KeyIdx(s, k) : \A j \in KeyIdx(s, k) : i <= j
  BY <1>1, MinMaxIdx
<1>4. \E m \in KeyIdx(s, k) : /\ \A j \in KeyIdx(s, k) : j <= m
                               /\ LastArg(s, k) = s[m]
  BY <1>2 DEF LastArg
<1> QED
  BY <1>3, <1>4 DEF FirstIdx

(* The last argument Args() meets with a key is the one its map keeps.     *)
LEMMA LastInScan ==
  ASSUME TypeOK, NEW k \in Keys, NEW i \in 1..Len(Scanned),
         Scanned[i].K = k,
         \A j \in i + 1..Len(Scanned) : Scanned[j].K # k
  PROVE  Occurs(Scanned, Len(Scanned), k) /\ SC.m[k] = Scanned[i]
<1>1. Occurs(Scanned, Len(Scanned), k)
  BY DEF Occurs
<1>2. ScanOK(Scanned, Len(Scanned), SC) /\ Len(Scanned) \in Nat
  BY ArgsFacts, LenProperties
<1>3. PICK j \in 1..Len(Scanned) : /\ Scanned[j].K = k
                                   /\ SC.m[k] = Scanned[j]
                                   /\ \A j2 \in j + 1..Len(Scanned) : Scanned[j2].K # k
  BY <1>1, <1>2 DEF ScanOK, ScanMap
<1>4. j = i
  BY <1>3
<1> QED
  BY <1>1, <1>3, <1>4

(* What Args() does with the argument SC keeps for key k, whichever it is. *)
LEMMA KeyResult ==
  ASSUME TypeOK, NEW k \in Keys, NEW w,
         Occurs(Scanned, Len(Scanned), k), SC.m[k] = w
  PROVE  IF w.Del THEN ArgsKeyPos(k) = {} ELSE EmittedAt(w)
<1>1. /\ w \in CmdArg
      /\ w.Del => ArgsKeyPos(k) = {}
      /\ ~w.Del => EmittedAt(w)
  BY KeyOutcome
<1>2. w.Del \in BOOLEAN
  BY <1>1 DEF CmdArg
<1> QED
  BY <1>1, <1>2

(* For a key given to AppendOverride, Args() carries the last override for *)
(* it, or drops the key when that override deletes it, whatever base       *)
(* Appends came before or after.                                           *)
LEMMA OverrideInv == TypeOK => OverrideWins
<1> SUFFICES ASSUME TypeOK, NEW k \in Keys, HasKey(overrides, k)
             PROVE  LET w == LastArg(overrides, k)
                    IN IF w.Del THEN ArgsKeyPos(k) = {} ELSE EmittedAt(w)
  BY DEF OverrideWins
<1> DEFINE L == Len(args)
<1>1. PICK m \in KeyIdx(overrides, k) : /\ \A j \in KeyIdx(overrides, k) : j <= m
                                         /\ LastArg(overrides, k) = overrides[m]
  BY LastFirstIdx DEF TypeOK
<1>2. /\ Len(Scanned) = L + Len(overrides)
      /\ \A i \in 1..Len(Scanned) :
            Scanned[i] = IF i <= L THEN args[i] ELSE overrides[i - L]
      /\ L \in Nat /\ Len(overrides) \in Nat
  BY ArgsFacts, LenProperties DEF TypeOK
<1>3. /\ m \in 1..Len(overrides)
      /\ overrides[m].K = k
  BY <1>1 DEF KeyIdx
<1>4. /\ L + m \in 1..Len(Scanned)
      /\ Scanned[L + m] = overrides[m]
  BY <1>2, <1>3
<1>5. \A j \in (L + m) + 1..Len(Scanned) : Scanned[j].K # k
  <2> SUFFICES ASSUME NEW j \in (L + m) + 1..Len(Scanned), Scanned[j].K = k
               PROVE  FALSE
    OBVIOUS
  <2>1. j - L \in 1..Len(overrides) /\ Scanned[j] = overrides[j - L] /\ j - L > m
    BY <1>2, <1>3
  <2>2. j - L \in KeyIdx(overrides, k)
    BY <2>1 DEF KeyIdx
  <2>3. j - L <= m
    BY <1>1, <2>2
  <2> QED
    BY <1>2, <1>3, <2>1, <2>3
<1>6. Occurs(Scanned, Len(Scanned), k) /\ SC.m[k] = overrides[m]
  BY <1>3, <1>4, <1>5, LastInScan
<1> QED
  BY <1>1, <1>6, KeyResult

(* A key appended only to the base sequence keeps its last base value, and *)
(* is dropped when that last base argument deletes it.                     *)
LEMMA BaseInv == TypeOK => BaseValueKept
<1> SUFFICES ASSUME TypeOK, NEW k \in Keys, HasKey(args, k), ~HasKey(overrides, k)
             PROVE  LET w == LastArg(args, k)
                    IN IF w.Del THEN ArgsKeyPos(k) = {} ELSE EmittedAt(w)
  BY DEF BaseValueKept
<1> DEFINE L == Len(args)
<1>1. PICK m \in KeyIdx(args, k) : /\ \A j \in KeyIdx(args, k) : j <= m
                                    /\ LastArg(args, k) = args[m]
  BY LastFirstIdx DEF TypeOK
<1>2. /\ Len(Scanned) = L + Len(overrides)
      /\ \A i \in 1..Len(Scanned) :
            Scanned[i] = IF i <= L THEN args[i] ELSE overrides[i - L]
      /\ L \in Nat /\ Len(overrides) \in Nat
  BY ArgsFacts, LenProperties DEF TypeOK
<1>3. /\ m \in 1..L
      /\ args[m].K = k
  BY <1>1 DEF KeyIdx
<1>4. /\ m \in 1..Len(Scanned)
      /\ Scanned[m] = args[m]
  BY <1>2, <1>3
<1>5. \A j \in m + 1..Len(Scanned) : Scanned[j].K # k
  <2> SUFFICES ASSUME NEW j \in m + 1..Len(Scanned), Scanned[j].K = k
               PROVE  FALSE
    OBVIOUS
  <2>1. CASE j <= L
    <3>1. j \in KeyIdx(args, k)
      BY <1>2, <2>1 DEF KeyIdx
    <3> QED
      BY <1>1, <3>1
  <2>2. CASE j > L
    <3>1. j - L \in KeyIdx(overrides, k)
      BY <1>2, <2>2 DEF KeyIdx
    <3> QED
      BY <3>1 DEF HasKey
  <2> QED
    BY <2>1, <2>2, <1>2
<1>6. Occurs(Scanned, Len(Scanned), k) /\ SC.m[k] = args[m]
  BY <1>3, <1>4, <1>5, LastInScan
<1> QED
  BY <1>1, <1>6, KeyResult


(* FirstSeenPos(k) is the first position of k in args \o overrides.        *)
LEMMA FirstSeenFirst ==
  ASSUME TypeOK, NEW k \in Keys, Occurs(Scanned, Len(Scanned), k)
  PROVE  /\ FirstSeenPos(k) \in 1..Len(Scanned)
         /\ Scanned[FirstSeenPos(k)].K = k
         /\ \A j \in 1..Len(Scanned) : Scanned[j].K = k => FirstSeenPos(k) <= j
<1> DEFINE L == Len(args)
<1>1. /\ Len(Scanned) = L + Len(overrides)
      /\ \A i \in 1..Len(Scanned) :
            Scanned[i] = IF i <= L THEN args[i] ELSE overrides[i - L]
      /\ L \in Nat /\ Len(overrides) \in Nat
  BY ArgsFacts, LenProperties DEF TypeOK
<1>2. CASE HasKey(args, k)
  <2> DEFINE f == FirstIdx(args, k)
  <2>1. /\ f \in KeyIdx(args, k)
        /\ \A j \in KeyIdx(args, k) : f <= j
        /\ FirstSeenPos(k) = f
    BY <1>2, LastFirstIdx DEF TypeOK, FirstSeenPos
  <2>2. f \in 1..L /\ args[f].K = k
    BY <2>1 DEF KeyIdx
  <2>3. ASSUME NEW j \in 1..Len(Scanned), Scanned[j].K = k PROVE f <= j
    <3>1. CASE j <= L
      BY <1>1, <2>1, <2>3, <3>1 DEF KeyIdx
    <3>2. CASE j > L
      BY <2>2, <3>2, <1>1
    <3> QED
      BY <3>1, <3>2, <1>1
  <2> QED
    BY <1>1, <2>1, <2>2, <2>3
<1>3. CASE ~HasKey(args, k)
  <2>1. PICK j0 \in 1..Len(Scanned) : Scanned[j0].K = k
    BY DEF Occurs
  <2>2. \A j \in 1..Len(Scanned) : Scanned[j].K = k => j > L /\ j - L \in KeyIdx(overrides, k)
    <3> SUFFICES ASSUME NEW j \in 1..Len(Scanned), Scanned[j].K = k
                 PROVE  j > L /\ j - L \in KeyIdx(overrides, k)
      OBVIOUS
    <3>1. j > L
      <4> SUFFICES ASSUME j <= L PROVE FALSE
        BY <1>1
      <4>1. j \in KeyIdx(args, k)
        BY <1>1 DEF KeyIdx
      <4> QED
        BY <4>1, <1>3 DEF HasKey
    <3> QED
      BY <3>1, <1>1 DEF KeyIdx
  <2>3. HasKey(overrides, k)
    BY <2>1, <2>2 DEF HasKey
  <2> DEFINE f == FirstIdx(overrides, k)
  <2>4. /\ f \in KeyIdx(overrides, k)
        /\ \A j \in KeyIdx(overrides, k) : f <= j
        /\ FirstSeenPos(k) = L + f
    BY <1>3, <2>3, LastFirstIdx DEF TypeOK, FirstSeenPos
  <2>5. f \in 1..Len(overrides) /\ overrides[f].K = k
    BY <2>4 DEF KeyIdx
  <2>6. L + f \in 1..Len(Scanned) /\ Scanned[L + f].K = k
    BY <1>1, <2>5
  <2>7. ASSUME NEW j \in 1..Len(Scanned), Scanned[j].K = k PROVE L + f <= j
    <3>1. j > L /\ j - L \in KeyIdx(overrides, k)
      BY <2>2, <2>7
    <3>2. f <= j - L
      BY <3>1, <2>4
    <3> QED
      BY <3>1, <3>2, <2>5, <1>1
  <2> QED
    BY <2>4, <2>6, <2>7
<1> QED
  BY <1>2, <1>3

(* Args() emits keys in the order of their first appearance: the base     *)
(* keys first, then the keys only overridden, a rewrite never moving one.  *)
LEMMA FirstSeenInv == TypeOK => FirstSeenOrder
<1> SUFFICES ASSUME TypeOK, NEW k1 \in Keys, NEW k2 \in Keys,
                    NEW i1 \in ArgsKeyPos(k1), NEW i2 \in ArgsKeyPos(k2), i1 < i2
             PROVE  FirstSeenPos(k1) < FirstSeenPos(k2)
  BY DEF FirstSeenOrder
<1> DEFINE o == SC.orderK
           n == Len(Scanned)
<1>1. /\ ScanOK(Scanned, n, SC)
      /\ EmitOK(SC, Len(o), Args)
      /\ ScanShape(SC)
  BY ArgsFacts
<1>2. i1 \in 1..Len(Args) /\ Args[i1] = k1 /\ i2 \in 1..Len(Args) /\ Args[i2] = k2
  BY DEF ArgsKeyPos
<1>3. PICK a1 \in 1..Len(o) : Live(SC, a1) /\ Args[i1] = o[a1]
  BY <1>1, <1>2 DEF EmitOK
<1>4. PICK a2 \in 1..Len(o) : Live(SC, a2) /\ Args[i2] = o[a2]
  BY <1>1, <1>2 DEF EmitOK
<1>5. a1 < a2
  BY <1>1, <1>2, <1>3, <1>4 DEF EmitOK
<1>6. PICK j1 \in 1..n : /\ Scanned[j1].K = k1
                         /\ \A j2 \in 1..j1 : Scanned[j2].K # k2
  BY <1>1, <1>2, <1>3, <1>4, <1>5 DEF ScanOK, ScanOrder
<1>7. Occurs(Scanned, n, k1) /\ Occurs(Scanned, n, k2)
  <2>1. InOrderK(o, k2)
    BY <1>2, <1>4 DEF InOrderK
  <2> QED
    BY <1>1, <1>6, <2>1 DEF ScanOK, ScanOrder, Occurs
<1>8. FirstSeenPos(k1) <= j1
  BY <1>6, <1>7, FirstSeenFirst
<1>9. FirstSeenPos(k2) \in 1..n /\ Scanned[FirstSeenPos(k2)].K = k2
  BY <1>7, FirstSeenFirst
<1>10. FirstSeenPos(k2) > j1
  BY <1>6, <1>9
<1>11. FirstSeenPos(k1) \in 1..n
  BY <1>7, FirstSeenFirst
<1> QED
  BY <1>8, <1>10, <1>11, <1>9


-----------------------------------------------------------------------------
(* The promises of Args() hold in every reachable state.                   *)

\* Key uniqueness: whatever sequence of Append/AppendOverride calls built
\* the CmdArgs, Args() names each key at most once.
THEOREM KeysOnce == Spec => []ArgsKeyOnce
BY TypeCorrect, KeyOnceInv, PTL

\* Override precedence: Args() carries the last AppendOverride of a key, or
\* drops the key when that override is a deletion.
THEOREM OverridesWin == Spec => []OverrideWins
BY TypeCorrect, OverrideInv, PTL

\* A key only Appended keeps its last base value, or is dropped by a
\* trailing deletion.
THEOREM BaseKept == Spec => []BaseValueKept
BY TypeCorrect, BaseInv, PTL

\* Args() emits keys in the order they were first appended, base keys
\* before override-only keys.
THEOREM EmitOrder == Spec => []FirstSeenOrder
BY TypeCorrect, FirstSeenInv, PTL

=============================================================================

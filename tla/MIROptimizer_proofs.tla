------------------------ MODULE MIROptimizer_proofs -------------------------
(***************************************************************************)
(* For functions of any size: the optimizer's variables keep their types,  *)
(* the edges are those of the code where a pass reads them, although the   *)
(* merge keeps them up to date by hand, and no store is removed whose      *)
(* variable some path still reads, where control leaves blocks at their    *)
(* end. No pass leaves an edge to a block that it removed, and the blocks  *)
(* removed as unreachable are those that no path comes to.                 *)
(***************************************************************************)
EXTENDS MIROptimizer, MIRLiveness_proofs

-----------------------------------------------------------------------------
(* The inductive invariant.                                                *)

(* The passes that analyze, and the one that uses the edges they leave.    *)
EdgesFresh == pass \in {"driver", "stores", "merge", "unreachable"} => EdgesBuilt

(* Where nothing has changed the code since the analysis.                  *)
SetsFresh ==
  pass \in {"driver", "stores"} => SolvesEquations /\ LocalsComputed

AnalysisOver == pass \in {"unreachable", "fold", "copies"} => stage = "done"

CodeShaped == \A b \in Blocks : Shaped(code[b])

OInv ==
  /\ OptimizerTypeOK
  /\ SweepProgress
  /\ EdgesFresh
  /\ SetsFresh
  /\ AnalysisOver
  /\ CodeShaped

-----------------------------------------------------------------------------
(* Numbers.                                                                *)

(* The places of a finite set of numbers: the nth of them has n of them up *)
(* to it.                                                                  *)
LEMMA NthMember ==
  ASSUME NEW m \in Nat, NEW S \in SUBSET (1 .. m), NEW n \in 1 .. Cardinality(S)
  PROVE  \E k \in S : Cardinality({j \in S : j <= k}) = n
<1> DEFINE UpTo(k) == {j \in S : j <= k}
           enough == {k \in 1 .. m : Cardinality(UpTo(k)) >= n}
<1>1. IsFiniteSet(S) /\ Cardinality(S) \in Nat
  <2>1. IsFiniteSet(1 .. m)
    BY FS_Interval
  <2> QED
    BY <2>1, FS_Subset, FS_CardinalityType
<1>2. \A k : IsFiniteSet(UpTo(k)) /\ Cardinality(UpTo(k)) \in Nat
  <2> TAKE k
  <2>1. UpTo(k) \in SUBSET S
    OBVIOUS
  <2> HIDE DEF UpTo
  <2>2. IsFiniteSet(UpTo(k))
    BY <1>1, <2>1, FS_Subset
  <2> QED
    BY <2>2, FS_CardinalityType
<1>3. enough # {}
  <2>1. S # {}
    BY <1>1, FS_EmptySet
  <2>2. m \in 1 .. m
    <3>1. PICK j \in S : TRUE
      BY <2>1
    <3>2. j \in 1 .. m
      BY <3>1
    <3> QED
      BY <3>2
  <2>3. UpTo(m) = S
    <3>1. \A j \in S : j <= m
      OBVIOUS
    <3> QED
      BY <3>1
  <2>4. Cardinality(UpTo(m)) >= n
    BY <1>1, <2>3
  <2> QED
    BY <2>2, <2>4
<1>4. PICK k \in enough : \A j \in enough : k <= j
  <2>1. enough \subseteq Nat
    OBVIOUS
  <2> HIDE DEF enough
  <2> QED
    BY <1>3, <2>1, LeastNumber
<1>5. k \in 1 .. m /\ Cardinality(UpTo(k)) >= n
  BY <1>4
<1>6. Cardinality(UpTo(k - 1)) < n
  <2>1. CASE k = 1
    <3>1. UpTo(k - 1) = {}
      <4>1. \A j \in S : ~(j <= k - 1)
        BY <2>1
      <4> QED
        BY <4>1
    <3>2. Cardinality(UpTo(k - 1)) = 0
      BY <3>1, FS_EmptySet
    <3> QED
      BY <1>1, <3>2
  <2>2. CASE k # 1
    <3>1. k - 1 \in 1 .. m /\ ~(k <= k - 1)
      BY <1>5, <2>2
    <3>2. k - 1 \notin enough
      <4> HIDE DEF enough
      <4> QED
        BY <1>4, <3>1
    <3>3. ~(Cardinality(UpTo(k - 1)) >= n)
      BY <3>1, <3>2
    <3>4. Cardinality(UpTo(k - 1)) \in Nat
      BY <1>2
    <3> HIDE DEF UpTo
    <3> QED
      BY <1>1, <3>3, <3>4
  <2> QED
    BY <2>1, <2>2
<1>7. \A j \in S : j \in Int
  OBVIOUS
<1>8. k \in S
  <2> SUFFICES ASSUME k \notin S PROVE FALSE
    OBVIOUS
  <2>1. \A j \in S : j <= k <=> j <= k - 1
    BY <1>5, <1>7
  <2>2. UpTo(k) = UpTo(k - 1)
    BY <2>1
  <2>3. Cardinality(UpTo(k)) \in Nat
    BY <1>2
  <2> HIDE DEF UpTo
  <2> QED
    BY <1>1, <1>5, <1>6, <2>2, <2>3
<1>9. Cardinality(UpTo(k)) = Cardinality(UpTo(k - 1)) + 1
  <2>1. \A j \in S : j <= k <=> j <= k - 1 \/ j = k
    BY <1>5, <1>7
  <2>2. UpTo(k) = UpTo(k - 1) \cup {k}
    BY <1>5, <1>8, <2>1
  <2>3. k \notin UpTo(k - 1)
    BY <1>5
  <2> HIDE DEF UpTo
  <2>4. IsFiniteSet(UpTo(k - 1))
    BY <1>2
  <2> QED
    BY <2>2, <2>3, <2>4, FS_AddElement
<1>10. Cardinality(UpTo(k - 1)) \in Nat
  BY <1>2
<1>11. Cardinality(UpTo(k)) = n
  <2> HIDE DEF UpTo
  <2> QED
    BY <1>1, <1>5, <1>6, <1>9, <1>10
<1> QED
  BY <1>8, <1>11

-----------------------------------------------------------------------------
(* What the passes make of instructions.                                   *)

(* A folded instruction is one that gives its variable a constant.         *)
LEMMA FoldType ==
  ASSUME OptimizerTypeOK, NEW i \in Instructions, CanFold(i)
  PROVE  /\ Fold(i) \in Instructions
         /\ Fold(i).kind \in {"const", "bool"} /\ i.kind \notin Terminators
<1>1. /\ i = [kind |-> i.kind, src |-> i.src, dst |-> i.dst, value |-> i.value,
              targets |-> i.targets, pad |-> i.pad, callee |-> i.callee]
      /\ i.kind \in Kinds /\ i.src \in Seq(Variables) /\ i.dst \in Destinations
      /\ i.value \in Int /\ i.targets \in Seq(Targets) /\ i.pad \in Targets
      /\ i.callee \in Destinations
  BY DEF Instructions
<1>2. \A v \in Variables : Value(v) \in Int
  BY DEF OptimizerTypeOK, Value
<1>3. i.kind \in {"add", "less", "equal", "divide", "not"}
  BY DEF CanFold
<1> DEFINE kind == IF i.kind \in {"add", "divide"} THEN "const" ELSE "bool"
           folded == CASE i.kind = "add" -> Value(i.src[1]) + Value(i.src[2])
                       [] i.kind = "divide" ->
                            Quotient(Value(i.src[1]), Value(i.src[2]))
                       [] i.kind = "less" ->
                            Truth(Value(i.src[1]) < Value(i.src[2]))
                       [] i.kind = "equal" ->
                            Truth(Value(i.src[1]) = Value(i.src[2]))
                       [] i.kind = "not" -> 1 - Value(i.src[1])
<1>4. folded \in Int
  <2>1. CASE i.kind \in {"add", "less", "equal", "divide"}
    <3>1. i.src[1] \in Variables /\ i.src[2] \in Variables
      BY <1>1, <2>1 DEF CanFold
    <3> DEFINE m == Value(i.src[1])
               n == Value(i.src[2])
    <3>2. m \in Int /\ n \in Int
      BY <1>2, <3>1
    <3>3. i.kind = "divide" => n # 0
      BY DEF CanFold
    <3>4. i.kind = "divide" => Quotient(m, n) \in Int
      <4> SUFFICES ASSUME n # 0 PROVE Quotient(m, n) \in Int
        BY <3>3
      <4> HIDE DEF m, n
      <4>1. Magnitude(m) \in Int /\ Magnitude(n) \in Int /\ Magnitude(n) > 0
        BY <3>2 DEF Magnitude
      <4>2. Magnitude(m) \div Magnitude(n) \in Int
        BY <4>1
      <4> QED
        BY <4>2 DEF Quotient
    <3>5. CASE i.kind = "add"
      <4>1. folded = m + n
        BY <3>5
      <4> HIDE DEF folded, m, n
      <4> QED
        BY <3>2, <4>1
    <3>6. CASE i.kind = "divide"
      <4>1. folded = Quotient(m, n)
        BY <3>6
      <4> QED
        BY <3>4, <3>6, <4>1
    <3>7. CASE i.kind = "less"
      BY <3>7 DEF Truth
    <3>8. CASE i.kind = "equal"
      BY <3>8 DEF Truth
    <3> QED
      BY <2>1, <3>5, <3>6, <3>7, <3>8
  <2>2. CASE i.kind = "not"
    <3>1. i.src[1] \in Variables
      BY <1>1, <2>2 DEF CanFold
    <3>2. folded = 1 - Value(i.src[1])
      BY <2>2
    <3> HIDE DEF folded
    <3> QED
      BY <1>2, <3>1, <3>2
  <2> QED
    BY <1>3, <2>1, <2>2
<1>5. Fold(i) = [i EXCEPT !.kind = kind, !.src = <<>>, !.value = folded]
  BY DEF Fold
<1>6. kind \in {"const", "bool"}
  OBVIOUS
<1> HIDE DEF folded, kind
<1>7. Fold(i) = [kind |-> kind, src |-> <<>>, dst |-> i.dst, value |-> folded,
                 targets |-> i.targets, pad |-> i.pad, callee |-> i.callee]
  BY <1>1, <1>5
<1>8. kind \in Kinds /\ <<>> \in Seq(Variables)
  BY <1>6 DEF Kinds
<1>9. Fold(i) \in Instructions
  BY <1>1, <1>4, <1>7, <1>8 DEF Instructions
<1>10. Fold(i).kind \in {"const", "bool"}
  BY <1>6, <1>7
<1> QED
  BY <1>3, <1>9, <1>10 DEF Terminators

LEMMA CodeType ==
  ASSUME TypeOK, NEW b \in Blocks
  PROVE  /\ code[b] \in Seq(Instructions) /\ Len(code[b]) \in Nat
         /\ DOMAIN code[b] = 1 .. Len(code[b])
         /\ \A k \in DOMAIN code[b] : code[b][k] \in Instructions
<1>1. code[b] \in Seq(Instructions)
  BY DEF TypeOK
<1> QED
  BY <1>1

(* The copies of a function, and the variables they write.                 *)
LEMMA CopyPlace ==
  ASSUME TypeOK, NEW p \in CopyPlaces
  PROVE  /\ p[1] \in present /\ p[1] \in Blocks /\ p[2] \in DOMAIN code[p[1]]
         /\ p = <<p[1], p[2]>>
         /\ At(p) \in Instructions /\ IsCopy(At(p))
         /\ At(p).dst \in Variables /\ At(p).src[1] \in Variables
<1>1. PICK b \in present : \E k \in DOMAIN code[b] : p = <<b, k>> /\ IsCopy(code[b][k])
  BY DEF CopyPlaces
<1>2. PICK k \in DOMAIN code[b] : p = <<b, k>> /\ IsCopy(code[b][k])
  BY <1>1
<1>3. b \in Blocks
  BY DEF TypeOK
<1>4. At(p) = code[b][k] /\ At(p) \in Instructions
  BY <1>2, <1>3, CodeType DEF At
<1>5. At(p).dst \in Destinations /\ At(p).src \in Seq(Variables)
  BY <1>4 DEF Instructions
<1>6. IsCopy(At(p)) /\ At(p).dst # NoVariable /\ Len(At(p).src) = 1
  BY <1>2, <1>4 DEF IsCopy
<1> QED
  BY <1>2, <1>3, <1>4, <1>5, <1>6 DEF Destinations

LEMMA CopyAt ==
  ASSUME NEW b \in present, NEW k \in DOMAIN code[b], IsCopy(code[b][k])
  PROVE  <<b, k>> \in CopyPlaces /\ At(<<b, k>>) = code[b][k]
BY DEF CopyPlaces, At

LEMMA CopiedFinite ==
  ASSUME TypeOK
  PROVE  IsFiniteSet(Copied) /\ Cardinality(Copied) \in Nat
<1> DEFINE places == [b \in present |-> {k \in DOMAIN code[b] : IsCopy(code[b][k])}]
           writes == [b \in present |-> [k \in places[b] |-> code[b][k].dst]]
           results == [b \in present |-> {writes[b][k] : k \in places[b]}]
           family == {results[b] : b \in present}
<1>1. IsFiniteSet(present)
  <2>1. present \in SUBSET (0 .. LastBlock) /\ LastBlock \in Int
    BY LastBlockType DEF TypeOK, Blocks
  <2>2. IsFiniteSet(0 .. LastBlock)
    BY <2>1, FS_Interval
  <2> QED
    BY <2>1, <2>2, FS_Subset
<1>2. ASSUME NEW b \in present PROVE IsFiniteSet(results[b])
  <2>1. b \in Blocks
    BY DEF TypeOK
  <2>2. DOMAIN code[b] = 1 .. Len(code[b]) /\ Len(code[b]) \in Nat
    BY <2>1, CodeType
  <2>3. IsFiniteSet(DOMAIN code[b])
    BY <2>2, FS_Interval
  <2>4. places[b] \in SUBSET DOMAIN code[b]
    OBVIOUS
  <2>5. IsFiniteSet(places[b])
    BY <2>3, <2>4, FS_Subset
  <2>6. DOMAIN writes[b] = places[b]
    OBVIOUS
  <2>7. results[b] = {writes[b][k] : k \in places[b]}
    OBVIOUS
  <2> HIDE DEF results, writes, places
  <2> QED
    BY <2>5, <2>6, <2>7, ImageFinite
<1>3. Copied \subseteq UNION family
  <2> SUFFICES ASSUME NEW p \in CopyPlaces PROVE At(p).dst \in UNION family
    BY DEF Copied
  <2>1. p[1] \in present /\ p[2] \in places[p[1]]
    BY CopyPlace DEF At
  <2>2. writes[p[1]][p[2]] = At(p).dst
    BY <2>1 DEF At
  <2> HIDE DEF writes, places
  <2> QED
    BY <2>1, <2>2
<1>4. IsFiniteSet(family)
  <2>1. DOMAIN results = present
    OBVIOUS
  <2> HIDE DEF results
  <2> QED
    BY <1>1, <2>1, ImageFinite
<1>5. IsFiniteSet(UNION family)
  <2>1. \A T \in family : IsFiniteSet(T)
    <3> HIDE DEF results
    <3> QED
      BY <1>2
  <2> HIDE DEF family
  <2> QED
    BY <1>4, <2>1, FS_UNION
<1>6. Copied \in SUBSET UNION family
  BY <1>3
<1> HIDE DEF family
<1> QED
  BY <1>5, <1>6, FS_Subset, FS_CardinalityType

(* Of the copies into a variable there is a last one.                      *)
LEMMA CopySourceType ==
  ASSUME TypeOK, NEW v \in Copied
  PROVE  CopySource(v) \in Variables
<1> DEFINE Into(p) == p \in CopyPlaces /\ At(p).dst = v
           blocks == {n \in 1 .. LastBlock + 1 : \E p : Into(p) /\ p[1] = n - 1}
<1>1. LastBlock \in Nat /\ Blocks = 0 .. LastBlock
  BY LastBlockType DEF Blocks
<1>2. \E p : Into(p)
  BY DEF Copied
<1>3. \A q : Into(q) => q[1] + 1 \in blocks
  <2> SUFFICES ASSUME NEW q, Into(q) PROVE q[1] + 1 \in blocks
    OBVIOUS
  <2>1. q[1] \in 0 .. LastBlock
    BY <1>1, CopyPlace
  <2>2. q[1] + 1 \in 1 .. LastBlock + 1 /\ q[1] = (q[1] + 1) - 1
    BY <1>1, <2>1
  <2> QED
    BY <2>2
<1>4. PICK n \in blocks : \A l \in blocks : l <= n
  <2>1. blocks \in SUBSET (1 .. LastBlock + 1) /\ LastBlock + 1 \in Nat
    BY <1>1
  <2>2. blocks # {}
    <3> HIDE DEF blocks
    <3> QED
      BY <1>2, <1>3
  <2> HIDE DEF blocks
  <2> QED
    BY <2>1, <2>2, GreatestNumber
<1> DEFINE b == n - 1
           spots == {k \in DOMAIN code[b] : Into(<<b, k>>)}
<1>5. n \in 1 .. LastBlock + 1 /\ \E q : Into(q) /\ q[1] = b
  BY <1>4
<1>6. PICK q : Into(q) /\ q[1] = b
  BY <1>5
<1>7. b \in Blocks /\ q[2] \in DOMAIN code[b] /\ q = <<b, q[2]>>
  BY <1>6, CopyPlace
<1>8. DOMAIN code[b] = 1 .. Len(code[b]) /\ Len(code[b]) \in Nat
  BY <1>7, CodeType
<1>9. q[2] \in spots
  BY <1>6, <1>7
<1>10. PICK k \in spots : \A l \in spots : l <= k
  <2>1. spots # {} /\ spots \in SUBSET (1 .. Len(code[b]))
    BY <1>8, <1>9
  <2> HIDE DEF spots
  <2> QED
    BY <1>8, <2>1, GreatestNumber
<1> DEFINE last == <<b, k>>
<1>11. last \in CopyPlaces /\ At(last).dst = v
  BY <1>10
<1>12. ASSUME NEW r \in CopyPlaces, At(r).dst = v PROVE ~Before(last, r)
  <2>1. r[1] \in Blocks /\ r[2] \in DOMAIN code[r[1]] /\ r = <<r[1], r[2]>>
    BY CopyPlace
  <2>2. r[1] + 1 <= n
    <3>1. r[1] + 1 \in blocks
      BY <1>3, <1>12
    <3> HIDE DEF blocks
    <3> QED
      BY <1>4, <3>1
  <2>3. r[1] \in Int /\ n \in Int
    BY <1>1, <1>5, <2>1
  <2>4. ~(b < r[1])
    BY <2>2, <2>3
  <2>5. r[1] = b => r[2] <= k
    <3> SUFFICES ASSUME r[1] = b PROVE r[2] <= k
      OBVIOUS
    <3>1. r[2] \in spots
      BY <1>12, <2>1
    <3> HIDE DEF spots
    <3> QED
      BY <1>10, <3>1
  <2>6. k \in Int /\ (r[1] = b => r[2] \in Int)
    BY <1>8, <1>10, <2>1
  <2>7. last[1] = b /\ last[2] = k
    OBVIOUS
  <2> HIDE DEF last, b
  <2> QED
    BY <2>4, <2>5, <2>6, <2>7 DEF Before
<1> DEFINE Last(p) == /\ At(p).dst = v
                      /\ \A r \in CopyPlaces : At(r).dst = v => ~Before(p, r)
           chosen == CHOOSE p \in CopyPlaces : Last(p)
<1>13. \E p \in CopyPlaces : Last(p)
  <2>1. last \in CopyPlaces /\ Last(last)
    BY <1>11, <1>12
  <2> QED
    BY <2>1
<1>14. chosen \in CopyPlaces
  BY <1>13
<1>15. At(chosen).src[1] \in Variables
  <2> HIDE DEF chosen
  <2> QED
    BY <1>14, CopyPlace
<1>16. CopySource(v) = At(chosen).src[1]
  BY DEF CopySource
<1> QED
  BY <1>15, <1>16

(* The end of a chain of copies is a variable.                             *)
LEMMA ResolvedType ==
  ASSUME TypeOK, NEW v \in Variables
  PROVE  Resolved(v) \in Variables
<1> DEFINE c == Cardinality(Copied)
           step == [w \in Variables |-> IF w \in Copied THEN CopySource(w) ELSE w]
           IsChain(f) == f = [n \in 0 .. c |->
                           IF n = 0 THEN v
                           ELSE IF f[n - 1] \in Copied THEN CopySource(f[n - 1])
                           ELSE f[n - 1]]
           chain == CHOOSE f : IsChain(f)
<1>1. c \in Nat
  BY CopiedFinite
<1>2. step \in [Variables -> Variables]
  BY CopySourceType
<1>3. PICK g \in [0 .. c -> Variables] :
        g[0] = v /\ \A n \in 1 .. c : g[n] = step[g[n - 1]]
  <2> HIDE DEF c, step
  <2>1. v \in Variables
    OBVIOUS
  <2>2. HasIterates(Variables, step, v, c)
    BY <1>1, <1>2, <2>1, Iterates
  <2> QED
    BY <2>2 DEF HasIterates
<1>4. IsChain(g)
  <2>1. ASSUME NEW n \in 0 .. c
        PROVE  g[n] = IF n = 0 THEN v
                      ELSE IF g[n - 1] \in Copied THEN CopySource(g[n - 1])
                      ELSE g[n - 1]
    <3>1. CASE n = 0
      BY <1>3, <3>1
    <3>2. CASE n # 0
      <4>1. n - 1 \in 0 .. c /\ n \in 1 .. c
        BY <1>1, <3>2
      <4>2. g[n - 1] \in Variables
        BY <1>3, <4>1
      <4> QED
        BY <1>3, <3>2, <4>1, <4>2
    <3> QED
      BY <3>1, <3>2
  <2> QED
    BY <1>3, <2>1
<1>5. IsChain(chain)
  BY <1>4
<1> DEFINE bad == {n \in 0 .. c : chain[n] \notin Variables}
<1>6. bad = {}
  <2> SUFFICES ASSUME bad # {} PROVE FALSE
    OBVIOUS
  <2>1. PICK n \in bad : \A m \in bad : n <= m
    <3>1. bad \subseteq Nat
      BY <1>1
    <3> HIDE DEF bad
    <3> QED
      BY <3>1, LeastNumber
  <2> HIDE DEF chain
  <2>2. n \in 0 .. c /\ chain[n] \notin Variables
    BY <2>1
  <2>3. n # 0
    BY <1>1, <1>5, <2>2
  <2>4. n - 1 \in 0 .. c /\ ~(n <= n - 1)
    BY <1>1, <2>2, <2>3
  <2>5. chain[n - 1] \in Variables
    <3>1. n - 1 \notin bad
      <4> HIDE DEF bad
      <4> QED
        BY <2>1, <2>4
    <3> QED
      BY <2>4, <3>1
  <2>6. chain[n] = IF chain[n - 1] \in Copied
                   THEN CopySource(chain[n - 1]) ELSE chain[n - 1]
    BY <1>5, <2>2, <2>3
  <2> QED
    BY <2>2, <2>5, <2>6, CopySourceType
<1>7. chain[c] \in Variables
  <2>1. c \in 0 .. c
    BY <1>1
  <2> HIDE DEF chain
  <2> QED
    BY <1>6, <2>1
<1>8. Resolved(v) = chain[c]
  BY DEF Resolved
<1> QED
  BY <1>7, <1>8

(* What eliminateDeadStores keeps of a block are instructions of it, and   *)
(* its terminator is still at the end.                                     *)
LEMMA SurvivingType ==
  ASSUME TypeOK, CodeShaped, NEW b \in Blocks
  PROVE  /\ Surviving(b) \in Seq(Instructions) /\ Shaped(Surviving(b))
         /\ \A n \in DOMAIN Surviving(b) : \E k \in DOMAIN code[b] :
              Surviving(b)[n] = code[b][k]
<1> DEFINE c == code[b]
           kept == {k \in DOMAIN c : ~DeadStore(b, k)}
           KeptUpTo(k) == Cardinality({j \in kept : j <= k})
           nth(n) == CHOOSE k \in kept : KeptUpTo(k) = n
           rest == [n \in 1 .. Cardinality(kept) |-> c[nth(n)]]
<1>1. /\ DOMAIN c = 1 .. Len(c) /\ Len(c) \in Nat
      /\ \A k \in DOMAIN c : c[k] \in Instructions
  BY CodeType
<1>2. IsFiniteSet(kept) /\ Cardinality(kept) \in Nat
  <2>1. IsFiniteSet(DOMAIN c)
    BY <1>1, FS_Interval
  <2>2. kept \in SUBSET DOMAIN c
    OBVIOUS
  <2> HIDE DEF kept
  <2> QED
    BY <2>1, <2>2, FS_Subset, FS_CardinalityType
<1>3. ASSUME NEW n \in 1 .. Cardinality(kept)
      PROVE  nth(n) \in kept /\ KeptUpTo(nth(n)) = n
  <2>1. kept \in SUBSET (1 .. Len(c))
    BY <1>1
  <2>2. \E k \in kept : KeptUpTo(k) = n
    <3> HIDE DEF kept
    <3> QED
      BY <1>1, <2>1, NthMember
  <2> HIDE DEF KeptUpTo, kept
  <2> QED
    BY <2>2
<1>4. Surviving(b) = rest
  BY DEF Surviving
<1>5. \A n \in 1 .. Cardinality(kept) : rest[n] = c[nth(n)] /\ nth(n) \in DOMAIN c
  BY <1>3
<1>6. rest \in Seq(Instructions) /\ Len(rest) = Cardinality(kept)
  <2>1. rest \in [1 .. Cardinality(kept) -> Instructions]
    BY <1>1, <1>3
  <2> HIDE DEF rest, kept
  <2> QED
    BY <1>2, <2>1
<1>7. ASSUME NEW n \in DOMAIN rest, rest[n].kind \in Terminators
      PROVE  n = Len(rest)
  <2>1. n \in 1 .. Cardinality(kept)
    BY DEF rest
  <2>2. c[nth(n)].kind \in Terminators /\ nth(n) \in DOMAIN c
    BY <1>5, <1>7, <2>1
  <2>3. nth(n) = Len(c)
    <3> HIDE DEF nth
    <3> QED
      BY <2>2 DEF CodeShaped, Shaped
  <2>4. {j \in kept : j <= Len(c)} = kept
    <3>1. \A j \in kept : j <= Len(c)
      BY <1>1
    <3> QED
      BY <3>1
  <2>5. KeptUpTo(nth(n)) = Cardinality(kept)
    BY <2>3, <2>4
  <2>6. KeptUpTo(nth(n)) = n
    BY <1>3, <2>1
  <2> HIDE DEF rest, kept, nth, KeptUpTo
  <2> QED
    BY <1>6, <2>5, <2>6
<1>8. ASSUME NEW n \in DOMAIN rest, rest[n].kind = "jump"
      PROVE  Len(rest[n].targets) = 1
  <2>1. n \in 1 .. Cardinality(kept)
    BY DEF rest
  <2>2. rest[n] = c[nth(n)] /\ nth(n) \in DOMAIN c
    BY <1>5, <2>1
  <2> HIDE DEF rest, nth
  <2> QED
    BY <1>8, <2>2 DEF CodeShaped, Shaped
<1>9. \A n \in DOMAIN rest : \E k \in DOMAIN c : rest[n] = c[k]
  <2>1. DOMAIN rest = 1 .. Cardinality(kept)
    OBVIOUS
  <2> HIDE DEF rest, kept, nth
  <2> QED
    BY <1>5, <2>1
<1> HIDE DEF rest
<1> QED
  BY <1>4, <1>6, <1>7, <1>8, <1>9 DEF Shaped

-----------------------------------------------------------------------------
(* The initial state.                                                      *)

LEMMA OptimizerInitOInv == OptimizerInit => OInv
<1> SUFFICES ASSUME OptimizerInit PROVE OInv
  OBVIOUS
<1>1. TypeOK
  BY InitTypeOK DEF OptimizerInit
<1>2. OptimizerTypeOK
  <2>1. NoConstants \in [Variables -> [kind : {"unknown", "const", "bool"}, value : Int]]
    BY DEF NoConstants, Unknown
  <2>2. original \in [Blocks -> Seq(Instructions)]
    BY <1>1 DEF OptimizerInit, TypeOK
  <2>3. /\ 0 \in 0 .. IterationLimit /\ 0 \in 0 .. LastBlock + 1
        /\ FALSE \in BOOLEAN /\ 1 \in Nat \ {0} /\ "driver" \in Passes
    BY LastBlockType, LimitAssumption DEF Passes
  <2> QED
    BY <1>1, <2>1, <2>2, <2>3 DEF OptimizerInit, OptimizerTypeOK
<1>3. CodeShaped
  BY ShapeAssumption DEF OptimizerInit, Init, CodeShaped
<1>4. stage = "edges" /\ pass = "driver"
  BY DEF OptimizerInit, Init
<1> QED
  BY <1>2, <1>3, <1>4
     DEF OInv, SweepProgress, EdgesFresh, EdgesBuilt, SetsFresh, SolvesEquations,
         LocalsComputed, Analyzing, AnalysisOver

-----------------------------------------------------------------------------
(* The steps.                                                              *)

(* An analysis in any pass that runs one.                                  *)
LEMMA ReanalyzeOInv == OInv /\ Reanalyze => OInv'
<1> SUFFICES ASSUME OInv, Reanalyze PROVE OInv'
  OBVIOUS
<1>1. pass \in {"driver", "stores", "merge"} /\ Analyze /\ UNCHANGED optimizerVars
  BY DEF Reanalyze
<1>2. UNCHANGED <<pass, iteration, passChanged, original, block, position, constants>>
  BY <1>1 DEF optimizerVars, driverVars, scanVars
<1>3. stage # "done"
  BY <1>1 DEF Analyze, BuildEdges, ComputeLocalSets, PropagateBackward, SweepAgain,
              Converged
<1>4. SweepInv'
  <2>1. SweepInv
    BY <1>3 DEF OInv, SweepInv, OptimizerTypeOK, SolvesEquations
  <2> QED
    BY <1>1, <2>1, AnalyzeSweepInv
<1>5. OptimizerTypeOK'
  BY <1>2, <1>4 DEF OInv, OptimizerTypeOK, SweepInv
<1>6. EdgesBuilt'
  <2>1. TypeOK /\ EdgesBuilt
    BY <1>1 DEF OInv, OptimizerTypeOK, EdgesFresh
  <2> QED
    BY <1>1, <2>1, AnalyzeEdges
<1>7. SetsFresh'
  <2> SUFFICES ASSUME pass \in {"driver", "stores"} PROVE LocalsComputed'
    BY <1>2, <1>4 DEF SetsFresh, SweepInv
  <2>1. TypeOK /\ LocalsComputed
    BY DEF OInv, OptimizerTypeOK, SetsFresh
  <2> QED
    BY <1>1, <2>1, AnalyzeLocals
<1>8. CodeShaped'
  BY <1>1, AnalyzeFixesCode DEF OInv, CodeShaped
<1>9. EdgesFresh' /\ AnalysisOver'
  BY <1>1, <1>2, <1>6 DEF EdgesFresh, AnalysisOver
<1> QED
  BY <1>4, <1>5, <1>7, <1>8, <1>9 DEF OInv, SweepInv

(* Steps of the optimizer that leave the function and its analysis alone.  *)
LEMMA DriverStepOInv ==
  OInv /\ (StartOptimizing \/ FoldNextBlock \/ FoldDone \/ MergeNextBlock
           \/ IterateAgain \/ Finish) => OInv'
<1> SUFFICES ASSUME OInv, StartOptimizing \/ FoldNextBlock \/ FoldDone
                          \/ MergeNextBlock \/ IterateAgain \/ Finish
             PROVE  OInv'
  OBVIOUS
<1>1. UNCHANGED vars
  BY DEF StartOptimizing, FoldNextBlock, FoldDone, MergeNextBlock, IterateAgain,
         Finish
<1>2. UNCHANGED <<code, present, succ, pred, used, defined, liveIn, liveOut, index,
                  changed, stage>>
  BY <1>1 DEF vars, edgeVars, localVars, liveVars, sweepVars
<1>3. /\ TypeOK' = TypeOK /\ SweepProgress' = SweepProgress
      /\ EdgesBuilt' = EdgesBuilt /\ CodeShaped' = CodeShaped
      /\ SolvesEquations' = SolvesEquations /\ LocalsComputed' = LocalsComputed
  BY <1>2 DEF TypeOK, SweepProgress, Balanced, ExitOf, EntryOf, EdgesBuilt,
              Successors, EdgeCount, CodeShaped, SolvesEquations, LocalsComputed,
              Analyzing
<1>4. OptimizerTypeOK'
  <2>1. TypeOK'
    BY <1>3 DEF OInv, OptimizerTypeOK
  <2>2. LastBlock \in Nat /\ IterationLimit \in Nat \ {0}
    BY LastBlockType, LimitAssumption
  <2>3. CASE StartOptimizing
    BY <2>1, <2>2, <2>3
       DEF StartOptimizing, scanVars, OInv, OptimizerTypeOK, Passes
  <2>4. CASE FoldNextBlock \/ MergeNextBlock
    BY <2>1, <2>2, <2>4 DEF FoldNextBlock, MergeNextBlock, driverVars, OInv,
                            OptimizerTypeOK, Passes
  <2>5. CASE FoldDone \/ Finish
    BY <2>1, <2>2, <2>5 DEF FoldDone, Finish, scanVars, OInv, OptimizerTypeOK, Passes
  <2>6. CASE IterateAgain
    <3>1. iteration \in 0 .. IterationLimit
      BY DEF OInv, OptimizerTypeOK
    <3>2. iteration' \in 0 .. IterationLimit
      <4>1. iteration < IterationLimit /\ iteration' = iteration + 1
        BY <2>6 DEF IterateAgain
      <4> QED
        BY <2>2, <3>1, <4>1
    <3>3. /\ UNCHANGED <<original, block, position, constants>>
          /\ pass' = "unreachable" /\ passChanged' = FALSE
      BY <2>6 DEF IterateAgain, scanVars
    <3> QED
      BY <2>1, <3>2, <3>3 DEF OInv, OptimizerTypeOK, Passes
  <2> QED
    BY <2>3, <2>4, <2>5, <2>6
<1>5. EdgesFresh' /\ SetsFresh' /\ AnalysisOver'
  <2>1. CASE StartOptimizing
    BY <1>2, <1>3, <2>1 DEF StartOptimizing, OInv, EdgesFresh, SetsFresh, AnalysisOver
  <2>2. CASE FoldNextBlock \/ FoldDone
    BY <1>2, <1>3, <2>2 DEF FoldNextBlock, FoldDone, driverVars, OInv, EdgesFresh,
                            SetsFresh, AnalysisOver
  <2>3. CASE MergeNextBlock
    BY <1>2, <1>3, <2>3 DEF MergeNextBlock, driverVars, OInv, EdgesFresh, SetsFresh,
                            AnalysisOver
  <2>4. CASE IterateAgain \/ Finish
    BY <1>2, <1>3, <2>4 DEF IterateAgain, Finish, OInv, EdgesFresh, SetsFresh,
                            AnalysisOver
  <2> QED
    BY <2>1, <2>2, <2>3, <2>4
<1> QED
  BY <1>3, <1>4, <1>5 DEF OInv

(* Removing blocks leaves the code of the others.                          *)
LEMMA UnreachableOInv == OInv /\ EliminateUnreachableBlocks => OInv'
<1> SUFFICES ASSUME OInv, EliminateUnreachableBlocks PROVE OInv'
  OBVIOUS
<1> DEFINE dead == present \ Reachable
<1>1. /\ pass = "unreachable" /\ pass' = "fold" /\ present' = present \ dead
      /\ pred' = [t \in Blocks |-> [b \in Blocks |->
                    IF b \in dead /\ t \in succ[b] THEN 0 ELSE pred[t][b]]]
      /\ passChanged' = (passChanged \/ dead # {})
      /\ block' = 0 /\ position' = 1 /\ constants' = NoConstants
      /\ UNCHANGED <<code, succ, used, defined, liveIn, liveOut, index, changed, stage,
                     iteration, original>>
  BY DEF EliminateUnreachableBlocks, localVars, liveVars, sweepVars
<1> HIDE DEF dead
<1>2. OptimizerTypeOK /\ TypeOK /\ stage = "done"
  BY <1>1 DEF OInv, OptimizerTypeOK, AnalysisOver
<1>3. TypeOK'
  <2>1. pred' \in [Blocks -> [Blocks -> Nat]]
    BY <1>1, <1>2 DEF TypeOK
  <2> QED
    BY <1>1, <1>2, <2>1 DEF TypeOK, VariableSets
<1>4. OptimizerTypeOK'
  <2>1. NoConstants \in [Variables -> [kind : {"unknown", "const", "bool"}, value : Int]]
    BY DEF NoConstants, Unknown
  <2>2. 0 \in 0 .. LastBlock + 1 /\ 1 \in Nat \ {0} /\ "fold" \in Passes
    BY LastBlockType DEF Passes
  <2>3. passChanged' \in BOOLEAN
    BY <1>1, <1>2 DEF OptimizerTypeOK
  <2> QED
    BY <1>1, <1>2, <1>3, <2>1, <2>2, <2>3 DEF OptimizerTypeOK
<1>5. CodeShaped'
  BY <1>1 DEF OInv, CodeShaped
<1> QED
  BY <1>1, <1>2, <1>4, <1>5
     DEF OInv, SweepProgress, EdgesFresh, SetsFresh, AnalysisOver

(* Folding an instruction leaves the terminators.                          *)
LEMMA FoldNextOInv == OInv /\ FoldNext => OInv'
<1> SUFFICES ASSUME OInv, FoldNext PROVE OInv'
  OBVIOUS
<1> DEFINE c == code[block]
           old == c[position]
           new == IF CanFold(old) THEN Fold(old) ELSE old
<1>1. /\ pass = "fold" /\ pass' = "fold" /\ block \in present /\ position \in DOMAIN c
      /\ code' = [code EXCEPT ![block][position] = new]
      /\ constants' = IF new.kind \in {"const", "bool"}
                      THEN [constants EXCEPT
                              ![new.dst] = [kind |-> new.kind, value |-> new.value]]
                      ELSE constants
      /\ passChanged' = (passChanged \/ CanFold(old))
      /\ position' = position + 1
      /\ UNCHANGED <<present, succ, pred, used, defined, liveIn, liveOut, index,
                     changed, stage, iteration, block, original>>
  BY DEF FoldNext, edgeVars, localVars, liveVars, sweepVars
<1>2. OptimizerTypeOK /\ TypeOK /\ stage = "done" /\ CodeShaped
  BY <1>1 DEF OInv, OptimizerTypeOK, AnalysisOver
<1>3. /\ block \in Blocks /\ c \in Seq(Instructions) /\ Len(c) \in Nat
      /\ DOMAIN c = 1 .. Len(c) /\ old \in Instructions
  BY <1>1, <1>2, CodeType DEF TypeOK
<1>4. new.kind \notin Terminators \/ new = old
  BY <1>2, <1>3, FoldType DEF Terminators
<1>5. new \in Instructions
  BY <1>2, <1>3, FoldType
<1> DEFINE result == [c EXCEPT ![position] = new]
<1> HIDE DEF new
<1>6. code' = [code EXCEPT ![block] = result]
  BY <1>1
<1>7. /\ result \in Seq(Instructions) /\ Len(result) = Len(c) /\ DOMAIN result = DOMAIN c
      /\ result[position] = new
      /\ \A k \in DOMAIN c : k # position => result[k] = c[k]
  BY <1>1, <1>3, <1>5
<1>8. Shaped(result)
  <2> SUFFICES ASSUME NEW k \in DOMAIN c
               PROVE  /\ result[k].kind \in Terminators => k = Len(c)
                      /\ result[k].kind = "jump" => Len(result[k].targets) = 1
    BY <1>7 DEF Shaped
  <2>1. Shaped(c)
    BY <1>2, <1>3 DEF CodeShaped
  <2>2. CASE result[k] = c[k]
    BY <2>1, <2>2 DEF Shaped
  <2>3. CASE result[k] # c[k]
    <3>1. result[k].kind \notin Terminators
      BY <1>4, <1>7, <2>3
    <3> QED
      BY <3>1 DEF Terminators
  <2> QED
    BY <2>2, <2>3
<1> HIDE DEF result
<1>9. TypeOK'
  <2>1. code' \in [Blocks -> Seq(Instructions)]
    BY <1>2, <1>3, <1>6, <1>7 DEF TypeOK
  <2> QED
    BY <1>1, <1>2, <2>1 DEF TypeOK, VariableSets
<1>10. OptimizerTypeOK'
  <2>1. constants' \in [Variables -> [kind : {"unknown", "const", "bool"}, value : Int]]
    <3>1. new.value \in Int
      BY <1>5 DEF Instructions
    <3>2. CASE new.kind \in {"const", "bool"}
      <4>1. [kind |-> new.kind, value |-> new.value] \in
              [kind : {"unknown", "const", "bool"}, value : Int]
        BY <3>1, <3>2
      <4> QED
        BY <1>1, <1>2, <3>2, <4>1 DEF OptimizerTypeOK
    <3>3. CASE new.kind \notin {"const", "bool"}
      BY <1>1, <1>2, <3>3 DEF OptimizerTypeOK
    <3> QED
      BY <3>2, <3>3
  <2>2. position' \in Nat \ {0} /\ passChanged' \in BOOLEAN
    BY <1>1, <1>2 DEF OptimizerTypeOK
  <2> QED
    BY <1>1, <1>2, <1>9, <2>1, <2>2 DEF OptimizerTypeOK
<1>11. CodeShaped'
  <2> SUFFICES ASSUME NEW b \in Blocks PROVE Shaped(code'[b])
    BY DEF CodeShaped
  <2>1. code'[b] = IF b = block THEN result ELSE code[b]
    BY <1>2, <1>6 DEF TypeOK
  <2> QED
    BY <1>2, <1>8, <2>1 DEF CodeShaped
<1> QED
  BY <1>1, <1>2, <1>10, <1>11
     DEF OInv, SweepProgress, EdgesFresh, SetsFresh, AnalysisOver

(* A pass that rewrites the code block by block and then has it analyzed.  *)
LEMMA RewriteOInv ==
  ASSUME OInv, stage' = "edges", pass' \in {"stores", "merge"},
         passChanged' \in BOOLEAN, block' \in 0 .. LastBlock + 1,
         UNCHANGED <<present, succ, pred, used, defined, liveIn, liveOut, index,
                     changed, iteration, original, position, constants>>,
         code' \in [Blocks -> Seq(Instructions)], CodeShaped'
  PROVE  OInv'
<1>1. TypeOK'
  BY DEF OInv, OptimizerTypeOK, TypeOK, VariableSets
<1>2. OptimizerTypeOK'
  BY <1>1 DEF OInv, OptimizerTypeOK, Passes
<1> QED
  BY <1>2 DEF OInv, SweepProgress, EdgesFresh, EdgesBuilt, SetsFresh, SolvesEquations,
              LocalsComputed, Analyzing, AnalysisOver

LEMMA PropagateCopiesOInv == OInv /\ PropagateCopies => OInv'
<1> SUFFICES ASSUME OInv, PropagateCopies PROVE OInv'
  OBVIOUS
<1> DEFINE Followed(i) == [i EXCEPT !.src = [n \in DOMAIN @ |-> Resolved(@[n])]]
           Rewritten(b) == [k \in DOMAIN code[b] |-> Followed(code[b][k])]
<1>1. /\ code' = [b \in Blocks |->
                    IF b \notin present THEN code[b] ELSE Rewritten(b)]
      /\ passChanged' = (passChanged \/ ReadsACopy)
      /\ pass' = "stores" /\ stage' = "edges"
      /\ UNCHANGED <<present, succ, pred, used, defined, liveIn, liveOut, index,
                     changed, iteration, original, block, position, constants>>
  BY DEF PropagateCopies, edgeVars, localVars, liveVars, sweepVars, scanVars
<1>2. OptimizerTypeOK /\ TypeOK /\ CodeShaped
  BY DEF OInv, OptimizerTypeOK
<1>3. ASSUME NEW i \in Instructions
      PROVE  /\ Followed(i) \in Instructions
             /\ Followed(i).kind = i.kind /\ Followed(i).targets = i.targets
  <2>1. /\ i = [kind |-> i.kind, src |-> i.src, dst |-> i.dst, value |-> i.value,
                targets |-> i.targets, pad |-> i.pad, callee |-> i.callee]
        /\ i.kind \in Kinds /\ i.src \in Seq(Variables) /\ i.dst \in Destinations
        /\ i.value \in Int /\ i.targets \in Seq(Targets) /\ i.pad \in Targets
        /\ i.callee \in Destinations
    BY DEF Instructions
  <2> DEFINE src == [n \in DOMAIN i.src |-> Resolved(i.src[n])]
  <2>2. src \in Seq(Variables)
    <3>1. DOMAIN i.src = 1 .. Len(i.src) /\ Len(i.src) \in Nat
      BY <2>1
    <3>2. \A n \in DOMAIN i.src : i.src[n] \in Variables
      BY <2>1
    <3>3. \A n \in DOMAIN i.src : Resolved(i.src[n]) \in Variables
      BY <1>2, <3>2, ResolvedType
    <3>4. src \in [1 .. Len(i.src) -> Variables]
      BY <3>1, <3>3
    <3> HIDE DEF src
    <3> QED
      BY <3>1, <3>4
  <2>3. Followed(i) = [i EXCEPT !.src = src]
    OBVIOUS
  <2> HIDE DEF src, Followed
  <2>4. Followed(i) = [kind |-> i.kind, src |-> src, dst |-> i.dst, value |-> i.value,
                       targets |-> i.targets, pad |-> i.pad, callee |-> i.callee]
    BY <2>1, <2>3
  <2>5. Followed(i) \in Instructions
    BY <2>1, <2>2, <2>4 DEF Instructions
  <2> QED
    BY <2>4, <2>5
<1> HIDE DEF Followed
<1>4. ASSUME NEW b \in Blocks
      PROVE  /\ Rewritten(b) \in Seq(Instructions) /\ Shaped(Rewritten(b))
  <2>1. /\ DOMAIN code[b] = 1 .. Len(code[b]) /\ Len(code[b]) \in Nat
        /\ \A k \in DOMAIN code[b] : code[b][k] \in Instructions
    BY <1>2, CodeType
  <2>2. Rewritten(b) \in [1 .. Len(code[b]) -> Instructions]
    BY <1>3, <2>1
  <2>3. /\ Rewritten(b) \in Seq(Instructions) /\ Len(Rewritten(b)) = Len(code[b])
        /\ DOMAIN Rewritten(b) = DOMAIN code[b]
        /\ \A k \in DOMAIN code[b] : Rewritten(b)[k] = Followed(code[b][k])
    <3>1. /\ DOMAIN Rewritten(b) = DOMAIN code[b]
          /\ \A k \in DOMAIN code[b] : Rewritten(b)[k] = Followed(code[b][k])
      OBVIOUS
    <3> HIDE DEF Rewritten
    <3> QED
      BY <2>1, <2>2, <3>1
  <2>4. Shaped(code[b])
    BY <1>2 DEF CodeShaped
  <2> HIDE DEF Rewritten
  <2>5. Shaped(Rewritten(b))
    BY <1>3, <2>1, <2>3, <2>4 DEF Shaped
  <2> QED
    BY <2>3, <2>5
<1> HIDE DEF Rewritten
<1>5. \A b \in Blocks : code'[b] = IF b \notin present THEN code[b] ELSE Rewritten(b)
  BY <1>1
<1>6. code' \in [Blocks -> Seq(Instructions)]
  BY <1>1, <1>2, <1>4, <1>5 DEF TypeOK
<1>7. CodeShaped'
  BY <1>2, <1>4, <1>5 DEF CodeShaped
<1>8. passChanged' \in BOOLEAN /\ block' \in 0 .. LastBlock + 1
  BY <1>1, <1>2 DEF OptimizerTypeOK
<1> QED
  BY <1>1, <1>6, <1>7, <1>8, RewriteOInv

LEMMA DeadStoresOInv == OInv /\ EliminateDeadStores => OInv'
<1> SUFFICES ASSUME OInv, EliminateDeadStores PROVE OInv'
  OBVIOUS
<1>1. /\ code' = [b \in Blocks |-> IF b \in present THEN Surviving(b) ELSE code[b]]
      /\ passChanged' = (passChanged \/ code' # code)
      /\ pass' = "merge" /\ block' = 0 /\ stage' = "edges"
      /\ UNCHANGED <<present, succ, pred, used, defined, liveIn, liveOut, index,
                     changed, iteration, original, position, constants>>
  BY DEF EliminateDeadStores, edgeVars, localVars, liveVars, sweepVars
<1>2. OptimizerTypeOK /\ TypeOK /\ CodeShaped
  BY DEF OInv, OptimizerTypeOK
<1>3. \A b \in Blocks : Surviving(b) \in Seq(Instructions) /\ Shaped(Surviving(b))
  BY <1>2, SurvivingType
<1>4. \A b \in Blocks : code'[b] = IF b \in present THEN Surviving(b) ELSE code[b]
  BY <1>1
<1>5. code' \in [Blocks -> Seq(Instructions)]
  BY <1>1, <1>2, <1>3, <1>4 DEF TypeOK
<1>6. CodeShaped'
  BY <1>2, <1>3, <1>4 DEF CodeShaped
<1>7. passChanged' \in BOOLEAN /\ block' \in 0 .. LastBlock + 1
  BY <1>1, <1>2, LastBlockType DEF OptimizerTypeOK
<1> QED
  BY <1>1, <1>5, <1>6, <1>7, RewriteOInv

-----------------------------------------------------------------------------
(* The merge of a block and the only one that jumps to it.                 *)

(* What the guard of the merge says of the two blocks.                     *)
LEMMA MergeGuard ==
  ASSUME OInv, MergeBlock
  PROVE  /\ block \in present /\ block \in Blocks
         /\ JumpTarget(block) \in present /\ JumpTarget(block) \in Blocks
         /\ JumpTarget(block) # block
         /\ code[block] # <<>>
         /\ EdgeTargets(Terminator(code[block])) = <<JumpTarget(block)>>
         /\ \A d \in present : d # block => EdgeCount(d, JumpTarget(block)) = 0
         /\ \A s \in present : s # JumpTarget(block) => EdgeCount(block, s) = 0
<1> DEFINE t == JumpTarget(block)
           i == Terminator(code[block])
<1>1. /\ pass = "merge" /\ stage = "done" /\ block \in present /\ code[block] # <<>>
      /\ i.kind = "jump" /\ t \in present \ {Entry, block}
      /\ \E c \in Blocks : pred[t] = [d \in Blocks |-> IF d = c THEN 1 ELSE 0]
  BY DEF MergeBlock, CanMerge
<1>2. /\ TypeOK /\ CodeShaped /\ present \subseteq Blocks
      /\ \A b \in present : /\ succ[b] \cap present = Successors(b)
                            /\ \A s \in present : pred[s][b] = EdgeCount(b, s)
  BY <1>1 DEF OInv, OptimizerTypeOK, TypeOK, EdgesFresh, EdgesBuilt
<1>3. /\ DOMAIN code[block] = 1 .. Len(code[block]) /\ Len(code[block]) \in Nat
      /\ code[block] \in Seq(Instructions)
      /\ \A k \in DOMAIN code[block] : code[block][k] \in Instructions
  BY <1>1, <1>2, CodeType
<1>4. Len(code[block]) \in DOMAIN code[block] /\ i \in Instructions
  BY <1>1, <1>3 DEF Terminator
<1>5. Len(i.targets) = 1 /\ i.targets \in Seq(Targets)
  BY <1>1, <1>2, <1>4 DEF CodeShaped, Shaped, Terminator, Instructions
<1>6. EdgeTargets(i) = <<t>>
  <2>1. EdgeTargets(i) = i.targets
    BY <1>1 DEF EdgeTargets
  <2>2. t = i.targets[1]
    BY DEF JumpTarget
  <2> HIDE DEF t, i
  <2> QED
    BY <1>5, <2>1, <2>2
<1>7. EdgeCount(block, t) = 1
  <2>1. {k \in DOMAIN <<t>> : <<t>>[k] = t} = {1}
    OBVIOUS
  <2>2. EdgeCount(block, t) = Cardinality({k \in DOMAIN <<t>> : <<t>>[k] = t})
    BY <1>1, <1>6 DEF EdgeCount
  <2> QED
    BY <2>1, <2>2, FS_Singleton
<1>8. PICK c \in Blocks : pred[t] = [d \in Blocks |-> IF d = c THEN 1 ELSE 0]
  BY <1>1
<1>9. c = block
  <2>1. pred[t][block] = 1 /\ block \in Blocks
    BY <1>1, <1>2, <1>7
  <2> QED
    BY <1>8, <2>1
<1>10. \A d \in present : d # block => EdgeCount(d, t) = 0
  BY <1>1, <1>2, <1>8, <1>9
<1>11. ASSUME NEW s \in present, s # t PROVE EdgeCount(block, s) = 0
  <2>1. {k \in DOMAIN <<t>> : <<t>>[k] = s} = {}
    BY <1>11
  <2>2. EdgeCount(block, s) = Cardinality({k \in DOMAIN <<t>> : <<t>>[k] = s})
    BY <1>1, <1>6 DEF EdgeCount
  <2> QED
    BY <2>1, <2>2, FS_EmptySet
<1> QED
  BY <1>1, <1>2, <1>6, <1>10, <1>11

(* An instruction that does not lead to t still leads where it did.        *)
LEMMA RetargetKeepsEdges ==
  ASSUME NEW i \in Instructions, NEW t \in Blocks, NEW b \in Blocks
  PROVE  /\ Retarget(i, t, b) \in Instructions
         /\ Retarget(i, t, b).kind = i.kind
         /\ Len(Retarget(i, t, b).targets) = Len(i.targets)
         /\ (\A n \in DOMAIN EdgeTargets(i) : EdgeTargets(i)[n] # t) =>
               EdgeTargets(Retarget(i, t, b)) = EdgeTargets(i)
<1>1. /\ i = [kind |-> i.kind, src |-> i.src, dst |-> i.dst, value |-> i.value,
              targets |-> i.targets, pad |-> i.pad, callee |-> i.callee]
      /\ i.kind \in Kinds /\ i.src \in Seq(Variables) /\ i.dst \in Destinations
      /\ i.value \in Int /\ i.targets \in Seq(Targets) /\ i.pad \in Targets
      /\ i.callee \in Destinations
  BY DEF Instructions
<1> DEFINE to == [n \in DOMAIN i.targets |->
                    IF i.targets[n] = t THEN b ELSE i.targets[n]]
           r == Retarget(i, t, b)
<1>2. DOMAIN i.targets = 1 .. Len(i.targets) /\ Len(i.targets) \in Nat
  BY <1>1
<1>3. to \in Seq(Targets) /\ Len(to) = Len(i.targets)
  <2>1. to \in [1 .. Len(i.targets) -> Targets]
    BY <1>1, <1>2 DEF Targets
  <2> HIDE DEF to
  <2> QED
    BY <1>2, <2>1
<1>4. r = [i EXCEPT !.targets = to]
  BY DEF Retarget
<1>5. (\A n \in DOMAIN i.targets : i.targets[n] # t) => to = i.targets
  <2> SUFFICES ASSUME \A n \in DOMAIN i.targets : i.targets[n] # t
               PROVE  to = i.targets
    OBVIOUS
  <2>1. \A n \in DOMAIN i.targets : to[n] = i.targets[n]
    OBVIOUS
  <2>2. DOMAIN to = DOMAIN i.targets
    OBVIOUS
  <2> HIDE DEF to
  <2> QED
    BY <1>1, <1>3, <2>1, <2>2
<1> HIDE DEF to, r
<1>6. r = [kind |-> i.kind, src |-> i.src, dst |-> i.dst, value |-> i.value,
           targets |-> to, pad |-> i.pad, callee |-> i.callee]
  BY <1>1, <1>4
<1>7. /\ r \in Instructions /\ r.kind = i.kind /\ r.targets = to /\ r.pad = i.pad
  BY <1>1, <1>3, <1>6 DEF Instructions
<1>8. ASSUME \A n \in DOMAIN EdgeTargets(i) : EdgeTargets(i)[n] # t
      PROVE  EdgeTargets(r) = EdgeTargets(i)
  <2>1. CASE i.kind \in {"jump", "branch", "switch"}
    <3>1. EdgeTargets(i) = i.targets
      BY <2>1 DEF EdgeTargets
    <3>2. to = i.targets
      BY <1>5, <1>8, <3>1
    <3> QED
      BY <1>7, <2>1, <3>2 DEF EdgeTargets
  <2>2. CASE i.kind = "invoke"
    <3>1. EdgeTargets(i) = Append(i.targets, i.pad)
      BY <2>2 DEF EdgeTargets
    <3>2. \A n \in DOMAIN i.targets : /\ n \in DOMAIN EdgeTargets(i)
                                      /\ EdgeTargets(i)[n] = i.targets[n]
      BY <1>1, <1>2, <3>1
    <3>3. to = i.targets
      BY <1>5, <1>8, <3>2
    <3> QED
      BY <1>7, <2>2, <3>3 DEF EdgeTargets
  <2>3. CASE i.kind = "throw"
    BY <1>7, <2>3 DEF EdgeTargets
  <2>4. CASE i.kind \notin {"jump", "branch", "switch", "invoke", "throw"}
    BY <1>7, <2>4 DEF EdgeTargets
  <2> QED
    BY <2>1, <2>2, <2>3, <2>4
<1> QED
  BY <1>3, <1>7, <1>8 DEF r

(* The merged block: the first without its jump, then the second.          *)
LEMMA MergedCode ==
  ASSUME OInv, MergeBlock
  PROVE  /\ code'[block] \in Seq(Instructions) /\ Shaped(code'[block])
         /\ code[JumpTarget(block)] # <<>> =>
              /\ code'[block] # <<>>
              /\ EdgeTargets(Terminator(code'[block])) =
                   EdgeTargets(Terminator(code[JumpTarget(block)]))
         /\ code[JumpTarget(block)] = <<>> /\ code'[block] # <<>> =>
              EdgeTargets(Terminator(code'[block])) = <<>>
         /\ \A b \in Blocks : b # block => code'[b] = code[b]
<1> DEFINE t == JumpTarget(block)
           front == code[block]
           m == Len(front) - 1
           back == code[t]
           merged == SubSeq(front, 1, m) \o back
           result == [k \in DOMAIN merged |-> Retarget(merged[k], t, block)]
<1>1. /\ block \in Blocks /\ t \in Blocks /\ front # <<>> /\ t \in present
      /\ t # block /\ EdgeCount(t, t) = 0
  BY MergeGuard
<1>2. TypeOK /\ CodeShaped
  BY DEF OInv, OptimizerTypeOK
<1>3. /\ front \in Seq(Instructions) /\ back \in Seq(Instructions)
      /\ Len(front) \in Nat /\ Len(back) \in Nat
      /\ DOMAIN front = 1 .. Len(front) /\ DOMAIN back = 1 .. Len(back)
      /\ \A k \in DOMAIN front : front[k] \in Instructions
      /\ \A k \in DOMAIN back : back[k] \in Instructions
      /\ Shaped(front) /\ Shaped(back)
  BY <1>1, <1>2, CodeType DEF CodeShaped
<1>4. code' = [code EXCEPT ![block] = result]
  BY DEF MergeBlock
<1>5. code'[block] = result /\ \A b \in Blocks : b # block => code'[b] = code[b]
  BY <1>1, <1>2, <1>4 DEF TypeOK
<1> HIDE DEF t, front, back
<1>6. m \in Nat /\ Len(front) = m + 1
  BY <1>1, <1>3
<1>7. /\ merged \in Seq(Instructions) /\ Len(merged) = m + Len(back)
      /\ DOMAIN merged = 1 .. m + Len(back)
      /\ \A k \in 1 .. m : merged[k] = front[k]
      /\ \A k \in 1 .. Len(back) : merged[m + k] = back[k]
  BY <1>3, <1>6
<1>8. \A k \in DOMAIN merged : merged[k] \in Instructions
  BY <1>7
<1>9. /\ DOMAIN result = DOMAIN merged
      /\ \A k \in DOMAIN merged : result[k] = Retarget(merged[k], t, block)
  OBVIOUS
<1> HIDE DEF merged, result, m
<1>10. /\ result \in Seq(Instructions) /\ Len(result) = m + Len(back)
  <2>1. \A k \in DOMAIN result : result[k] \in Instructions
    BY <1>1, <1>8, <1>9, RetargetKeepsEdges
  <2>2. result \in [1 .. m + Len(back) -> Instructions]
    <3>1. result = [k \in 1 .. m + Len(back) |-> Retarget(merged[k], t, block)]
      BY <1>7 DEF result
    <3> QED
      BY <1>7, <1>9, <2>1, <3>1
  <2> QED
    BY <1>3, <1>6, <2>2
<1>11. ASSUME NEW k \in 1 .. m
       PROVE  result[k].kind \notin Terminators
  <2>1. k \in DOMAIN front /\ k # Len(front) /\ k \in DOMAIN merged
    BY <1>3, <1>6, <1>7
  <2>2. front[k].kind \notin Terminators
    BY <1>3, <2>1 DEF Shaped
  <2>3. result[k] = Retarget(merged[k], t, block) /\ merged[k] = front[k]
    BY <1>7, <1>9, <2>1
  <2>4. Retarget(merged[k], t, block).kind = merged[k].kind
    BY <1>1, <1>8, <2>1, RetargetKeepsEdges
  <2> QED
    BY <2>2, <2>3, <2>4
<1>12. ASSUME NEW k \in 1 .. Len(back)
       PROVE  /\ m + k \in DOMAIN merged
              /\ result[m + k] = Retarget(back[k], t, block)
              /\ result[m + k].kind = back[k].kind
              /\ Len(result[m + k].targets) = Len(back[k].targets)
  <2>1. m + k \in DOMAIN merged
    BY <1>3, <1>6, <1>7
  <2> QED
    BY <1>1, <1>3, <1>7, <1>9, <2>1, RetargetKeepsEdges
<1>13. Shaped(result)
  <2> SUFFICES ASSUME NEW k \in 1 .. m + Len(back)
               PROVE  /\ result[k].kind \in Terminators => k = Len(result)
                      /\ result[k].kind = "jump" => Len(result[k].targets) = 1
    BY <1>7, <1>9 DEF Shaped
  <2>1. CASE k \in 1 .. m
    BY <1>11, <2>1 DEF Terminators
  <2>2. CASE k \notin 1 .. m
    <3> DEFINE l == k - m
    <3>1. l \in 1 .. Len(back) /\ k = m + l
      BY <1>3, <1>6, <2>2
    <3>2. /\ back[l].kind \in Terminators => l = Len(back)
          /\ back[l].kind = "jump" => Len(back[l].targets) = 1
      BY <1>3, <3>1 DEF Shaped
    <3> HIDE DEF l
    <3> QED
      BY <1>10, <1>12, <3>1, <3>2
  <2> QED
    BY <2>1, <2>2
<1>14. ASSUME back # <<>>
       PROVE  result # <<>> /\ EdgeTargets(Terminator(result)) = EdgeTargets(Terminator(back))
  <2>1. Len(back) \in 1 .. Len(back)
    BY <1>3, <1>14
  <2>2. Terminator(result) = Retarget(Terminator(back), t, block)
    BY <1>10, <1>12, <2>1 DEF Terminator
  <2>3. Terminator(back) \in Instructions
    BY <1>3, <2>1 DEF Terminator
  <2>4. ASSUME NEW n \in DOMAIN EdgeTargets(Terminator(back))
        PROVE  EdgeTargets(Terminator(back))[n] # t
    <3>1. t \notin Successors(t)
      BY <1>1 DEF Successors
    <3> QED
      BY <1>1, <1>2, <1>14, <3>1, EdgeMeansTarget DEF back
  <2>5. result # <<>>
    BY <1>3, <1>6, <1>10, <2>1
  <2> QED
    BY <1>1, <2>2, <2>3, <2>4, <2>5, RetargetKeepsEdges
<1>15. ASSUME back = <<>>, result # <<>>
       PROVE  EdgeTargets(Terminator(result)) = <<>>
  <2>1. Len(result) \in 1 .. m
    BY <1>3, <1>6, <1>10, <1>15
  <2>2. Terminator(result).kind \notin Terminators
    BY <1>11, <2>1 DEF Terminator
  <2> QED
    BY <2>2 DEF Terminators, EdgeTargets
<1> QED
  BY <1>5, <1>10, <1>13, <1>14, <1>15 DEF t, back

LEMMA MergeBlockOInv == OInv /\ MergeBlock => OInv'
<1> SUFFICES ASSUME OInv, MergeBlock PROVE OInv'
  OBVIOUS
<1> DEFINE t == JumpTarget(block)
<1>1. /\ pass = "merge" /\ stage = "done"
      /\ succ' = [succ EXCEPT ![block] = succ[t]]
      /\ pred' = MovedEdges(block, t)
      /\ present' = present \ {t}
      /\ passChanged' = TRUE
      /\ UNCHANGED <<used, defined, liveIn, liveOut, index, changed, stage, pass,
                     iteration, original, block, position, constants>>
      /\ DOMAIN code' = DOMAIN code
  BY DEF MergeBlock, localVars, liveVars, sweepVars, scanVars
<1>2. OptimizerTypeOK /\ TypeOK /\ CodeShaped /\ present \subseteq Blocks
  BY DEF OInv, OptimizerTypeOK, TypeOK
<1>3. \A b \in present : /\ succ[b] \cap present = Successors(b)
                         /\ \A s \in present : pred[s][b] = EdgeCount(b, s)
  BY <1>1 DEF OInv, EdgesFresh, EdgesBuilt
<1>4. /\ block \in present /\ block \in Blocks /\ t \in present /\ t \in Blocks
      /\ t # block /\ code[block] # <<>>
      /\ \A d \in present : d # block => EdgeCount(d, t) = 0
      /\ \A s \in present : s # t => EdgeCount(block, s) = 0
  BY MergeGuard
<1>5. /\ code'[block] \in Seq(Instructions) /\ Shaped(code'[block])
      /\ code[t] # <<>> =>
           /\ code'[block] # <<>>
           /\ EdgeTargets(Terminator(code'[block])) = EdgeTargets(Terminator(code[t]))
      /\ code[t] = <<>> /\ code'[block] # <<>> =>
           EdgeTargets(Terminator(code'[block])) = <<>>
      /\ \A b \in Blocks : b # block => code'[b] = code[b]
  BY MergedCode
<1>6. code' = [code EXCEPT ![block] = code'[block]]
  BY DEF MergeBlock
<1> HIDE DEF t
<1>7. \A b \in Blocks, s \in Blocks : EdgeCount(b, s) \in Nat
  BY <1>2, EdgeCountType
<1>8. TypeOK'
  <2>1. code' \in [Blocks -> Seq(Instructions)]
    BY <1>2, <1>5, <1>6 DEF TypeOK
  <2>2. succ' \in [Blocks -> SUBSET Blocks]
    BY <1>1, <1>2, <1>4 DEF TypeOK
  <2>3. pred' \in [Blocks -> [Blocks -> Nat]]
    <3> SUFFICES ASSUME NEW s \in Blocks
                 PROVE  (IF s \in succ[t] \cap present
                         THEN [pred[s] EXCEPT ![t] = 0, ![block] = @ + pred[s][t]]
                         ELSE pred[s]) \in [Blocks -> Nat]
      BY <1>1 DEF MovedEdges
    <3>1. pred[s] \in [Blocks -> Nat]
      BY <1>2 DEF TypeOK
    <3> QED
      BY <1>4, <3>1
  <2>4. present' \subseteq Blocks
    BY <1>1, <1>2
  <2> QED
    BY <1>1, <1>2, <2>1, <2>2, <2>3, <2>4 DEF TypeOK, VariableSets
<1>9. ASSUME NEW b \in present', NEW s \in present'
      PROVE  EdgeCount(b, s)' = IF b = block THEN EdgeCount(t, s) ELSE EdgeCount(b, s)
  <2>1. b \in present /\ s \in present /\ b # t /\ s # t /\ b \in Blocks
    BY <1>1, <1>2
  <2>2. CASE b # block
    <3>1. code'[b] = code[b]
      BY <1>5, <2>1, <2>2
    <3> QED
      BY <1>9, <2>1, <2>2, <3>1 DEF EdgeCount
  <2>3. CASE b = block /\ code[t] # <<>>
    BY <1>4, <1>5, <1>9, <2>1, <2>3 DEF EdgeCount
  <2>4. CASE b = block /\ code[t] = <<>>
    <3>1. EdgeCount(t, s) = 0
      BY <2>4 DEF EdgeCount
    <3>2. CASE code'[block] = <<>>
      BY <2>4, <3>1, <3>2 DEF EdgeCount
    <3>3. CASE code'[block] # <<>>
      <4>1. EdgeTargets(Terminator(code'[block])) = <<>>
        BY <1>5, <2>4, <3>3
      <4>2. {k \in DOMAIN <<>> : <<>>[k] = s} = {}
        OBVIOUS
      <4>3. EdgeCount(b, s)' = Cardinality({k \in DOMAIN <<>> : <<>>[k] = s})
        BY <1>9, <2>4, <3>3, <4>1 DEF EdgeCount
      <4> QED
        BY <2>4, <3>1, <4>2, <4>3, FS_EmptySet
    <3> QED
      BY <3>2, <3>3
  <2> QED
    BY <2>2, <2>3, <2>4
<1>10. EdgesBuilt'
  <2> SUFFICES ASSUME NEW b \in present'
               PROVE  /\ succ'[b] \cap present' = Successors(b)'
                      /\ \A s \in present' : pred'[s][b] = EdgeCount(b, s)'
    BY DEF EdgesBuilt
  <2>1. b \in present /\ b # t /\ b \in Blocks
    BY <1>1, <1>2
  <2> DEFINE from == IF b = block THEN t ELSE b
  <2>2. succ'[b] = succ[from] /\ from \in present /\ from \in Blocks
    BY <1>1, <1>2, <1>4, <2>1 DEF TypeOK
  <2>3. Successors(b)' = {s \in present' : EdgeCount(from, s) > 0}
    <3>1. Successors(b)' = {s \in Blocks : EdgeCount(b, s)' > 0}
      BY DEF Successors
    <3>2. \A s \in Blocks : s \notin present' => EdgeCount(b, s)' = 0
      BY DEF EdgeCount
    <3>3. present' \subseteq Blocks
      BY <1>1, <1>2
    <3>4. \A s \in present' : EdgeCount(b, s)' = EdgeCount(from, s)
      BY <1>9
    <3> HIDE DEF from
    <3> QED
      BY <3>1, <3>2, <3>3, <3>4
  <2>4. succ[from] \cap present = {s \in Blocks : EdgeCount(from, s) > 0}
    BY <1>3, <2>2 DEF Successors
  <2>5. succ'[b] \cap present' = Successors(b)'
    <3> HIDE DEF from
    <3> QED
      BY <1>1, <1>2, <2>2, <2>3, <2>4
  <2>6. ASSUME NEW s \in present'
        PROVE  pred'[s][b] = EdgeCount(b, s)'
    <3>1. s \in present /\ s # t /\ s \in Blocks
      BY <1>1, <1>2
    <3>2. pred'[s] = IF s \in succ[t] \cap present
                     THEN [pred[s] EXCEPT ![t] = 0, ![block] = @ + pred[s][t]]
                     ELSE pred[s]
      BY <1>1, <3>1 DEF MovedEdges
    <3>3. /\ pred[s] \in [Blocks -> Nat] /\ pred[s][b] = EdgeCount(b, s)
          /\ pred[s][t] = EdgeCount(t, s) /\ pred[s][block] = 0
      BY <1>2, <1>3, <1>4, <2>1, <3>1 DEF TypeOK
    <3>4. CASE b # block
      <4>1. pred'[s][b] = pred[s][b]
        BY <2>1, <3>2, <3>3, <3>4
      <4> QED
        BY <1>9, <3>3, <3>4, <4>1
    <3>5. CASE b = block /\ s \in succ[t] \cap present
      <4>1. pred'[s][b] = pred[s][block] + pred[s][t]
        BY <1>4, <3>2, <3>3, <3>5
      <4> QED
        BY <1>4, <1>7, <1>9, <3>1, <3>3, <3>5, <4>1
    <3>6. CASE b = block /\ s \notin succ[t] \cap present
      <4>1. EdgeCount(t, s) = 0
        <5>1. s \notin Successors(t)
          BY <1>3, <1>4, <3>6
        <5> QED
          BY <1>4, <1>7, <3>1, <5>1 DEF Successors
      <4> QED
        BY <1>9, <3>2, <3>3, <3>6, <4>1
    <3> QED
      BY <3>4, <3>5, <3>6
  <2> QED
    BY <2>5, <2>6
<1>11. CodeShaped'
  BY <1>2, <1>5 DEF CodeShaped
<1>12. OptimizerTypeOK'
  BY <1>1, <1>2, <1>8 DEF OptimizerTypeOK
<1> QED
  BY <1>1, <1>10, <1>11, <1>12
     DEF OInv, SweepProgress, EdgesFresh, SetsFresh, AnalysisOver

-----------------------------------------------------------------------------
(* The theorems.                                                           *)

LEMMA OptimizerNextOInv == OInv /\ [OptimizerNext]_allVars => OInv'
<1> SUFFICES ASSUME OInv, [OptimizerNext]_allVars PROVE OInv'
  OBVIOUS
<1>1. CASE UNCHANGED allVars
  <2>1. UNCHANGED <<code, present, succ, pred, used, defined, liveIn, liveOut, index,
                    changed, stage, pass, iteration, passChanged, original, block,
                    position, constants>>
    BY <1>1 DEF allVars, vars, edgeVars, localVars, liveVars, sweepVars,
                optimizerVars, driverVars, scanVars
  <2>2. /\ TypeOK' = TypeOK /\ SweepProgress' = SweepProgress
        /\ EdgesBuilt' = EdgesBuilt /\ CodeShaped' = CodeShaped
        /\ SolvesEquations' = SolvesEquations /\ LocalsComputed' = LocalsComputed
    BY <2>1 DEF TypeOK, SweepProgress, Balanced, ExitOf, EntryOf, EdgesBuilt,
                Successors, EdgeCount, CodeShaped, SolvesEquations, LocalsComputed,
                Analyzing
  <2>3. OptimizerTypeOK'
    BY <2>1, <2>2 DEF OInv, OptimizerTypeOK
  <2> QED
    BY <2>1, <2>2, <2>3 DEF OInv, EdgesFresh, SetsFresh, AnalysisOver
<1>2. CASE Optimize
  BY <1>2, ReanalyzeOInv, DriverStepOInv, UnreachableOInv, FoldNextOInv,
     PropagateCopiesOInv, DeadStoresOInv, MergeBlockOInv DEF Optimize
<1> QED
  BY <1>1, <1>2 DEF OptimizerNext, Optimized

THEOREM OptimizerInvariance == OptimizerSpec => []OInv
<1>1. OptimizerInit => OInv
  BY OptimizerInitOInv
<1>2. OInv /\ [OptimizerNext]_allVars => OInv'
  BY OptimizerNextOInv
<1> QED
  BY <1>1, <1>2, PTL DEF OptimizerSpec

(* Whatever the passes make of a function is one again: every instruction  *)
(* they fold, rewrite, keep or retarget is an instruction, every copy is   *)
(* resolved to a variable (optimizer.cpp:143-154), and no scan leaves the  *)
(* blocks.                                                                 *)
THEOREM OptimizerTypeCorrect == OptimizerSpec => []OptimizerTypeOK
<1>1. OInv => OptimizerTypeOK
  BY DEF OInv
<1> QED
  BY <1>1, OptimizerInvariance, PTL

(* Where a pass reads the edges they are those of the code, although each  *)
(* merge only moves the ones of the block it removes                       *)
(* (optimizer.cpp:463-476, 520-524).                                       *)
THEOREM EdgesKeptCorrect == OptimizerSpec => []EdgesMatchCode
<1>1. OInv => EdgesMatchCode
  BY DEF OInv, EdgesFresh, AnalysisOver, EdgesBuilt, EdgesMatchCode
<1> QED
  BY <1>1, OptimizerInvariance, PTL

(* An execution that has passed instruction k of b can read v before it    *)
(* writes it: in the rest of b, or where it goes when it leaves b.         *)
ReadLater(v, b, k) ==
  \E j \in k + 1 .. Len(code[b]) :
    /\ \A i \in k + 1 .. j - 1 : code[b][i].dst # v
    /\ \/ v \in Reads(code[b][j])
       \/ \E t \in present :
            /\ OnPath(v, t)
            /\ \/ t = code[b][j].pad
               \/ code[b][j].dst # v /\ \E n \in DOMAIN code[b][j].targets :
                                           code[b][j].targets[n] = t

(* In a function whose blocks are left at their last instruction only, no  *)
(* store is removed whose variable an execution could still read, although *)
(* the sets that decide it come from an analysis that starts on those of   *)
(* the code before it was rewritten (optimizer.cpp:58-60, 86-100). An      *)
(* await in a try leaves its block halfway: the hypothesis is false there, *)
(* and the optimizer may be wrong (the run mir_await_try).                 *)
THEOREM RemovedStoresAreDead ==
  OptimizerSpec =>
    [](pass = "stores" /\ stage = "done" /\ ControlLeavesAtEnd =>
         \A b \in present : \A k \in DOMAIN code[b] :
           DeadStore(b, k) => ~ReadLater(code[b][k].dst, b, k))
<1>1. ASSUME OInv, pass = "stores", stage = "done", ControlLeavesAtEnd,
             NEW b \in present, NEW k \in DOMAIN code[b], DeadStore(b, k),
             ReadLater(code[b][k].dst, b, k)
      PROVE  FALSE
  <2> DEFINE v == code[b][k].dst
  <2>1. /\ TypeOK /\ EdgesBuilt /\ SolvesEquations /\ LocalsComputed
        /\ b \in Blocks /\ present \subseteq Blocks
    BY <1>1 DEF OInv, OptimizerTypeOK, EdgesFresh, SetsFresh, TypeOK
  <2>2. /\ DOMAIN code[b] = 1 .. Len(code[b]) /\ Len(code[b]) \in Nat
        /\ code[b][k] \in Instructions
    BY <1>1, <2>1, CodeType
  <2>3. /\ v \in Variables /\ v # NoVariable /\ v \notin ReadAfter(b, k)
        /\ v \notin liveOut[b] \ WrittenBetween(b, k, Len(code[b]) + 1)
    BY <1>1, <2>2 DEF DeadStore, NeededAfter, Instructions, Destinations
  <2> HIDE DEF v
  <2>4. PICK j \in k + 1 .. Len(code[b]) :
          /\ \A i \in k + 1 .. j - 1 : code[b][i].dst # v
          /\ \/ v \in Reads(code[b][j])
             \/ \E t \in present :
                  /\ OnPath(v, t)
                  /\ \/ t = code[b][j].pad
                     \/ code[b][j].dst # v /\ \E n \in DOMAIN code[b][j].targets :
                                                 code[b][j].targets[n] = t
    BY <1>1 DEF ReadLater, v
  <2>5. j \in DOMAIN code[b]
    BY <1>1, <2>2
  <2>6. v \notin Reads(code[b][j])
    <3>1. v \notin WrittenBetween(b, k, j)
      BY <2>4 DEF WrittenBetween
    <3> QED
      BY <2>3, <3>1 DEF ReadAfter
  <2>7. PICK t \in present :
          /\ OnPath(v, t)
          /\ \/ t = code[b][j].pad
             \/ code[b][j].dst # v /\ \E n \in DOMAIN code[b][j].targets :
                                         code[b][j].targets[n] = t
    BY <2>4, <2>6
  <2>8. /\ j = Len(code[b])
        /\ t \in {EdgeTargets(code[b][j])[n] : n \in DOMAIN EdgeTargets(code[b][j])}
        /\ code[b][j].dst # NoVariable /\ code[b][j].pad \in present =>
             ~OnPath(code[b][j].dst, code[b][j].pad)
    BY <1>1, <2>5, <2>7 DEF ControlLeavesAtEnd
  <2>9. code[b][j].dst # v
    BY <2>3, <2>7, <2>8
  <2>10. v \notin WrittenBetween(b, k, Len(code[b]) + 1)
    <3> SUFFICES ASSUME NEW i \in k + 1 .. Len(code[b]) PROVE code[b][i].dst # v
      BY <2>2 DEF WrittenBetween
    <3>1. i \in k + 1 .. j - 1 \/ i = j
      BY <1>1, <2>2, <2>8
    <3> QED
      BY <2>4, <2>9, <3>1
  <2>11. t \in Successors(b)
    <3>1. code[b][j] = Terminator(code[b]) /\ code[b] # <<>> /\ t \in Blocks
      BY <2>1, <2>5, <2>8 DEF Terminator
    <3> QED
      BY <1>1, <2>1, <2>8, <3>1, EdgeMeansTarget
  <2>12. v \in liveIn[t]
    BY <1>1, <2>1, <2>3, <2>7, SolutionCoversPaths
  <2>13. t \in succ[b] \cap present
    BY <1>1, <2>1, <2>11 DEF EdgesBuilt
  <2>14. liveOut[b] = ExitOf(liveIn, b)
    BY <1>1, <2>1 DEF SolvesEquations
  <2>15. v \in liveOut[b]
    BY <2>12, <2>13, <2>14 DEF ExitOf
  <2> QED
    BY <2>3, <2>10, <2>15
<1>2. OInv => (pass = "stores" /\ stage = "done" /\ ControlLeavesAtEnd =>
                 \A b \in present : \A k \in DOMAIN code[b] :
                   DeadStore(b, k) => ~ReadLater(code[b][k].dst, b, k))
  BY <1>1
<1> QED
  BY <1>2, OptimizerInvariance, PTL

-----------------------------------------------------------------------------
(* The blocks that the code leads to.                                      *)

(* Where the end of a block leads.                                         *)
Ends(instructions) ==
  IF instructions = <<>> THEN {}
  ELSE {EdgeTargets(Terminator(instructions))[n] :
          n \in DOMAIN EdgeTargets(Terminator(instructions))}

LEMMA EdgesLeadByEnds ==
  EdgesLeadToBlocks <=>
    /\ Entry \in present
    /\ \A b \in present : Ends(code[b]) \subseteq present \cup {NoBlock}
BY DEF EdgesLeadToBlocks, Ends

LEMMA NextEdgesLeadByEnds ==
  EdgesLeadToBlocks' <=>
    /\ Entry \in present'
    /\ \A b \in present' : Ends(code'[b]) \subseteq present' \cup {NoBlock}
BY DEF EdgesLeadToBlocks, Ends

LEMMA EndsAreEdges ==
  ASSUME TypeOK, NEW b \in present, NEW t \in present
  PROVE  t \in Ends(code[b]) <=> t \in Successors(b)
<1>1. b \in Blocks /\ t \in Blocks
  BY DEF TypeOK
<1> QED
  BY <1>1, EdgeMeansTarget DEF Ends

(* A pass that removes no block and gives none a new end.                  *)
LEMMA RewriteKeepsEnds ==
  ASSUME EdgesLeadToBlocks, present' = present,
         \A b \in present : Ends(code'[b]) \subseteq Ends(code[b])
  PROVE  EdgesLeadToBlocks'
BY EdgesLeadByEnds, NextEdgesLeadByEnds

(* The end of a shaped block is its only terminator.                       *)
LEMMA EndIsTerminator ==
  ASSUME NEW new, NEW old, Shaped(old), DOMAIN old = 1 .. Len(old), Len(old) \in Nat,
         NEW k \in DOMAIN old, new # <<>>,
         Terminator(new).kind \in Terminators => Terminator(new) = old[k]
  PROVE  Ends(new) \subseteq Ends(old)
<1>1. CASE Terminator(new).kind \in Terminators
  <2>1. k = Len(old)
    BY <1>1 DEF Shaped
  <2>2. Terminator(new) = Terminator(old) /\ old # <<>>
    BY <1>1, <2>1 DEF Terminator
  <2> QED
    BY <2>2 DEF Ends
<1>2. CASE Terminator(new).kind \notin Terminators
  BY <1>2 DEF Ends, EdgeTargets, Terminators
<1> QED
  BY <1>1, <1>2

LEMMA FoldNextEnds ==
  ASSUME OInv, EdgesLeadToBlocks, FoldNext
  PROVE  EdgesLeadToBlocks'
<1> DEFINE c == code[block]
           old == c[position]
           new == IF CanFold(old) THEN Fold(old) ELSE old
           result == [c EXCEPT ![position] = new]
<1>1. /\ block \in present /\ position \in DOMAIN c /\ present' = present
      /\ code' = [code EXCEPT ![block][position] = new]
  BY DEF FoldNext
<1>2. OptimizerTypeOK /\ TypeOK /\ CodeShaped /\ block \in Blocks
  BY <1>1 DEF OInv, OptimizerTypeOK, TypeOK
<1>3. /\ c \in Seq(Instructions) /\ Len(c) \in Nat /\ DOMAIN c = 1 .. Len(c)
      /\ old \in Instructions /\ Shaped(c)
  BY <1>1, <1>2, CodeType DEF CodeShaped
<1>4. new \in Instructions /\ (new.kind \notin Terminators \/ new = old)
  BY <1>2, <1>3, FoldType DEF Terminators
<1> HIDE DEF new, old
<1>5. code' = [code EXCEPT ![block] = result]
  BY <1>1
<1> HIDE DEF c
<1>6. /\ result \in Seq(Instructions) /\ Len(result) = Len(c)
      /\ result[position] = new
      /\ \A k \in DOMAIN c : k # position => result[k] = c[k]
  BY <1>1, <1>3, <1>4
<1> HIDE DEF result
<1>7. Len(c) \in DOMAIN c /\ result # <<>>
  BY <1>1, <1>3, <1>6
<1>8. Terminator(result).kind \in Terminators => Terminator(result) = c[Len(c)]
  <2>1. Terminator(result) = result[Len(c)]
    BY <1>6 DEF Terminator
  <2>2. CASE position = Len(c)
    BY <1>4, <1>6, <2>1, <2>2 DEF old
  <2>3. CASE position # Len(c)
    BY <1>6, <1>7, <2>1, <2>3
  <2> QED
    BY <2>2, <2>3
<1>9. Ends(result) \subseteq Ends(c)
  BY <1>3, <1>7, <1>8, EndIsTerminator
<1>10. \A b \in present : code'[b] = IF b = block THEN result ELSE code[b]
  BY <1>2, <1>5 DEF TypeOK
<1>11. \A b \in present : Ends(code'[b]) \subseteq Ends(code[b])
  BY <1>9, <1>10 DEF c
<1> QED
  BY <1>1, <1>11, RewriteKeepsEnds

LEMMA PropagateCopiesEnds ==
  ASSUME OInv, EdgesLeadToBlocks, PropagateCopies
  PROVE  EdgesLeadToBlocks'
<1> DEFINE Followed(i) == [i EXCEPT !.src = [n \in DOMAIN @ |-> Resolved(@[n])]]
<1>1. /\ present' = present
      /\ \A b \in Blocks : b \in present =>
           code'[b] = [k \in DOMAIN code[b] |-> Followed(code[b][k])]
  BY DEF PropagateCopies
<1>2. TypeOK /\ present \subseteq Blocks
  BY DEF OInv, OptimizerTypeOK, TypeOK
<1>3. ASSUME NEW i \in Instructions
      PROVE  EdgeTargets(Followed(i)) = EdgeTargets(i)
  <2> DEFINE src == [n \in DOMAIN i.src |-> Resolved(i.src[n])]
  <2>1. Followed(i) = [i EXCEPT !.src = src]
    OBVIOUS
  <2> HIDE DEF Followed, src
  <2>2. /\ Followed(i).kind = i.kind /\ Followed(i).targets = i.targets
        /\ Followed(i).pad = i.pad
    BY <2>1 DEF Instructions
  <2> QED
    BY <2>2 DEF EdgeTargets
<1> HIDE DEF Followed
<1>4. TypeOK'
  BY PropagateCopiesOInv DEF OInv, OptimizerTypeOK
<1>5. ASSUME NEW b \in present
      PROVE  Ends(code'[b]) \subseteq Ends(code[b])
  <2>1. /\ code[b] \in Seq(Instructions) /\ Len(code[b]) \in Nat
        /\ DOMAIN code[b] = 1 .. Len(code[b])
        /\ \A k \in DOMAIN code[b] : code[b][k] \in Instructions
    BY <1>2, CodeType
  <2>2. /\ code'[b] \in Seq(Instructions)
        /\ DOMAIN code'[b] = DOMAIN code[b]
        /\ \A k \in DOMAIN code[b] : code'[b][k] = Followed(code[b][k])
    BY <1>1, <1>2, <1>4 DEF TypeOK
  <2>3. CASE code'[b] = <<>>
    BY <2>3 DEF Ends
  <2>4. CASE code'[b] # <<>>
    <3>1. Len(code'[b]) \in DOMAIN code'[b] /\ DOMAIN code'[b] = 1 .. Len(code'[b])
      BY <2>2, <2>4
    <3>2. Len(code'[b]) = Len(code[b]) /\ code[b] # <<>> /\ Len(code[b]) \in DOMAIN code[b]
      BY <2>1, <2>2, <3>1
    <3>3. EdgeTargets(Terminator(code'[b])) = EdgeTargets(Terminator(code[b]))
      BY <1>3, <2>1, <2>2, <3>2 DEF Terminator
    <3> QED
      BY <2>4, <3>2, <3>3 DEF Ends
  <2> QED
    BY <2>3, <2>4
<1> QED
  BY <1>1, <1>5, RewriteKeepsEnds

LEMMA DeadStoresEnds ==
  ASSUME OInv, EdgesLeadToBlocks, EliminateDeadStores
  PROVE  EdgesLeadToBlocks'
<1>1. present' = present /\ \A b \in Blocks : b \in present => code'[b] = Surviving(b)
  BY DEF EliminateDeadStores
<1>2. TypeOK /\ CodeShaped /\ present \subseteq Blocks
  BY DEF OInv, OptimizerTypeOK, TypeOK
<1>3. ASSUME NEW b \in present
      PROVE  Ends(code'[b]) \subseteq Ends(code[b])
  <2>1. /\ code[b] \in Seq(Instructions) /\ Len(code[b]) \in Nat
        /\ DOMAIN code[b] = 1 .. Len(code[b]) /\ Shaped(code[b])
    BY <1>2, CodeType DEF CodeShaped
  <2>2. /\ code'[b] = Surviving(b) /\ Surviving(b) \in Seq(Instructions)
        /\ \A n \in DOMAIN Surviving(b) : \E k \in DOMAIN code[b] :
             Surviving(b)[n] = code[b][k]
    BY <1>1, <1>2, SurvivingType
  <2>3. CASE Surviving(b) = <<>>
    BY <2>2, <2>3 DEF Ends
  <2>4. CASE Surviving(b) # <<>>
    <3>1. Len(Surviving(b)) \in DOMAIN Surviving(b)
      BY <2>2, <2>4
    <3>2. PICK k \in DOMAIN code[b] : Terminator(Surviving(b)) = code[b][k]
      BY <2>2, <3>1 DEF Terminator
    <3> QED
      BY <2>1, <2>2, <2>4, <3>2, EndIsTerminator
  <2> QED
    BY <2>3, <2>4
<1> QED
  BY <1>1, <1>3, RewriteKeepsEnds

(* The worklist follows the edges, and the edges are those of the code.    *)
LEMMA UnreachableEnds ==
  ASSUME OInv, EdgesLeadToBlocks, EliminateUnreachableBlocks
  PROVE  EdgesLeadToBlocks'
<1>1. /\ pass = "unreachable" /\ present' = present \ (present \ Reachable)
      /\ code' = code
  BY DEF EliminateUnreachableBlocks
<1>2. /\ TypeOK /\ present \subseteq Blocks
      /\ \A b \in present : succ[b] \cap present = Successors(b)
  BY <1>1 DEF OInv, OptimizerTypeOK, TypeOK, EdgesFresh, EdgesBuilt, AnalysisOver
<1>3. /\ Entry \in present
      /\ \A b \in present : Ends(code[b]) \subseteq present \cup {NoBlock}
  BY EdgesLeadByEnds
<1>4. Entry \in Reachable
  BY <1>2, <1>3 DEF Reachable
<1>5. ASSUME NEW b \in present, b \in Reachable, NEW t \in present, t \in succ[b]
      PROVE  t \in Reachable
  <2>1. t \in Blocks
    BY <1>2
  <2>2. ASSUME NEW R \in SUBSET Blocks, Entry \in R,
               \A c \in R \cap present : succ[c] \subseteq R
        PROVE  t \in R
    <3>1. b \in R
      BY <1>5, <2>2 DEF Reachable
    <3> QED
      BY <1>5, <2>2, <3>1
  <2> QED
    BY <2>1, <2>2 DEF Reachable
<1>6. ASSUME NEW b \in present'
      PROVE  Ends(code[b]) \subseteq present' \cup {NoBlock}
  <2>1. b \in present /\ b \in Reachable
    BY <1>1
  <2> SUFFICES ASSUME NEW t \in Ends(code[b]), t # NoBlock PROVE t \in present'
    OBVIOUS
  <2>2. t \in present
    BY <1>3, <2>1
  <2>3. t \in succ[b]
    BY <1>2, <2>1, <2>2, EndsAreEdges
  <2>4. t \in Reachable
    BY <1>5, <2>1, <2>2, <2>3
  <2> QED
    BY <1>1, <2>2, <2>4
<1>7. Entry \in present'
  BY <1>1, <1>3, <1>4
<1> QED
  BY <1>1, <1>6, <1>7, NextEdgesLeadByEnds

(* The block that a merge removes had one edge, and that is gone.          *)
LEMMA MergeBlockEnds ==
  ASSUME OInv, EdgesLeadToBlocks, MergeBlock
  PROVE  EdgesLeadToBlocks'
<1> DEFINE t == JumpTarget(block)
<1>1. /\ block \in present /\ t \in present /\ t # Entry /\ t # block
      /\ present' = present \ {t}
  BY DEF MergeBlock, CanMerge
<1>2. TypeOK /\ present \subseteq Blocks
  BY DEF OInv, OptimizerTypeOK, TypeOK
<1>3. \A d \in present : d # block => EdgeCount(d, t) = 0
  BY MergeGuard
<1>4. /\ code[t] # <<>> =>
           /\ code'[block] # <<>>
           /\ EdgeTargets(Terminator(code'[block])) = EdgeTargets(Terminator(code[t]))
      /\ code[t] = <<>> /\ code'[block] # <<>> =>
           EdgeTargets(Terminator(code'[block])) = <<>>
      /\ \A b \in Blocks : b # block => code'[b] = code[b]
  BY MergedCode
<1> HIDE DEF t
<1>5. /\ Entry \in present
      /\ \A b \in present : Ends(code[b]) \subseteq present \cup {NoBlock}
  BY EdgesLeadByEnds
<1>6. ASSUME NEW d \in present, d # block
      PROVE  Ends(code[d]) \subseteq present' \cup {NoBlock}
  <2>1. t \notin Successors(d)
    BY <1>1, <1>2, <1>3, <1>6 DEF Successors
  <2>2. t \notin Ends(code[d])
    BY <1>1, <1>2, <2>1, EndsAreEdges
  <2> QED
    BY <1>1, <1>5, <2>2
<1>7. Ends(code'[block]) \subseteq Ends(code[t])
  <2>1. CASE code[t] # <<>>
    BY <1>4, <2>1 DEF Ends
  <2>2. CASE code[t] = <<>> /\ code'[block] # <<>>
    <3>1. EdgeTargets(Terminator(code'[block])) = <<>>
      BY <1>4, <2>2
    <3> QED
      BY <3>1 DEF Ends
  <2>3. CASE code'[block] = <<>>
    BY <2>3 DEF Ends
  <2> QED
    BY <2>1, <2>2, <2>3
<1>8. ASSUME NEW b \in present'
      PROVE  Ends(code'[b]) \subseteq present' \cup {NoBlock}
  <2>1. CASE b = block
    BY <1>1, <1>6, <1>7, <2>1
  <2>2. CASE b # block
    BY <1>1, <1>2, <1>4, <1>6, <2>2
  <2> QED
    BY <2>1, <2>2
<1> QED
  BY <1>1, <1>5, <1>8, NextEdgesLeadByEnds

LEMMA OptimizerNextEnds ==
  OInv /\ EdgesLeadToBlocks /\ [OptimizerNext]_allVars => EdgesLeadToBlocks'
<1> SUFFICES ASSUME OInv, EdgesLeadToBlocks, [OptimizerNext]_allVars
             PROVE  EdgesLeadToBlocks'
  OBVIOUS
<1>1. CASE FoldNext
  BY <1>1, FoldNextEnds
<1>2. CASE PropagateCopies \/ EliminateDeadStores
  BY <1>2, PropagateCopiesEnds, DeadStoresEnds
<1>3. CASE EliminateUnreachableBlocks \/ MergeBlock
  BY <1>3, UnreachableEnds, MergeBlockEnds
<1>4. CASE \/ Reanalyze \/ StartOptimizing \/ FoldNextBlock \/ FoldDone
           \/ MergeNextBlock \/ IterateAgain \/ Finish \/ UNCHANGED allVars
  <2>1. Reanalyze => UNCHANGED <<code, present>>
    BY AnalyzeFixesCode DEF Reanalyze
  <2>2. \/ StartOptimizing \/ FoldNextBlock \/ FoldDone \/ MergeNextBlock
        \/ IterateAgain \/ Finish \/ UNCHANGED allVars
        => UNCHANGED <<code, present>>
    BY DEF StartOptimizing, FoldNextBlock, FoldDone, MergeNextBlock,
           IterateAgain, Finish, allVars, vars
  <2>3. UNCHANGED <<code, present>>
    BY <1>4, <2>1, <2>2
  <2> QED
    BY <2>3, RewriteKeepsEnds
<1> QED
  BY <1>1, <1>2, <1>3, <1>4 DEF OptimizerNext, Optimize, Optimized

LEMMA OptimizerInitEnds == OptimizerInit => EdgesLeadToBlocks
<1> SUFFICES ASSUME OptimizerInit PROVE EdgesLeadToBlocks
  OBVIOUS
<1>1. TypeOK /\ present = Blocks
  BY InitTypeOK DEF OptimizerInit, Init
<1>2. Entry \in present
  BY <1>1, LastBlockType DEF Entry, Blocks
<1>3. ASSUME NEW b \in Blocks, code[b] # <<>>
      PROVE  EdgeTargets(Terminator(code[b])) \in Seq(Targets)
  <2> DEFINE i == Terminator(code[b])
  <2>1. Len(code[b]) \in DOMAIN code[b]
    BY <1>1, <1>3, CodeType
  <2>2. i \in Instructions
    BY <1>1, <2>1, CodeType DEF Terminator
  <2>3. i.targets \in Seq(Targets) /\ i.pad \in Targets
    BY <2>2 DEF Instructions
  <2>4. Append(i.targets, i.pad) \in Seq(Targets) /\ <<i.pad>> \in Seq(Targets)
    BY <2>3
  <2> QED
    BY <2>3, <2>4 DEF EdgeTargets
<1>4. ASSUME NEW b \in Blocks PROVE Ends(code[b]) \subseteq Targets
  <2>1. CASE code[b] = <<>>
    BY <2>1 DEF Ends
  <2>2. CASE code[b] # <<>>
    <3> DEFINE to == EdgeTargets(Terminator(code[b]))
    <3>1. to \in Seq(Targets)
      BY <1>3, <2>2
    <3> HIDE DEF to
    <3>2. \A n \in DOMAIN to : to[n] \in Targets
      BY <3>1
    <3> QED
      BY <2>2, <3>2 DEF Ends, to
  <2> QED
    BY <2>1, <2>2
<1> QED
  BY <1>1, <1>2, <1>4, EdgesLeadByEnds DEF Targets

(* Whatever the function, no pass leaves a jump, an invoke or a throw that *)
(* leads to a block it removed, and the entry stays: the edges by which    *)
(* eliminateUnreachableBlocks and mergeLinearBlocks judge are those of the *)
(* code (optimizer.cpp:452, 523-547).                                      *)
THEOREM EdgesLeadCorrect == OptimizerSpec => []EdgesLeadToBlocks
<1>1. OptimizerInit => EdgesLeadToBlocks
  BY OptimizerInitEnds
<1>2. OInv /\ EdgesLeadToBlocks /\ [OptimizerNext]_allVars => EdgesLeadToBlocks'
  BY OptimizerNextEnds
<1> QED
  BY <1>1, <1>2, OptimizerInvariance, PTL DEF OptimizerSpec

-----------------------------------------------------------------------------
(* The blocks that nothing reaches.                                        *)

(* An execution can come to b from the entry, as the ends of the blocks    *)
(* say.                                                                    *)
EntryPath(b, n, path) ==
  /\ path \in [1 .. n -> present]
  /\ path[1] = Entry /\ path[n] = b
  /\ \A i \in 1 .. n - 1 : path[i + 1] \in Ends(code[path[i]])

OnEntryPath(b) == \E n \in Nat \ {0} : \E path : EntryPath(b, n, path)

LEMMA ExtendEntryPath ==
  ASSUME NEW b \in present, OnEntryPath(b), NEW t \in present, t \in Ends(code[b])
  PROVE  OnEntryPath(t)
<1>1. PICK n \in Nat \ {0} : \E path : EntryPath(b, n, path)
  BY DEF OnEntryPath
<1>2. PICK path : EntryPath(b, n, path)
  BY <1>1
<1> DEFINE longer == [i \in 1 .. n + 1 |-> IF i = n + 1 THEN t ELSE path[i]]
<1>3. /\ path \in [1 .. n -> present] /\ path[1] = Entry /\ path[n] = b
      /\ \A i \in 1 .. n - 1 : path[i + 1] \in Ends(code[path[i]])
  BY <1>2 DEF EntryPath
<1>4. /\ longer \in [1 .. n + 1 -> present]
      /\ longer[1] = Entry /\ longer[n + 1] = t
      /\ \A i \in 1 .. n : longer[i] = path[i]
  BY <1>3
<1> HIDE DEF longer
<1>5. ASSUME NEW i \in 1 .. n PROVE longer[i + 1] \in Ends(code[longer[i]])
  <2>1. CASE i = n
    BY <1>3, <1>4, <2>1
  <2>2. CASE i # n
    <3>1. i \in 1 .. n - 1 /\ i + 1 \in 1 .. n
      BY <2>2
    <3> QED
      BY <1>3, <1>4, <3>1
  <2> QED
    BY <2>1, <2>2
<1>6. EntryPath(t, n + 1, longer)
  BY <1>4, <1>5 DEF EntryPath
<1> QED
  BY <1>6 DEF OnEntryPath

(* What the worklist visits is what the paths of the code visit.           *)
LEMMA ReachableIsOnPath ==
  ASSUME TypeOK, Entry \in present,
         \A b \in present : succ[b] \cap present = Successors(b),
         NEW b \in present
  PROVE  b \in Reachable <=> OnEntryPath(b)
<1>1. present \subseteq Blocks
  BY DEF TypeOK
<1>2. ASSUME b \in Reachable PROVE OnEntryPath(b)
  <2> DEFINE R == {c \in Blocks : c \in present => OnEntryPath(c)}
  <2>1. OnEntryPath(Entry)
    <3> DEFINE path == [i \in 1 .. 1 |-> Entry]
    <3>1. EntryPath(Entry, 1, path)
      BY DEF EntryPath
    <3> HIDE DEF path
    <3> QED
      BY <3>1 DEF OnEntryPath
  <2>2. Entry \in R
    BY <1>1, <2>1
  <2>3. ASSUME NEW c \in R \cap present, NEW t \in succ[c] PROVE t \in R
    <3>1. t \in Blocks
      BY <1>1 DEF TypeOK
    <3>2. ASSUME t \in present PROVE OnEntryPath(t)
      <4>1. t \in Ends(code[c])
        BY <2>3, <3>2, EndsAreEdges
      <4> QED
        BY <2>3, <3>2, <4>1, ExtendEntryPath
    <3> QED
      BY <3>1, <3>2
  <2>4. R \in SUBSET Blocks
    OBVIOUS
  <2>5. b \in R
    <3> HIDE DEF R
    <3> QED
      BY <1>2, <2>2, <2>3, <2>4 DEF Reachable
  <2> QED
    BY <2>5
<1>3. ASSUME OnEntryPath(b) PROVE b \in Reachable
  <2>1. PICK n \in Nat \ {0} : \E path : EntryPath(b, n, path)
    BY <1>3 DEF OnEntryPath
  <2>2. PICK path : EntryPath(b, n, path)
    BY <2>1
  <2>3. /\ path \in [1 .. n -> present] /\ path[1] = Entry /\ path[n] = b
        /\ \A i \in 1 .. n - 1 : path[i + 1] \in Ends(code[path[i]])
    BY <2>2 DEF EntryPath
  <2> SUFFICES ASSUME NEW R \in SUBSET Blocks, Entry \in R,
                      \A c \in R \cap present : succ[c] \subseteq R,
                      b \notin R
               PROVE  FALSE
    BY <1>1 DEF Reachable
  <2> DEFINE Off == {i \in Nat : i \in 1 .. n /\ path[i] \notin R}
  <2>4. n \in Off /\ Off \in SUBSET Nat
    BY <2>3
  <2> HIDE DEF Off
  <2>5. PICK m \in Off : \A k \in Off : m <= k
    BY <2>4, LeastNumber
  <2>6. m \in 1 .. n /\ path[m] \notin R /\ m # 1
    BY <2>3, <2>5 DEF Off
  <2>7. m - 1 \in 1 .. n - 1 /\ m - 1 \in 1 .. n /\ m - 1 \in Nat /\ (m - 1) + 1 = m
    BY <2>6
  <2>8. path[m - 1] \in R
    <3>1. m - 1 \notin Off
      BY <2>4, <2>5, <2>7
    <3> QED
      BY <2>7, <3>1 DEF Off
  <2>9. path[m] \in Ends(code[path[m - 1]]) /\ path[m] \in present /\ path[m - 1] \in present
    BY <2>3, <2>6, <2>7
  <2>10. path[m] \in succ[path[m - 1]]
    BY <2>9, EndsAreEdges
  <2> QED
    BY <2>6, <2>8, <2>9, <2>10
<1> QED
  BY <1>2, <1>3

(* eliminateUnreachableBlocks removes exactly the blocks that no path from *)
(* the entry comes to, although it walks the edges that the merges of the  *)
(* iteration before left and not the code (optimizer.cpp:505-553).         *)
THEOREM RemovedBlocksAreOffPath ==
  OptimizerSpec =>
    [][EliminateUnreachableBlocks =>
         \A b \in present : b \in present' <=> OnEntryPath(b)]_allVars
<1>1. ASSUME OInv, EdgesLeadToBlocks, EliminateUnreachableBlocks, NEW b \in present
      PROVE  b \in present' <=> OnEntryPath(b)
  <2>1. pass = "unreachable" /\ present' = present \ (present \ Reachable)
    BY <1>1 DEF EliminateUnreachableBlocks
  <2>2. /\ TypeOK /\ Entry \in present
        /\ \A c \in present : succ[c] \cap present = Successors(c)
    BY <1>1, <2>1
       DEF OInv, OptimizerTypeOK, EdgesFresh, EdgesBuilt, AnalysisOver, EdgesLeadToBlocks
  <2> QED
    BY <2>1, <2>2, ReachableIsOnPath
<1>2. OInv /\ EdgesLeadToBlocks =>
        [EliminateUnreachableBlocks =>
           \A b \in present : b \in present' <=> OnEntryPath(b)]_allVars
  BY <1>1
<1> QED
  BY <1>2, OptimizerInvariance, EdgesLeadCorrect, PTL

=============================================================================

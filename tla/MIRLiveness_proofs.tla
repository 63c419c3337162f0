------------------------- MODULE MIRLiveness_proofs -------------------------
(***************************************************************************)
(* For functions of any size: the variables of the analysis keep their     *)
(* types, its live sets never exceed those of any solution of the liveness *)
(* equations, and they are a solution when it stops: the analysis computes *)
(* the least solution. From there to the code: no variable is live that no *)
(* path reads, and, where control leaves a block at its last instruction   *)
(* only, every variable that a path reads is. And every step of it lowers  *)
(* a natural number, so it cannot go on for ever.                          *)
(***************************************************************************)
EXTENDS MIRLiveness, FiniteSetTheorems, WellFoundedInduction, TLAPS

-----------------------------------------------------------------------------
(* The inductive invariant.                                                *)

Analyzing == stage \in {"sweep", "done"}

(* Before the first sweep nothing is live.                                 *)
StartsEmpty == ~Analyzing => liveIn = NoSets

Balanced(b) ==
  liveOut[b] = ExitOf(liveIn, b) /\ liveIn[b] = EntryOf(liveIn, b)

(* A sweep that has changed nothing so far leaves solved blocks behind it. *)
SweepProgress ==
  stage = "sweep" /\ ~changed =>
    \A b \in present : b > index => Balanced(b)

(* What an analysis keeps wherever it starts from: of the live sets it only *)
(* asks that they are sets of variables, so the optimizer, which analyzes  *)
(* again on top of the sets of the last analysis, keeps it too.            *)
SweepInv ==
  /\ TypeOK
  /\ SweepProgress
  /\ SolvesEquations

(* The edges and the local sets are those of the code.                     *)
EdgesBuilt ==
  stage # "edges" => \A b \in present :
    /\ succ[b] \cap present = Successors(b)
    /\ \A t \in present : pred[t][b] = EdgeCount(b, t)

LocalsComputed ==
  Analyzing => \A b \in present :
    used[b] = UsedIn(code[b]) /\ defined[b] = DefinedIn(code[b])

IInv ==
  /\ SweepInv
  /\ StartsEmpty
  /\ NeverOverestimates
  /\ EdgesBuilt
  /\ LocalsComputed

-----------------------------------------------------------------------------
(* Numbers.                                                                *)

(* Every set of natural numbers has a least one: an interval 0 .. m that   *)
(* has no smaller one below it in the set. Inductions along a path take    *)
(* the least position at which they fail.                                  *)
LEMMA LeastNumber ==
  ASSUME NEW S \in SUBSET Nat, S # {}
  PROVE  \E m \in S : \A k \in S : m <= k
<1> DEFINE T == {0 .. m : m \in S}
           R == StrictSubsetOrdering(Nat)
<1>1. IsWellFoundedOn(R, FiniteSubsetsOf(Nat))
  BY FS_StrictSubsetOrderingWellFounded
<1>2. T \subseteq FiniteSubsetsOf(Nat) /\ T # {}
  <2>1. ASSUME NEW m \in S PROVE IsFiniteSet(0 .. m) /\ 0 .. m \subseteq Nat
    BY FS_Interval
  <2> QED
    BY <2>1 DEF FiniteSubsetsOf
<1>3. \E x \in T : \A y \in T : <<y, x>> \notin R
  <2> HIDE DEF T, R
  <2> QED BY <1>1, <1>2, WFMin
<1>4. PICK m \in S : \A k \in S : <<0 .. k, 0 .. m>> \notin R
  BY <1>3
<1>5. ASSUME NEW k \in S, k < m PROVE <<0 .. k, 0 .. m>> \in R
  <2>1. 0 .. k \subseteq 0 .. m /\ m \in 0 .. m /\ m \notin 0 .. k
    BY <1>5
  <2> QED BY <2>1 DEF StrictSubsetOrdering
<1>6. ASSUME NEW k \in S PROVE m <= k
  <2> HIDE DEF R
  <2>1. ~(k < m)
    BY <1>4, <1>5
  <2> QED BY <2>1
<1> QED
  BY <1>6

LEMMA GreatestNumber ==
  ASSUME NEW n \in Nat, NEW S \in SUBSET (1 .. n), S # {}
  PROVE  \E m \in S : \A k \in S : k <= m
<1> DEFINE T == {n - k : k \in S}
<1>1. T \subseteq Nat /\ T # {}
  <2>1. ASSUME NEW k \in S PROVE n - k \in Nat
    OBVIOUS
  <2> QED
    BY <2>1
<1>2. PICK l \in T : \A k \in T : l <= k
  <2> HIDE DEF T
  <2> QED
    BY <1>1, LeastNumber
<1>3. PICK m \in S : l = n - m
  BY <1>2
<1>4. ASSUME NEW k \in S PROVE k <= m
  <2>1. n - m <= n - k
    BY <1>2, <1>3
  <2> QED
    BY <2>1
<1> QED
  BY <1>4

(* The size of an interval, without the case of an empty one.              *)
LEMMA IntervalSize ==
  ASSUME NEW m \in Int, NEW n \in Int, m <= n
  PROVE  IsFiniteSet(m .. n) /\ Cardinality(m .. n) = n - m + 1
<1>1. IsFiniteSet(m .. n)
  BY FS_Interval
<1>2. Cardinality(m .. n) = IF m > n THEN 0 ELSE n - m + 1
  BY FS_Interval
<1> QED
  BY <1>1, <1>2

-----------------------------------------------------------------------------
(* Functions and finite sets.                                              *)

(* The sequence v, step[v], step[step[v]], ... of a recursive definition.  *)
HasIterates(V, step, v, n) ==
  \E g \in [0 .. n -> V] : g[0] = v /\ \A i \in 1 .. n : g[i] = step[g[i - 1]]

LEMMA Iterates ==
  ASSUME NEW V, NEW step \in [V -> V], NEW v \in V, NEW n \in Nat
  PROVE  HasIterates(V, step, v, n)
<1> DEFINE Good(m) == \E g \in [0 .. m -> V] :
                        g[0] = v /\ \A i \in 1 .. m : g[i] = step[g[i - 1]]
           bad == {m \in Nat : ~Good(m)}
<1>1. bad = {}
  <2> SUFFICES ASSUME bad # {} PROVE FALSE
    OBVIOUS
  <2>1. PICK m \in bad : \A k \in bad : m <= k
    <3>1. bad \subseteq Nat
      OBVIOUS
    <3> HIDE DEF bad
    <3> QED
      BY <3>1, LeastNumber
  <2>2. m # 0
    <3>1. Good(0)
      <4> DEFINE g == [i \in 0 .. 0 |-> v]
      <4>1. g \in [0 .. 0 -> V] /\ g[0] = v /\ \A i \in 1 .. 0 : g[i] = step[g[i - 1]]
        OBVIOUS
      <4> QED
        BY <4>1
    <3> QED
      BY <2>1, <3>1
  <2>3. m - 1 \in Nat /\ m \in Nat /\ ~(m <= m - 1)
    BY <2>1, <2>2
  <2>4. Good(m - 1)
    <3>1. m - 1 \notin bad
      <4> HIDE DEF bad
      <4> QED
        BY <2>1, <2>3
    <3> QED
      BY <2>3, <3>1
  <2>5. PICK h \in [0 .. m - 1 -> V] :
          h[0] = v /\ \A i \in 1 .. m - 1 : h[i] = step[h[i - 1]]
    BY <2>4
  <2> DEFINE g == [i \in 0 .. m |-> IF i = m THEN step[h[m - 1]] ELSE h[i]]
  <2>6. g \in [0 .. m -> V]
    <3>1. h[m - 1] \in V
      BY <2>3
    <3>2. ASSUME NEW i \in 0 .. m, i # m PROVE i \in 0 .. m - 1
      BY <2>3, <3>2
    <3> QED
      BY <3>1, <3>2
  <2>7. g[0] = v
    BY <2>2, <2>3, <2>5
  <2>8. ASSUME NEW i \in 1 .. m PROVE g[i] = step[g[i - 1]]
    <3>1. i - 1 \in 0 .. m /\ i - 1 # m /\ i \in 0 .. m
      BY <2>3
    <3>2. CASE i = m
      BY <3>1, <3>2
    <3>3. CASE i # m
      <4>1. i \in 1 .. m - 1
        BY <2>3, <3>3
      <4> QED
        BY <2>5, <3>1, <3>3, <4>1
    <3> QED
      BY <3>2, <3>3
  <2>9. Good(m)
    <3> HIDE DEF g
    <3> QED
      BY <2>6, <2>7, <2>8
  <2> QED
    BY <2>1, <2>9
<1> QED
  BY <1>1 DEF HasIterates

LEMMA ImageFinite ==
  ASSUME NEW S, IsFiniteSet(S), NEW f, DOMAIN f = S
  PROVE  IsFiniteSet({f[x] : x \in S})
<1> DEFINE T == {f[x] : x \in S}
           h == [x \in S |-> f[x]]
<1>1. h \in Surjection(S, T)
  BY DEF Surjection
<1> QED
  BY <1>1, FS_Surjection

-----------------------------------------------------------------------------
(* The helpers.                                                            *)

LEMMA LastBlockType == LastBlock \in Nat
BY LivenessAssumption

(* The targets of an instruction are a finite sequence.                    *)
LEMMA TargetsFinite ==
  ASSUME TypeOK, NEW b \in Blocks, code[b] # <<>>
  PROVE  IsFiniteSet(DOMAIN EdgeTargets(Terminator(code[b])))
<1> DEFINE c == code[b]
           i == Terminator(c)
<1>1. c \in Seq(Instructions) /\ c # <<>>
  BY DEF TypeOK
<1>2. i \in Instructions
  BY <1>1 DEF Terminator
<1>3. i.targets \in Seq(Targets) /\ i.pad \in Targets
  BY <1>2 DEF Instructions
<1>4. Append(i.targets, i.pad) \in Seq(Targets) /\ <<i.pad>> \in Seq(Targets)
  BY <1>3
<1>5. EdgeTargets(i) \in Seq(Targets)
  BY <1>3, <1>4 DEF EdgeTargets
<1>6. DOMAIN EdgeTargets(i) = 1 .. Len(EdgeTargets(i)) /\ Len(EdgeTargets(i)) \in Nat
  BY <1>5
<1> QED
  BY <1>6, FS_Interval

LEMMA EdgeCountType ==
  ASSUME TypeOK, NEW b \in Blocks, NEW t \in Blocks
  PROVE  EdgeCount(b, t) \in Nat
<1> DEFINE to == EdgeTargets(Terminator(code[b]))
           at == {k \in DOMAIN to : to[k] = t}
<1>1. CASE code[b] # <<>>
  <2>1. IsFiniteSet(at)
    BY <1>1, TargetsFinite, FS_Subset
  <2>2. Cardinality(at) \in Nat
    BY <2>1, FS_CardinalityType
  <2> QED
    BY <2>2 DEF EdgeCount
<1>2. CASE code[b] = <<>>
  BY <1>2 DEF EdgeCount
<1> QED
  BY <1>1, <1>2

(* What a block reads before it writes it, and what it writes, are         *)
(* variables of the function.                                              *)
LEMMA LocalSetsType ==
  ASSUME TypeOK, NEW b \in Blocks
  PROVE  /\ UsedIn(code[b]) \in SUBSET Variables
         /\ DefinedIn(code[b]) \in SUBSET Variables
<1> DEFINE c == code[b]
<1>1. c \in Seq(Instructions)
  BY DEF TypeOK
<1>2. ASSUME NEW k \in DOMAIN c
      PROVE  c[k].src \in Seq(Variables) /\ c[k].dst \in Variables \cup {NoVariable}
  <2>1. c[k] \in Instructions
    BY <1>1
  <2> QED
    BY <2>1 DEF Instructions, Destinations
<1>3. ASSUME NEW k \in DOMAIN c
      PROVE  Reads(c[k]) \subseteq Variables
  <2>1. c[k].src \in Seq(Variables)
    BY <1>2
  <2> QED
    BY <2>1 DEF Reads
<1>4. UsedIn(c) \subseteq Variables
  BY <1>3 DEF UsedIn
<1>5. DefinedIn(c) \subseteq Variables
  BY <1>2 DEF DefinedIn
<1> QED
  BY <1>4, <1>5

(* One update of a block's sets stays within the variables.                *)
LEMMA NewSetsType ==
  ASSUME TypeOK, NEW b \in Blocks
  PROVE  NewOut(b) \in SUBSET Variables /\ NewIn(b) \in SUBSET Variables
<1>1. NewOut(b) \subseteq Variables
  <2>1. succ[b] \cap present \subseteq Blocks
    BY DEF TypeOK
  <2>2. \A s \in Blocks : liveIn[s] \subseteq Variables
    BY DEF TypeOK, VariableSets
  <2> QED
    BY <2>1, <2>2 DEF NewOut
<1>2. used[b] \subseteq Variables
  BY DEF TypeOK, VariableSets
<1> QED
  BY <1>1, <1>2 DEF NewIn

(* What an update computes from the current sets is what the equations ask *)
(* for.                                                                    *)
LEMMA UpdateIsEquation ==
  ASSUME NEW b \in Blocks
  PROVE  NewOut(b) = ExitOf(liveIn, b) /\ NewIn(b) = EntryOf(liveIn, b)
BY DEF NewOut, NewIn, ExitOf, EntryOf

-----------------------------------------------------------------------------
(* The initial state.                                                      *)

LEMMA InitTypeOK == Init => TypeOK
<1> SUFFICES ASSUME Init PROVE TypeOK
  OBVIOUS
<1>1. code \in [Blocks -> Seq(Instructions)]
  BY LivenessAssumption DEF Init
<1>2. NoSets \in [Blocks -> SUBSET Blocks] /\ NoSets \in VariableSets
  BY DEF NoSets, VariableSets
<1>3. pred \in [Blocks -> [Blocks -> Nat]]
  BY DEF Init
<1>4. index \in -1 .. LastBlock
  BY LivenessAssumption DEF Init
<1> QED
  BY <1>1, <1>2, <1>3, <1>4 DEF Init, TypeOK

LEMMA InitIInv == Init => IInv
<1> SUFFICES ASSUME Init PROVE IInv
  OBVIOUS
<1>1. SweepInv
  BY InitTypeOK DEF Init, SweepInv, SweepProgress, SolvesEquations
<1>2. StartsEmpty /\ NeverOverestimates
  BY DEF Init, StartsEmpty, Analyzing, NeverOverestimates
<1>3. EdgesBuilt /\ LocalsComputed
  BY DEF Init, EdgesBuilt, LocalsComputed, Analyzing
<1> QED
  BY <1>1, <1>2, <1>3 DEF IInv

-----------------------------------------------------------------------------
(* The steps keep the types, and a quiet sweep leaves solved blocks.       *)

LEMMA BuildEdgesSweepInv == SweepInv /\ BuildEdges => SweepInv'
<1> SUFFICES ASSUME SweepInv, BuildEdges PROVE SweepInv'
  OBVIOUS
<1>1. TypeOK'
  <2>1. TypeOK
    BY DEF SweepInv
  <2>2. succ' \in [Blocks -> SUBSET Blocks]
    BY DEF BuildEdges, Successors
  <2>3. pred' \in [Blocks -> [Blocks -> Nat]]
    BY <2>1, EdgeCountType DEF BuildEdges
  <2>4. stage' = "local"
    BY DEF BuildEdges
  <2> QED
    BY <2>1, <2>2, <2>3, <2>4
       DEF TypeOK, VariableSets, BuildEdges, localVars, liveVars, sweepVars
<1>2. stage' = "local"
  BY DEF BuildEdges
<1> QED
  BY <1>1, <1>2 DEF SweepInv, SweepProgress, SolvesEquations

LEMMA ComputeLocalSetsSweepInv == SweepInv /\ ComputeLocalSets => SweepInv'
<1> SUFFICES ASSUME SweepInv, ComputeLocalSets PROVE SweepInv'
  OBVIOUS
<1>1. TypeOK'
  <2>1. TypeOK
    BY DEF SweepInv
  <2>2. used' \in VariableSets /\ defined' \in VariableSets
    BY <2>1, LocalSetsType DEF ComputeLocalSets, VariableSets
  <2>3. index' \in -1 .. LastBlock
    <3>1. index' = LastBlock
      BY DEF ComputeLocalSets
    <3> QED
      BY <3>1, LastBlockType
  <2>4. changed' = FALSE /\ stage' = "sweep"
    BY DEF ComputeLocalSets
  <2> QED
    BY <2>1, <2>2, <2>3, <2>4 DEF TypeOK, VariableSets, ComputeLocalSets, edgeVars, liveVars
<1>2. stage' = "sweep" /\ index' = LastBlock
  BY DEF ComputeLocalSets
<1>3. SweepProgress'
  BY <1>1, <1>2, LastBlockType DEF SweepProgress, TypeOK, Blocks
<1> QED
  BY <1>1, <1>2, <1>3 DEF SweepInv, SolvesEquations

LEMMA PropagateBackwardSweepInv == SweepInv /\ PropagateBackward => SweepInv'
<1> SUFFICES ASSUME SweepInv, PropagateBackward PROVE SweepInv'
  OBVIOUS
<1> USE DEF edgeVars, localVars, liveVars
<1>1. TypeOK /\ stage = "sweep" /\ index \in Blocks
  BY DEF SweepInv, TypeOK, PropagateBackward, Blocks
<1>2. UNCHANGED <<code, present, succ, pred, used, defined, stage>>
  BY DEF PropagateBackward
<1>3. index' = index - 1 /\ index' \in -1 .. LastBlock
  BY <1>1, LastBlockType DEF PropagateBackward, Blocks
<1>4. CASE index \in present /\ SetsDiffer(index)
  <2>1. /\ liveIn' = [liveIn EXCEPT ![index] = NewIn(index)]
        /\ liveOut' = [liveOut EXCEPT ![index] = NewOut(index)]
        /\ changed' = TRUE
    BY <1>4 DEF PropagateBackward
  <2>2. NewIn(index) \in SUBSET Variables /\ NewOut(index) \in SUBSET Variables
    BY <1>1, NewSetsType
  <2>3. liveIn' \in VariableSets /\ liveOut' \in VariableSets
    BY <1>1, <2>1, <2>2 DEF TypeOK, VariableSets
  <2>4. TypeOK'
    BY <1>1, <1>2, <1>3, <2>1, <2>3 DEF TypeOK, VariableSets
  <2>5. SweepProgress' /\ SolvesEquations'
    BY <1>1, <1>2, <2>1 DEF SweepProgress, SolvesEquations
  <2> QED
    BY <2>4, <2>5 DEF SweepInv
<1>5. CASE ~(index \in present /\ SetsDiffer(index))
  <2>1. UNCHANGED <<liveIn, liveOut, changed>>
    BY <1>5 DEF PropagateBackward
  <2>2. TypeOK'
    BY <1>1, <1>2, <1>3, <2>1 DEF TypeOK, VariableSets
  <2>3. SweepProgress'
    <3> SUFFICES ASSUME ~changed, NEW b \in present, b > index'
                 PROVE  Balanced(b)'
      BY <1>2, <2>1 DEF SweepProgress
    <3>1. Balanced(b)
      <4>1. CASE b = index
        BY <1>1, <1>5, <4>1, UpdateIsEquation DEF SetsDiffer, Balanced
      <4>2. CASE b > index
        BY <1>1, <4>2 DEF SweepInv, SweepProgress
      <4> QED
        BY <1>1, <1>3, <4>1, <4>2 DEF TypeOK, Blocks
    <3> QED
      BY <1>2, <2>1, <3>1 DEF Balanced, EntryOf, ExitOf
  <2>4. SolvesEquations'
    BY <1>1, <1>2 DEF SolvesEquations
  <2> QED
    BY <2>2, <2>3, <2>4 DEF SweepInv
<1> QED
  BY <1>4, <1>5

LEMMA SweepAgainSweepInv == SweepInv /\ SweepAgain => SweepInv'
<1> SUFFICES ASSUME SweepInv, SweepAgain PROVE SweepInv'
  OBVIOUS
<1> USE DEF edgeVars, localVars, liveVars
<1>1. TypeOK /\ stage = "sweep" /\ stage' = "sweep" /\ index' = LastBlock
  BY DEF SweepInv, SweepAgain
<1>2. TypeOK'
  <2>1. index' \in -1 .. LastBlock
    BY <1>1, LastBlockType
  <2>2. changed' = FALSE
    BY DEF SweepAgain
  <2> QED
    BY <1>1, <2>1, <2>2 DEF TypeOK, VariableSets, SweepAgain
<1>3. SweepProgress'
  BY <1>1, <1>2, LastBlockType DEF SweepProgress, TypeOK, Blocks
<1>4. SolvesEquations'
  BY <1>1 DEF SolvesEquations
<1> QED
  BY <1>2, <1>3, <1>4 DEF SweepInv

LEMMA ConvergedSweepInv == SweepInv /\ Converged => SweepInv'
<1> SUFFICES ASSUME SweepInv, Converged PROVE SweepInv'
  OBVIOUS
<1> USE DEF edgeVars, localVars, liveVars, sweepVars
<1>1. TypeOK /\ stage = "sweep" /\ stage' = "done" /\ index = -1 /\ ~changed
  BY DEF SweepInv, Converged
<1>2. UNCHANGED <<code, present, succ, pred, used, defined, liveIn, liveOut,
                  index, changed>>
  BY DEF Converged
<1>3. TypeOK'
  BY <1>1, <1>2 DEF TypeOK, VariableSets
<1>4. SolvesEquations'
  <2> SUFFICES ASSUME NEW b \in present
               PROVE  liveOut[b] = ExitOf(liveIn, b) /\ liveIn[b] = EntryOf(liveIn, b)
    BY <1>2 DEF SolvesEquations, EntryOf, ExitOf
  <2>1. b > index
    BY <1>1 DEF TypeOK, Blocks
  <2> QED
    BY <1>1, <2>1 DEF SweepInv, SweepProgress, Balanced
<1>5. SweepProgress'
  BY <1>1 DEF SweepProgress
<1> QED
  BY <1>3, <1>4, <1>5 DEF SweepInv

LEMMA AnalyzeSweepInv == SweepInv /\ Analyze => SweepInv'
BY BuildEdgesSweepInv, ComputeLocalSetsSweepInv, PropagateBackwardSweepInv,
   SweepAgainSweepInv, ConvergedSweepInv DEF Analyze

-----------------------------------------------------------------------------
(* The steps keep the edges and the local sets those of the code.          *)

LEMMA AnalyzeFixesCode == Analyze => UNCHANGED <<code, present>>
BY DEF Analyze, BuildEdges, ComputeLocalSets, PropagateBackward, SweepAgain,
       Converged

LEMMA AnalyzeEdges ==
  ASSUME TypeOK, EdgesBuilt, Analyze
  PROVE  EdgesBuilt'
<1>1. UNCHANGED <<code, present>>
  BY AnalyzeFixesCode
<1>2. /\ \A b, t : EdgeCount(b, t)' = EdgeCount(b, t)
      /\ \A b : Successors(b)' = Successors(b)
  BY <1>1 DEF EdgeCount, Successors
<1>3. CASE BuildEdges
  <2> SUFFICES ASSUME NEW b \in present
               PROVE  /\ succ'[b] \cap present = Successors(b)
                      /\ \A t \in present : pred'[t][b] = EdgeCount(b, t)
    BY <1>1, <1>2 DEF EdgesBuilt
  <2>1. present \subseteq Blocks
    BY DEF TypeOK
  <2>2. succ'[b] = Successors(b) /\ \A t \in present : pred'[t][b] = EdgeCount(b, t)
    BY <1>3, <2>1 DEF BuildEdges
  <2>3. Successors(b) \subseteq present
    BY DEF Successors, EdgeCount
  <2> QED
    BY <2>2, <2>3
<1>4. CASE ComputeLocalSets \/ PropagateBackward \/ SweepAgain \/ Converged
  <2>1. UNCHANGED <<succ, pred>> /\ stage # "edges"
    BY <1>4 DEF ComputeLocalSets, PropagateBackward, SweepAgain, Converged,
                edgeVars
  <2> QED
    BY <1>1, <1>2, <2>1 DEF EdgesBuilt
<1> QED
  BY <1>3, <1>4 DEF Analyze

LEMMA AnalyzeLocals ==
  ASSUME TypeOK, LocalsComputed, Analyze
  PROVE  LocalsComputed'
<1>1. UNCHANGED <<code, present>>
  BY AnalyzeFixesCode
<1>2. CASE BuildEdges
  BY <1>2 DEF BuildEdges, LocalsComputed, Analyzing
<1>3. CASE ComputeLocalSets
  BY <1>1, <1>3 DEF ComputeLocalSets, LocalsComputed, TypeOK
<1>4. CASE PropagateBackward \/ SweepAgain \/ Converged
  <2>1. UNCHANGED <<used, defined>> /\ Analyzing
    BY <1>4 DEF PropagateBackward, SweepAgain, Converged, localVars, Analyzing
  <2> QED
    BY <1>1, <2>1 DEF LocalsComputed
<1> QED
  BY <1>2, <1>3, <1>4 DEF Analyze

-----------------------------------------------------------------------------
(* The steps never overestimate.                                           *)

LEMMA AnalyzeStartsEmpty ==
  ASSUME StartsEmpty, Analyze
  PROVE  StartsEmpty'
<1>1. CASE BuildEdges
  BY <1>1 DEF StartsEmpty, Analyzing, NoSets, BuildEdges, liveVars
<1>2. CASE ~BuildEdges
  BY <1>2 DEF StartsEmpty, Analyzing, Analyze, ComputeLocalSets,
              PropagateBackward, SweepAgain, Converged
<1> QED
  BY <1>1, <1>2

LEMMA AnalyzeNeverOverestimates ==
  ASSUME TypeOK, StartsEmpty, NeverOverestimates, Analyze
  PROVE  NeverOverestimates'
<1> USE DEF edgeVars, localVars, liveVars, sweepVars
<1>1. CASE BuildEdges
  BY <1>1 DEF BuildEdges, NeverOverestimates
<1>2. CASE ComputeLocalSets
  <2>1. \A b \in Blocks : liveIn'[b] = {}
    BY <1>2 DEF ComputeLocalSets, StartsEmpty, Analyzing, NoSets
  <2> QED
    BY <2>1 DEF NeverOverestimates
<1>3. CASE PropagateBackward
  <2>1. UNCHANGED <<present, succ, used, defined, stage>> /\ stage = "sweep"
    BY <1>3 DEF PropagateBackward
  <2>2. CASE index \in present /\ SetsDiffer(index)
    <3> SUFFICES ASSUME NEW S \in VariableSets, IsSolution(S)', NEW b \in Blocks
                 PROVE  liveIn'[b] \subseteq S[b]
      BY DEF NeverOverestimates
    <3>1. IsSolution(S)
      BY <2>1 DEF IsSolution, EntryOf, ExitOf
    <3>2. \A c \in Blocks : liveIn[c] \subseteq S[c]
      BY <2>1, <3>1 DEF NeverOverestimates
    <3>3. liveIn' = [liveIn EXCEPT ![index] = NewIn(index)]
      BY <1>3, <2>2 DEF PropagateBackward
    <3>4. CASE b = index
      <4>1. succ[b] \cap present \subseteq Blocks
        BY DEF TypeOK
      <4>2. NewOut(b) \subseteq ExitOf(S, b)
        BY <3>2, <4>1 DEF NewOut, ExitOf
      <4>3. NewIn(b) \subseteq EntryOf(S, b)
        BY <4>2 DEF NewIn, EntryOf
      <4>4. EntryOf(S, b) \subseteq S[b]
        BY <2>2, <3>1, <3>4 DEF IsSolution
      <4>5. liveIn'[b] = NewIn(b)
        BY <3>3, <3>4 DEF TypeOK, VariableSets
      <4> QED
        BY <4>3, <4>4, <4>5
    <3>5. CASE b # index
      BY <3>2, <3>3, <3>5 DEF TypeOK, VariableSets
    <3> QED
      BY <3>4, <3>5
  <2>3. CASE ~(index \in present /\ SetsDiffer(index))
    <3>1. UNCHANGED <<liveIn, liveOut>>
      BY <1>3, <2>3 DEF PropagateBackward
    <3> QED
      BY <2>1, <3>1 DEF NeverOverestimates, IsSolution, EntryOf, ExitOf
  <2> QED
    BY <2>2, <2>3
<1>4. CASE SweepAgain \/ Converged
  <2>1. UNCHANGED <<present, succ, used, defined, liveIn>> /\ stage = "sweep"
    BY <1>4 DEF SweepAgain, Converged
  <2> QED
    BY <2>1 DEF NeverOverestimates, IsSolution, EntryOf, ExitOf
<1> QED
  BY <1>1, <1>2, <1>3, <1>4 DEF Analyze

-----------------------------------------------------------------------------
(* The whole invariant.                                                    *)

LEMMA SweepInvUnchanged == SweepInv /\ UNCHANGED vars => SweepInv'
<1> SUFFICES ASSUME SweepInv, UNCHANGED vars PROVE SweepInv'
  OBVIOUS
<1> USE DEF vars, edgeVars, localVars, liveVars, sweepVars
<1>1. TypeOK'
  BY DEF SweepInv, TypeOK, VariableSets
<1>2. SweepProgress'
  BY DEF SweepInv, SweepProgress, Balanced, EntryOf, ExitOf
<1>3. SolvesEquations'
  BY DEF SweepInv, SolvesEquations, EntryOf, ExitOf
<1> QED
  BY <1>1, <1>2, <1>3 DEF SweepInv

LEMMA EdgesUnchanged ==
  ASSUME EdgesBuilt, UNCHANGED <<code, present, succ, pred, stage>>
  PROVE  EdgesBuilt'
BY DEF EdgesBuilt, Successors, EdgeCount

LEMMA LocalsUnchanged ==
  ASSUME LocalsComputed, UNCHANGED <<code, present, used, defined, stage>>
  PROVE  LocalsComputed'
BY DEF LocalsComputed, Analyzing

LEMMA StutterIInv == IInv /\ UNCHANGED vars => IInv'
<1> SUFFICES ASSUME IInv, UNCHANGED vars PROVE IInv'
  OBVIOUS
<1>1. SweepInv'
  BY SweepInvUnchanged DEF IInv
<1> USE DEF vars, edgeVars, localVars, liveVars, sweepVars
<1>2. StartsEmpty'
  BY DEF IInv, StartsEmpty, Analyzing, NoSets
<1>3. NeverOverestimates'
  BY DEF IInv, NeverOverestimates, IsSolution, EntryOf, ExitOf
<1>4. EdgesBuilt' /\ LocalsComputed'
  BY EdgesUnchanged, LocalsUnchanged DEF IInv
<1> QED
  BY <1>1, <1>2, <1>3, <1>4 DEF IInv

LEMMA AnalyzeIInv == IInv /\ Analyze => IInv'
<1> SUFFICES ASSUME IInv, Analyze PROVE IInv'
  OBVIOUS
<1>1. SweepInv'
  BY AnalyzeSweepInv DEF IInv
<1>2. TypeOK
  BY DEF IInv, SweepInv
<1>3. EdgesBuilt' /\ LocalsComputed'
  BY <1>2, AnalyzeEdges, AnalyzeLocals DEF IInv
<1>4. StartsEmpty' /\ NeverOverestimates'
  BY <1>2, AnalyzeStartsEmpty, AnalyzeNeverOverestimates DEF IInv
<1> QED
  BY <1>1, <1>3, <1>4 DEF IInv

LEMMA NextIInv == IInv /\ [Next]_vars => IInv'
BY AnalyzeIInv, StutterIInv DEF Next, Terminated

-----------------------------------------------------------------------------
(* Paths.                                                                  *)

StepsWithout(v, x, y) == \E k \in DOMAIN code[x] : LeavesWithout(v, x, k, y)

LivePath(v, b, n, path) ==
  /\ path \in [1 .. n -> present]
  /\ path[1] = b /\ ReadFirst(v, path[n])
  /\ \A i \in 1 .. n - 1 : StepsWithout(v, path[i], path[i + 1])

(* A path that comes back to a block can leave out the way round.          *)
LEMMA CutPath ==
  ASSUME NEW v, NEW b, NEW n \in Nat, NEW path, LivePath(v, b, n, path),
         NEW i \in 1 .. n, NEW j \in 1 .. n, i < j, path[i] = path[j]
  PROVE  \E m \in 1 .. n - 1 : \E short : LivePath(v, b, m, short)
<1> DEFINE m == n - (j - i)
           short == [k \in 1 .. m |-> IF k <= i THEN path[k] ELSE path[k + (j - i)]]
<1>1. m \in 1 .. n - 1 /\ i <= m
  OBVIOUS
<1>2. ASSUME NEW k \in 1 .. m
      PROVE  /\ k <= i => short[k] = path[k] /\ k \in 1 .. n
             /\ k > i => short[k] = path[k + (j - i)] /\ k + (j - i) \in 1 .. n
             /\ short[k] \in present
  <2>1. path \in [1 .. n -> present]
    BY DEF LivePath
  <2> QED
    BY <1>1, <2>1
<1>3. short \in [1 .. m -> present]
  BY <1>2
<1>4. short[1] = b
  BY <1>1, <1>2 DEF LivePath
<1>5. short[m] = path[n]
  <2>1. CASE m = i
    <3>1. j = n
      BY <2>1
    <3> QED
      BY <1>1, <1>2, <2>1, <3>1
  <2>2. CASE m > i
    <3>1. m + (j - i) = n
      OBVIOUS
    <3> QED
      BY <1>1, <1>2, <2>2, <3>1
  <2> QED
    BY <1>1, <2>1, <2>2
<1>6. ASSUME NEW k \in 1 .. m - 1
      PROVE  StepsWithout(v, short[k], short[k + 1])
  <2>1. k \in 1 .. m /\ k + 1 \in 1 .. m
    BY <1>1
  <2>2. CASE k < i
    <3>1. short[k] = path[k] /\ short[k + 1] = path[k + 1] /\ k \in 1 .. n - 1
      BY <1>1, <1>2, <2>1, <2>2
    <3> QED
      BY <3>1 DEF LivePath
  <2>3. CASE k = i
    <3>1. short[k] = path[j] /\ short[k + 1] = path[j + 1] /\ j \in 1 .. n - 1
      <4>1. k + 1 + (j - i) = j + 1
        BY <2>3
      <4>2. short[k] = path[i]
        BY <1>2, <2>1, <2>3
      <4>3. short[k + 1] = path[j + 1] /\ j + 1 \in 1 .. n
        BY <1>2, <2>1, <2>3, <4>1
      <4> QED
        BY <4>2, <4>3
    <3> QED
      BY <3>1 DEF LivePath
  <2>4. CASE k > i
    <3> DEFINE l == k + (j - i)
    <3>1. k + 1 + (j - i) = l + 1
      OBVIOUS
    <3>2. short[k] = path[l] /\ short[k + 1] = path[l + 1] /\ l \in 1 .. n - 1
      BY <1>2, <2>1, <2>4, <3>1
    <3> QED
      BY <3>2 DEF LivePath
  <2> QED
    BY <1>1, <2>2, <2>3, <2>4
<1> QED
  <2> HIDE DEF m, short
  <2>1. ReadFirst(v, short[m])
    BY <1>5 DEF LivePath
  <2>2. LivePath(v, b, m, short)
    BY <1>3, <1>4, <1>6, <2>1 DEF LivePath
  <2> QED
    BY <1>1, <2>2

(* The shortest path visits no block twice.                                *)
LEMMA ShortPath ==
  ASSUME present \subseteq Blocks, NEW v, NEW b, NEW n \in Nat \ {0}, NEW path,
         LivePath(v, b, n, path)
  PROVE  OnPath(v, b)
<1> DEFINE lengths == {m \in Nat \ {0} : \E p : LivePath(v, b, m, p)}
<1>1. PICK m \in lengths : \A k \in lengths : m <= k
  <2>1. lengths \subseteq Nat /\ n \in lengths
    OBVIOUS
  <2> HIDE DEF lengths
  <2> QED
    BY <2>1, LeastNumber
<1>2. PICK p : LivePath(v, b, m, p)
  BY <1>1
<1>3. p \in [1 .. m -> Blocks]
  BY <1>2 DEF LivePath
<1>4. m <= LastBlock + 1
  <2> SUFFICES ASSUME m > LastBlock + 1 PROVE FALSE
    BY LastBlockType
  <2>1. IsFiniteSet(1 .. m) /\ Cardinality(1 .. m) = m
    BY IntervalSize
  <2>2. IsFiniteSet(Blocks) /\ Cardinality(Blocks) = LastBlock + 1
    BY IntervalSize, LastBlockType DEF Blocks
  <2>3. PICK i \in 1 .. m, j \in 1 .. m : i # j /\ p[i] = p[j]
    BY <1>3, <2>1, <2>2, FS_PigeonHole
  <2>4. \E l \in 1 .. m - 1 : \E q : LivePath(v, b, l, q)
    <3>1. CASE i < j
      BY <1>2, <2>3, <3>1, CutPath
    <3>2. CASE j < i
      BY <1>2, <2>3, <3>2, CutPath
    <3> QED
      BY <2>3, <3>1, <3>2
  <2>5. PICK l \in 1 .. m - 1 : \E q : LivePath(v, b, l, q)
    BY <2>4
  <2>6. l \in lengths
    BY <2>5
  <2> QED
    BY <1>1, <2>6
<1> QED
  <2>1. m \in 1 .. LastBlock + 1
    BY <1>4, LastBlockType
  <2>2. p \in [1 .. m -> present]
    BY <1>2 DEF LivePath
  <2>3. /\ p[1] = b /\ ReadFirst(v, p[m])
        /\ \A i \in 1 .. m - 1 : \E k \in DOMAIN code[p[i]] :
             LeavesWithout(v, p[i], k, p[i + 1])
    BY <1>2 DEF LivePath, StepsWithout
  <2> HIDE DEF lengths
  <2> QED
    BY <2>1, <2>2, <2>3 DEF OnPath

LEMMA OnPathIsLive ==
  ASSUME NEW v, NEW b
  PROVE  OnPath(v, b) <=> \E n \in 1 .. LastBlock + 1 : \E path : LivePath(v, b, n, path)
BY DEF OnPath, LivePath, StepsWithout

(* An execution that may leave b for c goes on like the one from c.        *)
LEMMA ExtendPath ==
  ASSUME present \subseteq Blocks, NEW v, NEW b \in present, NEW c \in present,
         StepsWithout(v, b, c), OnPath(v, c)
  PROVE  OnPath(v, b)
<1>1. PICK n \in 1 .. LastBlock + 1 : \E path : LivePath(v, c, n, path)
  BY OnPathIsLive
<1>2. PICK path : LivePath(v, c, n, path)
  BY <1>1
<1> DEFINE longer == [i \in 1 .. n + 1 |-> IF i = 1 THEN b ELSE path[i - 1]]
<1>3. n + 1 \in Nat \ {0} /\ n \in Nat \ {0}
  BY LastBlockType
<1>4. longer \in [1 .. n + 1 -> present]
  BY <1>2, <1>3 DEF LivePath
<1>5. longer[1] = b /\ \A i \in 1 .. n : longer[i + 1] = path[i]
  BY <1>3
<1>6. ASSUME NEW i \in 1 .. (n + 1) - 1
      PROVE  StepsWithout(v, longer[i], longer[i + 1])
  <2>1. CASE i = 1
    BY <1>2, <1>3, <1>5, <2>1 DEF LivePath
  <2>2. CASE i # 1
    <3>1. i - 1 \in 1 .. n - 1 /\ (i - 1) + 1 = i /\ i \in 1 .. n
      BY <1>3, <2>2
    <3>2. longer[i] = path[i - 1] /\ longer[i + 1] = path[i]
      BY <1>3, <1>5, <3>1
    <3> QED
      BY <1>2, <3>1, <3>2 DEF LivePath
  <2> QED
    BY <2>1, <2>2
<1>7. ReadFirst(v, longer[n + 1])
  <2>1. longer[n + 1] = path[n]
    BY <1>3, <1>5
  <2> QED
    BY <1>2, <2>1 DEF LivePath
<1>8. LivePath(v, b, n + 1, longer)
  <2> HIDE DEF longer
  <2> QED
    BY <1>4, <1>5, <1>6, <1>7 DEF LivePath
<1> QED
  BY <1>3, <1>8, ShortPath

(* There is an edge from b to t when the terminator of b names t.          *)
LEMMA EdgeMeansTarget ==
  ASSUME TypeOK, NEW b \in Blocks, NEW t \in Blocks
  PROVE  t \in Successors(b) <=>
           /\ b \in present /\ t \in present /\ code[b] # <<>>
           /\ \E n \in DOMAIN EdgeTargets(Terminator(code[b])) :
                EdgeTargets(Terminator(code[b]))[n] = t
<1> DEFINE to == EdgeTargets(Terminator(code[b]))
           at == {k \in DOMAIN to : to[k] = t}
<1>1. CASE b \in present /\ t \in present /\ code[b] # <<>>
  <2>1. IsFiniteSet(at)
    BY <1>1, TargetsFinite, FS_Subset
  <2>2. Cardinality(at) \in Nat /\ (Cardinality(at) = 0 <=> at = {})
    BY <2>1, FS_CardinalityType, FS_EmptySet
  <2>3. EdgeCount(b, t) = Cardinality(at)
    BY <1>1 DEF EdgeCount
  <2>4. t \in Successors(b) <=> at # {}
    BY <2>2, <2>3 DEF Successors
  <2> QED
    BY <1>1, <2>4
<1>2. CASE ~(b \in present /\ t \in present /\ code[b] # <<>>)
  BY <1>2 DEF Successors, EdgeCount
<1> QED
  BY <1>1, <1>2

(* Where there is an edge, the last instruction names its end.             *)
LEMMA EdgeIsNamed ==
  ASSUME TypeOK, NEW b \in Blocks, NEW t \in Successors(b)
  PROVE  LET i == Terminator(code[b])
         IN /\ code[b] # <<>> /\ i = code[b][Len(code[b])] /\ i \in Instructions
            /\ t = i.pad \/ \E m \in DOMAIN i.targets : i.targets[m] = t
<1> DEFINE c == code[b]
           i == Terminator(c)
<1>1. t \in Blocks
  BY DEF Successors
<1>2. PICK n \in DOMAIN EdgeTargets(i) : EdgeTargets(i)[n] = t
  BY <1>1, EdgeMeansTarget
<1>3. c \in Seq(Instructions) /\ c # <<>>
  BY <1>1, EdgeMeansTarget DEF TypeOK
<1>4. i = c[Len(c)] /\ i \in Instructions
  BY <1>3 DEF Terminator
<1>5. t = i.pad \/ \E m \in DOMAIN i.targets : i.targets[m] = t
  <2>1. i.targets \in Seq(Targets) /\ i.pad \in Targets
    BY <1>4 DEF Instructions
  <2>2. CASE i.kind \in {"jump", "branch", "switch"}
    BY <1>2, <2>2 DEF EdgeTargets
  <2>3. CASE i.kind = "invoke"
    <3>1. EdgeTargets(i) = Append(i.targets, i.pad)
      BY <2>3 DEF EdgeTargets
    <3> HIDE DEF i
    <3>2. n \in 1 .. Len(i.targets) + 1
      BY <1>2, <2>1, <3>1
    <3>3. n = Len(i.targets) + 1 => t = i.pad
      BY <1>2, <2>1, <3>1
    <3>4. n \in 1 .. Len(i.targets) => t = i.targets[n]
      BY <1>2, <2>1, <3>1
    <3>5. DOMAIN i.targets = 1 .. Len(i.targets) /\ Len(i.targets) \in Nat
      BY <2>1
    <3>6. n \in 1 .. Len(i.targets) \/ n = Len(i.targets) + 1
      BY <3>2, <3>5
    <3> QED
      BY <3>3, <3>4, <3>5, <3>6
  <2>4. CASE i.kind = "throw"
    <3>1. EdgeTargets(i) = <<i.pad>>
      BY <2>4 DEF EdgeTargets
    <3>2. n = 1
      BY <1>2, <3>1
    <3> QED
      BY <1>2, <3>1, <3>2 DEF LivePath
  <2>5. CASE i.kind \notin {"jump", "branch", "switch", "invoke", "throw"}
    BY <1>2, <2>5 DEF EdgeTargets
  <2> QED
    BY <2>2, <2>3, <2>4, <2>5
<1> QED
  BY <1>3, <1>4, <1>5

(* Control may leave over it.                                              *)
LEMMA EdgeIsLeft ==
  ASSUME TypeOK, NEW b \in Blocks, NEW t \in Successors(b), NEW v,
         v \notin DefinedIn(code[b]), v # NoVariable
  PROVE  StepsWithout(v, b, t)
<1> DEFINE c == code[b]
           i == c[Len(c)]
<1>1. c \in Seq(Instructions) /\ c # <<>>
  BY EdgeIsNamed DEF TypeOK
<1>2. Len(c) \in DOMAIN c /\ \A j \in 1 .. Len(c) - 1 : j \in DOMAIN c
  BY <1>1
<1>3. t = i.pad \/ \E m \in DOMAIN i.targets : i.targets[m] = t
  BY EdgeIsNamed
<1>4. \A k \in DOMAIN c : c[k].dst # v
  BY DEF DefinedIn
<1>5. LeavesWithout(v, b, Len(c), t)
  BY <1>2, <1>3, <1>4 DEF LeavesWithout
<1> QED
  BY <1>2, <1>5 DEF StepsWithout

LEMMA UsedIsReadFirst ==
  ASSUME TypeOK, NEW b \in Blocks, NEW v
  PROVE  v \in UsedIn(code[b]) <=> ReadFirst(v, b)
<1>1. DOMAIN code[b] = 1 .. Len(code[b]) /\ Len(code[b]) \in Nat
  BY DEF TypeOK
<1> QED
  BY <1>1 DEF UsedIn, ReadFirst

-----------------------------------------------------------------------------
(* From the equations to the paths.                                        *)

(* What the paths make live is a solution of the equations, so the         *)
(* analysis stays below it.                                                *)
LEMMA PathsSolveEquations ==
  ASSUME TypeOK, EdgesBuilt, LocalsComputed, stage = "done"
  PROVE  IsSolution([b \in Blocks |-> {v \in Variables : OnPath(v, b)}])
<1> DEFINE S == [b \in Blocks |-> {v \in Variables : OnPath(v, b)}]
<1> SUFFICES ASSUME NEW b \in present, NEW v \in EntryOf(S, b)
             PROVE  v \in S[b]
  BY DEF IsSolution
<1>1. b \in Blocks /\ present \subseteq Blocks
  BY DEF TypeOK
<1>2. used[b] = UsedIn(code[b]) /\ defined[b] = DefinedIn(code[b])
  BY DEF LocalsComputed, Analyzing
<1>3. succ[b] \cap present = Successors(b)
  BY DEF EdgesBuilt
<1>4. CASE v \in used[b]
  <2>1. v \in Variables /\ ReadFirst(v, b)
    BY <1>1, <1>2, <1>4, LocalSetsType, UsedIsReadFirst
  <2> DEFINE path == [i \in 1 .. 1 |-> b]
  <2>2. path \in [1 .. 1 -> present] /\ path[1] = b
    OBVIOUS
  <2>3. LivePath(v, b, 1, path)
    BY <2>1, <2>2 DEF LivePath
  <2>4. OnPath(v, b)
    BY <1>1, <2>3, ShortPath
  <2> QED
    BY <1>1, <2>1, <2>4
<1>5. CASE v \in ExitOf(S, b) \ defined[b]
  <2>1. PICK t \in Successors(b) : v \in S[t]
    BY <1>3, <1>5 DEF ExitOf
  <2>2. t \in present /\ t \in Blocks
    BY <1>1, <1>3, <2>1
  <2>3. v \in Variables /\ OnPath(v, t)
    BY <2>1, <2>2
  <2>4. StepsWithout(v, b, t)
    BY <1>1, <1>2, <1>5, <2>1, <2>3, EdgeIsLeft, LivenessAssumption
  <2>5. OnPath(v, b)
    BY <1>1, <2>2, <2>3, <2>4, ExtendPath
  <2> QED
    BY <1>1, <2>3, <2>5
<1> QED
  BY <1>4, <1>5 DEF EntryOf

(* Only the last instruction of a block leaves it, by an edge, and what a  *)
(* call that raises would have returned is not read at its landing pad.    *)
ControlLeavesAtEnd ==
  \A b \in present : \A k \in DOMAIN code[b] :
    LET i == code[b][k]
        left == {t \in present : t = i.pad \/
                                 \E n \in DOMAIN i.targets : i.targets[n] = t}
    IN /\ left # {} => k = Len(code[b])
       /\ left \subseteq {EdgeTargets(i)[n] : n \in DOMAIN EdgeTargets(i)}
       /\ i.dst # NoVariable /\ i.pad \in present => ~OnPath(i.dst, i.pad)

(* Then every solution has what the paths make live: the last block of a   *)
(* path at which it were missing would miss what an edge brings back.      *)
LEMMA SolutionCoversPaths ==
  ASSUME TypeOK, SolvesEquations, EdgesBuilt, LocalsComputed, stage = "done",
         ControlLeavesAtEnd, NEW v \in Variables, NEW b \in present, OnPath(v, b)
  PROVE  v \in liveIn[b]
<1>1. PICK n \in 1 .. LastBlock + 1 : \E path : LivePath(v, b, n, path)
  BY OnPathIsLive
<1>2. PICK path : LivePath(v, b, n, path)
  BY <1>1
<1>3. n \in Nat \ {0} /\ present \subseteq Blocks
  BY LastBlockType DEF TypeOK
<1>4. /\ path \in [1 .. n -> present] /\ path[1] = b /\ ReadFirst(v, path[n])
       /\ \A i \in 1 .. n - 1 : StepsWithout(v, path[i], path[i + 1])
  BY <1>2 DEF LivePath
<1> DEFINE missing == {m \in 0 .. n - 1 : v \notin liveIn[path[n - m]]}
<1> SUFFICES ASSUME missing # {} PROVE FALSE
  <2>1. n - 1 \in 0 .. n - 1 /\ n - (n - 1) = 1
    BY <1>3
  <2> QED
    BY <1>4, <2>1
<1>5. PICK m \in missing : \A l \in missing : m <= l
  <2>1. missing \subseteq Nat
    BY <1>3
  <2> HIDE DEF missing
  <2> QED
    BY <2>1, LeastNumber
<1> DEFINE i == n - m
           x == path[i]
<1>6. i \in 1 .. n /\ x \in present /\ x \in Blocks /\ v \notin liveIn[x]
  BY <1>4, <1>3, <1>5
<1>7. /\ used[x] = UsedIn(code[x]) /\ defined[x] = DefinedIn(code[x])
      /\ succ[x] \cap present = Successors(x)
      /\ liveIn[x] = EntryOf(liveIn, x)
  BY <1>6 DEF LocalsComputed, Analyzing, EdgesBuilt, SolvesEquations
<1>8. i # n
  <2> SUFFICES ASSUME i = n PROVE FALSE
    OBVIOUS
  <2>1. v \in UsedIn(code[x])
    BY <1>4, <1>6, UsedIsReadFirst
  <2> QED
    BY <1>6, <1>7, <2>1 DEF EntryOf
<1> DEFINE y == path[i + 1]
<1>9. i \in 1 .. n - 1 /\ i + 1 \in 1 .. n
  BY <1>3, <1>6, <1>8
<1>10. y \in present /\ v \in liveIn[y]
  <2>1. m - 1 \in 0 .. n - 1 /\ n - (m - 1) = i + 1 /\ ~(m <= m - 1)
    BY <1>3, <1>5, <1>9
  <2>2. m - 1 \notin missing
    <3> HIDE DEF missing
    <3> QED
      BY <1>5, <2>1
  <2> QED
    BY <1>4, <1>9, <2>1, <2>2
<1>11. OnPath(v, y)
  <2> DEFINE l == n - i
             rest == [j \in 1 .. l |-> path[i + j]]
  <2>1. l \in Nat \ {0} /\ \A j \in 1 .. l : i + j \in 1 .. n
    BY <1>3, <1>9
  <2>2. rest \in [1 .. l -> present] /\ rest[1] = y
    BY <1>4, <2>1
  <2>3. rest[l] = path[n]
    <3>1. i + l = n /\ l \in 1 .. l
      BY <1>3, <1>9, <2>1
    <3> QED
      BY <3>1
  <2>4. ASSUME NEW j \in 1 .. l - 1
        PROVE  StepsWithout(v, rest[j], rest[j + 1])
    <3>1. i + j \in 1 .. n - 1 /\ i + (j + 1) = (i + j) + 1
      BY <1>3, <1>9
    <3>2. j \in 1 .. l /\ j + 1 \in 1 .. l
      BY <2>1
    <3>3. rest[j] = path[i + j] /\ rest[j + 1] = path[(i + j) + 1]
      <4> HIDE DEF l, i
      <4> QED
        BY <3>1, <3>2
    <3> QED
      BY <1>4, <3>1, <3>3 DEF StepsWithout
  <2>5. LivePath(v, y, l, rest)
    <3> HIDE DEF l, rest
    <3> QED
      BY <1>4, <2>2, <2>3, <2>4 DEF LivePath
  <2> HIDE DEF l, rest, i, y
  <2> QED
    BY <1>3, <2>1, <2>5, ShortPath
<1> HIDE DEF missing, i, x, y
<1>12. PICK k \in DOMAIN code[x] : LeavesWithout(v, x, k, y)
  BY <1>4, <1>9 DEF x, y, StepsWithout
<1> DEFINE ins == code[x][k]
<1>13. /\ y = ins.pad \/ \E j \in DOMAIN ins.targets : ins.targets[j] = y
       /\ y # ins.pad => ins.dst # v
       /\ \A j \in 1 .. k - 1 : code[x][j].dst # v
  BY <1>12 DEF LeavesWithout
<1>14. /\ k = Len(code[x])
       /\ y \in {EdgeTargets(ins)[j] : j \in DOMAIN EdgeTargets(ins)}
       /\ ins.dst # NoVariable /\ ins.pad \in present => ~OnPath(ins.dst, ins.pad)
  BY <1>6, <1>10, <1>13 DEF ControlLeavesAtEnd
<1>15. ins.dst # v
  <2> SUFFICES ASSUME ins.dst = v PROVE FALSE
    OBVIOUS
  <2>1. y = ins.pad
    BY <1>13
  <2>2. v # NoVariable
    BY LivenessAssumption
  <2> HIDE DEF ins
  <2> QED
    BY <1>10, <1>11, <1>14, <2>1, <2>2
<1>16. v \notin DefinedIn(code[x])
  <2>1. DOMAIN code[x] = 1 .. Len(code[x]) /\ Len(code[x]) \in Nat
    BY <1>6 DEF TypeOK
  <2>2. ASSUME NEW j \in DOMAIN code[x]
        PROVE  code[x][j].dst # v
    <3>1. j \in 1 .. k - 1 \/ j = k
      BY <1>14, <2>1
    <3> QED
      BY <1>13, <1>15, <3>1
  <2> QED
    BY <2>2 DEF DefinedIn
<1>17. y \in Successors(x)
  <2>1. ins = Terminator(code[x]) /\ code[x] # <<>>
    BY <1>14 DEF Terminator
  <2>2. y \in Blocks
    BY <1>3, <1>10
  <2> HIDE DEF ins
  <2> QED
    BY <1>6, <1>10, <1>14, <2>1, <2>2, EdgeMeansTarget
<1>18. v \in ExitOf(liveIn, x) \ defined[x]
  BY <1>7, <1>10, <1>16, <1>17 DEF ExitOf
<1> QED
  BY <1>6, <1>7, <1>18 DEF EntryOf

-----------------------------------------------------------------------------
(* The theorems.                                                           *)

THEOREM Invariance == Spec => []IInv
<1>1. Init => IInv
  BY InitIInv
<1>2. IInv /\ [Next]_vars => IInv'
  BY NextIInv
<1> QED
  BY <1>1, <1>2, PTL DEF Spec

(* Every variable of the analysis keeps its type: in particular no sweep   *)
(* looks at a block past the ends of controlFlowBlocks.                    *)
THEOREM TypeCorrect == Spec => []TypeOK
<1>1. IInv => TypeOK
  BY DEF IInv, SweepInv
<1> QED
  BY <1>1, Invariance, PTL

(* No variable is ever live that some solution of the liveness equations   *)
(* leaves out (analyzer.cpp:135-145).                                      *)
THEOREM NothingTooMuch == Spec => []NeverOverestimates
<1>1. IInv => NeverOverestimates
  BY DEF IInv, SweepInv
<1> QED
  BY <1>1, Invariance, PTL

(* The analysis stops at a solution of the liveness equations              *)
(* (analyzer.cpp:34-36).                                                   *)
THEOREM StopsAtSolution == Spec => []SolvesEquations
<1>1. IInv => SolvesEquations
  BY DEF IInv, SweepInv
<1> QED
  BY <1>1, Invariance, PTL

(* A variable is live at the entry of a block only when the code can read  *)
(* it from there before it writes it (analyzer.cpp:26-37, 109-145).        *)
THEOREM OnlyPathsAreLive ==
  Spec => [](stage = "done" =>
               \A b \in present : liveIn[b] \subseteq {v \in Variables : OnPath(v, b)})
<1>1. ASSUME IInv, stage = "done", NEW b \in present
      PROVE  liveIn[b] \subseteq {v \in Variables : OnPath(v, b)}
  <2> DEFINE S == [c \in Blocks |-> {v \in Variables : OnPath(v, c)}]
  <2>1. TypeOK /\ EdgesBuilt /\ LocalsComputed /\ NeverOverestimates
    BY <1>1 DEF IInv, SweepInv
  <2>2. S \in VariableSets
    BY DEF VariableSets
  <2>3. IsSolution(S)
    BY <1>1, <2>1, PathsSolveEquations
  <2>4. b \in Blocks
    BY <2>1 DEF TypeOK
  <2>5. liveIn[b] \subseteq S[b]
    <3> HIDE DEF S
    <3> QED
      BY <1>1, <2>1, <2>2, <2>3, <2>4 DEF NeverOverestimates
  <2> QED
    BY <2>4, <2>5
<1>2. IInv => (stage = "done" =>
        \A b \in present : liveIn[b] \subseteq {v \in Variables : OnPath(v, b)})
  BY <1>1
<1> QED
  BY <1>2, Invariance, PTL

(* In a function whose blocks are left at their last instruction only, a   *)
(* variable is live at the entry of a block exactly when the code can read *)
(* it from there before it writes it (analyzer.cpp:26-37). Where an await  *)
(* in a try leaves its block halfway the hypothesis is false, and so may   *)
(* the conclusion be.                                                      *)
THEOREM LivenessIsReadOnPath == Spec => [](ControlLeavesAtEnd => LiveAlongPaths)
<1>1. ASSUME IInv, ControlLeavesAtEnd, stage = "done", NEW b \in present, NEW v
      PROVE  v \in liveIn[b] <=> v \in Variables /\ OnPath(v, b)
  <2> DEFINE S == [c \in Blocks |-> {w \in Variables : OnPath(w, c)}]
  <2>1. /\ TypeOK /\ EdgesBuilt /\ LocalsComputed /\ NeverOverestimates
        /\ SolvesEquations
    BY <1>1 DEF IInv, SweepInv
  <2>2. S \in VariableSets
    BY DEF VariableSets
  <2>3. IsSolution(S)
    BY <1>1, <2>1, PathsSolveEquations
  <2>4. b \in Blocks
    BY <2>1 DEF TypeOK
  <2>5. liveIn[b] \subseteq S[b]
    <3> HIDE DEF S
    <3> QED
      BY <1>1, <2>1, <2>2, <2>3, <2>4 DEF NeverOverestimates
  <2>6. v \in Variables /\ OnPath(v, b) => v \in liveIn[b]
    BY <1>1, <2>1, SolutionCoversPaths
  <2> QED
    BY <2>4, <2>5, <2>6
<1>2. IInv => (ControlLeavesAtEnd => LiveAlongPaths)
  BY <1>1 DEF LiveAlongPaths
<1> QED
  BY <1>2, Invariance, PTL

-----------------------------------------------------------------------------
(* The live sets grow, and so the sweeps end.                              *)

(* No block has more than the equations give it from the sets as they are: *)
(* an update can only add.                                                 *)
BelowEquations ==
  IF Analyzing
  THEN \A b \in present : liveIn[b] \subseteq NewIn(b) /\ liveOut[b] \subseteq NewOut(b)
  ELSE liveIn = NoSets /\ liveOut = NoSets

GInv == IInv /\ BelowEquations

(* What one update does to the live sets.                                  *)
LEMMA UpdateEffects ==
  ASSUME TypeOK, PropagateBackward, index \in present, SetsDiffer(index)
  PROVE  /\ index \in Blocks
         /\ liveIn'[index] = NewIn(index) /\ liveOut'[index] = NewOut(index)
         /\ \A c \in Blocks \ {index} : liveIn'[c] = liveIn[c] /\ liveOut'[c] = liveOut[c]
         /\ changed' = TRUE
<1>1. /\ liveIn' = [liveIn EXCEPT ![index] = NewIn(index)]
      /\ liveOut' = [liveOut EXCEPT ![index] = NewOut(index)]
      /\ changed' = TRUE
  BY DEF PropagateBackward
<1>2. index \in Blocks
  BY DEF TypeOK
<1>3. DOMAIN liveIn = Blocks /\ DOMAIN liveOut = Blocks
  BY DEF TypeOK, VariableSets
<1> QED
  BY <1>1, <1>2, <1>3

(* Larger sets at the successors make larger sets here.                    *)
LEMMA UpdateIsMonotone ==
  ASSUME TypeOK, UNCHANGED <<present, succ, used, defined>>,
         \A c \in Blocks : liveIn[c] \subseteq liveIn'[c],
         NEW b \in Blocks
  PROVE  NewIn(b) \subseteq NewIn(b)' /\ NewOut(b) \subseteq NewOut(b)'
<1>1. succ[b] \cap present \subseteq Blocks
  BY DEF TypeOK
<1>2. NewOut(b) \subseteq NewOut(b)'
  <2> SUFFICES ASSUME NEW v \in NewOut(b) PROVE v \in NewOut(b)'
    OBVIOUS
  <2>1. PICK s \in succ[b] \cap present : v \in liveIn[s]
    BY DEF NewOut
  <2>2. v \in liveIn'[s]
    BY <1>1, <2>1
  <2> QED
    BY <2>2 DEF NewOut
<1> QED
  BY <1>2 DEF NewIn

LEMMA UpdateGrows ==
  ASSUME TypeOK, BelowEquations, PropagateBackward
  PROVE  \A c \in Blocks : liveIn[c] \subseteq liveIn'[c] /\ liveOut[c] \subseteq liveOut'[c]
<1>1. CASE index \in present /\ SetsDiffer(index)
  <2>1. liveIn[index] \subseteq NewIn(index) /\ liveOut[index] \subseteq NewOut(index)
    BY <1>1 DEF BelowEquations, Analyzing, PropagateBackward
  <2> QED
    BY <1>1, <2>1, UpdateEffects
<1>2. CASE ~(index \in present /\ SetsDiffer(index))
  BY <1>2 DEF PropagateBackward, liveVars
<1> QED
  BY <1>1, <1>2

LEMMA AnalyzeBelowEquations ==
  ASSUME TypeOK, BelowEquations, Analyze
  PROVE  BelowEquations'
<1> USE DEF edgeVars, localVars, liveVars, sweepVars
<1>1. CASE BuildEdges
  <2>1. ~Analyzing /\ ~Analyzing' /\ UNCHANGED <<liveIn, liveOut>>
    BY <1>1 DEF BuildEdges, Analyzing
  <2> QED
    BY <2>1 DEF BelowEquations, NoSets
<1>2. CASE ComputeLocalSets
  <2>1. ~Analyzing /\ Analyzing' /\ UNCHANGED <<present, liveIn, liveOut>>
    BY <1>2 DEF ComputeLocalSets, Analyzing
  <2>2. \A b \in present : liveIn'[b] = {} /\ liveOut'[b] = {}
    BY <2>1 DEF BelowEquations, NoSets, TypeOK
  <2> QED
    BY <2>1, <2>2 DEF BelowEquations
<1>3. CASE PropagateBackward
  <2>1. Analyzing /\ Analyzing' /\ UNCHANGED <<present, succ, used, defined>>
    BY <1>3 DEF PropagateBackward, Analyzing
  <2> SUFFICES ASSUME NEW b \in present
               PROVE  liveIn'[b] \subseteq NewIn(b)' /\ liveOut'[b] \subseteq NewOut(b)'
    BY <2>1 DEF BelowEquations
  <2>2. b \in Blocks
    BY DEF TypeOK
  <2>3. NewIn(b) \subseteq NewIn(b)' /\ NewOut(b) \subseteq NewOut(b)'
    BY <1>3, <2>1, <2>2, UpdateGrows, UpdateIsMonotone
  <2>4. liveIn'[b] \subseteq NewIn(b) /\ liveOut'[b] \subseteq NewOut(b)
    <3>1. liveIn[b] \subseteq NewIn(b) /\ liveOut[b] \subseteq NewOut(b)
      BY <2>1 DEF BelowEquations
    <3>2. CASE index \in present /\ SetsDiffer(index)
      BY <1>3, <2>2, <3>1, <3>2, UpdateEffects
    <3>3. CASE ~(index \in present /\ SetsDiffer(index))
      BY <1>3, <3>1, <3>3 DEF PropagateBackward
    <3> QED
      BY <3>2, <3>3
  <2> QED
    BY <2>3, <2>4
<1>4. CASE SweepAgain \/ Converged
  <2>1. /\ Analyzing /\ Analyzing'
        /\ UNCHANGED <<present, succ, used, defined, liveIn, liveOut>>
    BY <1>4 DEF SweepAgain, Converged, Analyzing
  <2> QED
    BY <2>1 DEF BelowEquations, NewIn, NewOut
<1> QED
  BY <1>1, <1>2, <1>3, <1>4 DEF Analyze

LEMMA NextGInv == GInv /\ [Next]_vars => GInv'
<1> SUFFICES ASSUME GInv, [Next]_vars PROVE GInv'
  OBVIOUS
<1>1. IInv'
  BY NextIInv DEF GInv
<1>2. CASE Analyze
  BY <1>1, <1>2, AnalyzeBelowEquations DEF GInv, IInv, SweepInv
<1>3. CASE UNCHANGED vars
  <2>1. UNCHANGED <<present, succ, used, defined, liveIn, liveOut, stage>>
    BY <1>3 DEF vars, edgeVars, localVars, liveVars
  <2> QED
    BY <1>1, <2>1 DEF GInv, BelowEquations, Analyzing, NoSets, NewIn, NewOut
<1> QED
  BY <1>1, <1>2, <1>3 DEF GInv, Next, Terminated

(* What the live sets can still gain.                                      *)
Missing(sets) == {p \in Blocks \X Variables : p[2] \notin sets[p[1]]}
Room == Cardinality(Missing(liveIn)) + Cardinality(Missing(liveOut))

SweepLength == LastBlock + 2

(* How many steps the analysis can still take: for everything that a set   *)
(* can still gain, the rest of the sweep that adds it and a sweep more.    *)
StepsLeft ==
  2 * SweepLength * Room
  + (IF changed THEN SweepLength ELSE 0)
  + (index + 1)
  + CASE stage = "edges" -> SweepLength + 2
      [] stage = "local" -> SweepLength + 1
      [] stage = "sweep" -> 1
      [] stage = "done" -> 0

LEMMA MissingFinite ==
  ASSUME IsFiniteSet(Variables), NEW sets
  PROVE  IsFiniteSet(Missing(sets)) /\ Cardinality(Missing(sets)) \in Nat
<1>1. IsFiniteSet(Blocks)
  BY LastBlockType, FS_Interval DEF Blocks
<1>2. IsFiniteSet(Blocks \X Variables)
  BY <1>1, FS_Product
<1>3. Missing(sets) \subseteq Blocks \X Variables
  BY DEF Missing
<1>4. IsFiniteSet(Missing(sets))
  BY <1>2, <1>3, FS_Subset
<1> QED
  BY <1>4, FS_CardinalityType

(* Sets that gain have less to gain.                                       *)
LEMMA GainLowersMissing ==
  ASSUME IsFiniteSet(Variables), NEW old, NEW new,
         \A c \in Blocks : old[c] \subseteq new[c]
  PROVE  /\ Cardinality(Missing(new)) <= Cardinality(Missing(old))
         /\ \A c \in Blocks : new[c] # old[c] /\ new[c] \subseteq Variables =>
              Cardinality(Missing(new)) < Cardinality(Missing(old))
<1>1. Missing(new) \subseteq Missing(old)
  BY DEF Missing
<1>2. IsFiniteSet(Missing(old))
  BY MissingFinite
<1>3. Cardinality(Missing(new)) <= Cardinality(Missing(old))
  BY <1>1, <1>2, FS_Subset
<1>4. ASSUME NEW c \in Blocks, new[c] # old[c], new[c] \subseteq Variables
      PROVE  Cardinality(Missing(new)) < Cardinality(Missing(old))
  <2>1. PICK v \in Variables : v \in new[c] /\ v \notin old[c]
    BY <1>4
  <2>2. <<c, v>> \in Missing(old) /\ <<c, v>> \notin Missing(new)
    BY <1>4, <2>1 DEF Missing
  <2>3. Missing(new) # Missing(old)
    BY <2>2
  <2>4. Cardinality(Missing(new)) # Cardinality(Missing(old))
    BY <1>1, <1>2, <2>3, FS_Subset
  <2>5. Cardinality(Missing(new)) \in Nat /\ Cardinality(Missing(old)) \in Nat
    BY MissingFinite
  <2> QED
    BY <1>3, <2>4, <2>5
<1> QED
  BY <1>3, <1>4

LEMMA RoomType ==
  ASSUME IsFiniteSet(Variables)
  PROVE  Room \in Nat
<1>1. Cardinality(Missing(liveIn)) \in Nat /\ Cardinality(Missing(liveOut)) \in Nat
  BY MissingFinite
<1> QED
  BY <1>1 DEF Room

(* An update that changes a set leaves less room.                          *)
LEMMA UpdateLowersRoom ==
  ASSUME IsFiniteSet(Variables), TypeOK, BelowEquations, PropagateBackward,
         index \in present, SetsDiffer(index)
  PROVE  Room' < Room
<1>1. \A c \in Blocks : liveIn[c] \subseteq liveIn'[c] /\ liveOut[c] \subseteq liveOut'[c]
  BY UpdateGrows
<1>2. /\ index \in Blocks
      /\ liveIn'[index] = NewIn(index) /\ liveOut'[index] = NewOut(index)
  BY UpdateEffects
<1>3. NewIn(index) \subseteq Variables /\ NewOut(index) \subseteq Variables
  BY <1>2, NewSetsType
<1> DEFINE i == Cardinality(Missing(liveIn))
           o == Cardinality(Missing(liveOut))
           ii == Cardinality(Missing(liveIn'))
           oo == Cardinality(Missing(liveOut'))
<1>4. i \in Nat /\ o \in Nat /\ ii \in Nat /\ oo \in Nat
  BY MissingFinite
<1>5. ii <= i /\ (NewIn(index) # liveIn[index] => ii < i)
  BY <1>1, <1>2, <1>3, GainLowersMissing
<1>6. oo <= o /\ (NewOut(index) # liveOut[index] => oo < o)
  BY <1>1, <1>2, <1>3, GainLowersMissing
<1>7. Room = i + o /\ Room' = ii + oo
  BY DEF Room, Missing
<1>8. NewIn(index) # liveIn[index] \/ NewOut(index) # liveOut[index]
  BY DEF SetsDiffer
<1> HIDE DEF i, o, ii, oo
<1> QED
  BY <1>4, <1>5, <1>6, <1>7, <1>8

LEMMA LessRoom ==
  ASSUME NEW a \in Nat, NEW b \in Nat, a < b
  PROVE  2 * SweepLength * a + 2 * SweepLength <= 2 * SweepLength * b
<1> DEFINE n == 2 * SweepLength
<1>1. n \in Nat
  BY LastBlockType DEF SweepLength
<1>2. PICK d \in Nat : b = a + 1 + d
  <2>1. b - a - 1 \in Nat /\ b = a + 1 + (b - a - 1)
    OBVIOUS
  <2> QED
    BY <2>1
<1>3. n * d \in Nat
  BY <1>1
<1>4. n * b = n * a + n + n * d
  BY <1>1, <1>2
<1>5. n * a \in Nat
  BY <1>1
<1> HIDE DEF n
<1>6. n * a + n <= n * b
  BY <1>1, <1>3, <1>4, <1>5
<1> QED
  BY <1>6 DEF n

LEMMA StepsLeftType ==
  ASSUME IsFiniteSet(Variables), TypeOK
  PROVE  StepsLeft \in Nat
<1>1. Room \in Nat /\ SweepLength \in Nat
  BY RoomType, LastBlockType DEF SweepLength
<1>2. 2 * SweepLength * Room \in Nat
  BY <1>1
<1>3. index + 1 \in Nat
  BY LastBlockType DEF TypeOK
<1>4. stage \in {"edges", "local", "sweep", "done"}
  BY DEF TypeOK
<1> QED
  BY <1>1, <1>2, <1>3, <1>4 DEF StepsLeft

LEMMA AnalyzeLowersStepsLeft ==
  ASSUME IsFiniteSet(Variables), TypeOK, TypeOK', BelowEquations, Analyze
  PROVE  StepsLeft' < StepsLeft
<1> DEFINE most == 2 * SweepLength * Room
<1>1. Room \in Nat /\ SweepLength = LastBlock + 2 /\ LastBlock \in Nat
  BY RoomType, LastBlockType DEF SweepLength
<1>2. most \in Nat
  BY <1>1
<1>3. index \in Int /\ index' \in Int /\ changed \in BOOLEAN /\ changed' \in BOOLEAN
  BY LastBlockType DEF TypeOK
<1>4. UNCHANGED <<liveIn, liveOut>> => most' = most
  BY DEF Room, Missing
<1>5. StepsLeft = most + (IF changed THEN SweepLength ELSE 0) + (index + 1)
        + CASE stage = "edges" -> SweepLength + 2
            [] stage = "local" -> SweepLength + 1
            [] stage = "sweep" -> 1
            [] stage = "done" -> 0
  BY DEF StepsLeft
<1>6. StepsLeft' = most' + (IF changed' THEN SweepLength ELSE 0) + (index' + 1)
        + CASE stage' = "edges" -> SweepLength + 2
            [] stage' = "local" -> SweepLength + 1
            [] stage' = "sweep" -> 1
            [] stage' = "done" -> 0
  BY DEF StepsLeft, SweepLength
<1>7. CASE BuildEdges
  <2>1. UNCHANGED <<liveIn, liveOut, index, changed>> /\ stage = "edges" /\ stage' = "local"
    BY <1>7 DEF BuildEdges, liveVars, sweepVars
  <2>2. most' = most
    BY <1>4, <2>1
  <2> HIDE DEF most
  <2> QED
    BY <1>1, <1>2, <1>3, <1>5, <1>6, <2>1, <2>2
<1>8. CASE ComputeLocalSets
  <2>1. /\ UNCHANGED <<liveIn, liveOut>>
        /\ stage = "local" /\ stage' = "sweep" /\ index' = LastBlock /\ changed' = FALSE
    BY <1>8 DEF ComputeLocalSets, liveVars
  <2>2. most' = most
    BY <1>4, <2>1
  <2>3. index >= -1
    BY LastBlockType DEF TypeOK
  <2> HIDE DEF most
  <2> QED
    BY <1>1, <1>2, <1>3, <1>5, <1>6, <2>1, <2>2, <2>3
<1>9. CASE PropagateBackward
  <2>1. stage = "sweep" /\ stage' = "sweep" /\ index' = index - 1
    BY <1>9 DEF PropagateBackward
  <2>2. CASE index \in present /\ SetsDiffer(index)
    <3>1. changed' = TRUE
      BY <1>9, <2>2, UpdateEffects
    <3>2. Room' < Room
      BY <1>9, <2>2, UpdateLowersRoom
    <3>3. Room' \in Nat
      <4>1. Cardinality(Missing(liveIn')) \in Nat /\ Cardinality(Missing(liveOut')) \in Nat
        BY MissingFinite
      <4> QED
        BY <4>1 DEF Room, Missing
    <3>4. most' = 2 * SweepLength * Room'
      BY DEF SweepLength
    <3>5. most' + 2 * SweepLength <= most
      BY <1>1, <3>2, <3>3, <3>4, LessRoom
    <3>6. \A r \in Nat : 2 * SweepLength * r \in Nat
      <4>1. SweepLength \in Nat
        BY <1>1
      <4> QED
        BY <4>1
    <3>7. most' \in Nat
      BY <3>3, <3>4, <3>6
    <3> HIDE DEF most
    <3> QED
      BY <1>1, <1>2, <1>3, <1>5, <1>6, <2>1, <3>1, <3>5, <3>7
  <2>3. CASE ~(index \in present /\ SetsDiffer(index))
    <3>1. UNCHANGED <<liveIn, liveOut, changed>>
      BY <1>9, <2>3 DEF PropagateBackward, liveVars
    <3>2. most' = most
      BY <1>4, <3>1
    <3> HIDE DEF most
    <3> QED
      BY <1>1, <1>2, <1>3, <1>5, <1>6, <2>1, <3>1, <3>2
  <2> QED
    BY <2>2, <2>3
<1>10. CASE SweepAgain
  <2>1. /\ UNCHANGED <<liveIn, liveOut>>
        /\ stage = "sweep" /\ stage' = "sweep"
        /\ index = -1 /\ index' = LastBlock /\ changed /\ changed' = FALSE
    BY <1>10 DEF SweepAgain, liveVars
  <2>2. most' = most
    BY <1>4, <2>1
  <2> HIDE DEF most
  <2> QED
    BY <1>1, <1>2, <1>3, <1>5, <1>6, <2>1, <2>2
<1>11. CASE Converged
  <2>1. UNCHANGED <<liveIn, liveOut, index, changed>> /\ stage = "sweep" /\ stage' = "done"
    BY <1>11 DEF Converged, liveVars, sweepVars
  <2>2. most' = most
    BY <1>4, <2>1
  <2> HIDE DEF most
  <2> QED
    BY <1>1, <1>2, <1>3, <1>5, <1>6, <2>1, <2>2
<1> QED
  BY <1>7, <1>8, <1>9, <1>10, <1>11 DEF Analyze

LEMMA GrowInvariance == Spec => []GInv
<1>1. Init => GInv
  BY InitIInv DEF Init, GInv, BelowEquations, Analyzing
<1>2. GInv /\ [Next]_vars => GInv'
  BY NextGInv
<1> QED
  BY <1>1, <1>2, PTL DEF Spec

(* No step ever takes a variable out of a live set, although a sweep       *)
(* recomputes the sets from those of successors that it has updated and of *)
(* successors that it has not (analyzer.cpp:121-145).                      *)
LiveSetsOnlyGrow ==
  \A b \in Blocks : liveIn[b] \subseteq liveIn'[b] /\ liveOut[b] \subseteq liveOut'[b]

THEOREM LiveSetsGrow == Spec => [][LiveSetsOnlyGrow]_vars
<1>1. ASSUME GInv, [Next]_vars PROVE [LiveSetsOnlyGrow]_vars
  <2>1. TypeOK /\ BelowEquations
    BY <1>1 DEF GInv, IInv, SweepInv
  <2>2. CASE PropagateBackward
    BY <2>1, <2>2, UpdateGrows DEF LiveSetsOnlyGrow
  <2>3. CASE BuildEdges \/ ComputeLocalSets \/ SweepAgain \/ Converged
    BY <2>3 DEF LiveSetsOnlyGrow, BuildEdges, ComputeLocalSets, SweepAgain,
                Converged, liveVars
  <2> QED
    BY <1>1, <2>2, <2>3 DEF Next, Analyze, Terminated
<1> QED
  BY <1>1, GrowInvariance, PTL DEF Spec

(* The analysis cannot go on for ever: every step of it lowers a natural   *)
(* number (analyzer.cpp:26-37). A function has finitely many variables.    *)
THEOREM AnalysisIsFinite ==
  ASSUME IsFiniteSet(Variables)
  PROVE  /\ Spec => [](StepsLeft \in Nat)
         /\ Spec => [][StepsLeft' < StepsLeft]_vars
<1>1. GInv => StepsLeft \in Nat
  BY StepsLeftType DEF GInv, IInv, SweepInv
<1>2. ASSUME GInv, GInv', [Next]_vars PROVE [StepsLeft' < StepsLeft]_vars
  <2>1. TypeOK /\ TypeOK' /\ BelowEquations
    BY <1>2 DEF GInv, IInv, SweepInv
  <2>2. Analyze => StepsLeft' < StepsLeft
    BY <2>1, AnalyzeLowersStepsLeft
  <2> QED
    BY <1>2, <2>2 DEF Next, Terminated
<1> QED
  BY <1>1, <1>2, GrowInvariance, PTL DEF Spec

=============================================================================

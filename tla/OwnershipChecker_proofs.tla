---------------------- MODULE OwnershipChecker_proofs -----------------------
(***************************************************************************)
(* For any names, scopes and programs the walk of OwnershipChecker keeps   *)
(* its variables in their types, and at the end of a scope it does what    *)
(* dropping its names in reverse does; what the operators it is built from *)
(* return.                                                                 *)
(***************************************************************************)
EXTENDS OwnershipChecker, SequenceTheorems, FiniteSetTheorems, WellFoundedInduction,
        TLAPS

-----------------------------------------------------------------------------
(* The operators keep their types.                                         *)

(* A function over 1 .. n is a sequence.                                   *)
LEMMA FunctionIsSequence ==
  ASSUME NEW S, NEW n \in Nat, NEW f \in [1 .. n -> S]
  PROVE  f \in Seq(S) /\ Len(f) = n
  BY SeqDef

LEMMA TruthTypes ==
  /\ Nowhere \in Truths
  /\ \A f, g \in Truths : Either(f, g) \in Truths
  /\ \A f \in Truths, x \in Names, fate \in Fates : Becomes(f, x, fate) \in Truths
  /\ \A parameters : AtStart(parameters) \in Truths
  BY DEF Nowhere, Either, Becomes, AtStart, Truths, Fates

LEMMA SnapshotTypes ==
  /\ Untracked \in Snapshots
  /\ \A y : \A s \in Snapshots : DropValue(s, y) \in Snapshots
  /\ \A names : \A s \in Snapshots : DropScope(s, names) \in Snapshots
  /\ \A s, t \in Snapshots : Merge(s, t) \in Snapshots /\ Restore(s, t) \in Snapshots
  /\ \A x : \A s \in Snapshots : AfterMove(s, x) \in Snapshots
  BY DEF Untracked, DropValue, DropScope, Merge, Restore, AfterMove, Snapshots, States

LEMMA NewBlockType ==
  ASSUME NEW kind \in Kinds, NEW names \in Seq(Names), NEW s \in Snapshots,
         NEW f \in Truths
  PROVE  NewBlock(kind, names, s, f) \in Block
  BY TruthTypes, SnapshotTypes DEF NewBlock, Block

LEMMA BlocksType ==
  ASSUME TypeOK
  PROVE  /\ blocks \in Seq(Block) /\ Len(blocks) \in Nat \ {0}
         /\ DOMAIN blocks = 1 .. Len(blocks)
         /\ \A k \in 1 .. Len(blocks) :
              blocks[k] \in Block /\ ((blocks[k].kind = "function") <=> (k = 1))
  BY DEF TypeOK, Nesting

LEMMA AppendNests ==
  ASSUME NEW open, Nesting(open), NEW b \in Block, b.kind # "function"
  PROVE  Nesting(Append(open, b))
  BY DEF Nesting

(* What an action on x leaves of the blocks: all but two fields.           *)
LEMMA PassingBlocks ==
  ASSUME TypeOK, NEW x, NEW f \in Truths
  PROVE  /\ Passing(x, f) \in Seq(Block) /\ Len(Passing(x, f)) = Len(blocks)
         /\ Nesting(Passing(x, f))
         /\ \A k \in 1 .. Len(blocks) :
              LET b == Passing(x, f)[k] IN
              /\ b \in Block
              /\ b.kind = blocks[k].kind /\ b.names = blocks[k].names
              /\ b.pre = blocks[k].pre /\ b.merged = blocks[k].merged
              /\ b.entry = blocks[k].entry /\ b.ends = blocks[k].ends
              /\ \A y \in Names : /\ b.thrown[y] \subseteq blocks[k].thrown[y] \cup f[y]
                                  /\ blocks[k].thrown[y] \subseteq b.thrown[y]
<1>1. Len(blocks) \in Nat /\ \A k \in 1 .. Len(blocks) : blocks[k] \in Block
  BY BlocksType
<1>2. ASSUME NEW k \in 1 .. Len(blocks)
      PROVE  LET b == Passing(x, f)[k] IN
              /\ b \in Block
              /\ b.kind = blocks[k].kind /\ b.names = blocks[k].names
              /\ b.pre = blocks[k].pre /\ b.merged = blocks[k].merged
              /\ b.entry = blocks[k].entry /\ b.ends = blocks[k].ends
              /\ \A y \in Names : /\ b.thrown[y] \subseteq blocks[k].thrown[y] \cup f[y]
                                  /\ blocks[k].thrown[y] \subseteq b.thrown[y]
  <2> DEFINE c == blocks[k]
             thrown == IF c.kind \in {"try", "except"} THEN Either(c.thrown, f)
                                                       ELSE c.thrown
             demanded == IF x \in Names /\ ~ DeclaredAt(k, x)
                         THEN c.demanded \cup {x} ELSE c.demanded
  <2>1. c \in Block
    BY <1>1
  <2>2. Passing(x, f)[k] = [c EXCEPT !.thrown = thrown, !.demanded = demanded]
    BY DEF Passing
  <2>3. thrown \in Truths /\ demanded \subseteq Names
    BY <2>1, TruthTypes DEF Block
  <2>4. \A y \in Names : thrown[y] \subseteq c.thrown[y] \cup f[y] /\ c.thrown[y] \subseteq thrown[y]
    BY <2>1 DEF Block, Either, Truths
  <2> HIDE DEF thrown, demanded
  <2>5. QED
    BY <2>1, <2>2, <2>3, <2>4 DEF Block
<1>3. Passing(x, f) \in [1 .. Len(blocks) -> Block]
  BY <1>2 DEF Passing
<1>4. Passing(x, f) \in Seq(Block) /\ Len(Passing(x, f)) = Len(blocks)
  BY <1>1, <1>3, FunctionIsSequence
<1>5. Nesting(Passing(x, f))
  BY <1>2, <1>4, BlocksType DEF Nesting
<1>6. QED
  BY <1>2, <1>4, <1>5

LEMMA BelowBlocks ==
  ASSUME TypeOK
  PROVE  /\ Top \in Block /\ (Top.kind # "function" => Nesting(Below))
         /\ Below \in Seq(Block) /\ Len(Below) = Len(blocks) - 1
         /\ \A k \in 1 .. Len(Below) : Below[k] = blocks[k]
<1>1. Len(blocks) \in Nat \ {0} /\ \A k \in 1 .. Len(blocks) : blocks[k] \in Block
  BY BlocksType
<1>2. Below \in [1 .. Len(blocks) - 1 -> Block]
  BY <1>1 DEF Below
<1>3. Below \in Seq(Block) /\ Len(Below) = Len(blocks) - 1
  BY <1>1, <1>2, FunctionIsSequence
<1>4. \A k \in 1 .. Len(Below) : Below[k] = blocks[k]
  BY <1>3 DEF Below
<1>5. Top.kind # "function" => Nesting(Below)
  BY <1>3, <1>4, BlocksType DEF Top, Nesting
<1>6. QED
  BY <1>1, <1>3, <1>4, <1>5 DEF Top

-----------------------------------------------------------------------------
(* The end of a scope.                                                     *)

(* Every set of natural numbers has a least one: an interval 0 .. m that   *)
(* has no smaller one below it in the set.                                 *)
LEMMA LeastNumber ==
  ASSUME NEW S \in SUBSET Nat, S # {}
  PROVE  \E m \in S : \A k \in S : m <= k
<1> DEFINE T == {0 .. m : m \in S}
           R == StrictSubsetOrdering(Nat)
<1>1. IsWellFoundedOn(R, FiniteSubsetsOf(Nat))
  BY FS_StrictSubsetOrderingWellFounded
<1>2. T \subseteq FiniteSubsetsOf(Nat) /\ T # {}
  <2>1. ASSUME NEW m \in S PROVE IsFiniteSet(0 .. m) /\ 0 .. m \subseteq Nat
    BY FS_Interval
  <2> QED
    BY <2>1 DEF FiniteSubsetsOf
<1>3. \E x \in T : \A y \in T : <<y, x>> \notin R
  <2> HIDE DEF T, R
  <2> QED BY <1>1, <1>2, WFMin
<1>4. PICK m \in S : \A k \in S : <<0 .. k, 0 .. m>> \notin R
  BY <1>3
<1>5. ASSUME NEW k \in S, k < m PROVE <<0 .. k, 0 .. m>> \in R
  <2>1. 0 .. k \subseteq 0 .. m /\ m \in 0 .. m /\ m \notin 0 .. k
    BY <1>5
  <2> QED BY <2>1 DEF StrictSubsetOrdering
<1>6. ASSUME NEW k \in S PROVE m <= k
  <2> HIDE DEF R
  <2>1. ~(k < m)
    BY <1>4, <1>5
  <2> QED BY <2>1
<1> QED
  BY <1>6

(* The end of a scope as the code has it: the drops of its names, one      *)
(* after another from the last name to the first.                          *)
InReverse(s, names) ==
  LET dropped[n \in 0 .. Len(names)] ==
        IF n = 0 THEN s ELSE DropValue(dropped[n - 1], names[Len(names) - n + 1])
  IN dropped[Len(names)]

(* Whatever the states and the borrows are, popScope does what dropping    *)
(* the names of the scope in reverse does: each drop revives the one       *)
(* before, and the first name stays dropped (borrow.cpp:647-681, 715-725). *)
ScopeDropsInReverse ==
  \A k \in DOMAIN blocks :
    DropScope(state, blocks[k].names) = InReverse(state, blocks[k].names)

(* The drops in reverse leave what DropScope says.                         *)
LEMMA DropsInReverse ==
  ASSUME NEW s, DOMAIN s = Names, s = [x \in Names |-> s[x]], NEW names \in Seq(Names)
  PROVE  InReverse(s, names) = DropScope(s, names)
<1> DEFINE c == Len(names)
           IsChain(f) == f = [n \in 0 .. c |->
                           IF n = 0 THEN s
                           ELSE DropValue(f[n - 1], names[c - n + 1])]
           chain == CHOOSE f : IsChain(f)
           Among(n, x) == \E j \in c - n + 1 .. c : names[j] = x
           After(n) == [x \in Names |->
                          IF x = names[c - n + 1] THEN "Dropped"
                          ELSE IF Among(n, x)
                               THEN IF borrows[x] = 0 THEN "Owned" ELSE "Dropped"
                          ELSE IF s[x] # "Absent" /\ s[x] # "Moved" /\ borrows[x] = 0
                               THEN "Owned"
                          ELSE s[x]]
           g == [n \in 0 .. c |-> IF n = 0 THEN s ELSE After(n)]
<1>1. c \in Nat /\ names \in [1 .. c -> Names]
  OBVIOUS
<1>2. IsChain(g)
  <2>1. ASSUME NEW n \in 0 .. c, n # 0
        PROVE  After(n) = DropValue(g[n - 1], names[c - n + 1])
    <3>1. n - 1 \in 0 .. c /\ c - n + 1 \in 1 .. c /\ c - (n - 1) + 1 = c - n + 2
      BY <1>1, <2>1
    <3>2. ASSUME NEW x PROVE Among(n, x) <=> x = names[c - n + 1] \/ Among(n - 1, x)
      <4>1. \A j : j \in c - n + 1 .. c <=> j = c - n + 1 \/ j \in c - n + 2 .. c
        BY <1>1, <2>1
      <4> QED
        BY <3>1, <4>1
    <3>3. CASE n = 1
      <4>1. \A j \in c - (n - 1) + 1 .. c : FALSE
        BY <1>1, <3>3
      <4>2. \A x : ~Among(n - 1, x)
        BY <4>1
      <4>3. g[n - 1] = s
        BY <3>1, <3>3
      <4> HIDE DEF Among, g
      <4>4. \A x : Among(n, x) <=> x = names[c - n + 1]
        BY <3>2, <4>2
      <4>5. DropValue(s, names[c - n + 1]) =
              [x \in Names |->
                 IF x = names[c - n + 1] THEN "Dropped"
                 ELSE IF s[x] # "Absent" /\ s[x] # "Moved" /\ borrows[x] = 0
                      THEN "Owned" ELSE s[x]]
        BY DEF DropValue
      <4> QED
        BY <4>3, <4>4, <4>5
    <3>4. CASE n # 1
      <4>1. g[n - 1] = After(n - 1)
        BY <2>1, <3>1, <3>4
      <4>2. n - 1 \in Nat /\ n - 1 # 0 /\ names[c - (n - 1) + 1] \in Names
        BY <1>1, <2>1, <3>1, <3>4
      <4>3. Among(n - 1, names[c - (n - 1) + 1])
        BY <1>1, <2>1, <3>1, <3>4
      <4> DEFINE t == After(n - 1)
      <4>4. ASSUME NEW x \in Names
            PROVE  After(n)[x] = IF x = names[c - n + 1] THEN "Dropped"
                                 ELSE IF /\ t[x] # "Absent" /\ t[x] # "Moved"
                                         /\ borrows[x] = 0
                                      THEN "Owned" ELSE t[x]
        <5> HIDE DEF Among
        <5>1. x = names[c - (n - 1) + 1] => Among(n - 1, x)
          BY <4>3
        <5> QED
          BY <3>2, <5>1
      <4> HIDE DEF After, t
      <4>5. DropValue(t, names[c - n + 1]) =
              [x \in Names |->
                 IF x = names[c - n + 1] THEN "Dropped"
                 ELSE IF t[x] # "Absent" /\ t[x] # "Moved" /\ borrows[x] = 0
                      THEN "Owned" ELSE t[x]]
        BY DEF DropValue
      <4>6. After(n) =
              [x \in Names |->
                 IF x = names[c - n + 1] THEN "Dropped"
                 ELSE IF t[x] # "Absent" /\ t[x] # "Moved" /\ borrows[x] = 0
                      THEN "Owned" ELSE t[x]]
        <5>1. After(n) = [x \in Names |-> After(n)[x]]
          BY DEF After
        <5> HIDE DEF g, Among, IsChain, chain
        <5> QED
          BY <4>4, <5>1
      <4>7. g[n - 1] = t
        BY <4>1 DEF t
      <4>8. After(n) = DropValue(t, names[c - n + 1])
        <5> HIDE DEF g, Among, IsChain, chain
        <5> QED
          BY <4>5, <4>6
      <4> HIDE DEF g, Among, IsChain, chain
      <4> QED
        BY <4>7, <4>8
    <3> QED
      BY <3>3, <3>4
  <2> HIDE DEF After
  <2> QED
    BY <2>1
<1>3. IsChain(chain)
  <2> HIDE DEF g
  <2> QED
    BY <1>2
<1>4. InReverse(s, names) = chain[c]
  BY DEF InReverse
<1> HIDE DEF chain
<1>5. chain[c] = g[c]
  <2> HIDE DEF g
  <2> DEFINE bad == {n \in 0 .. c : chain[n] # g[n]}
  <2>1. bad = {}
    <3> SUFFICES ASSUME bad # {} PROVE FALSE
      OBVIOUS
    <3>1. PICK n \in bad : \A m \in bad : n <= m
      <4>1. bad \subseteq Nat
        BY <1>1
      <4> HIDE DEF bad
      <4> QED
        BY <4>1, LeastNumber
    <3>2. n \in 0 .. c /\ chain[n] # g[n]
      BY <3>1
    <3>3. n # 0
      BY <1>2, <1>3, <3>2
    <3>4. n - 1 \in 0 .. c /\ ~(n <= n - 1)
      BY <1>1, <3>2, <3>3
    <3>5. chain[n - 1] = g[n - 1]
      <4>1. n - 1 \notin bad
        <5> HIDE DEF bad
        <5> QED
          BY <3>1, <3>4
      <4> QED
        BY <3>4, <4>1
    <3>6. chain[n] = DropValue(chain[n - 1], names[c - n + 1])
      BY <1>3, <3>2, <3>3
    <3>7. g[n] = DropValue(g[n - 1], names[c - n + 1])
      BY <1>2, <3>2, <3>3
    <3> QED
      BY <3>2, <3>5, <3>6, <3>7
  <2>2. c \in 0 .. c
    BY <1>1
  <2> QED
    BY <2>1, <2>2
<1>6. CASE c = 0
  <2>1. names = <<>> /\ g[c] = s
    BY <1>1, <1>6
  <2> QED
    BY <1>4, <1>5, <2>1 DEF DropScope
<1>7. CASE c # 0
  <2>1. g[c] = After(c) /\ c - c + 1 = 1 /\ names # <<>> /\ DOMAIN names = 1 .. c
    BY <1>1, <1>7
  <2>2. \A x : Among(c, x) <=> x \in Elements(names)
    BY <1>1, <2>1 DEF Elements
  <2>3. After(c) = DropScope(s, names)
    BY <2>1, <2>2 DEF DropScope
  <2> QED
    BY <1>4, <1>5, <2>1, <2>3
<1> QED
  BY <1>6, <1>7

-----------------------------------------------------------------------------
(* Type correctness.                                                       *)

LEMMA InitTypeOK == Init => TypeOK
<1> SUFFICES ASSUME Init PROVE TypeOK
  OBVIOUS
<1>1. <<>> \in Seq(Names) /\ "function" \in Kinds
  BY DEF Kinds
<1>2. Body(<<>>) \in Block
  BY <1>1, NewBlockType, SnapshotTypes, TruthTypes DEF Body
<1>3. Nesting(blocks)
  BY <1>2 DEF Init, Body, NewBlock, Nesting
<1>4. QED
  BY <1>3, SnapshotTypes, TruthTypes DEF Init, TypeOK

LEMMA SimpleTypeOK ==
  ASSUME TypeOK, SimpleStatement
  PROVE  TypeOK'
<1> USE DEF Statement, Fates, Reasons, Acts
<1>1. ASSUME NEW x \in Names, Use(x) PROVE TypeOK'
  <2>1. Nesting(blocks')
    BY <1>1, PassingBlocks DEF Use, TypeOK
  <2>2. QED
    BY <1>1, <2>1 DEF Use, TypeOK, checkerVars, gapVars, UseReport, Wrong
<1>2. ASSUME NEW x \in Names, MoveOut(x) PROVE TypeOK'
  <2>1. fates' \in Truths /\ state' \in Snapshots
    BY <1>2, TruthTypes, SnapshotTypes DEF MoveOut, TypeOK
  <2>2. Nesting(blocks')
    BY <1>2, <2>1, PassingBlocks DEF MoveOut, TypeOK
  <2>3. QED
    BY <1>2, <2>1, <2>2 DEF MoveOut, TypeOK, gapVars, MoveReport, Wrong
<1>3. ASSUME NEW x \in Names, PassArgument(x) PROVE TypeOK'
  <2>1. fates' \in Truths /\ state' \in Snapshots
    BY <1>3, TruthTypes, SnapshotTypes DEF PassArgument, TypeOK
  <2>2. Nesting(blocks')
    BY <1>3, <2>1, PassingBlocks DEF PassArgument, TypeOK
  <2>3. QED
    BY <1>3, <2>1, <2>2
       DEF PassArgument, TypeOK, MoveReport, UseReport, Wrong
<1>4. ASSUME NEW x \in Names, Assign(x) PROVE TypeOK'
  <2>1. fates' \in Truths
    BY <1>4 DEF Assign, TypeOK, Truths
  <2>2. Nesting(blocks')
    BY <1>4, <2>1, PassingBlocks DEF Assign, TypeOK
  <2>3. QED
    BY <1>4, <2>1, <2>2 DEF Assign, TypeOK, checkerVars
<1>5. ASSUME NEW x \in Names, Delete(x) PROVE TypeOK'
  <2>1. fates' \in Truths /\ state' \in Snapshots
    BY <1>5, TruthTypes, SnapshotTypes DEF Delete, TypeOK
  <2>2. Nesting(blocks')
    BY <1>5, <2>1, PassingBlocks DEF Delete, TypeOK
  <2>3. reported' \subseteq Names \X Reasons /\ misuse' \subseteq Names \X Acts
    BY <1>5 DEF Delete, TypeOK, Wrong
  <2>4. exclusive' \in [Names -> BOOLEAN]
    <3>1. exclusive' = [y \in Names |->
            (state[x] \in Consumed \/ borrows[x] > 0) /\ exclusive[y]]
      BY <1>5 DEF Delete
    <3>2. \A y \in Names :
            ((state[x] \in Consumed \/ borrows[x] > 0) /\ exclusive[y]) \in BOOLEAN
      BY DEF TypeOK
    <3>3. QED
      BY <3>1, <3>2, Zenon
  <2>5. forgotten' \subseteq Names
    BY <1>5 DEF Delete, TypeOK, Revived
  <2>6. QED
    BY <1>5, <2>1, <2>2, <2>3, <2>4, <2>5 DEF Delete, TypeOK
<1>6. ASSUME NEW x \in Names, ReturnReference(x) PROVE TypeOK'
  <2>1. state' \in Snapshots /\ borrows' \in [Names -> Nat]
    BY <1>6 DEF ReturnReference, TypeOK, AfterBorrow, Snapshots, States
  <2>2. fates' \in Truths
    BY <1>6, TruthTypes DEF ReturnReference
  <2>3. reported' \subseteq Names \X Reasons /\ suspect' \subseteq Names
    BY <1>6 DEF ReturnReference, TypeOK
  <2>4. QED
    BY <1>6, <2>1, <2>2, <2>3 DEF ReturnReference, TypeOK
<1>7. ASSUME NEW x \in Names, NEW n \in 1 .. 2, Borrow(x, n) PROVE TypeOK'
  <2>1. state' \in Snapshots /\ borrows' \in [Names -> Nat]
    BY <1>7 DEF Borrow, TypeOK, AfterBorrow, Snapshots, States
  <2>2. fates' \in Truths
    BY <1>7 DEF Borrow, TypeOK, Truths
  <2>3. Nesting(blocks')
    BY <1>7, <2>2, PassingBlocks DEF Borrow, TypeOK
  <2>4. QED
    BY <1>7, <2>1, <2>2, <2>3 DEF Borrow, TypeOK, Wrong
<1>8. ASSUME NEW x \in Names, NEW y \in Names \cup {NoName},
             NEW isMutable \in BOOLEAN, NEW garbage \in BOOLEAN,
             Declare(x, y, isMutable, garbage)
      PROVE  TypeOK'
  <2>1. state' \in Snapshots
    <3>1. Consume(y) \in Snapshots
      BY SnapshotTypes DEF Consume, TypeOK
    <3>2. QED
      BY <1>8, <3>1 DEF Declare, TypeOK, Snapshots, States
  <2>2. fates' \in Truths
    <3>1. y \in Moving => Becomes(fates, y, "moved") \in Truths
      BY TruthTypes, OwnershipAssumption DEF TypeOK
    <3>2. QED
      BY <1>8, <3>1 DEF Declare, TypeOK, Truths
  <2>3. Nesting(blocks')
    <3> DEFINE p == Passing(y, fates')
               top == [p[Len(blocks)] EXCEPT !.names = Append(@, x)]
    <3>1. Len(blocks) \in Nat \ {0} /\ p \in Seq(Block) /\ Len(p) = Len(blocks)
          /\ Nesting(p)
      BY <2>2, BlocksType, PassingBlocks
    <3>2. p[Len(blocks)] \in Block
      BY <3>1
    <3>3. top \in Block
      <4>1. Append(p[Len(blocks)].names, x) \in Seq(Names)
        BY <1>8, <3>2 DEF Block
      <4> HIDE DEF p
      <4>2. QED
        BY <3>2, <4>1 DEF Block
    <3>4. blocks' = [p EXCEPT ![Len(blocks)] = top]
      BY <1>8 DEF Declare
    <3>5. top.kind = p[Len(blocks)].kind
      OBVIOUS
    <3> HIDE DEF p, top
    <3>6. QED
      BY <3>1, <3>3, <3>4, <3>5 DEF Nesting
  <2>4. /\ borrows' \in [Names -> Nat] /\ mutable' \in [Names -> BOOLEAN]
        /\ exclusive' \in [Names -> BOOLEAN]
    BY <1>8 DEF Declare, TypeOK
  <2>5. reported' \subseteq Names \X Reasons /\ misuse' \subseteq Names \X Acts
    BY <1>8 DEF Declare, TypeOK, ConsumeReport, UseReport, MoveReport, Wrong
  <2>6. QED
    BY <1>8, <2>1, <2>2, <2>3, <2>4, <2>5 DEF Declare, TypeOK, gapVars
<1>9. CASE Leave
  <2>1. fates' \in Truths
    BY <1>9, TruthTypes DEF Leave
  <2>2. QED
    BY <1>9, <2>1 DEF Leave, TypeOK, checkerVars
<1>10. CASE Break
  <2>1. PICK k \in DOMAIN blocks : blocks' = [blocks EXCEPT ![k].ends = Either(@, fates)]
    BY <1>10 DEF Break
  <2>2. blocks[k] \in Block /\ Either(blocks[k].ends, fates) \in Truths
    <3>1. blocks[k] \in Block
      BY BlocksType
    <3>2. blocks[k].ends \in Truths
      BY <3>1 DEF Block
    <3>3. QED
      BY <3>1, <3>2, TruthTypes DEF TypeOK
  <2>3. [blocks[k] EXCEPT !.ends = Either(@, fates)] \in Block
    BY <2>2 DEF Block
  <2>4. blocks' = [blocks EXCEPT ![k] = [blocks[k] EXCEPT !.ends = Either(@, fates)]]
    BY <2>1
  <2>5. Nesting(blocks')
    BY <2>3, <2>4, BlocksType DEF Nesting
  <2>6. fates' \in Truths /\ suspect' \subseteq Names
    BY <1>10, TruthTypes DEF Break, TypeOK
  <2>7. QED
    BY <1>10, <2>5, <2>6 DEF Break, TypeOK, checkerVars
<1>11. QED
  BY <1>1, <1>2, <1>3, <1>4, <1>5, <1>6, <1>7, <1>8, <1>9, <1>10
     DEF SimpleStatement

(* The end of a scope, and the pieces of the blocks it leaves.             *)
LEMMA ScopeEndsTypeOK ==
  ASSUME TypeOK, ScopeEnds
  PROVE  /\ AtScopeEnd \in Snapshots
         /\ borrows' \in [Names -> Nat] /\ mutable' \in [Names -> BOOLEAN]
         /\ exclusive' \in [Names -> BOOLEAN] /\ closed' \subseteq Names
         /\ \A t : Revived(state, t) \subseteq Names
<1>1. Top \in Block
  BY BelowBlocks
<1>2. \A k \in DOMAIN Top.names : Top.names[k] \in Names
  BY <1>1 DEF Block
<1>3. closed' \subseteq Names
  BY <1>2 DEF ScopeEnds, Elements, TypeOK
<1>4. \A x \in Names : (Top.names = <<>> /\ exclusive[x]) \in BOOLEAN
  BY DEF TypeOK
<1>5. exclusive' \in [Names -> BOOLEAN]
  BY <1>4, Zenon DEF ScopeEnds
<1>6. AtScopeEnd \in Snapshots
  BY SnapshotTypes DEF AtScopeEnd, TypeOK
<1>7. QED
  BY <1>3, <1>5, <1>6 DEF ScopeEnds, TypeOK, Revived

LEMMA NextBranchTypeOK ==
  ASSUME TypeOK, NEW kind \in Kinds, NEW m \in Names \cup {NoName},
         NextBranch(kind, m), statements' \in Nat,
         Top.kind # "function", kind # "function"
  PROVE  TypeOK'
<1> DEFINE end == AtScopeEnd
           start == Restore(Top.pre, end)
           from == IF m = NoName THEN Top.entry ELSE Becomes(Top.entry, m, "moved")
           p == Passing(m, from)
           below == [k \in 1 .. Len(blocks) - 1 |-> p[k]]
           top == [Top EXCEPT !.kind = kind, !.names = <<>>, !.entry = from,
                              !.merged = Merge(@, end), !.ends = Either(@, fates)]
<1>1. ScopeEnds
  BY DEF NextBranch
<1>2. /\ Top \in Block /\ Top.pre \in Snapshots /\ Top.entry \in Truths
      /\ Top.merged \in Snapshots /\ Top.ends \in Truths
  BY BelowBlocks DEF Block
<1>3. end \in Snapshots /\ start \in Snapshots /\ Merge(Top.merged, end) \in Snapshots
  BY <1>1, <1>2, ScopeEndsTypeOK, SnapshotTypes
<1>4. from \in Truths
  BY <1>2, TruthTypes DEF Fates
<1>5. Either(Top.ends, fates) \in Truths
  BY <1>2, TruthTypes DEF TypeOK
<1>6. top \in Block
  <2>1. <<>> \in Seq(Names)
    OBVIOUS
  <2> HIDE DEF from, end
  <2>2. QED
    BY <1>2, <1>3, <1>4, <1>5, <2>1 DEF Block
<1>7. below \in Seq(Block) /\ Len(below) = Len(blocks) - 1
  <2>1. Len(blocks) - 1 \in Nat /\ \A k \in 1 .. Len(blocks) - 1 : p[k] \in Block
    BY <1>4, BlocksType, PassingBlocks
  <2> HIDE DEF p
  <2>2. below \in [1 .. Len(blocks) - 1 -> Block]
    BY <2>1
  <2>3. QED
    BY <2>1, <2>2, FunctionIsSequence
<1>8. blocks' = Append(below, top)
  BY DEF NextBranch
<1>9. Nesting(blocks')
  <2>1. Len(blocks) \in Nat /\ Len(blocks) # 1
    BY BlocksType DEF Top
  <2>2. Nesting(below)
    <3>1. Nesting(p) /\ Len(p) = Len(blocks)
      BY <1>4, PassingBlocks
    <3>2. \A k \in 1 .. Len(below) : below[k] = p[k]
      BY <1>7
    <3> HIDE DEF below, p
    <3>3. QED
      BY <1>7, <2>1, <3>1, <3>2, BlocksType DEF Nesting
  <2>3. top.kind = kind
    BY <1>2 DEF Block
  <2> HIDE DEF below, top
  <2>4. QED
    BY <1>6, <1>8, <2>2, <2>3, AppendNests
<1>10. state' \in Snapshots /\ fates' \in Truths
  BY <1>3, <1>4, SnapshotTypes DEF NextBranch
<1>11. /\ reported' \subseteq Names \X Reasons /\ misuse' \subseteq Names \X Acts
       /\ forgotten' \subseteq Names
  BY DEF NextBranch, TypeOK, MoveReport, Wrong, Revived, Reasons, Acts
<1>12. QED
  BY <1>1, <1>9, <1>10, <1>11, ScopeEndsTypeOK DEF NextBranch, TypeOK

LEMMA CompoundTypeOK ==
  ASSUME TypeOK, CompoundStatement
  PROVE  TypeOK'
<1>0. /\ Top \in Block /\ Below \in Seq(Block) /\ Len(Below) = Len(blocks) - 1
      /\ Top.names \in Seq(Names) /\ Top.pre \in Snapshots /\ Top.merged \in Snapshots
      /\ Top.entry \in Truths /\ Top.ends \in Truths /\ Top.thrown \in Truths
      /\ (Top.kind # "function" => Nesting(Below))
  BY BelowBlocks DEF Block
<1>1. ASSUME NEW kind \in Kinds, Open(kind) PROVE TypeOK'
  <2>1. <<>> \in Seq(Names)
    OBVIOUS
  <2>2. NewBlock(kind, <<>>, state, fates) \in Block
    BY <2>1, NewBlockType DEF TypeOK
  <2>3. Nesting(blocks')
    <3>1. NewBlock(kind, <<>>, state, fates).kind # "function"
      BY <1>1 DEF Open, NewBlock
    <3>2. QED
      BY <1>1, <2>2, <3>1, AppendNests DEF Open, TypeOK
  <2>4. QED
    BY <1>1, <2>3 DEF Open, Statement, TypeOK, checkerVars, truthVars, gapVars
<1>2. ASSUME NEW x \in Names, NEW isMutable \in BOOLEAN, NEW garbage \in BOOLEAN,
             OpenFor(x, isMutable, garbage)
      PROVE  TypeOK'
  <2>1. <<x>> \in Seq(Names) /\ "loop" \in Kinds
    BY DEF Kinds
  <2>2. fates' \in Truths
    BY <1>2 DEF OpenFor, TypeOK, Truths, Fates
  <2>3. NewBlock("loop", <<x>>, state, fates') \in Block
    BY <2>1, <2>2, NewBlockType DEF TypeOK
  <2>4. Nesting(blocks')
    <3>1. NewBlock("loop", <<x>>, state, fates').kind # "function"
      BY DEF NewBlock
    <3>2. QED
      BY <1>2, <2>3, <3>1, AppendNests DEF OpenFor, TypeOK
  <2>5. /\ state' \in Snapshots /\ borrows' \in [Names -> Nat]
        /\ mutable' \in [Names -> BOOLEAN] /\ exclusive' \in [Names -> BOOLEAN]
    BY <1>2 DEF OpenFor, TypeOK, Snapshots, States
  <2>6. QED
    BY <1>2, <2>2, <2>4, <2>5 DEF OpenFor, Statement, TypeOK, gapVars
<1>3. ASSUME NEW m \in Names \cup {NoName}, Elif(m) PROVE TypeOK'
  <2>1. NextBranch("if", m) /\ "if" \in Kinds /\ statements' \in Nat /\ Top.kind = "if"
    BY <1>3 DEF Elif, Kinds, TypeOK
  <2>2. QED
    BY <2>1, NextBranchTypeOK
<1>4. CASE Else
  <2>1. NextBranch("else", NoName) /\ "else" \in Kinds /\ statements' \in Nat /\ Top.kind = "if"
    BY <1>4 DEF Else, Kinds, TypeOK
  <2>2. QED
    BY <2>1, NextBranchTypeOK
<1>5. CASE NextExcept
  <2>1. NextBranch("except", NoName) /\ "except" \in Kinds /\ statements' \in Nat
        /\ Top.kind = "except"
    BY <1>5 DEF NextExcept, Kinds, TypeOK
  <2>2. QED
    BY <2>1, NextBranchTypeOK
<1>6. CASE CloseIf
  <2>1. ScopeEnds /\ blocks' = Below /\ Top.kind \in {"if", "else"}
    BY <1>6 DEF CloseIf
  <2>2. state' \in Snapshots
    BY <1>0, <1>6, <2>1, ScopeEndsTypeOK, SnapshotTypes DEF CloseIf
  <2>3. Either(Top.ends, fates) \in Truths /\ Nowhere \in Truths
    BY <1>0, TruthTypes DEF TypeOK
  <2>4. fates' \in Truths
    BY <1>0, <1>6, <2>3, TruthTypes DEF CloseIf
  <2>5. QED
    BY <1>0, <1>6, <2>1, <2>2, <2>4, ScopeEndsTypeOK DEF CloseIf, TypeOK
<1>7. CASE FirstExcept
  <2> DEFINE end == AtScopeEnd
             worse == Merge(Top.pre, end)
             thrown == Either(Top.thrown, fates)
             top == [Top EXCEPT !.kind = "except", !.names = <<>>, !.pre = worse,
                                !.merged = end, !.entry = thrown, !.ends = fates,
                                !.thrown = thrown]
  <2>1. ScopeEnds /\ blocks' = Append(Below, top) /\ Top.kind = "try"
    BY <1>7 DEF FirstExcept
  <2>2. end \in Snapshots /\ worse \in Snapshots
    BY <1>0, <2>1, ScopeEndsTypeOK, SnapshotTypes
  <2>3. thrown \in Truths /\ fates \in Truths
    BY <1>0, TruthTypes DEF TypeOK
  <2>4. <<>> \in Seq(Names) /\ "except" \in Kinds
    BY DEF Kinds
  <2>5. top \in Block /\ top.kind # "function"
    <3> HIDE DEF end, worse, thrown
    <3>1. QED
      BY <1>0, <2>2, <2>3, <2>4 DEF Block
  <2>6. Nesting(blocks')
    <3> HIDE DEF top
    <3>1. QED
      BY <1>0, <2>1, <2>5, AppendNests
  <2>7. QED
    BY <1>7, <2>1, <2>2, <2>3, <2>6, ScopeEndsTypeOK DEF FirstExcept, TypeOK
<1>8. ASSUME NEW hasFinally \in BOOLEAN, CloseTry(hasFinally) PROVE TypeOK'
  <2> DEFINE end == AtScopeEnd
             after == IF Top.kind = "try" THEN end ELSE Merge(Top.merged, end)
             normal == Either(Top.ends, fates)
             all == IF hasFinally THEN Either(normal, Top.thrown) ELSE normal
  <2>1. ScopeEnds /\ Top.kind \in {"try", "except"} /\ state' = after /\ fates' = all
    BY <1>8 DEF CloseTry
  <2>2. after \in Snapshots
    BY <1>0, <2>1, ScopeEndsTypeOK, SnapshotTypes
  <2>3. normal \in Truths
    BY <1>0, TruthTypes DEF TypeOK
  <2>4. all \in Truths
    BY <1>0, <2>3, TruthTypes
  <2>5. <<>> \in Seq(Names) /\ "finally" \in Kinds
    BY DEF Kinds
  <2>6. /\ NewBlock("finally", <<>>, after, all) \in Block
        /\ NewBlock("finally", <<>>, after, all).kind # "function"
    <3> HIDE DEF after, all
    <3>1. QED
      BY <2>2, <2>4, <2>5, NewBlockType DEF NewBlock
  <2>7. blocks' = IF hasFinally
                  THEN Append(Below, NewBlock("finally", <<>>, after, all))
                  ELSE Below
    BY <1>8 DEF CloseTry
  <2>8. Nesting(blocks')
    BY <1>0, <2>1, <2>6, <2>7, AppendNests
  <2>9. QED
    BY <1>8, <2>1, <2>2, <2>4, <2>8, ScopeEndsTypeOK DEF CloseTry, TypeOK
<1>9. CASE CloseBlock
  <2>1. ScopeEnds /\ blocks' = Below /\ Top.kind \in {"unsafe", "finally"}
    BY <1>9 DEF CloseBlock
  <2>2. QED
    BY <1>0, <1>9, <2>1, ScopeEndsTypeOK DEF CloseBlock, TypeOK, truthVars
<1>10. CASE CloseLoop
  <2>1. ScopeEnds /\ blocks' = Below /\ Top.kind = "loop"
    BY <1>10 DEF CloseLoop
  <2>2. Either(Top.entry, Top.ends) \in Truths
    BY <1>0, TruthTypes
  <2>3. fates' \in Truths
    BY <1>10, <2>2, TruthTypes DEF CloseLoop, TypeOK
  <2>4. Top.demanded \subseteq Names
    BY <1>0 DEF Block
  <2>5. misuse' \subseteq Names \X Acts /\ forgotten' \subseteq Names
    BY <1>10, <2>1, <2>4, ScopeEndsTypeOK DEF CloseLoop, TypeOK, Acts
  <2>6. QED
    BY <1>0, <1>10, <2>1, <2>3, <2>5, ScopeEndsTypeOK DEF CloseLoop, TypeOK
<1>11. QED
  BY <1>1, <1>2, <1>3, <1>4, <1>5, <1>6, <1>7, <1>8, <1>9, <1>10
     DEF CompoundStatement

LEMMA EndFunctionTypeOK ==
  ASSUME TypeOK, NEW parameters \in Parameters, EndFunction(parameters)
  PROVE  TypeOK'
<1>1. parameters \in Seq(Names) /\ "function" \in Kinds
  BY OwnershipAssumption DEF Kinds
<1>2. Body(parameters) \in Block /\ Body(parameters).kind = "function"
  BY <1>1, NewBlockType, SnapshotTypes, TruthTypes DEF Body, NewBlock
<1>3. Nesting(blocks') /\ fates' \in Truths
  BY <1>2, TruthTypes DEF EndFunction, BeginFunction, Nesting
<1>4. AtScopeEnd \in Snapshots
  BY SnapshotTypes DEF AtScopeEnd, TypeOK
<1>5. state' \in Snapshots /\ borrows' \in [Names -> Nat]
  BY <1>4 DEF EndFunction, BeginFunction, TypeOK, Snapshots, States
<1>6. mutable' \in [Names -> BOOLEAN] /\ exclusive' \in [Names -> BOOLEAN]
  <2> DEFINE declared == Elements(parameters)
  <2>1. PICK isMutable, garbage \in [declared -> BOOLEAN] :
          /\ mutable' = [x \in Names |-> IF x \in declared THEN isMutable[x]
                                                          ELSE mutable[x]]
          /\ exclusive' = [x \in Names |-> IF x \in declared THEN garbage[x]
                                           ELSE Top.names = <<>> /\ exclusive[x]]
    BY DEF EndFunction, BeginFunction
  <2>2. \A x \in Names :
          /\ (IF x \in declared THEN isMutable[x] ELSE mutable[x]) \in BOOLEAN
          /\ (IF x \in declared THEN garbage[x]
              ELSE Top.names = <<>> /\ exclusive[x]) \in BOOLEAN
    BY DEF TypeOK
  <2> HIDE DEF declared
  <2>3. QED
    BY <2>1, <2>2, Zenon
<1>7. QED
  BY <1>3, <1>5, <1>6 DEF EndFunction, BeginFunction, TypeOK

LEMMA NextTypeOK == TypeOK /\ [Next]_vars => TypeOK'
<1> SUFFICES ASSUME TypeOK, [Next]_vars PROVE TypeOK'
  OBVIOUS
<1>1. CASE UNCHANGED vars
  BY <1>1 DEF vars, checkerVars, truthVars, gapVars, TypeOK
<1>2. CASE Next
  BY <1>2, SimpleTypeOK, CompoundTypeOK, EndFunctionTypeOK DEF Next
<1>3. QED
  BY <1>1, <1>2

(* Type correctness: every variable of the walk keeps its type, and the    *)
(* function's own block is the outermost one.                              *)
THEOREM WalkTypeCorrect == Spec => []TypeOK
<1>1. QED
  BY InitTypeOK, NextTypeOK, PTL DEF Spec

(* At the end of any scope the walk leaves the states that the code's      *)
(* drops do, one name after another from the last to the first, whatever   *)
(* the states and the borrows are (borrow.cpp:647-681, 715-725).           *)
THEOREM ScopesDropInReverse == Spec => []ScopeDropsInReverse
<1>1. TypeOK => ScopeDropsInReverse
  <2> SUFFICES ASSUME TypeOK, NEW k \in DOMAIN blocks
               PROVE  DropScope(state, blocks[k].names) = InReverse(state, blocks[k].names)
    BY DEF ScopeDropsInReverse
  <2>1. blocks[k].names \in Seq(Names)
    BY BlocksType DEF Block
  <2>2. DOMAIN state = Names /\ state = [x \in Names |-> state[x]]
    BY DEF TypeOK, Snapshots
  <2> QED
    BY <2>1, <2>2, DropsInReverse
<1> QED
  BY <1>1, WalkTypeCorrect, PTL
=============================================================================

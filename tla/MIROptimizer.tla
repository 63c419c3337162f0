---------------------------- MODULE MIROptimizer ----------------------------
(***************************************************************************)
(* The optimizer of one MIR function (src/uranite/ir/mir/optimizer.cpp),   *)
(* after the driver's liveness analysis of it. Five passes are repeated    *)
(* until none of them changes anything: they remove the blocks nothing     *)
(* reaches, fold constants, replace copies by what they copy, remove dead  *)
(* stores and merge a block into the only one that jumps to it. The last   *)
(* two first run the analysis of MIRLiveness again, on the sets the        *)
(* previous run left; the first one uses the edges the last merge left.    *)
(*                                                                         *)
(* Of the operators that are folded, "add" stands for those that always    *)
(* fold, "divide" for those that do not for some right operands, "less"    *)
(* for the comparisons and "not" for the unary ones.                       *)
(***************************************************************************)
EXTENDS MIRLiveness

CONSTANT IterationLimit   (* iterationLimit of optimizeFunction            *)

ASSUME LimitAssumption == IterationLimit \in Nat \ {0}

(* Lowering appends nothing to a block it has terminated                   *)
(* (lowering.cpp:4209-4226), and a jump has its one target.                *)
Terminators == {"jump", "branch", "switch", "invoke", "throw"}

Shaped(instructions) ==
  \A k \in DOMAIN instructions :
    /\ instructions[k].kind \in Terminators => k = Len(instructions)
    /\ instructions[k].kind = "jump" => Len(instructions[k].targets) = 1

ASSUME ShapeAssumption == \A f \in Functions : \A b \in Blocks : Shaped(f[b])

VARIABLES
  pass,         (* the pass that runs; "driver" before the optimizer       *)
  iteration,    (* iterationCount                                          *)
  passChanged,  (* changed of optimizeFunction                             *)
  block,        (* blockIndex of the scan in foldConstants or in the merge *)
  position,     (* the instruction of the scan in foldConstants            *)
  constants,    (* constantValues of foldConstants                         *)
  original      (* the code as it was lowered; only properties look at it  *)

scanVars == <<block, position, constants>>
driverVars == <<pass, iteration, passChanged, original>>
optimizerVars == <<driverVars, scanVars>>
allVars == <<vars, optimizerVars>>

Entry == 0

Passes ==
  {"driver", "unreachable", "fold", "copies", "stores", "merge", "finished"}

Unknown == [kind |-> "unknown", value |-> 0]
NoConstants == [v \in Variables |-> Unknown]

OptimizerInit ==
  /\ Init
  /\ pass = "driver"
  /\ iteration = 0
  /\ passChanged = FALSE
  /\ block = 0 /\ position = 1
  /\ constants = NoConstants
  /\ original = code

(* A step of the analysis that the driver, eliminateDeadStores and         *)
(* mergeLinearBlocks start with.                                           *)
Reanalyze ==
  /\ pass \in {"driver", "stores", "merge"}
  /\ Analyze
  /\ UNCHANGED optimizerVars

StartOptimizing ==
  /\ pass = "driver" /\ stage = "done"
  /\ pass' = "unreachable"
  /\ iteration' = 1
  /\ UNCHANGED <<vars, passChanged, original, scanVars>>

-----------------------------------------------------------------------------
(* eliminateUnreachableBlocks                                              *)

(* The blocks the worklist visits: the least set with the entry and, with  *)
(* each block that is left, its successors.                                *)
Reachable ==
  {b \in Blocks : \A R \in SUBSET Blocks :
     Entry \in R /\ (\A c \in R \cap present : succ[c] \subseteq R) => b \in R}

EliminateUnreachableBlocks ==
  /\ pass = "unreachable"
  /\ LET dead == present \ Reachable IN
     /\ present' = present \ dead
     /\ pred' = [t \in Blocks |-> [b \in Blocks |->
                   IF b \in dead /\ t \in succ[b] THEN 0 ELSE pred[t][b]]]
     /\ passChanged' = (passChanged \/ dead # {})
  /\ pass' = "fold"
  /\ block' = 0 /\ position' = 1
  /\ constants' = NoConstants
  /\ UNCHANGED <<code, succ, localVars, liveVars, sweepVars, stage, iteration,
                 original>>

-----------------------------------------------------------------------------
(* foldConstants                                                           *)

KnownInt(v) == constants[v].kind = "const"
KnownBool(v) == constants[v].kind = "bool"
Value(v) == constants[v].value

(* C++ division: towards zero.                                             *)
Magnitude(n) == IF n < 0 THEN -n ELSE n
Quotient(m, n) ==
  LET q == Magnitude(m) \div Magnitude(n) IN IF (m < 0) = (n < 0) THEN q ELSE -q
Truth(p) == IF p THEN 1 ELSE 0

CanFold(i) ==
  /\ i.dst # NoVariable
  /\ \/ /\ i.kind \in {"add", "less", "equal", "divide"}
        /\ Len(i.src) = 2
        /\ \A n \in 1 .. 2 : KnownInt(i.src[n])
        /\ i.kind = "divide" => Value(i.src[2]) # 0
     \/ i.kind = "not" /\ Len(i.src) = 1 /\ KnownBool(i.src[1])

Fold(i) ==
  [i EXCEPT
     !.kind = IF @ \in {"add", "divide"} THEN "const" ELSE "bool",
     !.src = <<>>,
     !.value = CASE i.kind = "add" -> Value(i.src[1]) + Value(i.src[2])
                 [] i.kind = "divide" -> Quotient(Value(i.src[1]), Value(i.src[2]))
                 [] i.kind = "less" -> Truth(Value(i.src[1]) < Value(i.src[2]))
                 [] i.kind = "equal" -> Truth(Value(i.src[1]) = Value(i.src[2]))
                 [] i.kind = "not" -> 1 - Value(i.src[1])]

FoldNext ==
  /\ pass = "fold" /\ block \in present /\ position \in DOMAIN code[block]
  /\ LET old == code[block][position]
         new == IF CanFold(old) THEN Fold(old) ELSE old
     IN /\ code' = [code EXCEPT ![block][position] = new]
        /\ constants' =
             IF new.kind \in {"const", "bool"}
             THEN [constants EXCEPT
                     ![new.dst] = [kind |-> new.kind, value |-> new.value]]
             ELSE constants
        /\ passChanged' = (passChanged \/ CanFold(old))
  /\ position' = position + 1
  /\ UNCHANGED <<present, edgeVars, localVars, liveVars, sweepVars, stage,
                 pass, iteration, block, original>>

Mut_FoldNextBlock ==
  /\ pass = "fold" /\ block <= LastBlock + 1
  /\ block \notin present \/ position > Len(code[block])
  /\ block' = block + 1 /\ position' = 1
  /\ UNCHANGED <<vars, driverVars, constants>>

FoldNextBlock ==
  /\ pass = "fold" /\ block <= LastBlock
  /\ block \notin present \/ position > Len(code[block])
  /\ block' = block + 1 /\ position' = 1
  /\ UNCHANGED <<vars, driverVars, constants>>

FoldDone ==
  /\ pass = "fold" /\ block > LastBlock
  /\ pass' = "copies"
  /\ UNCHANGED <<vars, iteration, passChanged, original, scanVars>>

-----------------------------------------------------------------------------
(* propagateCopies                                                         *)

IsCopy(i) == i.kind = "copy" /\ i.dst # NoVariable /\ Len(i.src) = 1
CopyPlaces ==
  UNION {{<<b, k>> : k \in {n \in DOMAIN code[b] : IsCopy(code[b][n])}} :
           b \in present}
At(p) == code[p[1]][p[2]]
Before(p, q) == p[1] < q[1] \/ (p[1] = q[1] /\ p[2] < q[2])

Copied == {At(p).dst : p \in CopyPlaces}

(* copySourceMap: of two copies into a variable, the last one is kept.     *)
CopySource(v) ==
  LET p == CHOOSE p \in CopyPlaces :
             /\ At(p).dst = v
             /\ \A q \in CopyPlaces : At(q).dst = v => ~Before(p, q)
  IN At(p).src[1]

(* The end of the chain of copies; lowering copies into new variables      *)
(* only, so there are no cycles.                                           *)
Resolved(v) ==
  LET chain[n \in 0 .. Cardinality(Copied)] ==
        IF n = 0 THEN v
        ELSE IF chain[n - 1] \in Copied THEN CopySource(chain[n - 1])
        ELSE chain[n - 1]
  IN chain[Cardinality(Copied)]

Mut_ReadsACopy == Copied # {}

ReadsACopy ==
  \E b \in present : \E k \in DOMAIN code[b] :
    Reads(code[b][k]) \cap Copied # {}

PropagateCopies ==
  /\ pass = "copies"
  /\ code' = [b \in Blocks |->
       IF b \notin present THEN code[b]
       ELSE [k \in DOMAIN code[b] |->
              [code[b][k] EXCEPT !.src = [n \in DOMAIN @ |-> Resolved(@[n])]]]]
  /\ passChanged' = (passChanged \/ ReadsACopy)
  /\ pass' = "stores"
  /\ stage' = "edges"
  /\ UNCHANGED <<present, edgeVars, localVars, liveVars, sweepVars, iteration,
                 original, scanVars>>

-----------------------------------------------------------------------------
(* eliminateDeadStores                                                     *)

WrittenBetween(b, j, k) == {code[b][i].dst : i \in j + 1 .. k - 1}

ReadAfter(b, k) ==
  UNION {Reads(code[b][j]) \ WrittenBetween(b, k, j) :
           j \in k + 1 .. Len(code[b])}

(* neededAfter of the backward scan when it reaches instruction k.         *)
NeededAfter(b, k) ==
  ReadAfter(b, k) \cup (liveOut[b] \ WrittenBetween(b, k, Len(code[b]) + 1))

Mut_Protected(b) ==
  {code[b][k].callee : k \in {n \in DOMAIN code[b] : code[b][n].kind = "call"}}

(* gepResultVariables and indirectCallTargetVariables.                     *)
Protected(b) ==
  {code[b][k].dst : k \in {n \in DOMAIN code[b] : code[b][n].kind = "field"}}
  \cup
  {code[b][k].callee : k \in {n \in DOMAIN code[b] : code[b][n].kind = "call"}}

DeadStore(b, k) ==
  /\ code[b][k].kind = "store" /\ code[b][k].dst # NoVariable
  /\ code[b][k].dst \notin NeededAfter(b, k) \cup Protected(b)

(* The others, in their order: the nth is the one with n of them up to it. *)
Surviving(b) ==
  LET kept == {k \in DOMAIN code[b] : ~DeadStore(b, k)}
      KeptUpTo(k) == Cardinality({j \in kept : j <= k})
  IN [n \in 1 .. Cardinality(kept) |->
        code[b][CHOOSE k \in kept : KeptUpTo(k) = n]]

EliminateDeadStores ==
  /\ pass = "stores" /\ stage = "done"
  /\ code' =
       [b \in Blocks |-> IF b \in present THEN Surviving(b) ELSE code[b]]
  /\ passChanged' = (passChanged \/ code' # code)
  /\ pass' = "merge"
  /\ block' = 0
  /\ stage' = "edges"
  /\ UNCHANGED <<present, edgeVars, localVars, liveVars, sweepVars, iteration,
                 original, position, constants>>

-----------------------------------------------------------------------------
(* mergeLinearBlocks                                                       *)

JumpTarget(b) == Terminator(code[b]).targets[1]

Mut_CanMerge(b) ==
  /\ b \in present /\ code[b] # <<>>
  /\ Terminator(code[b]).kind = "jump"
  /\ JumpTarget(b) \in present \ {Entry, b}

CanMerge(b) ==
  /\ b \in present /\ code[b] # <<>>
  /\ Terminator(code[b]).kind = "jump"
  /\ JumpTarget(b) \in present \ {Entry, b}
  /\ \E c \in Blocks :
       pred[JumpTarget(b)] = [d \in Blocks |-> IF d = c THEN 1 ELSE 0]

Retarget(i, t, b) ==
  [i EXCEPT !.targets = [n \in DOMAIN @ |-> IF @[n] = t THEN b ELSE @[n]]]

Mut_MovedEdges(b, t) == pred

(* predecessorBlocks, with t replaced by b where t leads.                  *)
MovedEdges(b, t) ==
  [s \in Blocks |->
     IF s \in succ[t] \cap present
     THEN [pred[s] EXCEPT ![t] = 0, ![b] = @ + pred[s][t]]
     ELSE pred[s]]

MergeBlock ==
  /\ pass = "merge" /\ stage = "done" /\ CanMerge(block)
  /\ LET t == JumpTarget(block)
         merged == SubSeq(code[block], 1, Len(code[block]) - 1) \o code[t]
     IN /\ code' = [code EXCEPT ![block] =
                      [k \in DOMAIN merged |-> Retarget(merged[k], t, block)]]
        /\ succ' = [succ EXCEPT ![block] = succ[t]]
        /\ pred' = MovedEdges(block, t)
        /\ present' = present \ {t}
  /\ passChanged' = TRUE
  /\ UNCHANGED <<localVars, liveVars, sweepVars, stage, pass, iteration,
                 original, scanVars>>

MergeNextBlock ==
  /\ pass = "merge" /\ stage = "done" /\ block <= LastBlock /\ ~CanMerge(block)
  /\ block' = block + 1
  /\ UNCHANGED <<vars, driverVars, position, constants>>

-----------------------------------------------------------------------------
(* optimizeFunction                                                        *)

IterateAgain ==
  /\ pass = "merge" /\ stage = "done" /\ block > LastBlock
  /\ passChanged /\ iteration < IterationLimit
  /\ pass' = "unreachable"
  /\ iteration' = iteration + 1
  /\ passChanged' = FALSE
  /\ UNCHANGED <<vars, original, scanVars>>

Finish ==
  /\ pass = "merge" /\ stage = "done" /\ block > LastBlock
  /\ ~passChanged \/ iteration >= IterationLimit
  /\ pass' = "finished"
  /\ UNCHANGED <<vars, iteration, passChanged, original, scanVars>>

Optimize ==
  \/ Reanalyze
  \/ StartOptimizing
  \/ EliminateUnreachableBlocks
  \/ FoldNext \/ FoldNextBlock \/ FoldDone
  \/ PropagateCopies
  \/ EliminateDeadStores
  \/ MergeBlock \/ MergeNextBlock
  \/ IterateAgain
  \/ Finish

Optimized == pass = "finished" /\ UNCHANGED allVars

OptimizerNext == Optimize \/ Optimized

OptimizerSpec == OptimizerInit /\ [][OptimizerNext]_allVars

(* The optimizer is a loop on one thread that nothing interrupts.          *)
FairOptimizerSpec == OptimizerSpec /\ WF_allVars(Optimize)

-----------------------------------------------------------------------------
(* Properties.                                                             *)

OptimizerTypeOK ==
  /\ TypeOK
  /\ pass \in Passes
  /\ iteration \in 0 .. IterationLimit
  /\ passChanged \in BOOLEAN
  /\ block \in 0 .. LastBlock + 1
  /\ position \in Nat \ {0}
  /\ constants \in [Variables -> [kind : {"unknown", "const", "bool"}, value : Int]]
  /\ original \in [Blocks -> Seq(Instructions)]

(* Where a pass reads the edges, they are those of the code: the merge     *)
(* keeps them up to date by hand (optimizer.cpp:463-476), and the next     *)
(* iteration removes blocks by them without a new analysis                 *)
(* (optimizer.cpp:520-524).                                                *)
EdgesMatchCode ==
  pass = "unreachable" \/ (pass = "merge" /\ stage = "done") =>
    \A b \in present :
      /\ succ[b] \cap present = Successors(b)
      /\ \A t \in present : pred[t][b] = EdgeCount(b, t)

(* No pass removes a block that the code still leads to, nor the entry: of *)
(* a function without its entry the code generator emits nothing, of a     *)
(* jump to a missing block no branch, and of an invoke without one of its  *)
(* blocks a call that unwinds past the try (codegen.cpp:1029, 7024, 9327). *)
(* The passes judge by the edges they find, not by the code                *)
(* (optimizer.cpp:452, 523-547).                                           *)
EdgesLeadToBlocks ==
  /\ Entry \in present
  /\ \A b \in present : code[b] # <<>> =>
       LET to == EdgeTargets(Terminator(code[b]))
       IN \A n \in DOMAIN to : to[n] \in present \cup {NoBlock}

(* The passes stop because there is nothing left to do, not because the    *)
(* limit cuts them off (optimizer.cpp:37-39).                              *)
StopsAtFixpoint == pass = "finished" => ~passChanged

(* The optimizer stops, although its analyses start from the live sets of  *)
(* code that has changed since (optimizer.cpp:59-60, 431-432).             *)
OptimizerEnds == <>(pass = "finished")

=============================================================================

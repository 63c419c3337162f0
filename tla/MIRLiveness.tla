---------------------------- MODULE MIRLiveness -----------------------------
(***************************************************************************)
(* The backward liveness analysis over the control-flow graph of one MIR   *)
(* function (src/uranite/ir/mir/analyzer.cpp): the edges between blocks,   *)
(* the variables each block uses and defines, and sweeps over the blocks,  *)
(* last to first, that update the live sets in place until a sweep changes *)
(* nothing.                                                                *)
(*                                                                         *)
(* An instruction is a record: what it is (kind), the variables it reads   *)
(* (src) and writes (dst), the blocks a terminator goes to (targets: the   *)
(* true and false targets, the switch targets and the default, or the      *)
(* continuation of an invoke), the landing pad of the enclosing try (pad)  *)
(* and the variable a call names without reading it as an operand          *)
(* (callee). An instruction with phi values reads them too; lowering emits *)
(* none.                                                                   *)
(***************************************************************************)
EXTENDS Integers, Sequences, FiniteSets

CONSTANTS
  LastBlock,   (* the blocks of a function are 0 .. LastBlock              *)
  Variables,   (* the variables of a function                              *)
  NoVariable,  (* INVALID_VARIABLE_IDENTIFIER                              *)
  Functions    (* [Blocks -> sequence of instructions]: what is analyzed   *)

Blocks == 0 .. LastBlock
NoBlock == -1

Kinds ==
  {"const", "bool", "load", "store", "copy", "move", "reference", "add", "divide",
   "less", "equal", "and", "not", "field", "function", "call", "await", "free",
   "landing", "jump", "branch", "switch", "invoke", "throw", "return"}

Targets == Blocks \cup {NoBlock}
Destinations == Variables \cup {NoVariable}

Instructions ==
  [kind : Kinds, src : Seq(Variables), dst : Destinations, value : Int,
   targets : Seq(Targets), pad : Targets, callee : Destinations]

ASSUME LivenessAssumption ==
  /\ LastBlock \in Nat
  /\ NoVariable \notin Variables
  /\ Functions \subseteq [Blocks -> Seq(Instructions)]

VARIABLES
  code,      (* MIRBasicBlock.blockInstructions                            *)
  present,   (* the blocks that are not null in controlFlowBlocks          *)
  succ,      (* successorBlocks, as a set                                  *)
  pred,      (* predecessorBlocks: [block -> how often it is listed]       *)
  used,      (* usedVariables: read before the block writes them           *)
  defined,   (* definedVariables                                           *)
  liveIn,    (* liveVariablesAtEntry                                       *)
  liveOut,   (* liveVariablesAtExit                                        *)
  index,     (* blockIndex of the sweep; -1 at its end                     *)
  changed,   (* whether the sweep changed a set                            *)
  stage      (* where the analysis is                                      *)

edgeVars == <<succ, pred>>
localVars == <<used, defined>>
liveVars == <<liveIn, liveOut>>
sweepVars == <<index, changed>>
vars == <<code, present, edgeVars, localVars, liveVars, sweepVars, stage>>

-----------------------------------------------------------------------------
(* The edges: those of the last instruction, to blocks that exist.         *)

Terminator(instructions) == instructions[Len(instructions)]

Mut_NoExceptionalEdge(i) ==
  IF i.kind \in {"jump", "branch", "switch", "invoke"} THEN i.targets ELSE <<>>

EdgeTargets(i) ==
  CASE i.kind \in {"jump", "branch", "switch"} -> i.targets
    [] i.kind = "invoke" -> Append(i.targets, i.pad)
    [] i.kind = "throw" -> <<i.pad>>
    [] OTHER -> <<>>

(* The number of edges from b to t.                                        *)
EdgeCount(b, t) ==
  IF b \in present /\ t \in present /\ code[b] # <<>>
  THEN LET to == EdgeTargets(Terminator(code[b]))
       IN Cardinality({k \in DOMAIN to : to[k] = t})
  ELSE 0

Successors(b) == {t \in Blocks : EdgeCount(b, t) > 0}

BuildEdges ==
  /\ stage = "edges"
  /\ succ' = [b \in Blocks |-> Successors(b)]
  /\ pred' = [t \in Blocks |-> [b \in Blocks |-> EdgeCount(b, t)]]
  /\ stage' = "local"
  /\ UNCHANGED <<code, present, localVars, liveVars, sweepVars>>

-----------------------------------------------------------------------------
(* The local sets of a block.                                              *)

Reads(i) == {i.src[k] : k \in DOMAIN i.src}

Mut_DefinedIn(instructions) ==
  {instructions[k].dst : k \in DOMAIN instructions}

DefinedIn(instructions) ==
  {instructions[k].dst : k \in DOMAIN instructions} \ {NoVariable}

Mut_UsedIn(instructions) ==
  UNION {Reads(instructions[k]) \ {instructions[j].dst : j \in 1 .. k} :
           k \in DOMAIN instructions}

UsedIn(instructions) ==
  UNION {Reads(instructions[k]) \ {instructions[j].dst : j \in 1 .. k - 1} :
           k \in DOMAIN instructions}

ComputeLocalSets ==
  /\ stage = "local"
  /\ used' = [b \in Blocks |-> IF b \in present THEN UsedIn(code[b]) ELSE {}]
  /\ defined' =
       [b \in Blocks |-> IF b \in present THEN DefinedIn(code[b]) ELSE {}]
  /\ index' = LastBlock
  /\ changed' = FALSE
  /\ stage' = "sweep"
  /\ UNCHANGED <<code, present, edgeVars, liveVars>>

-----------------------------------------------------------------------------
(* A sweep.                                                                *)

NewOut(b) == UNION {liveIn[s] : s \in succ[b] \cap present}

Mut_ThroughDefinition(b) == used[b] \cup NewOut(b)
NewIn(b) == used[b] \cup (NewOut(b) \ defined[b])

Mut_OnlyExitCounts(b) == NewOut(b) # liveOut[b]
SetsDiffer(b) == NewIn(b) # liveIn[b] \/ NewOut(b) # liveOut[b]

PropagateBackward ==
  /\ stage = "sweep" /\ index >= 0
  /\ IF index \in present /\ SetsDiffer(index)
     THEN /\ liveIn' = [liveIn EXCEPT ![index] = NewIn(index)]
          /\ liveOut' = [liveOut EXCEPT ![index] = NewOut(index)]
          /\ changed' = TRUE
     ELSE UNCHANGED <<liveVars, changed>>
  /\ index' = index - 1
  /\ UNCHANGED <<code, present, edgeVars, localVars, stage>>

Mut_SweepOnWithoutReset ==
  /\ stage = "sweep" /\ index = -1 /\ changed
  /\ index' = LastBlock
  /\ UNCHANGED <<code, present, edgeVars, localVars, liveVars, changed, stage>>

SweepAgain ==
  /\ stage = "sweep" /\ index = -1 /\ changed
  /\ index' = LastBlock
  /\ changed' = FALSE
  /\ UNCHANGED <<code, present, edgeVars, localVars, liveVars, stage>>

Converged ==
  /\ stage = "sweep" /\ index = -1 /\ ~changed
  /\ stage' = "done"
  /\ UNCHANGED <<code, present, edgeVars, localVars, liveVars, sweepVars>>

(* One step of MIRLivenessAnalyzer::analyze.                               *)
Analyze ==
  \/ BuildEdges
  \/ ComputeLocalSets
  \/ PropagateBackward
  \/ SweepAgain
  \/ Converged

-----------------------------------------------------------------------------
(* The driver's analysis of a freshly lowered function.                    *)

NoSets == [b \in Blocks |-> {}]

Init ==
  /\ code \in Functions
  /\ present = Blocks
  /\ succ = NoSets
  /\ pred = [t \in Blocks |-> [b \in Blocks |-> 0]]
  /\ used = NoSets /\ defined = NoSets
  /\ liveIn = NoSets /\ liveOut = NoSets
  /\ index = -1
  /\ changed = FALSE
  /\ stage = "edges"

Terminated == stage = "done" /\ UNCHANGED vars

Next == Analyze \/ Terminated

Spec == Init /\ [][Next]_vars

(* The pass is a loop on one thread that nothing interrupts.               *)
FairSpec == Spec /\ WF_vars(Analyze)

-----------------------------------------------------------------------------
(* Properties.                                                             *)

VariableSets == [Blocks -> SUBSET Variables]

TypeOK ==
  /\ code \in [Blocks -> Seq(Instructions)]
  /\ present \subseteq Blocks
  /\ succ \in [Blocks -> SUBSET Blocks]
  /\ pred \in [Blocks -> [Blocks -> Nat]]
  /\ used \in VariableSets /\ defined \in VariableSets
  /\ liveIn \in VariableSets /\ liveOut \in VariableSets
  /\ index \in -1 .. LastBlock
  /\ changed \in BOOLEAN
  /\ stage \in {"edges", "local", "sweep", "done"}

(* What S makes live at the exit of a block, and at its entry.             *)
ExitOf(S, b) == UNION {S[t] : t \in succ[b] \cap present}
EntryOf(S, b) == used[b] \cup (ExitOf(S, b) \ defined[b])

(* S assigns to every block at least what the equations ask for.           *)
IsSolution(S) == \A b \in present : EntryOf(S, b) \subseteq S[b]

(* The sweeps only ever add what every solution of the liveness equations  *)
(* has: the in-place update never makes a variable live that need not be   *)
(* (analyzer.cpp:135-145).                                                 *)
NeverOverestimates ==
  stage \in {"sweep", "done"} =>
    \A S \in VariableSets : IsSolution(S) =>
      \A b \in Blocks : liveIn[b] \subseteq S[b]

(* When the analysis stops, the sets solve the equations: the last sweep   *)
(* updated nothing although each block was visited before its predecessors *)
(* could have changed again (analyzer.cpp:34-36).                          *)
SolvesEquations ==
  stage = "done" => \A b \in present :
    /\ liveOut[b] = ExitOf(liveIn, b)
    /\ liveIn[b] = EntryOf(liveIn, b)

(* Control leaves b at instruction k for t before v is written: to the pad  *)
(* when the instruction raises, to a target once it is done.               *)
LeavesWithout(v, b, k, t) ==
  /\ \A j \in 1 .. k - 1 : code[b][j].dst # v
  /\ \/ t = code[b][k].pad
     \/ code[b][k].dst # v /\ \E n \in DOMAIN code[b][k].targets :
                                 code[b][k].targets[n] = t

ReadFirst(v, b) ==
  \E k \in DOMAIN code[b] :
    v \in Reads(code[b][k]) /\ \A j \in 1 .. k - 1 : code[b][j].dst # v

(* v is live at the entry of b when an execution from there may read it    *)
(* before it is written.                                                   *)
OnPath(v, b) ==
  \E n \in 1 .. LastBlock + 1 : \E path \in [1 .. n -> present] :
    /\ path[1] = b /\ ReadFirst(v, path[n])
    /\ \A i \in 1 .. n - 1 : \E k \in DOMAIN code[path[i]] :
         LeavesWithout(v, path[i], k, path[i + 1])

(* What the edges, the local sets and the sweeps compute together is what  *)
(* liveness means: a variable is live at the entry of a block exactly when *)
(* the code can read it from there before it writes it                     *)
(* (analyzer.cpp:26-37).                                                   *)
LiveAlongPaths ==
  stage = "done" =>
    \A b \in present : liveIn[b] = {v \in Variables : OnPath(v, b)}

(* The analysis stops.                                                     *)
AnalysisEnds == <>(stage = "done")

=============================================================================

-------------------------- MODULE MIRBorrowChecker --------------------------
(***************************************************************************)
(* The ownership check of one MIR function                                 *)
(* (src/uranite/ir/mir/borrow.cpp), which the driver runs after the        *)
(* liveness analysis and on its edges: passes over the blocks, in their    *)
(* order, that merge the states at the exits of the predecessors into the  *)
(* states at the entry of a block until a pass changes nothing, and a last *)
(* pass over all instructions. Every pass reports what it sees.            *)
(***************************************************************************)
EXTENDS MIRLiveness

CONSTANT ParameterVariables   (* parameterVariableIdentifiers              *)

ASSUME ParametersAssumption == ParameterVariables \subseteq Variables

VARIABLES
  states,   (* blockEntryStates: [block -> [variable -> state]]            *)
  known,    (* the blocks that have an entry in blockEntryStates           *)
  at,       (* the block the pass is at                                    *)
  updated,  (* changed: whether the pass changed the states of a block     *)
  passes,   (* iterationCount                                              *)
  reports,  (* the places reported: <<block, position, variable>>          *)
  phase     (* where the check is                                          *)

flowVars == <<states, known, at, updated, passes>>
checkVars == <<flowVars, reports, phase>>
borrowVars == <<vars, checkVars>>

-----------------------------------------------------------------------------
(* The states, in the order in which merging prefers them: Absent, for a   *)
(* variable a map has no entry for, gives way to all. No instruction makes *)
(* a variable Uninitialized or MutablyBorrowed.                            *)
Absent == 0
Owned == 1
Borrowed == 2
Moved == 3
States == 0 .. 3
NoStates == [v \in Variables |-> Absent]

Mut_Merge(S) == IF S = {} THEN Absent ELSE CHOOSE s \in S : \A t \in S : s <= t

Merge(S) == IF S = {} THEN Absent ELSE CHOOSE s \in S : \A t \in S : t <= s

-----------------------------------------------------------------------------
(* What an instruction does to the state of a variable.                    *)

First(i) == IF i.src = <<>> THEN NoVariable ELSE i.src[1]

Mut_Touches(i, v) == v # NoVariable /\ v = i.dst

Touches(i, v) ==
  /\ v # NoVariable
  /\ \/ v = i.dst
     \/ i.kind \in {"move", "free", "reference"} /\ v = First(i)

(* A move marks its source before its destination.                         *)
StateAfter(i, v) ==
  CASE i.kind = "move" -> IF v = i.dst THEN Owned ELSE Moved
    [] i.kind = "free" -> Moved
    [] i.kind = "reference" -> Borrowed
    [] OTHER -> Owned

(* The state of v after the first n instructions of b, from m at its entry.*)
StateAt(b, n, m, v) ==
  LET touching == {j \in 1 .. n : Touches(code[b][j], v)}
  IN IF touching = {} THEN m[v]
     ELSE StateAfter(code[b][CHOOSE j \in touching : \A k \in touching : k <= j], v)

ExitState(b, v) == StateAt(b, Len(code[b]), states[b], v)

(* The uses that the walk over b from m reports; deleting what is moved    *)
(* already is one of them, under two messages.                             *)
ReportsIn(b, m) ==
  UNION {{<<b, k, v>> : v \in {v \in Reads(code[b][k]) : StateAt(b, k - 1, m, v) = Moved}} :
           k \in DOMAIN code[b]}

-----------------------------------------------------------------------------
(* propagateOwnershipStates                                                *)

EntryStates == [v \in Variables |-> IF v \in ParameterVariables THEN Owned ELSE Absent]

(* The predecessors that have states.                                      *)
Before(b) == {p \in known : pred[b][p] > 0}

MergedStates(b) ==
  IF b = 0 THEN EntryStates
  ELSE [v \in Variables |-> Merge({ExitState(p, v) : p \in Before(b)})]

StartCheck ==
  /\ phase = "waiting" /\ stage = "done"
  /\ states' = [states EXCEPT ![0] = EntryStates]
  /\ known' = {0}
  /\ at' = 0
  /\ updated' = FALSE
  /\ passes' = 1
  /\ phase' = "flow"
  /\ UNCHANGED <<vars, reports>>

Mut_MergeBlock ==
  /\ phase = "flow" /\ at <= LastBlock
  /\ IF at \in present
     THEN LET merged == MergedStates(at)
          IN /\ states' = [states EXCEPT ![at] = merged]
             /\ known' = known \cup {at}
             /\ updated' = (at \notin known \/ merged # states[at])
             /\ reports' = IF at = 0 THEN reports
                           ELSE reports \cup UNION {ReportsIn(p, states[p]) : p \in Before(at)}
     ELSE UNCHANGED <<states, known, updated, reports>>
  /\ at' = at + 1
  /\ UNCHANGED <<vars, passes, phase>>

(* One block of a pass: its predecessors are walked, and checked, again.   *)
MergeBlock ==
  /\ phase = "flow" /\ at <= LastBlock
  /\ IF at \in present
     THEN LET merged == MergedStates(at)
          IN /\ states' = [states EXCEPT ![at] = merged]
             /\ known' = known \cup {at}
             /\ updated' = (updated \/ at \notin known \/ merged # states[at])
             /\ reports' = IF at = 0 THEN reports
                           ELSE reports \cup UNION {ReportsIn(p, states[p]) : p \in Before(at)}
     ELSE UNCHANGED <<states, known, updated, reports>>
  /\ at' = at + 1
  /\ UNCHANGED <<vars, passes, phase>>

(* maxIterations                                                           *)
Limit == (LastBlock + 1) * 4 + 10

MergeAgain ==
  /\ phase = "flow" /\ at > LastBlock
  /\ updated /\ passes < Limit
  /\ at' = 0
  /\ updated' = FALSE
  /\ passes' = passes + 1
  /\ UNCHANGED <<vars, states, known, reports, phase>>

StartReport ==
  /\ phase = "flow" /\ at > LastBlock
  /\ ~updated \/ passes = Limit
  /\ at' = 0
  /\ phase' = "report"
  /\ UNCHANGED <<vars, states, known, updated, passes, reports>>

Mut_ReportBlock ==
  /\ phase = "report" /\ at <= LastBlock + 1
  /\ reports' = IF at \in present THEN reports \cup ReportsIn(at, states[at]) ELSE reports
  /\ at' = at + 1
  /\ UNCHANGED <<vars, states, known, updated, passes, phase>>

(* The last pass; a block without states starts from an empty map.         *)
ReportBlock ==
  /\ phase = "report" /\ at <= LastBlock
  /\ reports' = IF at \in present THEN reports \cup ReportsIn(at, states[at]) ELSE reports
  /\ at' = at + 1
  /\ UNCHANGED <<vars, states, known, updated, passes, phase>>

EndCheck ==
  /\ phase = "report" /\ at > LastBlock
  /\ phase' = "checked"
  /\ UNCHANGED <<vars, flowVars, reports>>

Check ==
  \/ StartCheck
  \/ MergeBlock
  \/ MergeAgain
  \/ StartReport
  \/ ReportBlock
  \/ EndCheck

-----------------------------------------------------------------------------
BorrowInit ==
  /\ Init
  /\ states = [b \in Blocks |-> NoStates]
  /\ known = {}
  /\ at = 0
  /\ updated = FALSE
  /\ passes = 0
  /\ reports = {}
  /\ phase = "waiting"

AnalyzeFirst == Analyze /\ UNCHANGED checkVars

BorrowTerminated == phase = "checked" /\ UNCHANGED borrowVars

BorrowNext == AnalyzeFirst \/ Check \/ BorrowTerminated

BorrowSpec == BorrowInit /\ [][BorrowNext]_borrowVars

-----------------------------------------------------------------------------
(* Properties                                                              *)

BorrowTypeOK ==
  /\ states \in [Blocks -> [Variables -> States]]
  /\ known \subseteq present
  /\ at \in 0 .. LastBlock + 1
  /\ updated \in BOOLEAN
  /\ passes \in 0 .. Limit
  /\ reports \subseteq Blocks \X Nat \X Variables
  /\ phase \in {"waiting", "flow", "report", "checked"}

AllReports == UNION {ReportsIn(b, states[b]) : b \in present}

(* An error is printed as soon as a pass sees it and never withdrawn, also *)
(* by the passes that are not over the final states: each is one that the  *)
(* states still justify, and at the end these are all (borrow.cpp:49-94).  *)
ReportsStand ==
  /\ reports \subseteq AllReports
  /\ phase = "checked" => reports = AllReports

(* The states of a block only become worse from pass to pass, so that      *)
(* another pass does not take back what one has found (borrow.cpp:62-81,   *)
(* 207-236).                                                               *)
StatesOnlyRise ==
  [][\A b \in Blocks, v \in Variables : states[b][v] <= states'[b][v]]_borrowVars

(* What the passes end with are the states of a pass that changed nothing: *)
(* the limit on the passes does not cut them off (borrow.cpp:47-49).       *)
EndsAtFixpoint ==
  phase \in {"report", "checked"} => \A b \in present : states[b] = MergedStates(b)

-----------------------------------------------------------------------------
(* What the check is for, followed from instruction to instruction.        *)

Places == UNION {{<<b, k>> : k \in DOMAIN code[b]} : b \in Blocks}

(* Where control goes from instruction k of b. A throw or an unwinding call*)
(* goes to its landing pad.                                                *)
Leads(b, k) ==
  LET i == code[b][k]
  IN ({<<t, 1>> : t \in {i.targets[n] : n \in DOMAIN i.targets} \cup {i.pad}}
        \cup (IF i.targets = <<>> THEN {<<b, k + 1>>} ELSE {})) \cap Places

MovesAway(i, v) == i.kind \in {"move", "free"} /\ First(i) = v /\ i.dst # v
Restores(i, v) == i.dst = v \/ (i.kind = "reference" /\ First(i) = v)

Onward(places) == UNION {Leads(p[1], p[2]) : p \in places}

(* The places that control can reach from a move of v without v having     *)
(* been given a value again: more instructions than there are add none.    *)
AfterMove(v) ==
  LET reached[n \in 0 .. Cardinality(Places)] ==
        IF n = 0 THEN Onward({p \in Places : MovesAway(code[p[1]][p[2]], v)})
        ELSE LET before == reached[n - 1]
             IN before \cup Onward({p \in before : ~Restores(code[p[1]][p[2]], v)})
  IN reached[Cardinality(Places)]

(* The check reports the uses that some path leads to from a move or a     *)
(* delete of the variable, and no other: merging loses no path and adds    *)
(* none (borrow.cpp:55-93, 96-236).                                        *)
UsesAfterMoveAreReported ==
  phase = "checked" =>
    reports = UNION {{<<p[1], p[2], v>> : p \in
                        {p \in AfterMove(v) : v \in Reads(code[p[1]][p[2]])}} :
                     v \in Variables}

=============================================================================

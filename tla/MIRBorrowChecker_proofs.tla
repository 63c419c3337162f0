---------------------- MODULE MIRBorrowChecker_proofs ----------------------
(***************************************************************************)
(* For functions of any size: the states that the check keeps only become  *)
(* worse, so every error it reports on the way is one that its final       *)
(* states justify, and it reports all of those. The passes reach a         *)
(* fixpoint before their limit, and there the reports are exactly the uses *)
(* that a path leads to from a move, by blocks and by instructions.        *)
(***************************************************************************)
EXTENDS MIRBorrowChecker, MIRLiveness_proofs

-----------------------------------------------------------------------------
(* The inductive invariant.                                                *)

Checking == phase # "waiting"

(* Before the check there is nothing but the analysis.                     *)
StartsUnknown ==
  ~Checking => known = {} /\ reports = {} /\ states = [b \in Blocks |-> NoStates]

ChecksAnalyzed == Checking => stage = "done" /\ present = Blocks

(* What a block has is no more than what its predecessors now ask for.     *)
BelowMerged ==
  Checking => \A b \in Blocks, v \in Variables : states[b][v] <= MergedStates(b)[v]

(* The last pass leaves the reports of the blocks behind it.               *)
ReportProgress ==
  phase = "report" => \A b \in present : b < at => ReportsIn(b, states[b]) \subseteq reports

BInv ==
  /\ IInv
  /\ BorrowTypeOK
  /\ present = Blocks
  /\ StartsUnknown
  /\ ChecksAnalyzed
  /\ BelowMerged
  /\ ReportProgress
  /\ ReportsStand

-----------------------------------------------------------------------------
(* The helpers.                                                            *)

LEMMA StateAfterType == ASSUME NEW i, NEW v PROVE StateAfter(i, v) \in States
BY DEF StateAfter, States, Owned, Borrowed, Moved

LEMMA StateAtType ==
  ASSUME NEW b, NEW n, NEW v \in Variables, NEW m \in [Variables -> States]
  PROVE  StateAt(b, n, m, v) \in States
BY StateAfterType DEF StateAt

(* The walk over a block passes on the state of a variable or replaces it. *)
LEMMA StateAtMonotone ==
  ASSUME NEW b, NEW n, NEW v \in Variables,
         NEW m \in [Variables -> States], NEW w \in [Variables -> States],
         m[v] <= w[v]
  PROVE  StateAt(b, n, m, v) <= StateAt(b, n, w, v)
<1> DEFINE touching == {j \in 1 .. n : Touches(code[b][j], v)}
<1>1. CASE touching = {}
  BY <1>1 DEF StateAt
<1>2. CASE touching # {}
  <2>1. StateAt(b, n, m, v) = StateAt(b, n, w, v)
    BY <1>2 DEF StateAt
  <2>2. StateAt(b, n, m, v) \in States
    BY StateAtType
  <2> QED
    BY <2>1, <2>2 DEF States
<1> QED
  BY <1>1, <1>2

LEMMA MergeIsHighest ==
  ASSUME NEW S \in SUBSET States
  PROVE  /\ Merge(S) \in States
         /\ \A s \in S : s <= Merge(S)
         /\ S # {} => Merge(S) \in S
<1>1. CASE S = {}
  BY <1>1 DEF Merge, Absent, States
<1>2. CASE S # {}
  <2>1. \E s \in S : \A t \in S : t <= s
    <3>1. CASE 3 \in S
      BY <3>1 DEF States
    <3>2. CASE 3 \notin S /\ 2 \in S
      BY <3>2 DEF States
    <3>3. CASE 3 \notin S /\ 2 \notin S /\ 1 \in S
      BY <3>3 DEF States
    <3>4. CASE 3 \notin S /\ 2 \notin S /\ 1 \notin S
      <4>1. \A t \in S : t = 0
        BY <3>4 DEF States
      <4> QED
        BY <1>2, <4>1
    <3> QED
      BY <3>1, <3>2, <3>3, <3>4
  <2> DEFINE highest == CHOOSE s \in S : \A t \in S : t <= s
  <2>2. highest \in S /\ \A t \in S : t <= highest
    BY <2>1
  <2>3. Merge(S) = highest
    BY <1>2 DEF Merge
  <2> QED
    BY <2>2, <2>3
<1> QED
  BY <1>1, <1>2

LEMMA MergeMonotone ==
  ASSUME NEW S \in SUBSET States, NEW T \in SUBSET States,
         \A s \in S : \E t \in T : s <= t
  PROVE  Merge(S) <= Merge(T)
<1>1. CASE S = {}
  <2>1. Merge(S) = 0 /\ Merge(T) \in 0 .. 3
    BY <1>1, MergeIsHighest DEF Merge, Absent, States
  <2> QED
    BY <2>1
<1>2. CASE S # {}
  <2>1. Merge(S) \in S /\ Merge(S) \in 0 .. 3 /\ Merge(T) \in 0 .. 3
    BY <1>2, MergeIsHighest DEF States
  <2>2. PICK t \in T : Merge(S) <= t
    BY <2>1
  <2>3. t <= Merge(T) /\ t \in 0 .. 3
    BY MergeIsHighest DEF States
  <2> QED
    BY <2>1, <2>2, <2>3
<1> QED
  BY <1>1, <1>2

LEMMA ExitStateType ==
  ASSUME BorrowTypeOK, NEW p \in Blocks, NEW v \in Variables
  PROVE  ExitState(p, v) \in States
<1>1. states[p] \in [Variables -> States]
  BY DEF BorrowTypeOK
<1> QED
  BY <1>1, StateAtType DEF ExitState

LEMMA EntryStatesType == EntryStates \in [Variables -> States]
BY DEF EntryStates, States, Owned, Absent

LEMMA MergedStatesType ==
  ASSUME BorrowTypeOK, present \subseteq Blocks, NEW b \in Blocks
  PROVE  MergedStates(b) \in [Variables -> States]
<1>1. ASSUME NEW v \in Variables
      PROVE  {ExitState(p, v) : p \in Before(b)} \in SUBSET States
  BY ExitStateType DEF Before, BorrowTypeOK
<1>2. ASSUME NEW v \in Variables
      PROVE  Merge({ExitState(p, v) : p \in Before(b)}) \in States
  BY <1>1, MergeIsHighest
<1> QED
  BY <1>2, EntryStatesType DEF MergedStates

LEMMA MergedStatesTypeNext ==
  ASSUME BorrowTypeOK', present' \subseteq Blocks, NEW b \in Blocks
  PROVE  MergedStates(b)' \in [Variables -> States]
<1>1. ASSUME NEW p \in Blocks, NEW v \in Variables
      PROVE  ExitState(p, v)' \in States
  <2>1. states'[p] \in [Variables -> States]
    BY DEF BorrowTypeOK
  <2> QED
    BY <2>1, StateAfterType DEF ExitState, StateAt
<1>2. ASSUME NEW v \in Variables
      PROVE  {ExitState(p, v)' : p \in Before(b)'} \in SUBSET States
  BY <1>1 DEF Before, BorrowTypeOK
<1>3. ASSUME NEW v \in Variables
      PROVE  Merge({ExitState(p, v)' : p \in Before(b)'}) \in States
  BY <1>2, MergeIsHighest
<1> QED
  BY <1>3, EntryStatesType DEF MergedStates, EntryStates, Owned, Absent

-----------------------------------------------------------------------------
(* What a step does that changes states only for the worse.                *)

Worsens ==
  /\ UNCHANGED <<code, present, pred>>
  /\ known \subseteq known'
  /\ \A b \in Blocks, v \in Variables : states[b][v] <= states'[b][v]

LEMMA MergedStatesRise ==
  ASSUME BorrowTypeOK, BorrowTypeOK', present \subseteq Blocks, Worsens,
         NEW b \in Blocks, NEW v \in Variables
  PROVE  MergedStates(b)[v] <= MergedStates(b)'[v] /\ MergedStates(b)'[v] \in States
<1>1. CASE b = 0
  <2>1. MergedStates(b) = EntryStates /\ MergedStates(b)' = EntryStates
    BY <1>1 DEF MergedStates, EntryStates, Owned, Absent
  <2>2. EntryStates[v] \in 0 .. 3
    BY EntryStatesType DEF States
  <2> QED
    BY <2>1, <2>2 DEF States
<1>2. CASE b # 0
  <2> DEFINE S == {ExitState(p, v) : p \in Before(b)}
             T == {ExitState(p, v)' : p \in Before(b)'}
  <2>1. Before(b) \subseteq Blocks /\ Before(b) \subseteq Before(b)'
    BY DEF Before, Worsens, BorrowTypeOK
  <2>2. ASSUME NEW p \in Blocks
        PROVE  /\ ExitState(p, v) \in States /\ ExitState(p, v)' \in States
               /\ ExitState(p, v) <= ExitState(p, v)'
    <3>1. states[p] \in [Variables -> States] /\ states'[p] \in [Variables -> States]
      BY DEF BorrowTypeOK
    <3>2. states[p][v] <= states'[p][v] /\ code' = code
      BY DEF Worsens
    <3>3. ExitState(p, v)' = StateAt(p, Len(code[p]), states'[p], v)
      BY <3>2 DEF ExitState, StateAt, Touches, First
    <3> QED
      BY <3>1, <3>2, <3>3, StateAtType, StateAtMonotone DEF ExitState
  <2>3. Before(b)' \subseteq Blocks
    BY DEF Before, BorrowTypeOK, Worsens
  <2>4. S \in SUBSET States /\ T \in SUBSET States
    BY <2>1, <2>2, <2>3
  <2>5. \A s \in S : \E t \in T : s <= t
    BY <2>1, <2>2
  <2>6. Merge(S) <= Merge(T) /\ Merge(T) \in States
    BY <2>4, <2>5, MergeMonotone, MergeIsHighest
  <2>7. MergedStates(b)[v] = Merge(S)
    BY <1>2 DEF MergedStates
  <2>8. MergedStates(b)'[v] = Merge(T)
    BY <1>2 DEF MergedStates
  <2> QED
    BY <2>6, <2>7, <2>8
<1> QED
  BY <1>1, <1>2

(* Once a walk over a block reports a use, it does so ever after: nothing  *)
(* is worse than Moved.                                                    *)
LEMMA ReportsRemain ==
  ASSUME BorrowTypeOK, BorrowTypeOK', TypeOK, Worsens, NEW b \in Blocks
  PROVE  ReportsIn(b, states[b]) \subseteq ReportsIn(b, states[b])'
<1>1. states[b] \in [Variables -> States] /\ states'[b] \in [Variables -> States]
  BY DEF BorrowTypeOK
<1>2. code' = code
  BY DEF Worsens
<1>3. ASSUME NEW k \in DOMAIN code[b], NEW v \in Reads(code[b][k]),
             StateAt(b, k - 1, states[b], v) = Moved
      PROVE  StateAt(b, k - 1, states'[b], v) = Moved
  <2>1. v \in Variables
    <3>1. code[b] \in Seq(Instructions)
      BY DEF TypeOK
    <3>2. code[b][k] \in Instructions
      BY <3>1
    <3>3. code[b][k].src \in Seq(Variables)
      BY <3>2 DEF Instructions
    <3> QED
      BY <3>3 DEF Reads
  <2>2. StateAt(b, k - 1, states[b], v) <= StateAt(b, k - 1, states'[b], v)
    BY <1>1, <2>1, StateAtMonotone DEF Worsens
  <2>3. StateAt(b, k - 1, states'[b], v) \in 0 .. 3
    BY <1>1, <2>1, StateAtType DEF States
  <2> QED
    BY <1>3, <2>2, <2>3 DEF Moved
<1>4. ReportsIn(b, states[b])' =
        UNION {{<<b, k, v>> : v \in {v \in Reads(code[b][k]) :
                                       StateAt(b, k - 1, states'[b], v) = Moved}} :
                 k \in DOMAIN code[b]}
  BY <1>2 DEF ReportsIn, StateAt, Touches, First, Reads, Moved
<1> QED
  BY <1>3, <1>4 DEF ReportsIn

LEMMA AllReportsRemain ==
  ASSUME BorrowTypeOK, BorrowTypeOK', TypeOK, Worsens
  PROVE  AllReports \subseteq AllReports'
<1>1. present' = present /\ present \subseteq Blocks
  BY DEF Worsens, TypeOK
<1>2. \A b \in present : ReportsIn(b, states[b]) \subseteq ReportsIn(b, states[b])'
  BY <1>1, ReportsRemain
<1> QED
  BY <1>1, <1>2 DEF AllReports

-----------------------------------------------------------------------------
(* Every step preserves the invariant.                                     *)

LEMMA InitBInv == BorrowInit => BInv
<1> SUFFICES ASSUME BorrowInit PROVE BInv
  OBVIOUS
<1>1. IInv
  BY InitIInv DEF BorrowInit
<1>2. NoStates \in [Variables -> States]
  BY DEF NoStates, Absent, States
<1>3. BorrowTypeOK
  <2>1. LastBlock + 1 \in Nat /\ Limit \in Nat
    BY LivenessAssumption DEF Limit
  <2>2. states \in [Blocks -> [Variables -> States]]
    BY <1>2 DEF BorrowInit
  <2>3. at \in 0 .. LastBlock + 1 /\ passes \in 0 .. Limit
    BY <2>1 DEF BorrowInit
  <2>4. /\ known \subseteq present /\ updated \in BOOLEAN
        /\ reports \subseteq Blocks \X Nat \X Variables
        /\ phase \in {"waiting", "flow", "report", "checked"}
    BY DEF BorrowInit
  <2> QED
    BY <2>2, <2>3, <2>4 DEF BorrowTypeOK
<1>4. present = Blocks
  BY DEF BorrowInit, Init
<1> QED
  BY <1>1, <1>3, <1>4
  DEF BorrowInit, BInv, StartsUnknown, ChecksAnalyzed, BelowMerged, ReportProgress,
      ReportsStand, Checking

LEMMA AnalyzeFirstBInv == BInv /\ AnalyzeFirst => BInv'
<1> SUFFICES ASSUME BInv, AnalyzeFirst PROVE BInv'
  OBVIOUS
<1>1. UNCHANGED checkVars /\ Analyze
  BY DEF AnalyzeFirst
<1>2. IInv'
  BY <1>1, NextIInv DEF BInv, Next
<1>3. stage # "done" /\ present' = present
  BY <1>1 DEF Analyze, BuildEdges, ComputeLocalSets, PropagateBackward, SweepAgain, Converged
<1>4. ~Checking
  BY <1>3 DEF BInv, ChecksAnalyzed
<1>5. UNCHANGED <<states, known, at, updated, passes, reports, phase>>
  BY <1>1 DEF checkVars, flowVars
<1>6. BorrowTypeOK'
  BY <1>3, <1>5 DEF BInv, BorrowTypeOK
<1> QED
  BY <1>2, <1>3, <1>4, <1>5, <1>6
  DEF BInv, StartsUnknown, ChecksAnalyzed, BelowMerged, ReportProgress, ReportsStand, Checking

(* The steps of the check leave the analysis alone.                        *)
LEMMA CheckKeepsAnalysis ==
  ASSUME BInv, Check
  PROVE  /\ IInv' /\ present' = Blocks /\ UNCHANGED vars
         /\ UNCHANGED <<code, present, pred, stage>>
<1>1. UNCHANGED vars
  BY DEF Check, StartCheck, MergeBlock, MergeAgain, StartReport, ReportBlock, EndCheck
<1>2. IInv'
  BY <1>1, NextIInv DEF BInv
<1>3. UNCHANGED <<code, present, pred, stage>>
  BY <1>1 DEF vars, edgeVars
<1> QED
  BY <1>1, <1>2, <1>3 DEF BInv

(* What a step that only worsens states leaves to show: the blocks keep    *)
(* below what their predecessors ask for where they were before.           *)
LEMMA WorsensKeepsBelow ==
  ASSUME BInv, Checking, Worsens, BorrowTypeOK', NEW b \in Blocks, NEW v \in Variables
  PROVE  states[b][v] <= MergedStates(b)'[v]
<1>1. present \subseteq Blocks
  BY DEF BInv
<1>2. MergedStates(b)[v] <= MergedStates(b)'[v]
  BY <1>1, MergedStatesRise DEF BInv
<1>3. states[b][v] <= MergedStates(b)[v]
  BY DEF BInv, BelowMerged
<1>4. states[b][v] \in 0 .. 3 /\ MergedStates(b)[v] \in 0 .. 3
  <2>1. states[b] \in [Variables -> States] /\ MergedStates(b) \in [Variables -> States]
    BY <1>1, MergedStatesType DEF BInv, BorrowTypeOK
  <2> QED
    BY <2>1 DEF States
<1>5. MergedStates(b)'[v] \in 0 .. 3
  BY <1>1, MergedStatesRise DEF BInv, States
<1> QED
  BY <1>2, <1>3, <1>4, <1>5

(* A step that leaves the states alone leaves what they ask for alone.     *)
LEMMA SameStates ==
  ASSUME UNCHANGED <<code, present, pred, states, known>>
  PROVE  /\ AllReports' = AllReports
         /\ \A b \in present : ReportsIn(b, states[b])' = ReportsIn(b, states[b])
         /\ \A b \in Blocks : MergedStates(b)' = MergedStates(b)
BY DEF AllReports, ReportsIn, StateAt, Touches, First, Reads, MergedStates, EntryStates,
       ExitState, Before

LEMMA ReportsInType ==
  ASSUME TypeOK, NEW b \in Blocks, NEW m
  PROVE  ReportsIn(b, m) \subseteq Blocks \X Nat \X Variables
<1>1. code[b] \in Seq(Instructions)
  BY DEF TypeOK
<1>2. ASSUME NEW k \in DOMAIN code[b] PROVE k \in Nat /\ Reads(code[b][k]) \subseteq Variables
  <2>1. k \in Nat /\ code[b][k] \in Instructions
    BY <1>1
  <2>2. code[b][k].src \in Seq(Variables)
    BY <2>1 DEF Instructions
  <2> QED
    BY <2>1, <2>2 DEF Reads
<1> QED
  BY <1>2 DEF ReportsIn

LEMMA StartCheckBInv == BInv /\ StartCheck => BInv'
<1> SUFFICES ASSUME BInv, StartCheck PROVE BInv'
  OBVIOUS
<1>1. IInv' /\ present' = Blocks /\ UNCHANGED <<code, present, pred, stage>>
  BY CheckKeepsAnalysis DEF Check
<1>2. 0 \in Blocks /\ LastBlock + 1 \in Nat /\ 1 \in 0 .. Limit
  BY LivenessAssumption DEF Blocks, Limit
<1>3. ~Checking /\ known = {} /\ reports = {} /\ states = [b \in Blocks |-> NoStates]
  BY DEF StartCheck, BInv, StartsUnknown, Checking
<1>4. states' = [states EXCEPT ![0] = EntryStates] /\ known' = {0} /\ reports' = {}
  BY <1>3 DEF StartCheck
<1>5. BorrowTypeOK'
  <2>1. states' \in [Blocks -> [Variables -> States]]
    BY <1>2, <1>4, EntryStatesType DEF BInv, BorrowTypeOK
  <2>2. at' \in 0 .. LastBlock + 1 /\ passes' \in 0 .. Limit
    BY <1>2 DEF StartCheck
  <2>3. /\ updated' \in BOOLEAN /\ phase' \in {"waiting", "flow", "report", "checked"}
    BY DEF StartCheck
  <2> QED
    BY <1>1, <1>2, <1>4, <2>1, <2>2, <2>3 DEF BorrowTypeOK
<1>6. ASSUME NEW b \in Blocks, NEW v \in Variables
      PROVE  states'[b][v] <= MergedStates(b)'[v]
  <2>1. MergedStates(b)' \in [Variables -> States]
    BY <1>1, <1>5, MergedStatesTypeNext
  <2>2. CASE b = 0
    <3>1. states'[b] = EntryStates /\ MergedStates(b)' = EntryStates
      BY <1>2, <1>3, <1>4, <2>2 DEF MergedStates, EntryStates, Owned, Absent
    <3> QED
      BY <3>1, EntryStatesType DEF States
  <2>3. CASE b # 0
    <3>1. states'[b][v] = 0
      BY <1>3, <1>4, <2>3 DEF NoStates, Absent
    <3> QED
      BY <2>1, <3>1 DEF States
  <2> QED
    BY <2>2, <2>3
<1>7. phase' = "flow" /\ stage = "done"
  BY DEF StartCheck
<1> QED
  BY <1>1, <1>4, <1>5, <1>6, <1>7
  DEF BInv, StartsUnknown, ChecksAnalyzed, BelowMerged, ReportProgress, ReportsStand, Checking

LEMMA MergeBlockWorsens ==
  ASSUME BInv, MergeBlock
  PROVE  Worsens /\ BorrowTypeOK'
<1>1. UNCHANGED <<code, present, pred, stage>> /\ present = Blocks /\ Checking
  BY CheckKeepsAnalysis DEF Check, BInv, MergeBlock, Checking
<1>2. at + 1 \in 0 .. LastBlock + 1
  BY LivenessAssumption DEF MergeBlock, BInv, BorrowTypeOK
<1>3. CASE at \in present
  <2>1. at \in Blocks /\ MergedStates(at) \in [Variables -> States]
    BY <1>1, <1>3, MergedStatesType DEF BInv
  <2>2. states' = [states EXCEPT ![at] = MergedStates(at)] /\ known' = known \cup {at}
    BY <1>3 DEF MergeBlock
  <2>3. states \in [Blocks -> [Variables -> States]] /\ known \subseteq Blocks
    BY <1>1 DEF BInv, BorrowTypeOK
  <2>4. ASSUME NEW b \in Blocks, NEW v \in Variables
        PROVE  states[b][v] <= states'[b][v]
    <3>1. CASE b = at
      BY <1>1, <2>2, <2>3, <3>1 DEF BInv, BelowMerged
    <3>2. CASE b # at
      BY <2>2, <2>3, <3>2 DEF States
    <3> QED
      BY <3>1, <3>2
  <2>5. \A p \in Before(at) : ReportsIn(p, states[p]) \subseteq Blocks \X Nat \X Variables
    BY <2>3, ReportsInType DEF Before, BInv, IInv, SweepInv
  <2>6. reports' \subseteq Blocks \X Nat \X Variables
    BY <1>3, <2>5 DEF MergeBlock, BInv, BorrowTypeOK
  <2>7. states' \in [Blocks -> [Variables -> States]]
    BY <2>1, <2>2, <2>3
  <2>8. updated' \in BOOLEAN /\ UNCHANGED <<passes, phase>> /\ at' = at + 1
    BY <1>3 DEF MergeBlock, BInv, BorrowTypeOK
  <2>9. BorrowTypeOK'
    BY <1>1, <1>2, <1>3, <2>2, <2>3, <2>6, <2>7, <2>8 DEF BInv, BorrowTypeOK
  <2> QED
    BY <1>1, <2>2, <2>4, <2>9 DEF Worsens
<1>4. CASE at \notin present
  <2>1. UNCHANGED <<states, known, updated, reports, passes, phase>> /\ at' = at + 1
    BY <1>4 DEF MergeBlock
  <2>2. BorrowTypeOK'
    BY <1>1, <1>2, <2>1 DEF BInv, BorrowTypeOK
  <2>3. \A b \in Blocks, v \in Variables : states[b][v] \in 0 .. 3
    BY DEF BInv, BorrowTypeOK, States
  <2>4. \A b \in Blocks, v \in Variables : states[b][v] <= states'[b][v]
    BY <2>1, <2>3
  <2> QED
    BY <1>1, <2>1, <2>2, <2>4 DEF Worsens
<1> QED
  BY <1>3, <1>4

LEMMA MergeBlockBInv == BInv /\ MergeBlock => BInv'
<1> SUFFICES ASSUME BInv, MergeBlock PROVE BInv'
  OBVIOUS
<1>1. IInv' /\ present' = Blocks /\ UNCHANGED <<code, present, pred, stage>>
  BY CheckKeepsAnalysis DEF Check
<1>2. Worsens /\ BorrowTypeOK'
  BY MergeBlockWorsens
<1>3. phase = "flow" /\ phase' = "flow" /\ Checking
  BY DEF MergeBlock, Checking
<1>4. ASSUME NEW b \in Blocks, NEW v \in Variables
      PROVE  states'[b][v] <= MergedStates(b)'[v]
  <2>1. CASE at \in present /\ b = at
    <3>1. states'[b] = MergedStates(b)
      BY <2>1 DEF MergeBlock, BInv, BorrowTypeOK
    <3>2. MergedStates(b)[v] <= MergedStates(b)'[v]
      BY <1>2, MergedStatesRise DEF BInv
    <3> QED
      BY <3>1, <3>2
  <2>2. CASE ~(at \in present /\ b = at)
    <3>1. states'[b] = states[b]
      BY <2>2 DEF MergeBlock, BInv, BorrowTypeOK
    <3> QED
      BY <1>2, <1>3, <3>1, WorsensKeepsBelow
  <2> QED
    BY <2>1, <2>2
<1>5. reports' \subseteq AllReports
  <2>1. \A p \in Before(at) : p \in present
    BY DEF Before, BInv, BorrowTypeOK
  <2>2. reports' \subseteq reports \cup UNION {ReportsIn(p, states[p]) : p \in Before(at)}
    BY DEF MergeBlock
  <2> QED
    BY <2>1, <2>2 DEF BInv, ReportsStand, AllReports
<1>6. AllReports \subseteq AllReports'
  BY <1>2, AllReportsRemain DEF BInv, IInv, SweepInv
<1> QED
  BY <1>1, <1>2, <1>3, <1>4, <1>5, <1>6
  DEF BInv, StartsUnknown, ChecksAnalyzed, BelowMerged, ReportProgress, ReportsStand, Checking

(* The steps that only move between the passes.                            *)
LEMMA PassesBInv == BInv /\ (MergeAgain \/ StartReport \/ EndCheck) => BInv'
<1> SUFFICES ASSUME BInv, MergeAgain \/ StartReport \/ EndCheck PROVE BInv'
  OBVIOUS
<1>1. IInv' /\ present' = Blocks /\ UNCHANGED <<code, present, pred, stage>>
  BY CheckKeepsAnalysis DEF Check
<1>2. UNCHANGED <<states, known, reports>>
  BY DEF MergeAgain, StartReport, EndCheck, flowVars
<1>3. /\ AllReports' = AllReports
      /\ \A b \in present : ReportsIn(b, states[b])' = ReportsIn(b, states[b])
      /\ \A b \in Blocks : MergedStates(b)' = MergedStates(b)
  BY <1>1, <1>2, SameStates
<1>4. 0 \in 0 .. LastBlock + 1 /\ Limit \in Nat
  BY LivenessAssumption DEF Limit
<1>5. BorrowTypeOK'
  <2>1. at' \in 0 .. LastBlock + 1
    BY <1>4 DEF MergeAgain, StartReport, EndCheck, flowVars, BInv, BorrowTypeOK
  <2>2. passes' \in 0 .. Limit
    BY <1>4 DEF MergeAgain, StartReport, EndCheck, flowVars, BInv, BorrowTypeOK
  <2>3. updated' \in BOOLEAN /\ phase' \in {"waiting", "flow", "report", "checked"}
    BY DEF MergeAgain, StartReport, EndCheck, flowVars, BInv, BorrowTypeOK
  <2> QED
    BY <1>1, <1>2, <2>1, <2>2, <2>3 DEF BInv, BorrowTypeOK
<1>6. Checking /\ Checking'
  BY DEF Checking, MergeAgain, StartReport, EndCheck
<1>7. BelowMerged'
  BY <1>2, <1>3, <1>6 DEF BelowMerged, BInv
<1>8. ReportProgress'
  <2>1. CASE phase' = "report"
    <3>1. at' = 0
      BY <2>1 DEF MergeAgain, StartReport, EndCheck
    <3>2. \A b \in present' : ~(b < at')
      BY <1>1, <3>1 DEF Blocks
    <3> QED
      BY <3>2 DEF ReportProgress
  <2> QED
    BY <2>1 DEF ReportProgress
<1>9. ReportsStand'
  <2>1. reports' \subseteq AllReports'
    BY <1>2, <1>3 DEF BInv, ReportsStand
  <2>2. ASSUME phase' = "checked" PROVE reports' = AllReports'
    <3>1. phase = "report" /\ at > LastBlock
      BY <2>2 DEF MergeAgain, StartReport, EndCheck
    <3>2. \A b \in present : b < at
      BY <3>1, LivenessAssumption DEF BInv, BorrowTypeOK, Blocks
    <3>3. AllReports \subseteq reports
      BY <3>1, <3>2 DEF AllReports, ReportProgress, BInv
    <3> QED
      BY <1>2, <1>3, <2>1, <3>3
  <2> QED
    BY <2>1, <2>2 DEF ReportsStand
<1> QED
  BY <1>1, <1>5, <1>6, <1>7, <1>8, <1>9 DEF BInv, StartsUnknown, ChecksAnalyzed

LEMMA ReportBlockBInv == BInv /\ ReportBlock => BInv'
<1> SUFFICES ASSUME BInv, ReportBlock PROVE BInv'
  OBVIOUS
<1>1. IInv' /\ present' = Blocks /\ UNCHANGED <<code, present, pred, stage>>
  BY CheckKeepsAnalysis DEF Check
<1>2. UNCHANGED <<states, known, updated, passes, phase>> /\ at' = at + 1
  BY DEF ReportBlock
<1>3. /\ AllReports' = AllReports
      /\ \A b \in present : ReportsIn(b, states[b])' = ReportsIn(b, states[b])
      /\ \A b \in Blocks : MergedStates(b)' = MergedStates(b)
  BY <1>1, <1>2, SameStates
<1>4. phase = "report" /\ at \in Blocks /\ present = Blocks
  BY LivenessAssumption DEF ReportBlock, BInv, BorrowTypeOK, Blocks
<1>5. reports' = reports \cup ReportsIn(at, states[at])
  BY <1>4 DEF ReportBlock
<1>6. BorrowTypeOK'
  <2>1. at' \in 0 .. LastBlock + 1
    BY <1>2, <1>4, LivenessAssumption DEF Blocks
  <2>2. reports' \subseteq Blocks \X Nat \X Variables
    BY <1>4, <1>5, ReportsInType DEF BInv, IInv, SweepInv, BorrowTypeOK
  <2> QED
    BY <1>1, <1>2, <2>1, <2>2 DEF BInv, BorrowTypeOK
<1>7. BelowMerged'
  BY <1>2, <1>3, <1>4 DEF BelowMerged, BInv, Checking
<1>8. ReportProgress'
  <2>1. ASSUME NEW b \in present', b < at'
        PROVE  ReportsIn(b, states[b])' \subseteq reports'
    <3>1. b \in present /\ ReportsIn(b, states[b])' = ReportsIn(b, states[b])
      BY <1>1, <1>3
    <3>2. b < at \/ b = at
      BY <1>2, <1>4, <2>1, <3>1 DEF Blocks
    <3> QED
      BY <1>4, <1>5, <3>1, <3>2 DEF BInv, ReportProgress
  <2> QED
    BY <2>1 DEF ReportProgress
<1>9. ReportsStand'
  <2>1. ReportsIn(at, states[at]) \subseteq AllReports
    BY <1>4 DEF AllReports
  <2> QED
    BY <1>2, <1>3, <1>4, <1>5, <2>1 DEF BInv, ReportsStand
<1> QED
  BY <1>1, <1>2, <1>4, <1>6, <1>7, <1>8, <1>9
  DEF BInv, StartsUnknown, ChecksAnalyzed, Checking

LEMMA StutterBInv == BInv /\ UNCHANGED borrowVars => BInv'
<1> SUFFICES ASSUME BInv, UNCHANGED borrowVars PROVE BInv'
  OBVIOUS
<1>1. UNCHANGED vars /\ UNCHANGED <<states, known, at, updated, passes, reports, phase>>
  BY DEF borrowVars, checkVars, flowVars
<1>2. IInv'
  BY <1>1, NextIInv DEF BInv
<1>3. UNCHANGED <<code, present, pred, stage>>
  BY <1>1 DEF vars, edgeVars
<1>4. /\ AllReports' = AllReports
      /\ \A b \in present : ReportsIn(b, states[b])' = ReportsIn(b, states[b])
      /\ \A b \in Blocks : MergedStates(b)' = MergedStates(b)
  BY <1>1, <1>3, SameStates
<1>5. BorrowTypeOK'
  BY <1>1, <1>3 DEF BInv, BorrowTypeOK
<1> QED
  BY <1>1, <1>2, <1>3, <1>4, <1>5
  DEF BInv, StartsUnknown, ChecksAnalyzed, BelowMerged, ReportProgress, ReportsStand, Checking

LEMMA NextBInv == BInv /\ [BorrowNext]_borrowVars => BInv'
BY AnalyzeFirstBInv, StartCheckBInv, MergeBlockBInv, PassesBInv, ReportBlockBInv, StutterBInv
DEF BorrowNext, Check, BorrowTerminated

-----------------------------------------------------------------------------
(* The states of a block only become worse, step by step.                  *)
LEMMA StepWorsens ==
  ASSUME BInv, [BorrowNext]_borrowVars, NEW b \in Blocks, NEW v \in Variables
  PROVE  states[b][v] <= states'[b][v]
<1>1. states[b][v] \in 0 .. 3
  BY DEF BInv, BorrowTypeOK, States
<1>2. CASE MergeBlock
  BY <1>2, MergeBlockWorsens DEF Worsens
<1>3. CASE StartCheck
  <2>1. states[b][v] = 0
    BY <1>3 DEF StartCheck, BInv, StartsUnknown, Checking, NoStates, Absent
  <2>2. states'[b][v] \in 0 .. 3
    BY <1>3, StartCheckBInv DEF BInv, BorrowTypeOK, States
  <2> QED
    BY <2>1, <2>2
<1>4. CASE ~MergeBlock /\ ~StartCheck
  <2>1. states' = states
    BY <1>4 DEF BorrowNext, Check, BorrowTerminated, AnalyzeFirst, MergeAgain, StartReport,
                ReportBlock, EndCheck, borrowVars, checkVars, flowVars
  <2> QED
    BY <1>1, <2>1
<1> QED
  BY <1>2, <1>3, <1>4

-----------------------------------------------------------------------------
(* The passes reach a fixpoint. The blocks in which a variable is at least *)
(* in a given state only depend on one another, not on other variables or  *)
(* states: a pass that leaves such a set as it is has settled it, and one  *)
(* that does not makes it larger. So a set that pass n changes has n - 1   *)
(* members, and there are no more than there are blocks.                   *)

Levels == 1 .. 3

AtLeast(v, c) == {b \in Blocks : states[b][v] >= c}

Caught(v, c, b) == MergedStates(b)[v] >= c => states[b][v] >= c

Grown(v, c, n) == Cardinality(AtLeast(v, c)) >= n

GrowsOrSettles ==
  phase = "flow" /\ passes >= 2 =>
    /\ known = Blocks
    /\ \A v \in Variables, c \in Levels :
         \/ \A b \in Blocks : Caught(v, c, b)
         \/ Grown(v, c, passes - 1)
         \/ Grown(v, c, passes - 2) /\ \A b \in Blocks : b < at => Caught(v, c, b)
    /\ updated => \E v \in Variables, c \in Levels : Grown(v, c, passes - 1)

(* A pass leaves blocks behind that have states, and, as long as it has    *)
(* changed nothing, those their predecessors ask for.                      *)
PassProgress ==
  phase = "flow" =>
    /\ passes >= 1
    /\ \A b \in Blocks : b < at => b \in known
    /\ ~updated => \A b \in Blocks : b < at => states[b] = MergedStates(b)

FewPasses == passes <= LastBlock + 3

FixpointInv ==
  /\ GrowsOrSettles
  /\ PassProgress
  /\ FewPasses
  /\ EndsAtFixpoint

LEMMA MergeLevel ==
  ASSUME NEW S \in SUBSET States, NEW c \in Levels
  PROVE  Merge(S) >= c <=> \E s \in S : s >= c
<1>1. /\ Merge(S) \in 0 .. 3 /\ \A s \in S : s \in 0 .. 3 /\ s <= Merge(S)
      /\ S # {} => Merge(S) \in S
  BY MergeIsHighest DEF States
<1>2. CASE S = {}
  BY <1>2 DEF Merge, Absent, Levels
<1>3. CASE S # {}
  BY <1>1, <1>3 DEF Levels
<1> QED
  BY <1>2, <1>3

(* The size of the sets.                                                   *)
LEMMA AtLeastFinite ==
  ASSUME NEW v, NEW c
  PROVE  /\ IsFiniteSet(AtLeast(v, c)) /\ Cardinality(AtLeast(v, c)) \in Nat
         /\ Cardinality(AtLeast(v, c)) <= LastBlock + 1
<1>1. IsFiniteSet(Blocks) /\ Cardinality(Blocks) = LastBlock + 1
  BY IntervalSize, LastBlockType DEF Blocks
<1>2. AtLeast(v, c) \subseteq Blocks
  BY DEF AtLeast
<1> QED
  BY <1>1, <1>2, FS_Subset, FS_CardinalityType

(* What the predecessors ask for at a level depends on that level only.    *)
LEMMA LevelKept ==
  ASSUME BorrowTypeOK, BorrowTypeOK', present \subseteq Blocks,
         UNCHANGED <<code, present, pred, known>>,
         NEW v \in Variables, NEW c \in Levels, AtLeast(v, c)' = AtLeast(v, c),
         NEW b \in Blocks
  PROVE  MergedStates(b)'[v] >= c <=> MergedStates(b)[v] >= c
<1>1. CASE b = 0
  BY <1>1 DEF MergedStates, EntryStates, Owned, Absent
<1>2. CASE b # 0
  <2> DEFINE S == {ExitState(p, v) : p \in Before(b)}
             T == {ExitState(p, v)' : p \in Before(b)}
  <2>1. Before(b) \subseteq Blocks /\ Before(b)' = Before(b)
    BY DEF Before, BorrowTypeOK
  <2>2. ASSUME NEW p \in Blocks
        PROVE  /\ ExitState(p, v) \in States /\ ExitState(p, v)' \in States
               /\ ExitState(p, v)' >= c <=> ExitState(p, v) >= c
    <3>1. states[p] \in [Variables -> States] /\ states'[p] \in [Variables -> States]
      BY DEF BorrowTypeOK
    <3>2. ExitState(p, v)' = StateAt(p, Len(code[p]), states'[p], v)
      BY DEF ExitState, StateAt, Touches, First
    <3>3. states'[p][v] >= c <=> states[p][v] >= c
      BY DEF AtLeast
    <3>4. ExitState(p, v)' >= c <=> ExitState(p, v) >= c
      BY <3>2, <3>3 DEF ExitState, StateAt
    <3> QED
      BY <3>1, <3>2, <3>4, StateAtType DEF ExitState
  <2>3. S \in SUBSET States /\ T \in SUBSET States
    BY <2>1, <2>2
  <2>4. MergedStates(b)[v] = Merge(S) /\ MergedStates(b)'[v] = Merge(T)
    BY <1>2, <2>1 DEF MergedStates
  <2>5. (\E s \in S : s >= c) <=> (\E s \in T : s >= c)
    BY <2>1, <2>2
  <2> QED
    BY <2>3, <2>4, <2>5, MergeLevel
<1> QED
  BY <1>1, <1>2

(* A block of a later pass, for one variable and one level: its set stays  *)
(* what it is, and the block is settled, or the block joins it.            *)
LEMMA MergeBlockLevel ==
  ASSUME BInv, MergeBlock, known = Blocks, NEW v \in Variables, NEW c \in Levels
  PROVE  \/ /\ \A b \in Blocks : Caught(v, c, b)' <=> b = at \/ Caught(v, c, b)
            /\ AtLeast(v, c)' = AtLeast(v, c)
            /\ Caught(v, c, at)
         \/ /\ ~Caught(v, c, at)
            /\ Cardinality(AtLeast(v, c))' = Cardinality(AtLeast(v, c)) + 1
<1>1. UNCHANGED <<code, present, pred, stage>> /\ present = Blocks
  BY CheckKeepsAnalysis DEF Check, BInv
<1>2. Worsens /\ BorrowTypeOK' /\ BorrowTypeOK
  BY MergeBlockWorsens DEF BInv
<1>3. at \in Blocks
  BY LivenessAssumption DEF MergeBlock, BInv, BorrowTypeOK, Blocks
<1>4. states' = [states EXCEPT ![at] = MergedStates(at)] /\ known' = known
  BY <1>1, <1>3 DEF MergeBlock
<1>5. /\ \A b \in Blocks : b # at => states'[b] = states[b]
      /\ states'[at] = MergedStates(at)
  BY <1>2, <1>3, <1>4 DEF BorrowTypeOK
<1>6. \A b \in Blocks : MergedStates(b)[v] \in 0 .. 3 /\ states[b][v] \in 0 .. 3
  <2>1. \A b \in Blocks : MergedStates(b) \in [Variables -> States]
    BY <1>1, <1>2, MergedStatesType
  <2> QED
    BY <1>2, <2>1 DEF BorrowTypeOK, States
<1>7. states[at][v] >= c => MergedStates(at)[v] >= c
  <2>1. states[at][v] <= MergedStates(at)[v]
    BY <1>3 DEF BInv, BelowMerged, MergeBlock, Checking
  <2> QED
    BY <1>3, <1>6, <2>1 DEF Levels
<1>8. CASE Caught(v, c, at)
  <2>1. AtLeast(v, c)' = AtLeast(v, c)
    <3>1. AtLeast(v, c)' = {b \in Blocks : states'[b][v] >= c}
      BY DEF AtLeast
    <3>2. ASSUME NEW b \in Blocks PROVE states'[b][v] >= c <=> states[b][v] >= c
      <4>1. CASE b = at
        BY <1>5, <1>7, <1>8, <4>1 DEF Caught
      <4>2. CASE b # at
        BY <1>5, <4>2
      <4> QED
        BY <4>1, <4>2
    <3> QED
      BY <3>1, <3>2 DEF AtLeast
  <2>2. ASSUME NEW b \in Blocks
        PROVE  Caught(v, c, b)' <=> b = at \/ Caught(v, c, b)
    <3>1. MergedStates(b)'[v] >= c <=> MergedStates(b)[v] >= c
      BY <1>1, <1>2, <1>4, <2>1, LevelKept
    <3>2. Caught(v, c, b)' <=> (MergedStates(b)'[v] >= c => states'[b][v] >= c)
      BY DEF Caught
    <3>3. CASE b = at
      BY <1>5, <3>1, <3>2, <3>3
    <3>4. CASE b # at
      BY <1>5, <3>1, <3>2, <3>4 DEF Caught
    <3> QED
      BY <3>3, <3>4
  <2> QED
    BY <1>8, <2>1, <2>2
<1>9. CASE ~Caught(v, c, at)
  <2>1. states'[at][v] >= c /\ ~(states[at][v] >= c)
    BY <1>5, <1>9 DEF Caught
  <2>2. AtLeast(v, c)' = {b \in Blocks : states'[b][v] >= c}
    BY DEF AtLeast
  <2>3. AtLeast(v, c)' = AtLeast(v, c) \cup {at} /\ at \notin AtLeast(v, c)
    BY <1>3, <1>5, <2>1, <2>2 DEF AtLeast
  <2>4. Cardinality(AtLeast(v, c) \cup {at}) = Cardinality(AtLeast(v, c)) + 1
    BY <2>3, AtLeastFinite, FS_AddElement
  <2> QED
    BY <1>9, <2>3, <2>4
<1> QED
  BY <1>8, <1>9

LEMMA MergeBlockGrows ==
  ASSUME BInv, PassProgress, GrowsOrSettles, MergeBlock
  PROVE  GrowsOrSettles'
<1> SUFFICES ASSUME passes >= 2 PROVE GrowsOrSettles'
  BY DEF GrowsOrSettles, MergeBlock
<1> USE DEF Grown
<1>1. phase = "flow" /\ passes' = passes /\ passes \in Nat /\ at' = at + 1
  BY LivenessAssumption DEF MergeBlock, BInv, BorrowTypeOK, Limit
<1>2. known = Blocks /\ at \in Blocks /\ at \in present
  BY <1>1, LivenessAssumption
  DEF GrowsOrSettles, MergeBlock, BInv, BorrowTypeOK, Blocks
<1>3. known' = Blocks
  BY <1>2 DEF MergeBlock
<1>4. \A v, c : Cardinality(AtLeast(v, c)) \in Nat
  BY AtLeastFinite
<1>5. ASSUME NEW v \in Variables, NEW c \in Levels
      PROVE  \/ \A b \in Blocks : Caught(v, c, b)'
             \/ Grown(v, c, passes - 1)'
             \/ /\ Grown(v, c, passes - 2)'
                /\ \A b \in Blocks : b < at' => Caught(v, c, b)'
  <2>1. \/ \A b \in Blocks : Caught(v, c, b)
        \/ Grown(v, c, passes - 1)
        \/ Grown(v, c, passes - 2) /\ \A b \in Blocks : b < at => Caught(v, c, b)
    BY <1>1 DEF GrowsOrSettles
  <2>2. CASE /\ \A b \in Blocks : Caught(v, c, b)' <=> b = at \/ Caught(v, c, b)
             /\ AtLeast(v, c)' = AtLeast(v, c)
    <3>1. \A b \in Blocks : b < at' => b < at \/ b = at
      BY <1>1, <1>2 DEF Blocks
    <3> QED
      BY <1>1, <2>1, <2>2, <3>1
  <2>3. CASE /\ ~Caught(v, c, at)
             /\ Cardinality(AtLeast(v, c))' = Cardinality(AtLeast(v, c)) + 1
    <3>1. Grown(v, c, passes - 2)
      BY <1>1, <1>2, <1>4, <2>1, <2>3
    <3> QED
      BY <1>1, <1>4, <2>3, <3>1
  <2> QED
    BY <1>2, <2>2, <2>3, MergeBlockLevel
<1>6. ASSUME updated'
      PROVE  \E v \in Variables, c \in Levels : Grown(v, c, passes - 1)'
  <2>1. CASE updated
    <3>1. PICK v \in Variables, c \in Levels : Grown(v, c, passes - 1)
      BY <1>1, <2>1 DEF GrowsOrSettles
    <3>2. \/ Cardinality(AtLeast(v, c))' = Cardinality(AtLeast(v, c))
          \/ Cardinality(AtLeast(v, c))' = Cardinality(AtLeast(v, c)) + 1
      BY <1>2, MergeBlockLevel
    <3>3. Grown(v, c, passes - 1)'
      BY <1>1, <1>4, <3>1, <3>2
    <3> QED
      BY <3>3
  <2>2. CASE ~updated
    <3>1. MergedStates(at) # states[at]
      BY <1>2, <1>6, <2>2 DEF MergeBlock
    <3>2. MergedStates(at) \in [Variables -> States] /\ states[at] \in [Variables -> States]
      BY <1>2, MergedStatesType DEF BInv, BorrowTypeOK
    <3>3. PICK v \in Variables : MergedStates(at)[v] # states[at][v]
      BY <3>1, <3>2
    <3>4. states[at][v] <= MergedStates(at)[v]
      BY <1>2 DEF BInv, BelowMerged, MergeBlock, Checking
    <3>5. PICK c \in Levels : c = MergedStates(at)[v]
      BY <3>2, <3>3, <3>4 DEF Levels, States
    <3>6. ~Caught(v, c, at)
      BY <3>2, <3>3, <3>4, <3>5 DEF Levels, States, Caught
    <3>7. Cardinality(AtLeast(v, c))' = Cardinality(AtLeast(v, c)) + 1
      BY <1>2, <3>6, MergeBlockLevel
    <3>8. Grown(v, c, passes - 2)
      BY <1>1, <1>2, <1>4, <3>6 DEF GrowsOrSettles
    <3>9. Grown(v, c, passes - 1)'
      BY <1>1, <1>4, <3>7, <3>8
    <3> QED
      BY <3>9
  <2> QED
    BY <2>1, <2>2
<1> QED
  BY <1>1, <1>3, <1>5, <1>6 DEF GrowsOrSettles

LEMMA FixpointInvStep == BInv /\ FixpointInv /\ [BorrowNext]_borrowVars => FixpointInv'
<1> SUFFICES ASSUME BInv, FixpointInv, [BorrowNext]_borrowVars PROVE FixpointInv'
  OBVIOUS
<1>1. /\ BorrowTypeOK /\ passes \in Nat /\ LastBlock \in Nat /\ at \in Nat
      /\ at \in 0 .. LastBlock + 1
  BY LivenessAssumption DEF BInv, BorrowTypeOK, Limit
<1>2. CASE StartCheck
  <2>1. phase' = "flow" /\ passes' = 1 /\ at' = 0
    BY <1>2 DEF StartCheck
  <2>2. \A b \in Blocks : ~(b < at')
    BY <2>1 DEF Blocks
  <2> QED
    BY <1>1, <2>1, <2>2
    DEF FixpointInv, GrowsOrSettles, PassProgress, FewPasses, EndsAtFixpoint
<1>3. CASE MergeBlock
  <2>1. phase = "flow" /\ phase' = "flow" /\ passes' = passes /\ at' = at + 1
    BY <1>3 DEF MergeBlock
  <2>2. GrowsOrSettles'
    BY <1>3, MergeBlockGrows DEF FixpointInv
  <2>3. at \in Blocks /\ at \in present
    BY <1>1, <1>3 DEF MergeBlock, BInv, Blocks
  <2>4. \A b \in Blocks : b < at' => b < at \/ b = at
    BY <1>1, <2>1 DEF Blocks
  <2>5. known' = known \cup {at}
    BY <1>3, <2>3 DEF MergeBlock
  <2>6. ASSUME ~updated', NEW b \in Blocks, b < at'
        PROVE  states'[b] = MergedStates(b)'
    <3>1. ~updated /\ at \in known /\ MergedStates(at) = states[at]
      BY <1>3, <2>3, <2>6 DEF MergeBlock
    <3>2. states' = states /\ known' = known
      BY <1>1, <1>3, <2>3, <2>5, <3>1 DEF MergeBlock, BorrowTypeOK
    <3>3. MergedStates(b)' = MergedStates(b)
      BY <1>3, <3>2, SameStates, CheckKeepsAnalysis DEF Check
    <3>4. states[b] = MergedStates(b)
      BY <2>1, <2>4, <2>6, <3>1 DEF FixpointInv, PassProgress
    <3> QED
      BY <3>2, <3>3, <3>4
  <2>7. PassProgress'
    BY <2>1, <2>4, <2>5, <2>6 DEF FixpointInv, PassProgress
  <2> QED
    BY <2>1, <2>2, <2>7 DEF FixpointInv, FewPasses, EndsAtFixpoint
<1>4. CASE MergeAgain
  <2>1. /\ phase = "flow" /\ phase' = "flow" /\ passes' = passes + 1 /\ at' = 0
        /\ at > LastBlock /\ updated /\ ~updated' /\ passes >= 1
    BY <1>4 DEF MergeAgain, FixpointInv, PassProgress
  <2>2. (\A b \in Blocks : b < at) /\ (\A b \in Blocks : ~(b < at'))
    BY <1>1, <2>1 DEF Blocks
  <2>3. known' = Blocks
    BY <1>4, <2>1, <2>2 DEF MergeAgain, FixpointInv, PassProgress, BInv, BorrowTypeOK
  <2>4. ASSUME NEW v \in Variables, NEW c \in Levels
        PROVE  \/ \A b \in Blocks : Caught(v, c, b)'
               \/ Grown(v, c, passes - 1)'
               \/ Grown(v, c, passes - 2)'
    <3>1. /\ AtLeast(v, c)' = AtLeast(v, c)
          /\ \A b \in Blocks : Caught(v, c, b)' <=> Caught(v, c, b)
      <4>1. states' = states /\ known' = known
        BY <1>4 DEF MergeAgain
      <4>2. \A b \in Blocks : MergedStates(b)' = MergedStates(b)
        BY <1>4, <4>1, SameStates, CheckKeepsAnalysis DEF Check
      <4> QED
        BY <4>1, <4>2 DEF AtLeast, Caught
    <3>2. Cardinality(AtLeast(v, c)) \in Nat
      BY AtLeastFinite
    <3>3. CASE passes = 1
      BY <2>1, <3>1, <3>2, <3>3 DEF Grown
    <3>4. CASE passes >= 2
      <4>1. \/ \A b \in Blocks : Caught(v, c, b)
            \/ Grown(v, c, passes - 1)
        BY <2>1, <2>2, <3>4 DEF FixpointInv, GrowsOrSettles
      <4>2. Grown(v, c, passes - 1) => Grown(v, c, passes - 2)'
        BY <1>1, <2>1, <3>1, <3>2 DEF Grown
      <4> QED
        BY <3>1, <4>1, <4>2
    <3> QED
      BY <1>1, <2>1, <3>3, <3>4
  <2>5. GrowsOrSettles'
    BY <2>1, <2>2, <2>3, <2>4 DEF GrowsOrSettles
  <2>6. FewPasses'
    <3>1. CASE passes = 1
      BY <1>1, <2>1, <3>1 DEF FewPasses
    <3>2. CASE passes >= 2
      <4>1. PICK v \in Variables, c \in Levels : Grown(v, c, passes - 1)
        BY <2>1, <3>2 DEF FixpointInv, GrowsOrSettles
      <4> QED
        BY <1>1, <2>1, <4>1, AtLeastFinite DEF Grown, FewPasses
    <3> QED
      BY <1>1, <2>1, <3>1, <3>2
  <2> QED
    BY <1>1, <2>1, <2>2, <2>5, <2>6
    DEF FixpointInv, PassProgress, EndsAtFixpoint
<1>5. CASE StartReport
  <2>1. phase = "flow" /\ phase' = "report" /\ passes' = passes /\ at > LastBlock
    BY <1>5 DEF StartReport
  <2>2. ~updated
    <3> SUFFICES ASSUME passes = Limit PROVE FALSE
      BY <1>5 DEF StartReport
    <3> QED
      BY <1>1 DEF FixpointInv, FewPasses, Limit
  <2>3. \A b \in Blocks : b < at
    BY <1>1, <2>1 DEF Blocks
  <2>4. \A b \in Blocks : states[b] = MergedStates(b)
    BY <2>1, <2>2, <2>3 DEF FixpointInv, PassProgress
  <2>5. EndsAtFixpoint'
    <3>1. states' = states /\ known' = known /\ present' = Blocks
      BY <1>5, CheckKeepsAnalysis DEF StartReport, Check
    <3>2. \A b \in Blocks : MergedStates(b)' = MergedStates(b)
      BY <1>5, <3>1, SameStates, CheckKeepsAnalysis DEF Check
    <3> QED
      BY <2>4, <3>1, <3>2 DEF EndsAtFixpoint
  <2> QED
    BY <2>1, <2>5 DEF FixpointInv, GrowsOrSettles, PassProgress, FewPasses
<1>6. CASE ReportBlock \/ EndCheck \/ AnalyzeFirst \/ UNCHANGED borrowVars
  <2>1. UNCHANGED <<states, known, passes, updated>>
    BY <1>6 DEF ReportBlock, EndCheck, AnalyzeFirst, borrowVars, checkVars, flowVars
  <2>2. \/ phase' \in {"report", "checked"} /\ phase \in {"report", "checked"}
        \/ phase' = phase /\ at' = at
    BY <1>6 DEF ReportBlock, EndCheck, AnalyzeFirst, borrowVars, checkVars, flowVars
  <2>3. CASE phase \in {"flow", "report", "checked"}
    <3>1. UNCHANGED <<code, present, pred>>
      <4>1. AnalyzeFirst => UNCHANGED vars
        <5>1. AnalyzeFirst => stage # "done"
          BY DEF AnalyzeFirst, Analyze, BuildEdges, ComputeLocalSets,
                 PropagateBackward, SweepAgain, Converged
        <5> QED
          BY <2>3, <5>1 DEF BInv, ChecksAnalyzed, Checking
      <4> QED
        BY <1>6, <4>1 DEF ReportBlock, EndCheck, borrowVars, vars, edgeVars
    <3>2. \A b \in Blocks : MergedStates(b)' = MergedStates(b)
      BY <2>1, <3>1, SameStates
    <3>3. present = Blocks /\ \A v, c : AtLeast(v, c)' = AtLeast(v, c)
      BY <2>1 DEF AtLeast, BInv
    <3> QED
      BY <2>1, <2>2, <2>3, <3>1, <3>2, <3>3
      DEF FixpointInv, GrowsOrSettles, PassProgress, FewPasses, EndsAtFixpoint,
          Caught, Grown
  <2>4. CASE phase = "waiting"
    <3>1. phase' = "waiting"
      BY <2>2, <2>4
    <3> QED
      BY <2>1, <3>1
      DEF FixpointInv, GrowsOrSettles, PassProgress, FewPasses, EndsAtFixpoint
  <2> QED
    BY <1>1, <2>3, <2>4 DEF BorrowTypeOK
<1> QED
  BY <1>2, <1>3, <1>4, <1>5, <1>6 DEF BorrowNext, Check, BorrowTerminated

-----------------------------------------------------------------------------
(* What the final states mean for the code: a variable is moved where a    *)
(* path leads from an instruction that moves or deletes it, past blocks    *)
(* that do not touch it.                                                   *)

Untouched(v, b) == \A k \in DOMAIN code[b] : ~Touches(code[b][k], v)

(* The last of the first n instructions of b that touches v moves it.      *)
MovedWithin(v, b, n) ==
  \E j \in 1 .. n :
    /\ Touches(code[b][j], v) /\ StateAfter(code[b][j], v) = Moved
    /\ \A k \in 1 .. n : k > j => ~Touches(code[b][k], v)

(* Nothing that comes back to the entry of the function counts there.      *)
MovedPath(v, b, n, path) ==
  /\ path \in [1 .. n -> Blocks]
  /\ path[n] = b
  /\ MovedWithin(v, path[1], Len(code[path[1]]))
  /\ \A i \in 2 .. n - 1 : Untouched(v, path[i])
  /\ \A i \in 1 .. n - 1 : path[i + 1] \in Successors(path[i]) \ {0}

MovedOnPath(v, b) == \E n \in Nat \ {0, 1} : \E path : MovedPath(v, b, n, path)

(* A path leads from a move of v to instruction k of b.                    *)
MovedBefore(v, b, k) ==
  \/ MovedWithin(v, b, k - 1)
  \/ (\A j \in 1 .. k - 1 : ~Touches(code[b][j], v)) /\ MovedOnPath(v, b)

ReportsAreMoves ==
  phase = "checked" =>
    reports = {p \in Blocks \X Nat \X Variables :
                 /\ p[2] \in DOMAIN code[p[1]] /\ p[3] \in Reads(code[p[1]][p[2]])
                 /\ MovedBefore(p[3], p[1], p[2])}

(* A state that is Moved has its path, and in the end every block has      *)
(* states.                                                                 *)
MovedHasPath ==
  \A b \in Blocks, v \in Variables : states[b][v] = Moved => MovedOnPath(v, b)

KnownAtEnd == phase \in {"report", "checked"} => known = Blocks

PathInv == MovedHasPath /\ KnownAtEnd

(* The state after the first n instructions of a block.                    *)
LEMMA StateAtMoved ==
  ASSUME NEW b, NEW n \in Nat, NEW v \in Variables, NEW m \in [Variables -> States]
  PROVE  StateAt(b, n, m, v) = Moved <=>
           \/ MovedWithin(v, b, n)
           \/ (\A j \in 1 .. n : ~Touches(code[b][j], v)) /\ m[v] = Moved
<1> DEFINE touching == {j \in 1 .. n : Touches(code[b][j], v)}
<1>1. CASE touching = {}
  BY <1>1 DEF StateAt, MovedWithin
<1>2. CASE touching # {}
  <2>1. \E j \in touching : \A k \in touching : k <= j
    BY <1>2, GreatestNumber
  <2> DEFINE last == CHOOSE j \in touching : \A k \in touching : k <= j
  <2>2. last \in touching /\ \A k \in touching : k <= last
    BY <2>1
  <2>3. StateAt(b, n, m, v) = StateAfter(code[b][last], v)
    BY <1>2 DEF StateAt
  <2> HIDE DEF last
  <2>4. ASSUME NEW j \in 1 .. n
        PROVE  (Touches(code[b][j], v) /\ \A k \in 1 .. n : k > j => ~Touches(code[b][k], v))
                 <=> j = last
    BY <2>2
  <2> QED
    BY <1>2, <2>2, <2>3, <2>4 DEF MovedWithin
<1> QED
  BY <1>1, <1>2

LEMMA ExitMoved ==
  ASSUME TypeOK, BorrowTypeOK, NEW b \in Blocks, NEW v \in Variables
  PROVE  ExitState(b, v) = Moved <=>
           \/ MovedWithin(v, b, Len(code[b]))
           \/ Untouched(v, b) /\ states[b][v] = Moved
<1>1. states[b] \in [Variables -> States]
  BY DEF BorrowTypeOK
<1>2. Len(code[b]) \in Nat /\ DOMAIN code[b] = 1 .. Len(code[b])
  BY DEF TypeOK
<1> QED
  BY <1>1, <1>2, StateAtMoved DEF ExitState, Untouched

(* A block that can be left with v moved hands this on.                    *)
LEMMA MovedGoesOn ==
  ASSUME NEW v, NEW p \in Blocks, NEW b \in Successors(p) \ {0},
         \/ MovedWithin(v, p, Len(code[p]))
         \/ Untouched(v, p) /\ MovedOnPath(v, p)
  PROVE  MovedOnPath(v, b)
<1>1. b \in Blocks
  BY DEF Successors
<1>2. CASE MovedWithin(v, p, Len(code[p]))
  <2> DEFINE path == [i \in 1 .. 2 |-> IF i = 1 THEN p ELSE b]
  <2>1. path \in [1 .. 2 -> Blocks] /\ path[1] = p /\ path[2] = b
    BY <1>1
  <2>2. MovedPath(v, b, 2, path)
    <3> HIDE DEF path
    <3>1. \A i \in 1 .. 2 - 1 : i = 1 /\ i + 1 = 2
      OBVIOUS
    <3>2. \A i \in 2 .. 2 - 1 : FALSE
      OBVIOUS
    <3> QED
      BY <1>2, <2>1, <3>1, <3>2 DEF MovedPath
  <2> QED
    BY <2>2 DEF MovedOnPath
<1>3. CASE Untouched(v, p) /\ MovedOnPath(v, p)
  <2>1. PICK n \in Nat \ {0, 1} : \E path : MovedPath(v, p, n, path)
    BY <1>3 DEF MovedOnPath
  <2>2. PICK path : MovedPath(v, p, n, path)
    BY <2>1
  <2> DEFINE longer == [i \in 1 .. n + 1 |-> IF i = n + 1 THEN b ELSE path[i]]
  <2>3. path \in [1 .. n -> Blocks] /\ path[n] = p
    BY <2>2 DEF MovedPath
  <2>4. /\ longer \in [1 .. n + 1 -> Blocks] /\ longer[n + 1] = b
        /\ \A i \in 1 .. n : longer[i] = path[i]
    BY <1>1, <2>3
  <2>5. n + 1 \in Nat \ {0, 1}
    OBVIOUS
  <2> HIDE DEF longer
  <2>6. MovedWithin(v, longer[1], Len(code[longer[1]]))
    <3>1. longer[1] = path[1]
      BY <2>4
    <3> QED
      BY <2>2, <3>1 DEF MovedPath
  <2>7. ASSUME NEW i \in 2 .. (n + 1) - 1
        PROVE  Untouched(v, longer[i])
    <3>1. CASE i = n
      BY <1>3, <2>3, <2>4, <3>1
    <3>2. CASE i # n
      <4>1. i \in 2 .. n - 1 /\ longer[i] = path[i]
        BY <2>4, <3>2
      <4> QED
        BY <2>2, <4>1 DEF MovedPath
    <3> QED
      BY <3>1, <3>2
  <2>8. ASSUME NEW i \in 1 .. (n + 1) - 1
        PROVE  longer[i + 1] \in Successors(longer[i]) \ {0}
    <3>1. CASE i = n
      BY <2>3, <2>4, <3>1
    <3>2. CASE i # n
      <4>1. i \in 1 .. n - 1 /\ longer[i] = path[i] /\ longer[i + 1] = path[i + 1]
        BY <2>4, <3>2
      <4> QED
        BY <2>2, <4>1 DEF MovedPath
    <3> QED
      BY <3>1, <3>2
  <2>9. MovedPath(v, b, n + 1, longer)
    BY <2>4, <2>6, <2>7, <2>8 DEF MovedPath
  <2> QED
    BY <2>5, <2>9 DEF MovedOnPath
<1> QED
  BY <1>2, <1>3

(* The edges that the check follows are those of the code.                 *)
LEMMA PredIsSuccessor ==
  ASSUME BInv, Checking, NEW p \in Blocks, NEW b \in Blocks
  PROVE  pred[b][p] > 0 <=> b \in Successors(p)
<1>1. stage = "done" /\ present = Blocks /\ EdgesBuilt
  BY DEF BInv, ChecksAnalyzed, IInv
<1>2. pred[b][p] = EdgeCount(p, b)
  BY <1>1 DEF EdgesBuilt
<1> QED
  BY <1>2 DEF Successors

LEMMA MergedMoved ==
  ASSUME BInv, Checking, NEW b \in Blocks, NEW v \in Variables
  PROVE  MergedStates(b)[v] = Moved <=>
           b # 0 /\ \E p \in Before(b) : ExitState(p, v) = Moved
<1>1. CASE b = 0
  BY <1>1 DEF MergedStates, EntryStates, Owned, Absent, Moved
<1>2. CASE b # 0
  <2> DEFINE S == {ExitState(p, v) : p \in Before(b)}
  <2>1. S \in SUBSET States
    BY ExitStateType DEF Before, BInv, BorrowTypeOK
  <2>2. MergedStates(b)[v] = Merge(S)
    BY <1>2 DEF MergedStates
  <2>3. Merge(S) \in 0 .. 3 /\ \A s \in S : s \in 0 .. 3
    BY <2>1, MergeIsHighest DEF States
  <2>4. Merge(S) >= 3 <=> \E s \in S : s >= 3
    BY <2>1, MergeLevel DEF Levels
  <2>5. Merge(S) = 3 <=> \E s \in S : s = 3
    BY <2>3, <2>4
  <2> QED
    BY <1>2, <2>2, <2>5 DEF Moved
<1> QED
  BY <1>1, <1>2

LEMMA PathInvStep ==
  BInv /\ FixpointInv /\ PathInv /\ [BorrowNext]_borrowVars => PathInv'
<1> SUFFICES ASSUME BInv, FixpointInv, PathInv, [BorrowNext]_borrowVars PROVE PathInv'
  OBVIOUS
<1>1. BorrowTypeOK /\ TypeOK /\ present = Blocks /\ LastBlock \in Nat
  BY LivenessAssumption DEF BInv, IInv, SweepInv
<1>2. /\ \A p \in Blocks : states[p] \in [Variables -> States]
      /\ DOMAIN states = Blocks
  BY <1>1 DEF BorrowTypeOK
<1>3. code' = code /\ present' = present
  BY AnalyzeFixesCode
  DEF BorrowNext, AnalyzeFirst, Check, BorrowTerminated, StartCheck, MergeBlock,
      MergeAgain, StartReport, ReportBlock, EndCheck, borrowVars, vars
<1>4. \A v, b : MovedOnPath(v, b)' <=> MovedOnPath(v, b)
  BY <1>3
  DEF MovedOnPath, MovedPath, MovedWithin, Untouched, Touches, First, StateAfter,
      Successors, EdgeCount, Owned, Borrowed, Moved
<1>5. CASE StartCheck
  <2>1. 0 \in Blocks /\ states' = [states EXCEPT ![0] = EntryStates]
    BY <1>1, <1>5 DEF StartCheck, Blocks
  <2>2. \A v \in Variables : EntryStates[v] # Moved
    BY DEF EntryStates, Owned, Absent, Moved
  <2>3. phase' = "flow"
    BY <1>5 DEF StartCheck
  <2> QED
    BY <1>2, <1>4, <2>1, <2>2, <2>3 DEF PathInv, MovedHasPath, KnownAtEnd, Moved
<1>6. CASE MergeBlock
  <2>1. Checking /\ phase' = "flow" /\ at \in Blocks
    BY <1>1, <1>6 DEF MergeBlock, Checking, BorrowTypeOK, Blocks
  <2>2. states' = [states EXCEPT ![at] = MergedStates(at)]
    BY <1>1, <1>6, <2>1 DEF MergeBlock
  <2>3. ASSUME NEW v \in Variables, MergedStates(at)[v] = Moved
        PROVE  MovedOnPath(v, at)
    <3>1. at # 0 /\ \E p \in Before(at) : ExitState(p, v) = Moved
      BY <2>1, <2>3, MergedMoved
    <3>2. PICK p \in Before(at) : ExitState(p, v) = Moved
      BY <3>1
    <3>3. p \in Blocks /\ at \in Successors(p) \ {0}
      BY <1>1, <2>1, <3>1, PredIsSuccessor DEF Before, BorrowTypeOK
    <3>4. \/ MovedWithin(v, p, Len(code[p]))
          \/ Untouched(v, p) /\ MovedOnPath(v, p)
      BY <1>1, <3>2, <3>3, ExitMoved DEF PathInv, MovedHasPath
    <3> QED
      BY <3>3, <3>4, MovedGoesOn
  <2>4. ASSUME NEW b \in Blocks, NEW v \in Variables, states'[b][v] = Moved
        PROVE  MovedOnPath(v, b)
    <3>1. CASE b = at
      BY <1>2, <2>1, <2>2, <2>3, <2>4, <3>1
    <3>2. CASE b # at
      BY <1>2, <2>1, <2>2, <2>4, <3>2 DEF PathInv, MovedHasPath
    <3> QED
      BY <3>1, <3>2
  <2> QED
    BY <1>4, <2>1, <2>4 DEF PathInv, MovedHasPath, KnownAtEnd, Moved
<1>7. CASE ~StartCheck /\ ~MergeBlock
  <2>1. states' = states
    BY <1>7
    DEF BorrowNext, AnalyzeFirst, Check, BorrowTerminated, MergeAgain, StartReport,
        ReportBlock, EndCheck, borrowVars, checkVars, flowVars
  <2>2. MovedHasPath'
    BY <1>4, <2>1 DEF PathInv, MovedHasPath, Moved
  <2>3. CASE StartReport
    <3>1. \A b \in Blocks : b < at
      BY <1>1, <2>3 DEF StartReport, BorrowTypeOK, Blocks
    <3>2. Blocks \subseteq known
      BY <2>3, <3>1 DEF StartReport, FixpointInv, PassProgress
    <3> QED
      BY <1>1, <2>2, <2>3, <3>2 DEF StartReport, PathInv, KnownAtEnd, BorrowTypeOK
  <2>4. CASE ~StartReport
    <3>1. known' = known /\ (phase' \in {"report", "checked"} => phase \in {"report", "checked"})
      BY <1>7, <2>4
      DEF BorrowNext, AnalyzeFirst, Check, BorrowTerminated, MergeAgain, ReportBlock,
          EndCheck, borrowVars, checkVars, flowVars
    <3> QED
      BY <2>2, <3>1 DEF PathInv, KnownAtEnd
  <2> QED
    BY <2>3, <2>4
<1> QED
  BY <1>5, <1>6, <1>7

(* At the fixpoint every path has brought its move: the first block of a   *)
(* path that has not got it could still have taken it over.                *)
LEMMA FixpointCoversPaths ==
  ASSUME BInv, Checking, known = Blocks, \A b \in Blocks : states[b] = MergedStates(b),
         NEW v \in Variables, NEW b \in Blocks, MovedOnPath(v, b)
  PROVE  states[b][v] = Moved
<1>1. PICK n \in Nat \ {0, 1} : \E path : MovedPath(v, b, n, path)
  BY DEF MovedOnPath
<1>2. PICK path : MovedPath(v, b, n, path)
  BY <1>1
<1>3. /\ path \in [1 .. n -> Blocks] /\ path[n] = b
      /\ MovedWithin(v, path[1], Len(code[path[1]]))
      /\ \A i \in 2 .. n - 1 : Untouched(v, path[i])
      /\ \A i \in 1 .. n - 1 : path[i + 1] \in Successors(path[i]) \ {0}
  BY <1>2 DEF MovedPath
<1> DEFINE missing == {i \in 2 .. n : states[path[i]][v] # Moved}
<1> SUFFICES ASSUME missing # {} PROVE FALSE
  BY <1>3
<1>4. PICK m \in missing : \A i \in missing : m <= i
  <2>1. missing \subseteq Nat
    OBVIOUS
  <2> HIDE DEF missing
  <2> QED
    BY <2>1, LeastNumber
<1>5. m - 1 \in 1 .. n - 1 /\ (m - 1) + 1 = m /\ m \in 2 .. n /\ states[path[m]][v] # Moved
  BY <1>4
<1>6. m - 1 \in 2 .. n - 1 => states[path[m - 1]][v] = Moved
  <2>1. m - 1 \notin missing
    <3>1. ~(m <= m - 1)
      BY <1>5
    <3> HIDE DEF missing
    <3> QED
      BY <1>4, <3>1
  <2> QED
    BY <1>5, <2>1
<1> HIDE DEF missing
<1>7. PICK p \in Blocks : p = path[m - 1]
  BY <1>3, <1>5
<1>8. ExitState(p, v) = Moved
  <2>1. BorrowTypeOK /\ TypeOK
    BY DEF BInv, IInv, SweepInv
  <2>2. m - 1 = 1 \/ m - 1 \in 2 .. n - 1
    BY <1>5
  <2> QED
    BY <1>3, <1>6, <1>7, <2>1, <2>2, ExitMoved
<1>9. path[m] \in Blocks /\ path[m] \in Successors(p) \ {0}
  BY <1>3, <1>5, <1>7
<1>10. p \in Before(path[m])
  BY <1>9, PredIsSuccessor DEF Before
<1>11. MergedStates(path[m])[v] = Moved
  BY <1>8, <1>9, <1>10, MergedMoved
<1> QED
  BY <1>5, <1>9, <1>11

LEMMA FinalReports == BInv /\ FixpointInv /\ PathInv => ReportsAreMoves
<1> SUFFICES ASSUME BInv, FixpointInv, PathInv, phase = "checked"
             PROVE  reports = {p \in Blocks \X Nat \X Variables :
                                 /\ p[2] \in DOMAIN code[p[1]]
                                 /\ p[3] \in Reads(code[p[1]][p[2]])
                                 /\ MovedBefore(p[3], p[1], p[2])}
  BY DEF ReportsAreMoves
<1>1. TypeOK /\ BorrowTypeOK /\ present = Blocks /\ Checking
  BY DEF BInv, IInv, SweepInv, Checking
<1>2. known = Blocks /\ \A b \in Blocks : states[b] = MergedStates(b)
  BY <1>1 DEF PathInv, KnownAtEnd, FixpointInv, EndsAtFixpoint
<1>3. \A b \in Blocks, v \in Variables : states[b][v] = Moved <=> MovedOnPath(v, b)
  BY <1>1, <1>2, FixpointCoversPaths DEF PathInv, MovedHasPath
<1>4. reports = UNION {ReportsIn(b, states[b]) : b \in Blocks}
  BY <1>1 DEF BInv, ReportsStand, AllReports
<1>5. ASSUME NEW b \in Blocks, NEW k \in DOMAIN code[b], NEW v \in Reads(code[b][k])
      PROVE  /\ k \in Nat /\ v \in Variables
             /\ StateAt(b, k - 1, states[b], v) = Moved <=> MovedBefore(v, b, k)
  <2>1. k \in Nat /\ k - 1 \in Nat /\ code[b][k] \in Instructions
    <3>1. code[b] \in Seq(Instructions)
      BY <1>1 DEF TypeOK
    <3> QED
      BY <3>1
  <2>2. v \in Variables
    <3>1. code[b][k].src \in Seq(Variables)
      BY <2>1 DEF Instructions
    <3> QED
      BY <3>1 DEF Reads
  <2>3. states[b] \in [Variables -> States]
    BY <1>1 DEF BorrowTypeOK
  <2> QED
    BY <1>3, <2>1, <2>2, <2>3, StateAtMoved DEF MovedBefore
<1>6. ASSUME NEW b, NEW k, NEW v
      PROVE  <<b, k, v>> \in reports <=>
               /\ b \in Blocks /\ k \in Nat /\ v \in Variables
               /\ k \in DOMAIN code[b] /\ v \in Reads(code[b][k])
               /\ MovedBefore(v, b, k)
  BY <1>4, <1>5 DEF ReportsIn
<1>7. reports \subseteq Blocks \X Nat \X Variables
  BY <1>1 DEF BorrowTypeOK
<1> QED
  BY <1>6, <1>7

-----------------------------------------------------------------------------
(* The same, instruction by instruction: the places that AfterMove collects*)
(* are those where a path has brought the move.                            *)

(* Control goes from an instruction to the next, or from the last of a     *)
(* block over an edge, and what is deleted is not written.                 *)
ControlFollowsEdges ==
  \A b \in Blocks : \A k \in DOMAIN code[b] :
    LET i == code[b][k]
        left == {t \in Blocks : t = i.pad \/ \E n \in DOMAIN i.targets : i.targets[n] = t}
    IN /\ left # {} \/ i.targets # <<>> => k = Len(code[b])
       /\ left \subseteq Successors(b) \ {0}
       /\ i.kind = "free" => i.dst = NoVariable

(* A chain of growing subsets of S stands still after as many steps as S   *)
(* has members.                                                            *)
LEMMA ChainStandsStill ==
  ASSUME NEW S, IsFiniteSet(S), NEW step \in [SUBSET S -> SUBSET S],
         \A T \in SUBSET S : T \subseteq step[T],
         NEW g \in [0 .. Cardinality(S) -> SUBSET S],
         \A n \in 1 .. Cardinality(S) : g[n] = step[g[n - 1]]
  PROVE  step[g[Cardinality(S)]] = g[Cardinality(S)]
<1> DEFINE c == Cardinality(S)
           bad == {n \in 0 .. c : step[g[n]] # g[n] /\ Cardinality(g[n]) < n}
<1>1. c \in Nat
  BY FS_CardinalityType
<1>2. ASSUME NEW n \in 0 .. c
      PROVE  /\ g[n] \in SUBSET S /\ IsFiniteSet(g[n])
             /\ Cardinality(g[n]) \in Nat
  BY FS_Subset, FS_CardinalityType
<1>3. bad = {}
  <2> SUFFICES ASSUME bad # {} PROVE FALSE
    OBVIOUS
  <2>1. PICK n \in bad : \A m \in bad : n <= m
    <3>1. bad \subseteq Nat
      BY <1>1
    <3> HIDE DEF bad
    <3> QED
      BY <3>1, LeastNumber
  <2>2. n \in 0 .. c /\ step[g[n]] # g[n] /\ Cardinality(g[n]) < n
    BY <2>1
  <2>3. n # 0
    BY <1>2, <2>2
  <2>4. n - 1 \in 0 .. c /\ n \in 1 .. c /\ ~(n <= n - 1)
    BY <1>1, <2>2, <2>3
  <2>5. n - 1 \notin bad
    <3> HIDE DEF bad
    <3> QED
      BY <2>1, <2>4
  <2>6. g[n] = step[g[n - 1]]
    BY <2>4
  <2>7. step[g[n - 1]] # g[n - 1]
    BY <2>2, <2>6
  <2>8. ~(Cardinality(g[n - 1]) < n - 1)
    BY <2>4, <2>5, <2>7
  <2>9. g[n - 1] \in SUBSET g[n] /\ g[n - 1] # g[n]
    BY <1>2, <2>4, <2>6, <2>7
  <2>10. Cardinality(g[n - 1]) < Cardinality(g[n])
    <3>1. IsFiniteSet(g[n])
      BY <1>2, <2>2
    <3>2. Cardinality(g[n - 1]) <= Cardinality(g[n])
      BY <2>9, <3>1, FS_Subset
    <3>3. Cardinality(g[n - 1]) # Cardinality(g[n])
      BY <2>9, <3>1, FS_Subset
    <3>4. Cardinality(g[n - 1]) \in Nat /\ Cardinality(g[n]) \in Nat
      BY <1>2, <2>2, <2>4
    <3> QED
      BY <3>2, <3>3, <3>4
  <2>11. Cardinality(g[n - 1]) \in Nat /\ Cardinality(g[n]) \in Nat /\ n \in Int
    BY <1>2, <2>2, <2>4
  <2> QED
    BY <2>2, <2>8, <2>10, <2>11
<1>4. c \in 0 .. c
  BY <1>1
<1>5. SUFFICES ASSUME step[g[c]] # g[c] PROVE FALSE
  OBVIOUS
<1>6. ~(Cardinality(g[c]) < c)
  BY <1>3, <1>4, <1>5
<1>7. Cardinality(g[c]) <= c /\ (Cardinality(g[c]) = c => g[c] = S)
  BY <1>2, <1>4, FS_Subset
<1>8. g[c] = S
  BY <1>1, <1>2, <1>4, <1>6, <1>7
<1>9. step[S] = S
  <2>1. S \in SUBSET S
    OBVIOUS
  <2> QED
    BY <2>1
<1> QED
  BY <1>5, <1>8, <1>9

LEMMA PlacesFinite ==
  ASSUME TypeOK
  PROVE  IsFiniteSet(Places) /\ Cardinality(Places) \in Nat
<1> DEFINE pairs == [b \in Blocks |-> [k \in DOMAIN code[b] |-> <<b, k>>]]
           rows == [b \in Blocks |-> {pairs[b][k] : k \in DOMAIN code[b]}]
           family == {rows[b] : b \in Blocks}
<1>1. IsFiniteSet(Blocks)
  BY LastBlockType, FS_Interval DEF Blocks
<1>2. ASSUME NEW b \in Blocks PROVE IsFiniteSet(rows[b])
  <2>1. DOMAIN code[b] = 1 .. Len(code[b]) /\ Len(code[b]) \in Nat
    BY DEF TypeOK
  <2>2. IsFiniteSet(DOMAIN code[b])
    BY <2>1, FS_Interval
  <2>3. DOMAIN pairs[b] = DOMAIN code[b]
    OBVIOUS
  <2>4. rows[b] = {pairs[b][k] : k \in DOMAIN code[b]}
    OBVIOUS
  <2> HIDE DEF rows, pairs
  <2> QED
    BY <2>2, <2>3, <2>4, ImageFinite
<1>3. IsFiniteSet(family)
  <2>1. DOMAIN rows = Blocks
    OBVIOUS
  <2> HIDE DEF rows
  <2> QED
    BY <1>1, <2>1, ImageFinite
<1>4. IsFiniteSet(UNION family)
  <2>1. \A T \in family : IsFiniteSet(T)
    <3> HIDE DEF rows
    <3> QED
      BY <1>2
  <2> HIDE DEF family
  <2> QED
    BY <1>3, <2>1, FS_UNION
<1>5. Places \in SUBSET UNION family
  BY DEF Places
<1> HIDE DEF family
<1> QED
  BY <1>4, <1>5, FS_Subset, FS_CardinalityType

LEMMA PlaceType ==
  ASSUME TypeOK
  PROVE  /\ \A p \in Places : /\ p = <<p[1], p[2]>>
                              /\ p[1] \in Blocks /\ p[2] \in DOMAIN code[p[1]]
         /\ \A b \in Blocks : \A k \in DOMAIN code[b] : <<b, k>> \in Places
BY DEF Places

(* The starts and the steps of AfterMove.                                  *)
MovesOf(v) == {p \in Places : MovesAway(code[p[1]][p[2]], v)}
KeptIn(v, S) == {p \in S : ~Restores(code[p[1]][p[2]], v)}
IsClosed(v, S) == Onward(MovesOf(v)) \subseteq S /\ Onward(KeptIn(v, S)) \subseteq S

LEMMA AfterMoveIsLeast ==
  ASSUME TypeOK, NEW v
  PROVE  /\ AfterMove(v) \in SUBSET Places
         /\ IsClosed(v, AfterMove(v))
         /\ \A Q : IsClosed(v, Q) => AfterMove(v) \subseteq Q
<1> DEFINE c == Cardinality(Places)
           start == Onward(MovesOf(v))
           step == [S \in SUBSET Places |-> S \cup Onward(KeptIn(v, S))]
           IsChain(f) == f = [n \in 0 .. c |->
                           IF n = 0 THEN Onward({p \in Places : MovesAway(code[p[1]][p[2]], v)})
                           ELSE LET before == f[n - 1]
                                IN before \cup
                                     Onward({p \in before : ~Restores(code[p[1]][p[2]], v)})]
           chain == CHOOSE f : IsChain(f)
<1>1. c \in Nat /\ IsFiniteSet(Places)
  BY PlacesFinite
<1>2. \A S : Onward(S) \in SUBSET Places
  BY DEF Onward, Leads
<1>3. step \in [SUBSET Places -> SUBSET Places] /\ start \in SUBSET Places
  BY <1>2
<1>4. PICK g \in [0 .. c -> SUBSET Places] :
        g[0] = start /\ \A n \in 1 .. c : g[n] = step[g[n - 1]]
  <2> HIDE DEF c, step, start
  <2>1. HasIterates(SUBSET Places, step, start, c)
    BY <1>1, <1>3, Iterates
  <2> QED
    BY <2>1 DEF HasIterates
<1>5. IsChain(g)
  <2>1. ASSUME NEW n \in 0 .. c
        PROVE  g[n] = IF n = 0 THEN start ELSE g[n - 1] \cup Onward(KeptIn(v, g[n - 1]))
    <3>1. CASE n = 0
      BY <1>4, <3>1
    <3>2. CASE n # 0
      <4>1. n - 1 \in 0 .. c /\ n \in 1 .. c
        BY <1>1, <3>2
      <4>2. g[n - 1] \in SUBSET Places
        BY <1>4, <4>1
      <4>3. g[n] = step[g[n - 1]]
        BY <1>4, <4>1
      <4> QED
        BY <3>2, <4>2, <4>3
    <3> QED
      BY <3>1, <3>2
  <2> QED
    BY <1>4, <2>1 DEF MovesOf, KeptIn
<1>6. IsChain(chain)
  BY <1>5
<1>7. AfterMove(v) = chain[c]
  BY DEF AfterMove
<1> HIDE DEF chain
<1>8. chain[c] = g[c]
  <2> DEFINE bad == {n \in 0 .. c : chain[n] # g[n]}
  <2>1. bad = {}
    <3> SUFFICES ASSUME bad # {} PROVE FALSE
      OBVIOUS
    <3>1. PICK n \in bad : \A m \in bad : n <= m
      <4>1. bad \subseteq Nat
        BY <1>1
      <4> HIDE DEF bad
      <4> QED
        BY <4>1, LeastNumber
    <3>2. n \in 0 .. c /\ chain[n] # g[n]
      BY <3>1
    <3>3. n # 0
      BY <1>5, <1>6, <3>2
    <3>4. n - 1 \in 0 .. c /\ ~(n <= n - 1)
      BY <1>1, <3>2, <3>3
    <3>5. chain[n - 1] = g[n - 1]
      <4>1. n - 1 \notin bad
        <5> HIDE DEF bad
        <5> QED
          BY <3>1, <3>4
      <4> QED
        BY <3>4, <4>1
    <3> QED
      BY <1>5, <1>6, <3>2, <3>3, <3>5
  <2>2. c \in 0 .. c
    BY <1>1
  <2> QED
    BY <2>1, <2>2
<1>9. g[c] \in SUBSET Places /\ 0 \in 0 .. c /\ c \in 0 .. c
  BY <1>1, <1>4
<1>10. step[g[c]] = g[c]
  <2>1. \A S \in SUBSET Places : S \subseteq step[S]
    OBVIOUS
  <2> HIDE DEF step
  <2> QED
    BY <1>1, <1>3, <1>4, <2>1, ChainStandsStill
<1>11. \A n \in 1 .. c : g[n - 1] \subseteq g[n] /\ Onward(KeptIn(v, g[n - 1])) \subseteq g[n]
  <2> SUFFICES ASSUME NEW n \in 1 .. c
               PROVE  g[n - 1] \subseteq g[n] /\ Onward(KeptIn(v, g[n - 1])) \subseteq g[n]
    OBVIOUS
  <2>1. n - 1 \in 0 .. c
    BY <1>1
  <2>2. g[n - 1] \in SUBSET Places /\ g[n] = step[g[n - 1]]
    BY <1>4, <2>1
  <2> QED
    BY <2>2
<1>12. start \subseteq g[c]
  <2> DEFINE bad == {n \in 0 .. c : ~(start \subseteq g[n])}
  <2>1. bad = {}
    <3> SUFFICES ASSUME bad # {} PROVE FALSE
      OBVIOUS
    <3>1. PICK n \in bad : \A m \in bad : n <= m
      <4>1. bad \subseteq Nat
        BY <1>1
      <4> HIDE DEF bad
      <4> QED
        BY <4>1, LeastNumber
    <3>2. n \in 0 .. c /\ ~(start \subseteq g[n])
      BY <3>1
    <3>3. n # 0
      BY <1>4, <3>2
    <3>4. n - 1 \in 0 .. c /\ n \in 1 .. c /\ ~(n <= n - 1)
      BY <1>1, <3>2, <3>3
    <3>5. start \subseteq g[n - 1]
      <4>1. n - 1 \notin bad
        <5> HIDE DEF bad
        <5> QED
          BY <3>1, <3>4
      <4> QED
        BY <3>4, <4>1
    <3>6. g[n - 1] \subseteq g[n]
      BY <1>11, <3>4
    <3> QED
      BY <3>2, <3>5, <3>6
  <2> QED
    BY <1>9, <2>1
<1>13. IsClosed(v, g[c])
  <2>1. step[g[c]] = g[c] \cup Onward(KeptIn(v, g[c]))
    BY <1>9
  <2>2. Onward(KeptIn(v, g[c])) \subseteq g[c]
    BY <1>10, <2>1
  <2> QED
    BY <1>12, <2>2 DEF IsClosed
<1>14. ASSUME NEW Q, IsClosed(v, Q)
       PROVE  g[c] \subseteq Q
  <2> DEFINE bad == {n \in 0 .. c : ~(g[n] \subseteq Q)}
  <2>1. bad = {}
    <3> SUFFICES ASSUME bad # {} PROVE FALSE
      OBVIOUS
    <3>1. PICK n \in bad : \A m \in bad : n <= m
      <4>1. bad \subseteq Nat
        BY <1>1
      <4> HIDE DEF bad
      <4> QED
        BY <4>1, LeastNumber
    <3>2. n \in 0 .. c /\ ~(g[n] \subseteq Q)
      BY <3>1
    <3>3. n # 0
      <4>1. start \subseteq Q
        BY <1>14 DEF IsClosed
      <4> HIDE DEF start, bad
      <4> QED
        BY <1>4, <3>2, <4>1
    <3>4. n - 1 \in 0 .. c /\ n \in 1 .. c /\ ~(n <= n - 1)
      BY <1>1, <3>2, <3>3
    <3>5. g[n - 1] \subseteq Q /\ g[n - 1] \in SUBSET Places
      <4>1. n - 1 \notin bad
        <5> HIDE DEF bad
        <5> QED
          BY <3>1, <3>4
      <4> QED
        BY <1>4, <3>4, <4>1
    <3>6. g[n] = g[n - 1] \cup Onward(KeptIn(v, g[n - 1]))
      BY <1>4, <3>4, <3>5
    <3>7. Onward(KeptIn(v, g[n - 1])) \subseteq Onward(KeptIn(v, Q))
      BY <3>5 DEF Onward, KeptIn
    <3>8. Onward(KeptIn(v, Q)) \subseteq Q
      BY <1>14 DEF IsClosed
    <3> HIDE DEF step, bad
    <3> QED
      BY <3>2, <3>5, <3>6, <3>7, <3>8
  <2> QED
    BY <1>9, <2>1
<1> HIDE DEF c, step, start
<1> QED
  BY <1>7, <1>8, <1>9, <1>13, <1>14

(* Control leaves an instruction for the next one or over the edges.       *)
LEMMA LeadsOnward ==
  ASSUME TypeOK, ControlFollowsEdges, NEW b \in Blocks, NEW k \in DOMAIN code[b]
  PROVE  /\ k \in Nat /\ k > 0 /\ k <= Len(code[b])
         /\ k < Len(code[b]) => Leads(b, k) = {<<b, k + 1>>}
         /\ k = Len(code[b]) =>
              Leads(b, k) = {<<t, 1>> : t \in {t \in Successors(b) : code[t] # <<>>}}
         /\ \A t \in Successors(b) : k = Len(code[b]) => t # 0
<1> DEFINE i == code[b][k]
           left == {t \in Blocks : t = i.pad \/ \E n \in DOMAIN i.targets : i.targets[n] = t}
           named == {i.targets[n] : n \in DOMAIN i.targets} \cup {i.pad}
           far == {<<t, 1>> : t \in named}
           near == IF i.targets = <<>> THEN {<<b, k + 1>>} ELSE {}
<1>1. /\ left # {} \/ i.targets # <<>> => k = Len(code[b])
      /\ left \subseteq Successors(b) \ {0}
  BY DEF ControlFollowsEdges
<1>2. code[b] \in Seq(Instructions)
  BY DEF TypeOK
<1>3. DOMAIN code[b] = 1 .. Len(code[b]) /\ Len(code[b]) \in Nat
  BY <1>2
<1>4. k \in Nat /\ k > 0 /\ k <= Len(code[b])
  BY <1>3
<1>5. Leads(b, k) = (far \cup near) \cap Places
  BY DEF Leads
<1>6. left = named \cap Blocks
  OBVIOUS
<1>7. ASSUME NEW t PROVE <<t, 1>> \in Places <=> t \in Blocks /\ code[t] # <<>>
  <2>1. <<t, 1>> \in Places <=> t \in Blocks /\ 1 \in DOMAIN code[t]
    BY DEF Places
  <2>2. ASSUME t \in Blocks PROVE 1 \in DOMAIN code[t] <=> code[t] # <<>>
    BY <2>2 DEF TypeOK
  <2> QED
    BY <2>1, <2>2
<1>8. far \cap Places = {<<t, 1>> : t \in {t \in left : code[t] # <<>>}}
  <2> HIDE DEF i
  <2>1. ASSUME NEW t \in named, <<t, 1>> \in Places
        PROVE  t \in left /\ code[t] # <<>>
    BY <1>6, <1>7, <2>1
  <2>2. ASSUME NEW t \in left, code[t] # <<>>
        PROVE  t \in named /\ <<t, 1>> \in Places
    BY <1>6, <1>7, <2>2
  <2> HIDE DEF left, named
  <2> QED
    BY <2>1, <2>2
<1>9. <<b, k + 1>> \in Places <=> k < Len(code[b])
  <2>1. <<b, k + 1>> \in Places <=> k + 1 \in DOMAIN code[b]
    BY DEF Places
  <2> QED
    BY <1>3, <1>4, <2>1
<1>10. CASE k < Len(code[b])
  <2>1. left = {} /\ i.targets = <<>>
    BY <1>1, <1>4, <1>10
  <2>2. far \cap Places = {}
    BY <1>8, <2>1
  <2>3. near = {<<b, k + 1>>} /\ near \subseteq Places
    BY <1>9, <1>10, <2>1
  <2>4. k # Len(code[b])
    BY <1>3, <1>4, <1>10
  <2> HIDE DEF far, near
  <2> QED
    BY <1>4, <1>5, <2>2, <2>3, <2>4
<1>11. CASE k = Len(code[b])
  <2>1. near \cap Places = {}
    BY <1>3, <1>9, <1>11
  <2>2. ASSUME NEW t \in Successors(b) PROVE t \in left
    <3>1. i = Terminator(code[b])
      BY <1>11, EdgeIsNamed
    <3>2. t = i.pad \/ \E m \in DOMAIN i.targets : i.targets[m] = t
      BY <3>1, EdgeIsNamed
    <3>3. t \in Blocks
      BY DEF Successors
    <3> HIDE DEF i
    <3> QED
      BY <3>2, <3>3
  <2>3. left = Successors(b) /\ 0 \notin Successors(b)
    BY <1>1, <2>2
  <2>4. Leads(b, k) = far \cap Places
    BY <1>5, <2>1
  <2>5. Leads(b, k) = {<<t, 1>> : t \in {t \in Successors(b) : code[t] # <<>>}}
    <3> HIDE DEF far, left
    <3> QED
      BY <1>8, <2>3, <2>4
  <2>6. ~(k < Len(code[b]))
    BY <1>3, <1>11
  <2> HIDE DEF left
  <2> QED
    BY <1>4, <2>3, <2>5, <2>6
<1> QED
  BY <1>3, <1>4, <1>10, <1>11

(* What each instruction does to a variable.                               *)
LEMMA MovingTouches ==
  ASSUME TypeOK, ControlFollowsEdges, NEW b \in Blocks, NEW k \in DOMAIN code[b],
         NEW v \in Variables
  PROVE  LET i == code[b][k]
         IN /\ MovesAway(i, v) <=> Touches(i, v) /\ StateAfter(i, v) = Moved
            /\ Restores(i, v) => Touches(i, v)
            /\ Touches(i, v) => Restores(i, v) \/ MovesAway(i, v)
<1> DEFINE i == code[b][k]
<1>1. v # NoVariable
  BY LivenessAssumption
<1>2. i.kind = "free" => i.dst = NoVariable
  BY DEF ControlFollowsEdges
<1> HIDE DEF i
<1>3. MovesAway(i, v) <=> Touches(i, v) /\ StateAfter(i, v) = Moved
  BY <1>1, <1>2 DEF MovesAway, Touches, StateAfter, Moved, Owned, Borrowed
<1>4. Restores(i, v) => Touches(i, v)
  BY <1>1 DEF Restores, Touches
<1>5. Touches(i, v) => Restores(i, v) \/ MovesAway(i, v)
  BY <1>1, <1>2 DEF MovesAway, Touches, Restores
<1> QED
  BY <1>3, <1>4, <1>5 DEF i

(* A path that has come past instruction k of b goes on where k leads.     *)
LEMMA MovedLeadsOn ==
  ASSUME TypeOK, ControlFollowsEdges, NEW b \in Blocks, NEW k \in DOMAIN code[b],
         NEW v \in Variables,
         \/ MovedWithin(v, b, k)
         \/ (\A j \in 1 .. k : ~Touches(code[b][j], v)) /\ MovedOnPath(v, b),
         NEW q \in Leads(b, k)
  PROVE  MovedBefore(v, q[1], q[2])
<1>1. k \in Nat /\ Len(code[b]) \in Nat /\ DOMAIN code[b] = 1 .. Len(code[b])
  BY DEF TypeOK
<1>2. CASE k < Len(code[b])
  <2>1. q = <<b, k + 1>>
    BY <1>2, LeadsOnward
  <2>2. q[1] = b /\ q[2] = k + 1 /\ (k + 1) - 1 = k
    BY <1>1, <2>1
  <2> QED
    BY <2>2 DEF MovedBefore
<1>3. CASE k = Len(code[b])
  <2>1. PICK t \in Successors(b) : q = <<t, 1>> /\ t # 0
    BY <1>3, LeadsOnward
  <2>2. \/ MovedWithin(v, b, Len(code[b]))
        \/ Untouched(v, b) /\ MovedOnPath(v, b)
    BY <1>1, <1>3 DEF Untouched
  <2>3. MovedOnPath(v, t)
    <3>1. t \in Successors(b) \ {0}
      BY <2>1
    <3> QED
      BY <2>2, <3>1, MovedGoesOn
  <2>4. q[1] = t /\ q[2] = 1 /\ \A j \in 1 .. 1 - 1 : FALSE
    BY <2>1
  <2> QED
    BY <2>3, <2>4 DEF MovedBefore
<1> QED
  BY <1>1, <1>2, <1>3, LeadsOnward

LEMMA AfterMoveIsMoved ==
  ASSUME TypeOK, ControlFollowsEdges, NEW v \in Variables, NEW p \in AfterMove(v)
  PROVE  MovedBefore(v, p[1], p[2])
<1> DEFINE Q == {q \in Places : MovedBefore(v, q[1], q[2])}
<1>1. ASSUME NEW q \in Places,
             \/ MovesAway(code[q[1]][q[2]], v)
             \/ q \in Q /\ ~Restores(code[q[1]][q[2]], v),
             NEW r \in Leads(q[1], q[2])
      PROVE  r \in Q
  <2> DEFINE b == q[1]
             k == q[2]
  <2>1. b \in Blocks /\ k \in DOMAIN code[b]
    BY PlaceType
  <2>2. DOMAIN code[b] = 1 .. Len(code[b]) /\ Len(code[b]) \in Nat
    BY <2>1 DEF TypeOK
  <2>3. k \in Nat /\ k \in 1 .. k /\ \A j \in 1 .. k : j \in 1 .. k - 1 \/ j = k
    BY <2>1, <2>2
  <2>4. r \in Places
    BY DEF Leads
  <2>5. CASE MovesAway(code[b][k], v)
    <3>1. Touches(code[b][k], v) /\ StateAfter(code[b][k], v) = Moved
      BY <2>1, <2>5, MovingTouches
    <3>2. \A l \in 1 .. k : ~(l > k)
      BY <2>3
    <3>3. MovedWithin(v, b, k)
      BY <2>3, <3>1, <3>2 DEF MovedWithin
    <3> HIDE DEF b, k
    <3>4. MovedBefore(v, r[1], r[2])
      BY <2>1, <3>3, MovedLeadsOn DEF b, k
    <3> QED
      BY <2>4, <3>4
  <2>6. CASE ~MovesAway(code[b][k], v)
    <3>1. MovedBefore(v, b, k) /\ ~Touches(code[b][k], v)
      BY <1>1, <2>1, <2>6, MovingTouches
    <3> HIDE DEF b, k
    <3>2. \/ MovedWithin(v, b, k)
          \/ (\A j \in 1 .. k : ~Touches(code[b][j], v)) /\ MovedOnPath(v, b)
      <4>1. CASE MovedWithin(v, b, k - 1)
        <5>1. PICK j \in 1 .. k - 1 :
                /\ Touches(code[b][j], v) /\ StateAfter(code[b][j], v) = Moved
                /\ \A l \in 1 .. k - 1 : l > j => ~Touches(code[b][l], v)
          BY <4>1 DEF MovedWithin
        <5>2. j \in 1 .. k
          BY <2>3
        <5>3. \A l \in 1 .. k : l > j => ~Touches(code[b][l], v)
          BY <2>3, <3>1, <5>1
        <5> QED
          BY <5>1, <5>2, <5>3 DEF MovedWithin
      <4>2. CASE (\A j \in 1 .. k - 1 : ~Touches(code[b][j], v)) /\ MovedOnPath(v, b)
        BY <2>3, <3>1, <4>2
      <4> QED
        BY <3>1, <4>1, <4>2 DEF MovedBefore
    <3>3. MovedBefore(v, r[1], r[2])
      BY <2>1, <3>2, MovedLeadsOn DEF b, k
    <3> QED
      BY <2>4, <3>3
  <2> QED
    BY <2>5, <2>6
<1>2. Onward(MovesOf(v)) \subseteq Q
  <2> HIDE DEF Q
  <2> QED
    BY <1>1 DEF Onward, MovesOf
<1>3. Onward(KeptIn(v, Q)) \subseteq Q
  <2>1. Q \subseteq Places
    OBVIOUS
  <2> HIDE DEF Q
  <2> QED
    BY <1>1, <2>1 DEF Onward, KeptIn
<1>4. p \in Q
  <2> HIDE DEF Q
  <2> QED
    BY <1>2, <1>3, AfterMoveIsLeast DEF IsClosed
<1> QED
  BY <1>4

(* Within a block the move is carried along where nothing restores it.     *)
LEMMA FallsThrough ==
  ASSUME TypeOK, ControlFollowsEdges, NEW v \in Variables, NEW b \in Blocks,
         NEW k \in DOMAIN code[b], NEW n \in DOMAIN code[b], k <= n,
         <<b, k>> \in AfterMove(v),
         \A j \in k .. n : ~Touches(code[b][j], v)
  PROVE  Leads(b, n) \subseteq AfterMove(v)
<1> DEFINE bad == {l \in k .. n : <<b, l>> \notin AfterMove(v)}
<1>1. /\ k \in Nat /\ n \in Nat /\ Len(code[b]) \in Nat /\ k > 0
      /\ DOMAIN code[b] = 1 .. Len(code[b])
  BY DEF TypeOK
<1>2. ASSUME NEW l \in k .. n, <<b, l>> \in AfterMove(v)
      PROVE  Leads(b, l) \subseteq AfterMove(v)
  <2>1. l \in DOMAIN code[b] /\ <<b, l>> \in Places
    BY <1>1, PlaceType
  <2>2. ~Restores(code[b][l], v)
    BY <2>1, MovingTouches
  <2>3. <<b, l>> \in KeptIn(v, AfterMove(v))
    BY <1>2, <2>2 DEF KeptIn
  <2>4. Leads(b, l) \subseteq Onward(KeptIn(v, AfterMove(v)))
    BY <2>3 DEF Onward
  <2> QED
    BY <2>4, AfterMoveIsLeast DEF IsClosed
<1>3. bad = {}
  <2> SUFFICES ASSUME bad # {} PROVE FALSE
    OBVIOUS
  <2>1. PICK l \in bad : \A m \in bad : l <= m
    <3>1. bad \subseteq Nat
      BY <1>1
    <3> HIDE DEF bad
    <3> QED
      BY <3>1, LeastNumber
  <2>2. l \in k .. n /\ <<b, l>> \notin AfterMove(v)
    BY <2>1
  <2>3. l # k
    BY <2>2
  <2>4. l - 1 \in k .. n /\ ~(l <= l - 1) /\ (l - 1) + 1 = l /\ l - 1 < Len(code[b])
    BY <1>1, <2>2, <2>3
  <2>5. <<b, l - 1>> \in AfterMove(v)
    <3>1. l - 1 \notin bad
      <4> HIDE DEF bad
      <4> QED
        BY <2>1, <2>4
    <3> QED
      BY <2>4, <3>1
  <2>6. l - 1 \in DOMAIN code[b]
    BY <1>1, <2>4
  <2>7. Leads(b, l - 1) = {<<b, l>>}
    BY <2>4, <2>6, LeadsOnward
  <2> HIDE DEF bad
  <2> QED
    BY <1>2, <2>2, <2>4, <2>5, <2>7
<1>4. n \in k .. n
  BY <1>1
<1> QED
  BY <1>2, <1>3, <1>4

LEMMA MovedWithinLeads ==
  ASSUME TypeOK, ControlFollowsEdges, NEW v \in Variables, NEW b \in Blocks,
         NEW n \in DOMAIN code[b], MovedWithin(v, b, n)
  PROVE  Leads(b, n) \subseteq AfterMove(v)
<1>1. n \in Nat /\ Len(code[b]) \in Nat /\ DOMAIN code[b] = 1 .. Len(code[b])
  BY DEF TypeOK
<1>2. PICK j \in 1 .. n :
        /\ Touches(code[b][j], v) /\ StateAfter(code[b][j], v) = Moved
        /\ \A l \in 1 .. n : l > j => ~Touches(code[b][l], v)
  BY DEF MovedWithin
<1>3. j \in DOMAIN code[b] /\ <<b, j>> \in Places
  BY <1>1, PlaceType
<1>4. Leads(b, j) \subseteq AfterMove(v)
  <2>1. MovesAway(code[b][j], v)
    BY <1>2, <1>3, MovingTouches
  <2>2. <<b, j>> \in MovesOf(v)
    BY <1>3, <2>1 DEF MovesOf
  <2>3. Leads(b, j) \subseteq Onward(MovesOf(v))
    BY <2>2 DEF Onward
  <2> QED
    BY <2>3, AfterMoveIsLeast DEF IsClosed
<1>5. CASE j # n
  <2>1. j < Len(code[b]) /\ j + 1 \in DOMAIN code[b] /\ j + 1 <= n
    BY <1>1, <1>5
  <2>2. <<b, j + 1>> \in AfterMove(v)
    BY <1>3, <1>4, <2>1, LeadsOnward
  <2>3. \A l \in j + 1 .. n : ~Touches(code[b][l], v)
    <3>1. \A l \in j + 1 .. n : l \in 1 .. n /\ l > j
      BY <1>1
    <3> QED
      BY <1>2, <3>1
  <2> QED
    BY <2>1, <2>2, <2>3, FallsThrough
<1> QED
  BY <1>4, <1>5

(* Along a path of blocks it is carried from entry to entry.               *)
LEMMA MovedPathLeads ==
  ASSUME TypeOK, ControlFollowsEdges, NEW v \in Variables, NEW b \in Blocks,
         code[b] # <<>>, MovedOnPath(v, b)
  PROVE  <<b, 1>> \in AfterMove(v)
<1>1. PICK n \in Nat \ {0, 1} : \E path : MovedPath(v, b, n, path)
  BY DEF MovedOnPath
<1>2. PICK path : MovedPath(v, b, n, path)
  BY <1>1
<1>3. /\ path \in [1 .. n -> Blocks] /\ path[n] = b
      /\ MovedWithin(v, path[1], Len(code[path[1]]))
      /\ \A i \in 2 .. n - 1 : Untouched(v, path[i])
      /\ \A i \in 1 .. n - 1 : path[i + 1] \in Successors(path[i]) \ {0}
  BY <1>2 DEF MovedPath
<1>4. ASSUME NEW i \in 1 .. n
      PROVE  /\ path[i] \in Blocks /\ code[path[i]] # <<>>
             /\ Len(code[path[i]]) \in Nat /\ Len(code[path[i]]) > 0
             /\ DOMAIN code[path[i]] = 1 .. Len(code[path[i]])
  <2>1. path[i] \in Blocks
    BY <1>3
  <2>2. code[path[i]] # <<>>
    <3>1. CASE i = n
      BY <1>3, <3>1
    <3>2. CASE i # n
      <4>1. i \in 1 .. n - 1
        BY <3>2
      <4>2. path[i + 1] \in Successors(path[i])
        BY <1>3, <4>1
      <4> QED
        BY <2>1, <4>2, EdgeIsNamed
    <3> QED
      BY <3>1, <3>2
  <2>3. code[path[i]] \in Seq(Instructions)
    BY <2>1 DEF TypeOK
  <2> QED
    BY <2>1, <2>2, <2>3
<1> DEFINE bad == {i \in 2 .. n : <<path[i], 1>> \notin AfterMove(v)}
<1>5. bad = {}
  <2> SUFFICES ASSUME bad # {} PROVE FALSE
    OBVIOUS
  <2>1. PICK m \in bad : \A i \in bad : m <= i
    <3>1. bad \subseteq Nat
      OBVIOUS
    <3> HIDE DEF bad
    <3> QED
      BY <3>1, LeastNumber
  <2>2. m \in 2 .. n /\ <<path[m], 1>> \notin AfterMove(v)
    BY <2>1
  <2>3. /\ m - 1 \in 1 .. n - 1 /\ m - 1 \in 1 .. n /\ (m - 1) + 1 = m
        /\ ~(m <= m - 1) /\ m \in 1 .. n
    BY <2>2
  <2>4. m - 1 \in 2 .. n - 1 => <<path[m - 1], 1>> \in AfterMove(v)
    <3>1. m - 1 \notin bad
      <4> HIDE DEF bad
      <4> QED
        BY <2>1, <2>3
    <3> QED
      BY <3>1
  <2> HIDE DEF bad
  <2>5. PICK p \in Blocks : p = path[m - 1]
    BY <1>4, <2>3
  <2>6. PICK e \in Nat : e = Len(code[p])
    BY <1>4, <2>3, <2>5
  <2>7. e \in DOMAIN code[p] /\ 1 \in DOMAIN code[p] /\ 1 <= e
    BY <1>4, <2>3, <2>5, <2>6
  <2>8. Leads(p, e) \subseteq AfterMove(v)
    <3>1. CASE m - 1 = 1
      <4>1. MovedWithin(v, p, e)
        BY <1>3, <2>5, <2>6, <3>1
      <4> QED
        BY <2>7, <4>1, MovedWithinLeads
    <3>2. CASE m - 1 # 1
      <4>1. m - 1 \in 2 .. n - 1
        BY <2>3, <3>2
      <4>2. <<p, 1>> \in AfterMove(v) /\ Untouched(v, p)
        BY <1>3, <2>4, <2>5, <4>1
      <4>3. \A j \in 1 .. e : ~Touches(code[p][j], v)
        <5>1. DOMAIN code[p] = 1 .. e
          BY <1>4, <2>3, <2>5, <2>6
        <5> QED
          BY <4>2, <5>1 DEF Untouched
      <4> QED
        BY <2>7, <4>2, <4>3, FallsThrough
    <3> QED
      BY <3>1, <3>2
  <2>9. path[m] \in Successors(p) /\ code[path[m]] # <<>>
    BY <1>3, <1>4, <2>3, <2>5
  <2>10. <<path[m], 1>> \in Leads(p, e)
    BY <2>6, <2>7, <2>9, LeadsOnward
  <2> QED
    BY <2>2, <2>8, <2>10
<1>6. n \in 2 .. n
  OBVIOUS
<1> QED
  BY <1>3, <1>5, <1>6

LEMMA MovedIsAfterMove ==
  ASSUME TypeOK, ControlFollowsEdges, NEW v \in Variables, NEW b \in Blocks,
         NEW k \in DOMAIN code[b], MovedBefore(v, b, k)
  PROVE  <<b, k>> \in AfterMove(v)
<1>1. /\ code[b] \in Seq(Instructions)
      /\ k \in Nat /\ Len(code[b]) \in Nat /\ DOMAIN code[b] = 1 .. Len(code[b])
  BY DEF TypeOK
<1>2. ASSUME k # 1
      PROVE  k - 1 \in DOMAIN code[b] /\ Leads(b, k - 1) = {<<b, k>>}
  <2>1. k - 1 \in DOMAIN code[b] /\ k - 1 < Len(code[b]) /\ (k - 1) + 1 = k
    BY <1>1, <1>2
  <2> QED
    BY <2>1, LeadsOnward
<1>3. CASE MovedWithin(v, b, k - 1)
  <2>1. k # 1
    <3> SUFFICES ASSUME k = 1 PROVE FALSE
      OBVIOUS
    <3>1. \A j \in 1 .. k - 1 : FALSE
      OBVIOUS
    <3> QED
      BY <1>3, <3>1 DEF MovedWithin
  <2> QED
    BY <1>2, <1>3, <2>1, MovedWithinLeads
<1>4. CASE (\A j \in 1 .. k - 1 : ~Touches(code[b][j], v)) /\ MovedOnPath(v, b)
  <2>1. code[b] # <<>> /\ 1 \in DOMAIN code[b]
    BY <1>1
  <2>2. <<b, 1>> \in AfterMove(v)
    BY <1>4, <2>1, MovedPathLeads
  <2>3. CASE k # 1
    <3>1. 1 <= k - 1
      BY <1>1, <2>3
    <3> QED
      BY <1>2, <1>4, <2>1, <2>2, <2>3, <3>1, FallsThrough
  <2> QED
    BY <2>2, <2>3
<1> QED
  BY <1>3, <1>4 DEF MovedBefore

LEMMA ReportsAreUses ==
  BInv /\ FixpointInv /\ PathInv /\ ControlFollowsEdges => UsesAfterMoveAreReported
<1> SUFFICES ASSUME BInv, FixpointInv, PathInv, ControlFollowsEdges, phase = "checked"
             PROVE  reports = UNION {{<<p[1], p[2], v>> : p \in
                                {p \in AfterMove(v) : v \in Reads(code[p[1]][p[2]])}} :
                                v \in Variables}
  BY DEF UsesAfterMoveAreReported
<1> DEFINE uses == UNION {{<<p[1], p[2], v>> : p \in
                     {p \in AfterMove(v) : v \in Reads(code[p[1]][p[2]])}} : v \in Variables}
<1>1. TypeOK
  BY DEF BInv, IInv, SweepInv
<1>2. reports = {p \in Blocks \X Nat \X Variables :
                   /\ p[2] \in DOMAIN code[p[1]] /\ p[3] \in Reads(code[p[1]][p[2]])
                   /\ MovedBefore(p[3], p[1], p[2])}
  BY FinalReports DEF ReportsAreMoves
<1>3. ASSUME NEW r \in reports PROVE r \in uses
  <2>1. /\ r \in Blocks \X Nat \X Variables
        /\ r[2] \in DOMAIN code[r[1]] /\ r[3] \in Reads(code[r[1]][r[2]])
        /\ MovedBefore(r[3], r[1], r[2])
    BY <1>2
  <2>2. r = <<r[1], r[2], r[3]>> /\ r[1] \in Blocks /\ r[3] \in Variables
    BY <2>1
  <2>3. <<r[1], r[2]>> \in AfterMove(r[3])
    BY <1>1, <2>1, <2>2, MovedIsAfterMove
  <2> QED
    BY <2>1, <2>2, <2>3
<1>4. ASSUME NEW v \in Variables, NEW p \in AfterMove(v), v \in Reads(code[p[1]][p[2]])
      PROVE  <<p[1], p[2], v>> \in reports
  <2>1. p \in Places
    BY <1>1, AfterMoveIsLeast
  <2>2. p[1] \in Blocks /\ p[2] \in DOMAIN code[p[1]]
    BY <1>1, <2>1, PlaceType
  <2>3. p[2] \in Nat
    BY <1>1, <2>2 DEF TypeOK
  <2>4. MovedBefore(v, p[1], p[2])
    BY <1>1, AfterMoveIsMoved
  <2> QED
    BY <1>2, <1>4, <2>2, <2>3, <2>4
<1>5. uses \subseteq reports
  <2> HIDE DEF uses
  <2> QED
    BY <1>4 DEF uses
<1> HIDE DEF uses
<1>6. reports \subseteq uses
  BY <1>3
<1>7. reports = uses
  BY <1>5, <1>6
<1> QED
  BY <1>7 DEF uses

-----------------------------------------------------------------------------
(* The passes over a function of any size keep every variable of the check *)
(* in its type, the number of passes within the limit among them           *)
(* (borrow.cpp:45-94).                                                     *)
THEOREM BorrowTypeCorrect == BorrowSpec => []BorrowTypeOK
<1>1. BInv => BorrowTypeOK
  BY DEF BInv
<1> QED
  BY <1>1, InitBInv, NextBInv, PTL DEF BorrowSpec

(* What a pass reports over states that are not final yet is justified by  *)
(* the final ones, and the last pass reports all that they justify         *)
(* (borrow.cpp:49-94).                                                     *)
THEOREM ReportsAlwaysStand == BorrowSpec => []ReportsStand
<1>1. BInv => ReportsStand
  BY DEF BInv
<1> QED
  BY <1>1, InitBInv, NextBInv, PTL DEF BorrowSpec

(* No pass takes back what another has found about a variable              *)
(* (borrow.cpp:62-81, 207-236).                                            *)
THEOREM StatesNeverImprove == BorrowSpec => StatesOnlyRise
<1>1. BInv /\ [BorrowNext]_borrowVars
        => [\A b \in Blocks, v \in Variables : states[b][v] <= states'[b][v]]_borrowVars
  BY StepWorsens
<1> QED
  BY <1>1, InitBInv, NextBInv, PTL DEF BorrowSpec, StatesOnlyRise

(* The passes end because a pass has changed nothing, never because of     *)
(* their limit (borrow.cpp:47-49).                                         *)
THEOREM PassesReachFixpoint == BorrowSpec => []EndsAtFixpoint
<1>1. BorrowInit => FixpointInv
  BY LastBlockType
  DEF BorrowInit, FixpointInv, GrowsOrSettles, PassProgress, FewPasses, EndsAtFixpoint
<1>2. FixpointInv => EndsAtFixpoint
  BY DEF FixpointInv
<1> QED
  BY <1>1, <1>2, FixpointInvStep, InitBInv, NextBInv, PTL DEF BorrowSpec

(* Two passes more than there are blocks are enough, where the code allows *)
(* four for each block and ten (borrow.cpp:47).                            *)
THEOREM FewPassesSuffice == BorrowSpec => [](passes <= LastBlock + 3)
<1>1. BorrowInit => FixpointInv
  BY LastBlockType
  DEF BorrowInit, FixpointInv, GrowsOrSettles, PassProgress, FewPasses, EndsAtFixpoint
<1>2. FixpointInv => passes <= LastBlock + 3
  BY DEF FixpointInv, FewPasses
<1> QED
  BY <1>1, <1>2, FixpointInvStep, InitBInv, NextBInv, PTL DEF BorrowSpec

(* When the check of a function of any size has ended, the uses it has     *)
(* reported are those of variables that some path leads to from an         *)
(* instruction that moves or deletes them and past none that gives them a  *)
(* value again: merging loses no path and adds none (borrow.cpp:55-93,     *)
(* 96-236).                                                                *)
THEOREM ReportedExactlyAfterMoves == BorrowSpec => []ReportsAreMoves
<1>1. BorrowInit => FixpointInv
  BY LastBlockType
  DEF BorrowInit, FixpointInv, GrowsOrSettles, PassProgress, FewPasses, EndsAtFixpoint
<1>2. BorrowInit => PathInv
  BY DEF BorrowInit, PathInv, MovedHasPath, KnownAtEnd, NoStates, Absent, Moved
<1>3. BInv /\ FixpointInv /\ PathInv => ReportsAreMoves
  BY FinalReports
<1> QED
  BY <1>1, <1>2, <1>3, FixpointInvStep, PathInvStep, InitBInv, NextBInv, PTL
  DEF BorrowSpec

(* In a function of any size whose blocks are left over edges only, the    *)
(* reported uses are the places that read a variable and that control can  *)
(* reach, instruction by instruction, from one that moved or deleted it    *)
(* without a new value in between (borrow.cpp:55-93, 96-236).              *)
THEOREM UsesAreReported ==
  BorrowSpec => [](ControlFollowsEdges => UsesAfterMoveAreReported)
<1>1. BorrowInit => FixpointInv
  BY LastBlockType
  DEF BorrowInit, FixpointInv, GrowsOrSettles, PassProgress, FewPasses, EndsAtFixpoint
<1>2. BorrowInit => PathInv
  BY DEF BorrowInit, PathInv, MovedHasPath, KnownAtEnd, NoStates, Absent, Moved
<1>3. BInv /\ FixpointInv /\ PathInv => (ControlFollowsEdges => UsesAfterMoveAreReported)
  BY ReportsAreUses
<1> QED
  BY <1>1, <1>2, <1>3, FixpointInvStep, PathInvStep, InitBInv, NextBInv, PTL
  DEF BorrowSpec

=============================================================================

--------------------- MODULE OwnershipSoundness_proofs ----------------------
(***************************************************************************)
(* What the walk holds follows what executions do: MisuseIsReported and    *)
(* LoansAreRespected, for programs of any length and nesting. Type         *)
(* correctness is not enough for either: what the walk knows of a path it  *)
(* left behind lies in the snapshots of the blocks around it. Follows and  *)
(* Lends say where. And the converse, ReportsAreDeserved: Warranted says   *)
(* on which path a name that is held consumed is gone.                     *)
(***************************************************************************)
EXTENDS OwnershipChecker_proofs

(* The branches whose snapshots are merged.                                *)
Joining == {"if", "else", "except"}

NamesAt(k) == Elements(blocks[k].names)

(* Scopes declare names apart from each other and from those that ended.   *)
Apart ==
  /\ \A k \in 1 .. Len(blocks) : NamesAt(k) \cap closed = {}
  /\ \A j, k \in 1 .. Len(blocks) : j # k => NamesAt(j) \cap NamesAt(k) = {}

(* fate is among what a block has kept of the truth for later.             *)
Pending(b, x, fate) == fate \in b.entry[x] \cup b.ends[x] \cup b.thrown[x]

(* fate is known of x here or kept for later.                              *)
Heard(x, fate) ==
  fate \in fates[x] \/ \E k \in 1 .. Len(blocks) : Pending(blocks[k], x, fate)

(* Nothing happened yet to a name that is not declared yet.                *)
Untouched == \A x \in Names : Fresh(x) => \A fate : Heard(x, fate) => fate = "live"

Tracked == \A x \in Names : Visible(x) => state[x] # "Absent"

(* The names the walk need not follow.                                     *)
Lost(x) == x \in forgotten \/ x \in closed \/ Reported(x)

Joins(b, x) == b.kind \in Joining /\ b.merged[x] \in Consumed

(* From block k on, the walk knows that x is gone on some path.            *)
Knows(k, x) ==
  state[x] \in Consumed \/ \E j \in k .. Len(blocks) : Joins(blocks[j], x)

Remembers(k, x) ==
  /\ \A fate \in {"moved", "deleted"} : Pending(blocks[k], x, fate) => Knows(k, x)
  /\ blocks[k].kind \in Joining /\ Gone(blocks[k].entry, x)
       => blocks[k].pre[x] \in Consumed

Follows ==
  \A x \in Names : ~ Lost(x) =>
    /\ Gone(fates, x) => state[x] \in Consumed
    /\ \A k \in 1 .. Len(blocks) : Remembers(k, x)

Lends == \A x \in Names : ~ Lost(x) /\ Heard(x, "lent") => borrows[x] > 0

SoundInv ==
  /\ TypeOK /\ Apart /\ Untouched /\ Tracked /\ Follows /\ Lends
  /\ MisuseIsReported /\ LoansAreRespected

-----------------------------------------------------------------------------
(* What the steps of a function have in common.                            *)

(* The walk gives nothing up that it lost or reported.                     *)
Grows ==
  /\ closed \subseteq closed' /\ forgotten \subseteq forgotten'
  /\ reported \subseteq reported'

(* The first m blocks stay, but for what is heard of the step in between.  *)
Kept(m) ==
  /\ m \in 0 .. Len(blocks) /\ m <= Len(blocks')
  /\ \A k \in 1 .. m :
       /\ blocks'[k].kind = blocks[k].kind /\ blocks'[k].pre = blocks[k].pre
       /\ blocks'[k].merged = blocks[k].merged /\ blocks'[k].entry = blocks[k].entry
       /\ \A y \in Names, fate \in Fates :
            Pending(blocks'[k], y, fate) =>
              Pending(blocks[k], y, fate) \/ fate \in fates[y] \cup fates'[y]

(* Nothing that consumes x was ever heard of.                              *)
Clean(x) ==
  /\ \A fate \in {"moved", "deleted"} : ~ Heard(x, fate)
  /\ ~ Gone(fates', x)

(* What the walk knew of x from block m + 1 on it still knows.             *)
Carries(m, x) ==
  (state[x] \in Consumed \/ \E j \in m + 1 .. Len(blocks) : Joins(blocks[j], x))
    => (state'[x] \in Consumed \/ \E j \in m + 1 .. Len(blocks') : Joins(blocks'[j], x))

(* A step that carries what it knew, and remembers in the blocks it makes  *)
(* what it heard, goes on following.                                       *)
LEMMA FollowsStep ==
  ASSUME TypeOK, TypeOK', Follows, Grows, NEW m, Kept(m),
         \A x \in Names : ~ Lost(x)' =>
           /\ Carries(m, x) \/ Clean(x)
           /\ Gone(fates', x) => state'[x] \in Consumed
           /\ \A k \in m + 1 .. Len(blocks') : Remembers(k, x)'
  PROVE  Follows'
<1> SUFFICES ASSUME NEW x \in Names, ~ Lost(x)', NEW k \in 1 .. Len(blocks')
             PROVE  /\ Gone(fates', x) => state'[x] \in Consumed
                    /\ Remembers(k, x)'
  BY DEF Follows
<1>1. Len(blocks) \in Nat /\ Len(blocks') \in Nat
  BY BlocksType DEF TypeOK, Nesting
<1>2. ~ Lost(x)
  BY DEF Lost, Reported, Grows
<1>3. Gone(fates', x) => state'[x] \in Consumed
  OBVIOUS
<1>4. CASE k > m
  BY <1>1, <1>3, <1>4 DEF Kept
<1>5. CASE k <= m
  <2>1. /\ k \in 1 .. Len(blocks)
        /\ blocks'[k].kind = blocks[k].kind /\ blocks'[k].pre = blocks[k].pre
        /\ blocks'[k].entry = blocks[k].entry
    BY <1>1, <1>5 DEF Kept
  <2>2. Remembers(k, x)
    BY <1>2, <2>1 DEF Follows
  <2>3. ASSUME NEW fate \in {"moved", "deleted"}, Pending(blocks'[k], x, fate)
        PROVE  Knows(k, x)'
    <3>1. fate \in Fates
      BY DEF Fates
    <3>2. Pending(blocks[k], x, fate) \/ fate \in fates[x] \/ fate \in fates'[x]
      BY <1>5, <2>3, <3>1 DEF Kept
    <3>3. CASE fate \in fates'[x]
      BY <1>3, <3>3 DEF Gone, Knows
    <3>4. CASE Pending(blocks[k], x, fate) \/ fate \in fates[x]
      <4>1. Heard(x, fate)
        BY <2>1, <3>4 DEF Heard
      <4>2. Knows(k, x)
        BY <1>2, <2>2, <3>4 DEF Remembers, Follows, Gone, Knows
      <4>3. Carries(m, x)
        BY <4>1 DEF Clean
      <4>4. CASE \E j \in k .. m : Joins(blocks[j], x)
        <5>1. PICK j \in k .. m : Joins(blocks[j], x)
          BY <4>4
        <5>2. j \in 1 .. m /\ j \in k .. Len(blocks')
          BY <1>1, <1>5 DEF Kept
        <5>3. Joins(blocks'[j], x)
          BY <5>1, <5>2 DEF Kept, Joins
        <5>4. QED
          BY <5>2, <5>3 DEF Knows
      <4>5. CASE state[x] \in Consumed \/ \E j \in m + 1 .. Len(blocks) : Joins(blocks[j], x)
        <5>1. m + 1 .. Len(blocks') \subseteq k .. Len(blocks')
          BY <1>1, <1>5 DEF Kept
        <5>2. QED
          BY <4>3, <4>5, <5>1 DEF Carries, Knows
      <4>6. \A j \in k .. Len(blocks) : j \in k .. m \/ j \in m + 1 .. Len(blocks)
        BY <1>1, <1>5 DEF Kept
      <4>7. QED
        BY <4>2, <4>4, <4>5, <4>6 DEF Knows
    <3>5. QED
      BY <3>2, <3>3, <3>4
  <2>4. QED
    BY <1>3, <2>1, <2>2, <2>3 DEF Remembers
<1>6. QED
  BY <1>1, <1>4, <1>5 DEF Kept

(* Scopes stay apart when new names are fresh and the names of a scope that *)
(* ends are the only ones that close.                                      *)
LEMMA ScopesStep ==
  ASSUME TypeOK, TypeOK', Apart, NEW new,
         \A y \in new : ~ Visible(y) /\ y \notin closed,
         \A k \in 1 .. Len(blocks') : \A y \in NamesAt(k)' :
           (k <= Len(blocks) /\ y \in NamesAt(k)) \/ (k = Len(blocks') /\ y \in new),
         \A y \in closed' : y \in closed \/
           (y \in NamesAt(Len(blocks)) /\
              \A k \in 1 .. Len(blocks') : y \in NamesAt(k)' => k < Len(blocks))
  PROVE  Apart'
<1>1. Len(blocks) \in Nat \ {0} /\ Len(blocks') \in Nat
  BY BlocksType DEF TypeOK, Nesting
<1>2. \A y \in new : \A k \in 1 .. Len(blocks) : y \notin NamesAt(k)
  BY DEF Visible, DeclaredAt, NamesAt
<1>3. ASSUME NEW k \in 1 .. Len(blocks'), NEW y, y \in NamesAt(k)', y \in closed'
      PROVE  FALSE
  <2>1. CASE y \in closed
    BY <1>1, <1>3, <2>1 DEF Apart
  <2>2. CASE y \in NamesAt(Len(blocks)) /\ k < Len(blocks)
    <3>1. y \notin new
      BY <1>1, <1>2, <2>2
    <3>2. y \in NamesAt(k)
      BY <1>3, <3>1
    <3>3. QED
      BY <1>1, <2>2, <3>2 DEF Apart
  <2>3. QED
    BY <1>3, <2>1, <2>2
<1>4. ASSUME NEW j \in 1 .. Len(blocks'), NEW k \in 1 .. Len(blocks'), j # k,
             NEW y, y \in NamesAt(j)', y \in NamesAt(k)'
      PROVE  FALSE
  <2>1. (j <= Len(blocks) /\ y \in NamesAt(j)) \/ (j = Len(blocks') /\ y \in new)
    BY <1>4
  <2>2. (k <= Len(blocks) /\ y \in NamesAt(k)) \/ (k = Len(blocks') /\ y \in new)
    BY <1>4
  <2>3. QED
    BY <1>1, <1>2, <1>4, <2>1, <2>2 DEF Apart
<1>5. QED
  BY <1>3, <1>4 DEF Apart

(* What is heard after a step was heard before it or is what it did.       *)
News ==
  \A x \in Names : \A fate : Heard(x, fate)' => Heard(x, fate) \/ fate \in fates'[x]

(* A step inside the blocks that are open, on names that are visible.      *)
Stays ==
  /\ Grows /\ Kept(Len(blocks)) /\ Len(blocks') = Len(blocks) /\ News
  /\ closed' = closed
  /\ \A k \in 1 .. Len(blocks) : NamesAt(k)' = NamesAt(k)

LEMMA PassingStays ==
  ASSUME TypeOK, TypeOK', Grows, closed' = closed, NEW x, NEW f \in {fates, fates'},
         blocks' = Passing(x, f)
  PROVE  Stays
<1>1. f \in Truths /\ Len(blocks) \in Nat
  BY BlocksType DEF TypeOK
<1>2. /\ Len(blocks') = Len(blocks)
      /\ \A k \in 1 .. Len(blocks) :
              /\ blocks'[k].kind = blocks[k].kind /\ blocks'[k].names = blocks[k].names
              /\ blocks'[k].pre = blocks[k].pre /\ blocks'[k].merged = blocks[k].merged
              /\ blocks'[k].entry = blocks[k].entry /\ blocks'[k].ends = blocks[k].ends
              /\ \A y \in Names : blocks'[k].thrown[y] \subseteq blocks[k].thrown[y] \cup f[y]
  BY <1>1, PassingBlocks
<1>3. \A k \in 1 .. Len(blocks) : \A y \in Names : \A fate :
        Pending(blocks'[k], y, fate) =>
          Pending(blocks[k], y, fate) \/ fate \in fates[y] \cup fates'[y]
  BY <1>2 DEF Pending
<1>4. Kept(Len(blocks))
  BY <1>1, <1>2, <1>3 DEF Kept
<1>5. News
  BY <1>2, <1>3 DEF News, Heard
<1>6. QED
  BY <1>2, <1>4, <1>5 DEF Stays, NamesAt

(* What a step that stays must do to preserve the invariant.               *)
LEMMA StayingStep ==
  ASSUME SoundInv, TypeOK', Stays,
         \A y \in Names : state[y] # "Absent" => state'[y] # "Absent",
         \A y \in Names : ~ Lost(y)' =>
           /\ state[y] \in Consumed => state'[y] \in Consumed
           /\ Gone(fates', y) => state'[y] \in Consumed
           /\ (Heard(y, "lent") \/ "lent" \in fates'[y]) => borrows'[y] > 0,
         \A y \in Names : \A fate \in fates'[y] :
           fate = "live" \/ Heard(y, fate) \/ Visible(y)
  PROVE  Apart' /\ Untouched' /\ Tracked' /\ Follows' /\ Lends'
<1>1. Len(blocks) \in Nat \ {0}
  BY BlocksType DEF SoundInv
<1>2. \A y : Visible(y)' <=> Visible(y)
  BY DEF Visible, DeclaredAt, Stays, NamesAt
<1>3. Apart'
  BY <1>1 DEF Stays, SoundInv, Apart
<1>4. Untouched'
  BY <1>2 DEF Untouched, SoundInv, Fresh, Stays, News
<1>5. Tracked'
  BY <1>2 DEF Tracked, SoundInv
<1>6. Lends'
  BY DEF Lends, Stays, News
<1>7. Follows'
  <2>1. \A x \in Names : ~ Lost(x)' => Carries(Len(blocks), x)
    BY <1>1 DEF Carries
  <2>2. \A k \in Len(blocks) + 1 .. Len(blocks') : FALSE
    BY <1>1 DEF Stays
  <2>3. QED
    BY <2>1, <2>2, FollowsStep DEF SoundInv, Stays
<1>8. QED
  BY <1>3, <1>4, <1>5, <1>6, <1>7
-----------------------------------------------------------------------------
(* Steps on one name.                                                      *)

(* A name that is visible, and gone or lent where an execution arrives, is *)
(* held consumed or lent, unless it is lost.                               *)
LEMMA HeldWhenVisible ==
  ASSUME SoundInv, NEW x \in Names, Visible(x), ~ Reported(x), x \notin forgotten
  PROVE  /\ Gone(fates, x) => state[x] \in Consumed
         /\ "lent" \in fates[x] => borrows[x] > 0
         /\ state[x] # "Absent"
<1>1. x \notin closed
  <2>1. PICK k \in 1 .. Len(blocks) : x \in NamesAt(k)
    BY DEF Visible, DeclaredAt, NamesAt
  <2>2. QED
    BY <2>1 DEF SoundInv, Apart
<1>2. ~ Lost(x)
  BY <1>1 DEF Lost
<1>3. QED
  BY <1>2 DEF SoundInv, Follows, Lends, Tracked, Heard

(* The part of the invariant that is not about what went wrong.            *)
Agrees == Apart /\ Untouched /\ Tracked /\ Follows /\ Lends

(* What a step does wrong to x is reported or lost.                        *)
LEMMA MisuseStep ==
  ASSUME SoundInv, forgotten \subseteq forgotten', reported \subseteq reported',
         \A y \in Names, act \in {"use", "move", "delete", "borrow", "again", "lent"} :
           <<y, act>> \in misuse' =>
             <<y, act>> \in misuse \/ Reported(y)' \/ y \in forgotten'
  PROVE  MisuseIsReported' /\ LoansAreRespected'
<1>1. \A y \in Names : Reported(y) \/ y \in forgotten => Reported(y)' \/ y \in forgotten'
  BY DEF Reported
<1>2. MisuseIsReported'
  BY <1>1 DEF SoundInv, MisuseIsReported
<1>3. LoansAreRespected'
  BY <1>1 DEF SoundInv, LoansAreRespected
<1>4. QED
  BY <1>2, <1>3

LEMMA UseSound ==
  ASSUME SoundInv, TypeOK', NEW x \in Names, Use(x)
  PROVE  SoundInv'
<1>1. Grows /\ closed' = closed /\ state' = state /\ borrows' = borrows /\ fates' = fates
  BY DEF Use, Grows, Statement, gapVars, checkerVars
<1>2. Stays
  BY <1>1, PassingStays DEF SoundInv, Use
<1>3. Agrees'
  <2>1. \A y \in Names : ~ Lost(y)' => ~ Lost(y)
    BY <1>1 DEF Lost, Reported, Grows
  <2>2. \A y \in Names : ~ Lost(y)' =>
           /\ state[y] \in Consumed => state'[y] \in Consumed
           /\ Gone(fates', y) => state'[y] \in Consumed
           /\ (Heard(y, "lent") \/ "lent" \in fates'[y]) => borrows'[y] > 0
    BY <1>1, <2>1 DEF SoundInv, Follows, Lends, Heard
  <2>3. QED
    BY <1>1, <1>2, <2>2, StayingStep DEF Agrees, Heard
<1>4. ~ Gone(fates, x) \/ Reported(x)' \/ x \in forgotten'
  <2>1. CASE Visible(x)
    <3>1. Gone(fates, x) /\ ~ Reported(x) /\ x \notin forgotten => state[x] \in Consumed
      BY <2>1, HeldWhenVisible
    <3>2. QED
      BY <1>1, <3>1 DEF Use, UseReport, Reported, Reasons, Grows
  <2>2. CASE Fresh(x)
    BY <2>2 DEF SoundInv, Untouched, Heard, Gone
  <2>3. QED
    BY <2>1, <2>2 DEF Use
<1>5. MisuseIsReported' /\ LoansAreRespected'
  BY <1>1, <1>4, MisuseStep DEF Use, Wrong, Grows
<1>6. QED
  BY <1>3, <1>5 DEF SoundInv, Agrees

(* A name that is handed over is marked, reported or lost.                 *)
LEMMA MoveOutSound ==
  ASSUME SoundInv, TypeOK', NEW x \in Names, MoveOut(x)
  PROVE  SoundInv'
<1>1. /\ Grows /\ closed' = closed /\ borrows' = borrows /\ Visible(x)
      /\ fates' = Becomes(fates, x, "moved") /\ state' = AfterMove(state, x)
      /\ MoveReport(state, x) \subseteq reported'
      /\ misuse' = misuse \cup Wrong(fates, x, "move")
  BY DEF MoveOut, Grows, Statement, gapVars
<1>2. Stays
  BY <1>1, PassingStays DEF SoundInv, MoveOut
<1>3. /\ \A y \in Names : y # x => fates'[y] = fates[y] /\ state'[y] = state[y]
      /\ fates'[x] = {"moved"}
      /\ MoveReport(state, x) = {} /\ state[x] # "Absent" => state'[x] = "Moved"
      /\ MoveReport(state, x) # {} => state'[x] = state[x] /\ Reported(x)'
      /\ state[x] = "Absent" => state'[x] = "Absent"
  BY <1>1 DEF AfterMove, MoveReport, Becomes, SoundInv, TypeOK, Truths, Snapshots,
              Reported, Reasons
<1>4. \A y \in Names : ~ Lost(y)' => ~ Lost(y) /\ ~ Reported(y)' /\ y \notin forgotten'
  BY <1>1 DEF Lost, Reported, Grows
<1>5. Agrees'
  <2>1. state[x] # "Absent"
    BY <1>1 DEF SoundInv, Tracked
  <2>2. \A y \in Names : ~ Lost(y)' =>
           /\ state[y] \in Consumed => state'[y] \in Consumed
           /\ Gone(fates', y) => state'[y] \in Consumed
           /\ (Heard(y, "lent") \/ "lent" \in fates'[y]) => borrows'[y] > 0
    BY <1>1, <1>3, <1>4, <2>1 DEF SoundInv, Follows, Lends, Heard, Gone, Consumed
  <2>3. QED
    BY <1>1, <1>2, <1>3, <2>1, <2>2, StayingStep DEF Agrees, Heard
<1>6. Wrong(fates, x, "move") # {} => Reported(x)' \/ x \in forgotten'
  BY <1>1, <1>3, HeldWhenVisible
     DEF Wrong, Reported, Reasons, MoveReport, Grows, Consumed
<1>7. MisuseIsReported' /\ LoansAreRespected'
  BY <1>1, <1>6, MisuseStep DEF Wrong, Grows
<1>8. QED
  BY <1>5, <1>7 DEF SoundInv, Agrees
LEMMA PassArgumentSound ==
  ASSUME SoundInv, TypeOK', NEW x \in Names, PassArgument(x)
  PROVE  SoundInv'
<1>1. /\ Grows /\ closed' = closed /\ borrows' = borrows /\ Visible(x)
      /\ fates' = Becomes(fates, x, "moved")
      /\ misuse' = misuse \cup Wrong(fates, x, "move")
  BY DEF PassArgument, Grows, Statement
<1>2. Stays
  BY <1>1, PassingStays DEF SoundInv, PassArgument
<1>3. /\ \A y \in Names : y # x => fates'[y] = fates[y] /\ state'[y] = state[y]
      /\ fates'[x] = {"moved"}
      /\ state[x] \in Consumed => state'[x] = state[x] /\ Reported(x)'
      /\ state[x] = "Borrowed" => state'[x] = "Borrowed" /\ x \in forgotten'
      /\ state[x] = "Owned" /\ borrows[x] > 0 => state'[x] = "Owned" /\ Reported(x)'
      /\ state[x] = "Owned" /\ ~ borrows[x] > 0 => state'[x] = "Moved"
  BY <1>1 DEF PassArgument, AfterMove, MoveReport, UseReport, Becomes, SoundInv, TypeOK,
              Truths, Snapshots, Reported, Reasons, Consumed
<1>4. \A y \in Names : ~ Lost(y)' => ~ Lost(y) /\ ~ Reported(y)' /\ y \notin forgotten'
  BY <1>1 DEF Lost, Reported, Grows
<1>5. /\ state[x] # "Absent"
      /\ state[x] \in Consumed \/ state[x] = "Borrowed" \/ state[x] = "Owned"
  BY <1>1 DEF SoundInv, Tracked, TypeOK, Snapshots, States, Consumed
<1>6. Agrees'
  <2>1. \A y \in Names : ~ Lost(y)' =>
           /\ state[y] \in Consumed => state'[y] \in Consumed
           /\ Gone(fates', y) => state'[y] \in Consumed
           /\ (Heard(y, "lent") \/ "lent" \in fates'[y]) => borrows'[y] > 0
    BY <1>1, <1>3, <1>4, <1>5 DEF SoundInv, Follows, Lends, Heard, Gone, Consumed
  <2>2. \A y \in Names : state[y] # "Absent" => state'[y] # "Absent"
    BY <1>3, <1>5
  <2>3. QED
    BY <1>1, <1>2, <1>3, <2>1, <2>2, StayingStep DEF Agrees, Heard
<1>7. Wrong(fates, x, "move") # {} => Reported(x)' \/ x \in forgotten'
  BY <1>1, <1>3, <1>5, HeldWhenVisible DEF Wrong, Reported, Grows, Consumed
<1>8. MisuseIsReported' /\ LoansAreRespected'
  BY <1>1, <1>7, MisuseStep DEF Wrong, Grows
<1>9. QED
  BY <1>6, <1>8 DEF SoundInv, Agrees

LEMMA BorrowSound ==
  ASSUME SoundInv, TypeOK', NEW x \in Names, NEW n \in 1 .. 2, Borrow(x, n)
  PROVE  SoundInv'
<1> DEFINE refused == state[x] = "Moved" \/ exclusive[x]
<1>1. /\ Grows /\ closed' = closed /\ Visible(x)
      /\ fates' = [fates EXCEPT ![x] = {IF g = "live" THEN "lent" ELSE g : g \in @}]
      /\ misuse' = misuse \cup Wrong(fates, x, "borrow")
  BY DEF Borrow, Grows, Statement
<1>2. Stays
  BY <1>1, PassingStays DEF SoundInv, Borrow
<1>3. /\ \A y \in Names : y # x => /\ fates'[y] = fates[y] /\ state'[y] = state[y]
                                 /\ borrows'[y] = borrows[y]
      /\ fates'[x] = {IF g = "live" THEN "lent" ELSE g : g \in fates[x]}
      /\ refused => state'[x] = state[x] /\ borrows'[x] = borrows[x] /\ Reported(x)'
      /\ ~ refused => state'[x] = "Borrowed" /\ borrows'[x] = borrows[x] + n
      /\ state[x] = "Dropped" => x \in forgotten'
      /\ state[x] = "Moved" => Reported(x)'
  BY <1>1 DEF Borrow, AfterBorrow, SoundInv, TypeOK, Truths, Snapshots, Reported, Reasons
<1>4. \A y \in Names : ~ Lost(y)' => ~ Lost(y) /\ ~ Reported(y)' /\ y \notin forgotten'
  BY <1>1 DEF Lost, Reported, Grows
<1>5. state[x] # "Absent" /\ borrows[x] + n > 0
  BY <1>1 DEF SoundInv, Tracked, TypeOK
<1>6. Gone(fates', x) <=> Gone(fates, x)
  BY <1>3 DEF Gone
<1>7. Agrees'
  <2>1. \A y \in Names : ~ Lost(y)' =>
           /\ state[y] \in Consumed => state'[y] \in Consumed
           /\ Gone(fates', y) => state'[y] \in Consumed
    BY <1>3, <1>4, <1>6 DEF SoundInv, Follows, Consumed, Gone
  <2>2. \A y \in Names : ~ Lost(y)' =>
           ((Heard(y, "lent") \/ "lent" \in fates'[y]) => borrows'[y] > 0)
    BY <1>3, <1>4, <1>5 DEF SoundInv, Lends, Heard
  <2>3. \A y \in Names : state[y] # "Absent" => state'[y] # "Absent"
    BY <1>3, <1>5
  <2>4. QED
    BY <1>1, <1>2, <1>3, <2>1, <2>2, <2>3, StayingStep DEF Agrees, Heard
<1>8. Wrong(fates, x, "borrow") # {} => Reported(x)' \/ x \in forgotten'
  BY <1>1, <1>3, HeldWhenVisible DEF Wrong, Reported, Grows, Consumed
<1>9. MisuseIsReported' /\ LoansAreRespected'
  BY <1>1, <1>8, MisuseStep DEF Wrong, Grows
<1>10. QED
  BY <1>7, <1>9 DEF SoundInv, Agrees

LEMMA AssignSound ==
  ASSUME SoundInv, TypeOK', NEW x \in Names, Assign(x)
  PROVE  SoundInv'
<1>1. /\ Grows /\ closed' = closed /\ Visible(x) /\ state' = state
      /\ borrows' = borrows /\ misuse' = misuse
      /\ fates' = [fates EXCEPT ![x] = {IF g = "lent" THEN g ELSE "live" : g \in @}]
  BY DEF Assign, Grows, Statement, checkerVars
<1>2. Stays
  BY <1>1, PassingStays DEF SoundInv, Assign
<1>3. /\ \A y \in Names : y # x => fates'[y] = fates[y]
      /\ fates'[x] = {IF g = "lent" THEN g ELSE "live" : g \in fates[x]}
  BY <1>1 DEF SoundInv, TypeOK, Truths
<1>4. \A y \in Names : ~ Lost(y)' => ~ Lost(y)
  BY <1>1 DEF Lost, Reported, Grows
<1>5. ~ Gone(fates', x) /\ ("lent" \in fates'[x] => "lent" \in fates[x])
  BY <1>3 DEF Gone
<1>6. Agrees'
  <2>1. \A y \in Names : ~ Lost(y)' =>
           /\ state[y] \in Consumed => state'[y] \in Consumed
           /\ Gone(fates', y) => state'[y] \in Consumed
           /\ (Heard(y, "lent") \/ "lent" \in fates'[y]) => borrows'[y] > 0
    BY <1>1, <1>3, <1>4, <1>5 DEF SoundInv, Follows, Lends, Heard, Gone
  <2>2. QED
    BY <1>1, <1>2, <1>3, <2>1, StayingStep DEF Agrees, Heard
<1>7. MisuseIsReported' /\ LoansAreRespected'
  BY <1>1, MisuseStep DEF Grows
<1>8. QED
  BY <1>6, <1>7 DEF SoundInv, Agrees

LEMMA DeleteSound ==
  ASSUME SoundInv, TypeOK', NEW x \in Names, Delete(x)
  PROVE  SoundInv'
<1> DEFINE refused == state[x] \in Consumed \/ borrows[x] > 0
<1>1. /\ Grows /\ closed' = closed /\ Visible(x) /\ borrows' = borrows
      /\ fates' = Becomes(fates, x, "deleted")
      /\ misuse' = misuse \cup Wrong(fates, x, "delete")
  BY DEF Delete, Grows, Statement
<1>2. Stays
  BY <1>1, PassingStays DEF SoundInv, Delete
<1>3. /\ refused => state' = state /\ Reported(x)'
      /\ ~ refused => state' = DropValue(state, x) /\ Revived(state, state') \subseteq forgotten'
      /\ fates'[x] = {"deleted"}
      /\ \A y \in Names : y # x => fates'[y] = fates[y]
  BY <1>1 DEF Delete, Becomes, SoundInv, TypeOK, Truths, Reported, Reasons
<1>4. \A y \in Names : ~ Lost(y)' => ~ Lost(y) /\ ~ Reported(y)' /\ y \notin forgotten'
  BY <1>1 DEF Lost, Reported, Grows
<1>5. \A y \in Names :
        /\ state[y] # "Absent" => state'[y] # "Absent"
        /\ y \notin forgotten' /\ state[y] \in Consumed => state'[y] \in Consumed
        /\ ~ refused => state'[x] = "Dropped"
  BY <1>3 DEF DropValue, Revived, Consumed
<1>6. Agrees'
  <2>1. \A y \in Names : ~ Lost(y)' =>
           /\ state[y] \in Consumed => state'[y] \in Consumed
           /\ Gone(fates', y) => state'[y] \in Consumed
    BY <1>3, <1>4, <1>5 DEF SoundInv, Follows, Gone, Consumed
  <2>2. \A y \in Names : ~ Lost(y)' =>
           ((Heard(y, "lent") \/ "lent" \in fates'[y]) => borrows'[y] > 0)
    BY <1>1, <1>3, <1>4 DEF SoundInv, Lends, Heard
  <2>3. QED
    BY <1>1, <1>2, <1>3, <1>5, <2>1, <2>2, StayingStep DEF Agrees, Heard
<1>7. Wrong(fates, x, "delete") # {} => Reported(x)' \/ x \in forgotten'
  BY <1>1, <1>3, HeldWhenVisible DEF Wrong, Reported, Grows
<1>8. MisuseIsReported' /\ LoansAreRespected'
  BY <1>1, <1>7, MisuseStep DEF Wrong, Grows
<1>9. QED
  BY <1>6, <1>8 DEF SoundInv, Agrees

(* Steps that end the execution, and leave the walk where it is.           *)
LEMMA LeavingSound ==
  ASSUME SoundInv, TypeOK',
         Leave \/ Break \/ \E x \in Names : ReturnReference(x)
  PROVE  SoundInv'
<1>1. /\ Grows /\ closed' = closed /\ fates' = Nowhere /\ misuse' = misuse
      /\ \A y \in Names : borrows'[y] >= borrows[y]
      /\ \A y \in Names : ~ Reported(y)' => state'[y] = state[y]
      /\ \A y \in Names : state[y] # "Absent" => state'[y] # "Absent"
  <2>1. CASE Leave
    BY <2>1 DEF Leave, Grows, Statement, checkerVars, SoundInv, TypeOK
  <2>2. CASE Break
    BY <2>2 DEF Break, Grows, Statement, checkerVars, SoundInv, TypeOK
  <2>3. ASSUME NEW x \in Names, ReturnReference(x)
        PROVE  /\ Grows /\ closed' = closed /\ fates' = Nowhere /\ misuse' = misuse
               /\ \A y \in Names : borrows'[y] >= borrows[y]
               /\ \A y \in Names : ~ Reported(y)' => state'[y] = state[y]
               /\ \A y \in Names : state[y] # "Absent" => state'[y] # "Absent"
    <3>1. Reported(x)'
      BY <2>3 DEF ReturnReference, Reported, Reasons
    <3>2. QED
      BY <2>3, <3>1 DEF ReturnReference, Grows, Statement, AfterBorrow, SoundInv, TypeOK,
                        Snapshots
  <2>4. QED
    BY <2>1, <2>2, <2>3
<1>2. \A y \in Names : fates'[y] = {}
  BY <1>1 DEF Nowhere
<1>3. Stays
  <2>1. CASE blocks' = blocks
    BY <1>1, <2>1, BlocksType DEF Stays, Kept, News, Heard, NamesAt, SoundInv
  <2>2. CASE Break
    <3>1. PICK k \in DOMAIN blocks : blocks' = [blocks EXCEPT ![k].ends = Either(@, fates)]
      BY <2>2 DEF Break
    <3>2. /\ Len(blocks') = Len(blocks) /\ Len(blocks) \in Nat
          /\ \A j \in 1 .. Len(blocks) : blocks[j] \in Block
          /\ \A j \in 1 .. Len(blocks) : j # k => blocks'[j] = blocks[j]
          /\ k \in 1 .. Len(blocks)
          /\ blocks'[k] = [blocks[k] EXCEPT !.ends = Either(blocks[k].ends, fates)]
      BY <3>1, BlocksType DEF SoundInv
    <3>3. /\ blocks'[k].kind = blocks[k].kind /\ blocks'[k].pre = blocks[k].pre
          /\ blocks'[k].names = blocks[k].names /\ blocks'[k].merged = blocks[k].merged
          /\ blocks'[k].entry = blocks[k].entry /\ blocks'[k].thrown = blocks[k].thrown
          /\ blocks'[k].ends = Either(blocks[k].ends, fates)
      BY <3>2 DEF Block
    <3>4. \A y \in Names : \A fate :
            Pending(blocks'[k], y, fate) => Pending(blocks[k], y, fate) \/ fate \in fates[y]
      BY <3>3 DEF Pending, Either
    <3>5. ASSUME NEW j \in 1 .. Len(blocks)
          PROVE  /\ blocks'[j].kind = blocks[j].kind /\ blocks'[j].pre = blocks[j].pre
                 /\ blocks'[j].merged = blocks[j].merged
                 /\ blocks'[j].entry = blocks[j].entry
                 /\ blocks'[j].names = blocks[j].names
                 /\ \A y \in Names : \A fate :
                      Pending(blocks'[j], y, fate) =>
                        Pending(blocks[j], y, fate) \/ fate \in fates[y] \cup fates'[y]
      <4>1. CASE j = k
        BY <3>3, <3>4, <4>1
      <4>2. CASE j # k
        BY <3>2, <4>2
      <4>3. QED
        BY <4>1, <4>2
    <3>6. Kept(Len(blocks))
      BY <3>2, <3>5 DEF Kept
    <3>7. News
      BY <3>2, <3>5 DEF News, Heard
    <3>8. QED
      BY <1>1, <3>2, <3>5, <3>6, <3>7 DEF Stays, NamesAt
  <2>3. QED
    BY <2>1, <2>2 DEF Leave, ReturnReference
<1>4. \A y \in Names : ~ Lost(y)' => ~ Lost(y) /\ ~ Reported(y)'
  BY <1>1 DEF Lost, Reported, Grows
<1>5. Agrees'
  <2>1. \A y \in Names : ~ Lost(y)' =>
           /\ state[y] \in Consumed => state'[y] \in Consumed
           /\ Gone(fates', y) => state'[y] \in Consumed
    BY <1>1, <1>2, <1>4 DEF Gone
  <2>2. \A y \in Names : ~ Lost(y)' =>
           ((Heard(y, "lent") \/ "lent" \in fates'[y]) => borrows'[y] > 0)
    BY <1>1, <1>2, <1>4 DEF SoundInv, Lends, TypeOK
  <2>3. QED
    BY <1>1, <1>2, <1>3, <2>1, <2>2, StayingStep DEF Agrees, Heard
<1>6. MisuseIsReported' /\ LoansAreRespected'
  BY <1>1, MisuseStep DEF Grows
<1>7. QED
  BY <1>5, <1>6 DEF SoundInv, Agrees
LEMMA ElementsOfAppend ==
  ASSUME NEW S, NEW s \in Seq(S), NEW e
  PROVE  Elements(Append(s, e)) = Elements(s) \cup {e}
<1>1. /\ Len(s) \in Nat /\ DOMAIN Append(s, e) = 1 .. Len(s) + 1
      /\ DOMAIN s = 1 .. Len(s)
      /\ \A k \in 1 .. Len(s) : Append(s, e)[k] = s[k]
      /\ Append(s, e)[Len(s) + 1] = e
  OBVIOUS
<1>2. Elements(Append(s, e)) \subseteq Elements(s) \cup {e}
  BY <1>1 DEF Elements
<1>3. Elements(s) \subseteq Elements(Append(s, e))
  BY <1>1 DEF Elements
<1>4. e \in Elements(Append(s, e))
  BY <1>1 DEF Elements
<1>5. QED
  BY <1>2, <1>3, <1>4

(* A declaration makes a clean name, and may move another one.             *)
LEMMA DeclareSound ==
  ASSUME SoundInv, TypeOK', NEW x \in Names, NEW y \in Names \cup {NoName},
         NEW isMutable \in BOOLEAN, NEW garbage \in BOOLEAN,
         Declare(x, y, isMutable, garbage)
  PROVE  SoundInv'
<1> DEFINE p == Passing(y, fates')
<1>1. /\ Grows /\ closed' = closed /\ Fresh(x) /\ (y # NoName => Visible(y))
      /\ forgotten' = forgotten
      /\ \A z \in Names : z # x => borrows'[z] = borrows[z]
  BY DEF Declare, Grows, Statement, gapVars, SoundInv, TypeOK
<1>2. y # x /\ (y # NoName => y \in Names) /\ (y \in Names => Visible(y))
  BY <1>1, OwnershipAssumption DEF Fresh
<1>3. /\ \A z \in Names : z # x /\ z # y => fates'[z] = fates[z] /\ state'[z] = state[z]
      /\ fates'[x] = {"live"} /\ state'[x] = "Owned"
  BY <1>2 DEF Declare, Consume, AfterMove, Becomes, SoundInv, TypeOK, Truths, Snapshots
<1>4. y \in Names =>
      /\ y \notin Moving => fates'[y] = fates[y] /\ state'[y] = state[y]
      /\ y \in Moving => fates'[y] = {"moved"}
      /\ y \in Moving /\ MoveReport(state, y) = {} /\ state[y] # "Absent"
           => state'[y] = "Moved"
      /\ MoveReport(state, y) # {} => state'[y] = state[y]
      /\ y \in Moving /\ MoveReport(state, y) # {} => Reported(y)'
      /\ state[y] \in Consumed => Reported(y)' /\ state'[y] = state[y]
      /\ state[y] # "Absent" => state'[y] # "Absent"
  BY <1>2, OwnershipAssumption
     DEF Declare, Consume, ConsumeReport, UseReport, MoveReport, AfterMove, Becomes,
         SoundInv, TypeOK, Truths, Snapshots, Reported, Reasons, Consumed
<1>5. /\ Len(blocks) \in Nat \ {0} /\ p \in Seq(Block) /\ Len(p) = Len(blocks)
      /\ blocks' = [p EXCEPT ![Len(blocks)].names = Append(@, x)]
      /\ \A k \in 1 .. Len(blocks) :
              /\ p[k] \in Block
              /\ p[k].kind = blocks[k].kind /\ p[k].names = blocks[k].names
              /\ p[k].pre = blocks[k].pre /\ p[k].merged = blocks[k].merged
              /\ p[k].entry = blocks[k].entry /\ p[k].ends = blocks[k].ends
              /\ \A z \in Names : p[k].thrown[z] \subseteq blocks[k].thrown[z] \cup fates'[z]
  <2>1. TypeOK /\ fates' \in Truths
    BY DEF SoundInv, TypeOK
  <2>2. Len(blocks) \in Nat \ {0}
    BY <2>1, BlocksType
  <2>3. blocks' = [p EXCEPT ![Len(blocks)].names = Append(@, x)]
    BY DEF Declare
  <2>4. QED
    BY <2>1, <2>2, <2>3, PassingBlocks
<1> HIDE DEF p
<1>6. Len(blocks') = Len(blocks)
  BY <1>5
<1>7. ASSUME NEW k \in 1 .. Len(blocks)
      PROVE  /\ blocks'[k].kind = blocks[k].kind /\ blocks'[k].pre = blocks[k].pre
             /\ blocks'[k].merged = blocks[k].merged /\ blocks'[k].entry = blocks[k].entry
             /\ \A z \in Names : \A fate :
                  Pending(blocks'[k], z, fate) =>
                    Pending(blocks[k], z, fate) \/ fate \in fates[z] \cup fates'[z]
             /\ NamesAt(k)' = IF k = Len(blocks) THEN NamesAt(k) \cup {x} ELSE NamesAt(k)
  <2> DEFINE b == p[k]
  <2>1. b \in Block /\ b.names \in Seq(Names)
    BY <1>5 DEF Block
  <2>2. blocks'[k] = IF k = Len(blocks) THEN [b EXCEPT !.names = Append(b.names, x)] ELSE b
    <3>1. /\ p \in Seq(Block) /\ k \in 1 .. Len(p) /\ Len(p) = Len(blocks)
          /\ blocks' = [p EXCEPT ![Len(p)] = [p[Len(p)] EXCEPT !.names = Append(@, x)]]
      BY <1>5
    <3>2. blocks'[k] = IF k = Len(p) THEN [p[Len(p)] EXCEPT !.names = Append(@, x)] ELSE p[k]
      BY <3>1
    <3>3. QED
      BY <3>1, <3>2
  <2> HIDE DEF b
  <2>3. /\ blocks'[k].kind = b.kind /\ blocks'[k].pre = b.pre
        /\ blocks'[k].merged = b.merged /\ blocks'[k].entry = b.entry
        /\ blocks'[k].ends = b.ends /\ blocks'[k].thrown = b.thrown
        /\ blocks'[k].names = IF k = Len(blocks) THEN Append(b.names, x) ELSE b.names
    BY <2>1, <2>2 DEF Block
  <2>4. /\ b.kind = blocks[k].kind /\ b.names = blocks[k].names
        /\ b.pre = blocks[k].pre /\ b.merged = blocks[k].merged
        /\ b.entry = blocks[k].entry /\ b.ends = blocks[k].ends
        /\ \A z \in Names : b.thrown[z] \subseteq blocks[k].thrown[z] \cup fates'[z]
    BY <1>5 DEF b
  <2>5. Elements(Append(b.names, x)) = Elements(b.names) \cup {x}
    BY <2>1, ElementsOfAppend
  <2>6. NamesAt(k)' = IF k = Len(blocks) THEN NamesAt(k) \cup {x} ELSE NamesAt(k)
    BY <2>3, <2>4, <2>5 DEF NamesAt
  <2>7. \A z \in Names : \A fate :
                  Pending(blocks'[k], z, fate) =>
                    Pending(blocks[k], z, fate) \/ fate \in fates[z] \cup fates'[z]
    BY <2>3, <2>4 DEF Pending
  <2>8. QED
    BY <2>3, <2>4, <2>6, <2>7
<1>8. Kept(Len(blocks))
  <2>1. \A k \in 1 .. Len(blocks) :
          /\ blocks'[k].kind = blocks[k].kind /\ blocks'[k].pre = blocks[k].pre
          /\ blocks'[k].merged = blocks[k].merged /\ blocks'[k].entry = blocks[k].entry
          /\ \A z \in Names, fate \in Fates :
               Pending(blocks'[k], z, fate) =>
                 Pending(blocks[k], z, fate) \/ fate \in fates[z] \cup fates'[z]
    BY <1>7
  <2>2. Len(blocks) \in 0 .. Len(blocks) /\ Len(blocks) <= Len(blocks')
    BY <1>5, <1>6
  <2>3. QED
    BY <2>1, <2>2 DEF Kept
<1>9. News
  BY <1>6, <1>7 DEF News, Heard
<1>10. \A z : Visible(z)' <=> Visible(z) \/ z = x
  <2>1. \A z : Visible(z) <=> \E k \in 1 .. Len(blocks) : z \in NamesAt(k)
    BY DEF Visible, DeclaredAt, NamesAt
  <2>2. \A z : Visible(z)' <=> \E k \in 1 .. Len(blocks') : z \in NamesAt(k)'
    BY DEF Visible, DeclaredAt, NamesAt
  <2>3. Len(blocks) \in 1 .. Len(blocks)
    BY <1>5
  <2>4. QED
    BY <1>6, <1>7, <2>1, <2>2, <2>3
<1>11. Apart'
  <2>1. \A z \in {x} : ~ Visible(z) /\ z \notin closed
    BY <1>1 DEF Fresh
  <2>2. \A k \in 1 .. Len(blocks') : \A z \in NamesAt(k)' :
           (k <= Len(blocks) /\ z \in NamesAt(k)) \/ (k = Len(blocks') /\ z \in {x})
    BY <1>5, <1>6, <1>7
  <2>3. \A z \in closed' : z \in closed
    BY <1>1
  <2>4. QED
    BY <2>1, <2>2, <2>3, ScopesStep DEF SoundInv
<1>12. Untouched'
  <2> SUFFICES ASSUME NEW z \in Names, Fresh(z)', NEW fate, Heard(z, fate)'
               PROVE  fate = "live"
    BY DEF Untouched
  <2>1. Fresh(z) /\ z # x /\ (y \in Names => z # y)
    BY <1>1, <1>2, <1>10 DEF Fresh
  <2>2. Heard(z, fate)
    BY <1>2, <1>3, <1>9, <2>1 DEF News, Heard
  <2>3. QED
    BY <2>1, <2>2 DEF SoundInv, Untouched
<1>13. Tracked'
  BY <1>2, <1>3, <1>4, <1>10 DEF Tracked, SoundInv
<1>14. \A z \in Names : ~ Lost(z)' => ~ Lost(z) /\ ~ Reported(z)'
  BY <1>1 DEF Lost, Reported, Grows
<1>15. \A fate : Heard(x, fate) => fate = "live"
  BY <1>1 DEF SoundInv, Untouched
<1>16. Lends'
  <2> SUFFICES ASSUME NEW z \in Names, ~ Lost(z)', Heard(z, "lent")' PROVE borrows'[z] > 0
    BY DEF Lends
  <2>1. Heard(z, "lent") \/ "lent" \in fates'[z]
    BY <1>9 DEF News
  <2>2. z # x
    BY <1>3, <1>15, <2>1
  <2>3. Heard(z, "lent")
    BY <1>2, <1>3, <1>4, <2>1, <2>2 DEF Heard
  <2>4. QED
    BY <1>1, <1>14, <2>2, <2>3 DEF SoundInv, Lends
<1>17. Follows'
  <2>1. ASSUME NEW z \in Names, ~ Lost(z)'
        PROVE  /\ Carries(Len(blocks), z) \/ Clean(z)
               /\ Gone(fates', z) => state'[z] \in Consumed
    <3>1. CASE z = x
      BY <1>3, <1>15, <3>1 DEF Clean, Gone
    <3>2. CASE z # x /\ z # y
      <4>1. state[z] \in Consumed => state'[z] \in Consumed
        BY <1>3, <3>2
      <4>2. QED
        BY <1>3, <1>5, <1>14, <2>1, <3>2, <4>1 DEF Carries, SoundInv, Follows, Gone
    <3>3. CASE z = y
      <4>1. state[z] # "Absent" /\ ~ Reported(z)' /\ state[z] \notin Consumed
        BY <1>1, <1>2, <1>4, <1>14, <2>1, <3>3 DEF SoundInv, Tracked
      <4>2. Gone(fates', z) => state'[z] \in Consumed
        BY <1>4, <1>14, <2>1, <3>3, <4>1 DEF SoundInv, Follows, Gone, Consumed
      <4>3. QED
        BY <1>5, <4>1, <4>2 DEF Carries
    <3>4. QED
      BY <3>1, <3>2, <3>3
  <2>2. \A k \in Len(blocks) + 1 .. Len(blocks') : FALSE
    BY <1>5, <1>6
  <2>3. QED
    BY <1>1, <1>8, <2>1, <2>2, FollowsStep DEF SoundInv
<1>18. y = NoName \/ (y \in Names /\
         (Wrong(fates, y, IF y \in Moving THEN "move" ELSE "use") # {} =>
            Reported(y)' \/ y \in forgotten'))
  BY <1>1, <1>2, <1>4, HeldWhenVisible
     DEF Wrong, Reported, Reasons, MoveReport, Grows, Consumed, Declare, ConsumeReport, UseReport
<1>19. MisuseIsReported' /\ LoansAreRespected'
  <2>1. misuse' = misuse \cup (IF y = NoName THEN {}
                               ELSE Wrong(fates, y, IF y \in Moving THEN "move" ELSE "use"))
    BY DEF Declare
  <2>2. \A act, pair : pair \in Wrong(fates, y, act) => pair[1] = y
    BY DEF Wrong
  <2>3. QED
    BY <1>1, <1>18, <2>1, <2>2, MisuseStep DEF Grows
<1>20. QED
  BY <1>11, <1>12, <1>13, <1>16, <1>17, <1>19 DEF SoundInv
-----------------------------------------------------------------------------
(* Steps that open a block.                                                *)

(* A new block remembers what is true as it opens.                         *)
LEMMA OpeningStep ==
  ASSUME SoundInv, TypeOK', Grows, closed' = closed, misuse' = misuse,
         NEW b \in Block, blocks' = Append(blocks, b),
         b.entry = fates', b.ends = Nowhere, b.thrown = Nowhere \/ b.thrown = fates',
         b.merged = Untracked,
         NEW new, \A y \in new : Fresh(y), Elements(b.names) = new,
         \A y \in Names \ new : /\ fates'[y] = fates[y] /\ state'[y] = state[y]
                                /\ borrows'[y] = borrows[y] /\ b.pre[y] = state[y],
         \A y \in Names : y \in new => fates'[y] = {"live"} /\ state'[y] = "Owned"
  PROVE  SoundInv'
<1>0. PICK n : n = Len(blocks)
  OBVIOUS
<1>1. /\ n \in Nat \ {0} /\ Len(blocks') = n + 1 /\ blocks'[n + 1] = b
      /\ \A k \in 1 .. n : blocks'[k] = blocks[k]
  BY <1>0, BlocksType DEF SoundInv, TypeOK
<1>2. Kept(n)
  BY <1>0, <1>1 DEF Kept
<1>3. ASSUME NEW y \in Names, NEW fate PROVE Pending(b, y, fate) <=> fate \in fates'[y]
  BY DEF Pending, Nowhere
<1>4. News
  <2>1. \A k \in 1 .. Len(blocks') : k \in 1 .. n \/ k = n + 1
    BY <1>1
  <2>2. QED
    BY <1>0, <1>1, <1>3, <2>1 DEF News, Heard
<1>5. \A k \in 1 .. n : NamesAt(k)' = NamesAt(k)
  BY <1>1 DEF NamesAt
<1>6. NamesAt(n + 1)' = new
  BY <1>1 DEF NamesAt
<1>7. \A k \in 1 .. Len(blocks') : k \in 1 .. n \/ k = n + 1
  BY <1>1
<1>8. Apart'
  <2>1. \A y \in new : ~ Visible(y) /\ y \notin closed
    BY DEF Fresh
  <2>2. \A k \in 1 .. Len(blocks') : \A y \in NamesAt(k)' :
           (k <= Len(blocks) /\ y \in NamesAt(k)) \/ (k = Len(blocks') /\ y \in new)
    BY <1>0, <1>1, <1>5, <1>6, <1>7
  <2>3. QED
    BY <2>1, <2>2, ScopesStep DEF SoundInv
<1>9. \A y : Visible(y)' <=> Visible(y) \/ y \in new
  <2>1. \A y : Visible(y) <=> \E k \in 1 .. n : y \in NamesAt(k)
    BY <1>0 DEF Visible, DeclaredAt, NamesAt
  <2>2. \A y : Visible(y)' <=> \E k \in 1 .. Len(blocks') : y \in NamesAt(k)'
    BY DEF Visible, DeclaredAt, NamesAt
  <2>3. n + 1 \in 1 .. Len(blocks') /\ \A k \in 1 .. n : k \in 1 .. Len(blocks')
    BY <1>1
  <2>4. QED
    BY <1>5, <1>6, <1>7, <2>1, <2>2, <2>3
<1>10. \A y \in Names : \A fate : Heard(y, fate)' => Heard(y, fate) \/ y \in new
  BY <1>4 DEF News, Heard
<1>11. Untouched'
  BY <1>9, <1>10 DEF Untouched, Fresh, SoundInv
<1>12. Tracked'
  BY <1>9 DEF Tracked, SoundInv
<1>13. \A y \in Names : ~ Lost(y)' => ~ Lost(y)
  BY DEF Lost, Reported, Grows
<1>14. \A y \in Names : y \in new => \A fate : Heard(y, fate) => fate = "live"
  BY DEF SoundInv, Untouched
<1>15. Lends'
  <2> SUFFICES ASSUME NEW y \in Names, ~ Lost(y)', Heard(y, "lent")' PROVE borrows'[y] > 0
    BY DEF Lends
  <2>1. y \notin new
    BY <1>4, <1>14 DEF News
  <2>2. QED
    BY <1>10, <1>13, <2>1 DEF SoundInv, Lends
<1>16. Follows'
  <2>1. ASSUME NEW y \in Names, ~ Lost(y)'
        PROVE  /\ Carries(n, y) \/ Clean(y)
               /\ Gone(fates', y) => state'[y] \in Consumed
               /\ \A k \in n + 1 .. Len(blocks') : Remembers(k, y)'
    <3>1. Gone(fates', y) => state'[y] \in Consumed /\ y \notin new
      BY <1>13, <2>1 DEF SoundInv, Follows, Gone
    <3>2. Carries(n, y) \/ Clean(y)
      <4>1. CASE y \in new
        BY <1>14, <4>1, <3>1 DEF Clean
      <4>2. CASE y \notin new
        BY <1>0, <1>1, <4>2 DEF Carries
      <4>3. QED
        BY <4>1, <4>2
    <3>3. Remembers(n + 1, y)'
      <4>1. ASSUME NEW fate \in {"moved", "deleted"}, Pending(blocks'[n + 1], y, fate)
            PROVE  Knows(n + 1, y)'
        BY <1>1, <1>3, <3>1, <4>1 DEF Knows, Gone
      <4>2. Gone(blocks'[n + 1].entry, y) => blocks'[n + 1].pre[y] \in Consumed
        BY <1>1, <3>1
      <4>3. QED
        BY <4>1, <4>2 DEF Remembers
    <3>4. \A k \in n + 1 .. Len(blocks') : k = n + 1
      BY <1>1
    <3>5. QED
      BY <3>1, <3>2, <3>3, <3>4
  <2>2. QED
    BY <1>0, <1>2, <2>1, FollowsStep DEF SoundInv
<1>17. MisuseIsReported' /\ LoansAreRespected'
  BY MisuseStep DEF Grows
<1>18. QED
  BY <1>8, <1>11, <1>12, <1>15, <1>16, <1>17 DEF SoundInv

LEMMA OpenSound ==
  ASSUME SoundInv, TypeOK', NEW kind \in Kinds, Open(kind)
  PROVE  SoundInv'
<1> DEFINE b == NewBlock(kind, <<>>, state, fates)
<1>1. /\ Grows /\ closed' = closed /\ misuse' = misuse /\ fates' = fates
      /\ state' = state /\ borrows' = borrows /\ blocks' = Append(blocks, b)
  BY DEF Open, Grows, Statement, checkerVars, truthVars, gapVars
<1>2. <<>> \in Seq(Names) /\ Elements(<<>>) = {}
  BY DEF Elements
<1>3. b \in Block
  BY <1>2, NewBlockType DEF SoundInv, TypeOK
<1>4. /\ b.entry = fates' /\ b.ends = Nowhere /\ (b.thrown = Nowhere \/ b.thrown = fates')
      /\ b.merged = Untracked /\ b.pre = state /\ b.names = <<>>
  BY <1>1 DEF NewBlock
<1> HIDE DEF b
<1>5. QED
  BY <1>1, <1>2, <1>3, <1>4, OpeningStep

LEMMA OpenForSound ==
  ASSUME SoundInv, TypeOK', NEW x \in Names, NEW isMutable \in BOOLEAN,
         NEW garbage \in BOOLEAN, OpenFor(x, isMutable, garbage)
  PROVE  SoundInv'
<1> DEFINE b == NewBlock("loop", <<x>>, state, fates')
<1>1. /\ Grows /\ closed' = closed /\ misuse' = misuse /\ Fresh(x)
      /\ blocks' = Append(blocks, b)
  BY DEF OpenFor, Grows, Statement, gapVars
<1>2. <<x>> \in Seq(Names) /\ Elements(<<x>>) = {x} /\ "loop" \in Kinds
  BY DEF Elements, Kinds
<1>3. b \in Block
  BY <1>2, NewBlockType DEF SoundInv, TypeOK
<1>4. /\ b.entry = fates' /\ b.ends = Nowhere /\ (b.thrown = Nowhere \/ b.thrown = fates')
      /\ b.merged = Untracked /\ b.pre = state /\ b.names = <<x>>
  BY <1>1 DEF NewBlock
<1>5. /\ \A y \in Names \ {x} : /\ fates'[y] = fates[y] /\ state'[y] = state[y]
                                /\ borrows'[y] = borrows[y]
      /\ fates'[x] = {"live"} /\ state'[x] = "Owned"
  BY DEF OpenFor, SoundInv, TypeOK, Truths, Snapshots
<1> HIDE DEF b
<1>6. \A y \in {x} : Fresh(y)
  BY <1>1
<1>7. \A y \in Names \ {x} : /\ fates'[y] = fates[y] /\ state'[y] = state[y]
                             /\ borrows'[y] = borrows[y] /\ b.pre[y] = state[y]
  BY <1>4, <1>5
<1>8. \A y \in Names : y \in {x} => fates'[y] = {"live"} /\ state'[y] = "Owned"
  BY <1>5
<1>9. Elements(b.names) = {x}
  BY <1>2, <1>4
<1>10. QED
  BY <1>1, <1>3, <1>4, <1>6, <1>7, <1>8, <1>9, OpeningStep
-----------------------------------------------------------------------------
(* Steps that end a scope.                                                 *)

(* A scope that ends revives names, and forgets no other.                  *)
LEMMA EndKeeps ==
  ASSUME SoundInv, ScopeEnds, NEW x \in Names
  PROVE  /\ state[x] # "Absent" => AtScopeEnd[x] # "Absent"
         /\ x \notin closed' /\ x \notin Revived(state, AtScopeEnd) /\ state[x] \in Consumed
              => AtScopeEnd[x] \in Consumed
<1>1. Top.names \in Seq(Names)
  BY BelowBlocks DEF SoundInv, Block
<1>2. Top.names # <<>> => Top.names[1] \in Elements(Top.names)
  BY <1>1 DEF Elements
<1>3. QED
  BY <1>2 DEF ScopeEnds, AtScopeEnd, DropScope, Revived, Consumed

(* The innermost block is gone or replaced by b; those around it stay, but *)
(* for what is heard of the step.                                          *)
Ends(rest, b) ==
  /\ rest \in Seq(Block) /\ Len(rest) = Len(blocks) - 1
  /\ \A k \in 1 .. Len(rest) :
       /\ rest[k].kind = blocks[k].kind /\ rest[k].pre = blocks[k].pre
       /\ rest[k].merged = blocks[k].merged /\ rest[k].entry = blocks[k].entry
       /\ rest[k].names = blocks[k].names
       /\ \A y \in Names : \A fate :
            Pending(rest[k], y, fate) => Pending(blocks[k], y, fate) \/ fate \in fates'[y]
  /\ \/ blocks' = rest
     \/ blocks' = Append(rest, b) /\ b \in Block /\ b.names = <<>>

LEMMA BelowEnds ==
  ASSUME TypeOK, NEW b, blocks' = Below \/ (blocks' = Append(Below, b) /\ b \in Block /\ b.names = <<>>)
  PROVE  Ends(Below, b)
  BY BelowBlocks DEF Ends

(* What is known of x from the innermost block on.                         *)
KnownInside(x) == state[x] \in Consumed \/ Joins(Top, x)

(* What the step must do: what was known inside is known behind it, what   *)
(* executions do there was heard of inside, or is the move of m, and the   *)
(* block that goes on remembers.                                           *)
LEMMA EndingStep ==
  ASSUME SoundInv, TypeOK', Grows, ScopeEnds, NEW rest, NEW b, Ends(rest, b), NEW m,
         m \in Names => Visible(m) /\ Lost(m)',
         \A y \in Names : AtScopeEnd[y] # "Absent" => state'[y] # "Absent",
         \A y \in Names : \A fate \in fates'[y] :
           fate \in fates[y] \/ Pending(Top, y, fate) \/ y = m,
         blocks' # rest => \A y \in Names : \A fate :
           Pending(b, y, fate) => fate \in fates[y] \/ Pending(Top, y, fate) \/ fate \in fates'[y],
         \A y \in Names : ~ Lost(y)' =>
           /\ KnownInside(y) => state'[y] \in Consumed \/ (blocks' # rest /\ Joins(b, y))
           /\ Gone(fates', y) => state'[y] \in Consumed
           /\ blocks' # rest /\ b.kind \in Joining /\ Gone(b.entry, y) => b.pre[y] \in Consumed
  PROVE  Agrees'
<1>0. PICK n : n = Len(blocks)
  OBVIOUS
<1>1. /\ n \in Nat \ {0} /\ Len(rest) = n - 1 /\ Top = blocks[n] /\ n \in 1 .. Len(blocks)
      /\ blocks' = rest => Len(blocks') = n - 1
      /\ blocks' # rest => Len(blocks') = n /\ blocks'[n] = b
      /\ \A k \in 1 .. n - 1 : blocks'[k] = rest[k]
  BY <1>0, BlocksType DEF SoundInv, Ends, Top
<1>2. \A k \in 1 .. Len(blocks') : k \in 1 .. n - 1 \/ (blocks' # rest /\ k = n)
  BY <1>1
<1>3. \A k \in 1 .. n - 1 :
        /\ blocks'[k].kind = blocks[k].kind /\ blocks'[k].pre = blocks[k].pre
        /\ blocks'[k].merged = blocks[k].merged /\ blocks'[k].entry = blocks[k].entry
        /\ blocks'[k].names = blocks[k].names
        /\ \A y \in Names : \A fate :
             Pending(blocks'[k], y, fate) => Pending(blocks[k], y, fate) \/ fate \in fates'[y]
  BY <1>1 DEF Ends
<1>4. Kept(n - 1)
  <2>1. n - 1 \in 0 .. Len(blocks) /\ n - 1 <= Len(blocks')
    BY <1>0, <1>1
  <2>2. QED
    BY <1>3, <2>1 DEF Kept
<1>5. \A y \in Names : \A fate : Pending(Top, y, fate) => Heard(y, fate)
  BY <1>1 DEF Heard
<1>6. News
  <2>1. \A k \in 1 .. n - 1 : k \in 1 .. Len(blocks)
    BY <1>0, <1>1
  <2>2. QED
    BY <1>1, <1>2, <1>3, <1>5, <2>1 DEF News, Heard
<1>7. \A k \in 1 .. n - 1 : NamesAt(k)' = NamesAt(k)
  BY <1>3 DEF NamesAt
<1>8. blocks' # rest => NamesAt(n)' = {}
  BY <1>1 DEF NamesAt, Ends, Elements
<1>9. closed' = closed \cup NamesAt(n)
  BY <1>1 DEF ScopeEnds, NamesAt
<1>10. Apart'
  <2>1. \A k \in 1 .. Len(blocks') : \A y \in NamesAt(k)' : k < n /\ y \in NamesAt(k)
    BY <1>1, <1>2, <1>7, <1>8
  <2>2. Apart
    BY DEF SoundInv
  <2>3. \A k \in 1 .. Len(blocks') : k \in 1 .. Len(blocks)
    BY <1>0, <1>1, <1>2
  <2>4. \A k \in 1 .. Len(blocks') : NamesAt(k)' \cap closed' = {}
    BY <1>0, <1>1, <1>9, <2>1, <2>2, <2>3 DEF Apart
  <2>5. \A j, k \in 1 .. Len(blocks') : j # k => NamesAt(j)' \cap NamesAt(k)' = {}
    BY <2>1, <2>2, <2>3 DEF Apart
  <2>6. QED
    BY <2>4, <2>5 DEF Apart
<1>11. /\ \A y : Visible(y)' => Visible(y)
       /\ \A y : Visible(y) => Visible(y)' \/ y \in closed'
  <2>1. \A y : Visible(y) <=> \E k \in 1 .. n : y \in NamesAt(k)
    BY <1>0 DEF Visible, DeclaredAt, NamesAt
  <2>2. \A y : Visible(y)' <=> \E k \in 1 .. Len(blocks') : y \in NamesAt(k)'
    BY DEF Visible, DeclaredAt, NamesAt
  <2>3. \A k \in 1 .. n : k = n \/ k \in 1 .. n - 1
    BY <1>1
  <2>4. \A k \in 1 .. n - 1 : k \in 1 .. Len(blocks') /\ k \in 1 .. n
    BY <1>1
  <2>5. QED
    BY <1>2, <1>7, <1>8, <1>9, <2>1, <2>2, <2>3, <2>4
<1>12. \A y \in Names : \A fate : Heard(y, fate)' => Heard(y, fate) \/ y = m
  BY <1>5, <1>6 DEF News, Heard
<1>13. Untouched'
  BY <1>11, <1>12 DEF Untouched, Fresh, SoundInv, Grows
<1>14. Tracked'
  BY <1>11, EndKeeps DEF Tracked, SoundInv
<1>15. \A y \in Names : ~ Lost(y)' => ~ Lost(y) /\ y # m
  BY DEF Lost, Reported, Grows
<1>16. Lends'
  BY <1>12, <1>15 DEF Lends, SoundInv, ScopeEnds
<1>17. Follows'
  <2>1. ASSUME NEW y \in Names, ~ Lost(y)'
        PROVE  /\ Carries(n - 1, y)
               /\ \A k \in n .. Len(blocks') : Remembers(k, y)'
    <3>1. Carries(n - 1, y)
      <4>1. \A j \in n - 1 + 1 .. Len(blocks) : j = n
        BY <1>0, <1>1
      <4>2. blocks' # rest => n \in n - 1 + 1 .. Len(blocks')
        BY <1>1
      <4>3. KnownInside(y) => state'[y] \in Consumed \/ (blocks' # rest /\ Joins(b, y))
        BY <2>1
      <4>4. QED
        BY <1>1, <4>1, <4>2, <4>3 DEF Carries, KnownInside
    <3>2. ASSUME blocks' # rest PROVE Remembers(n, y)'
      <4>1. ASSUME NEW fate \in {"moved", "deleted"}, Pending(b, y, fate)
            PROVE  state'[y] \in Consumed \/ Joins(b, y)
        <5>1. CASE fate \in fates'[y]
          BY <2>1, <5>1 DEF Gone
        <5>2. CASE fate \in fates[y]
          BY <1>15, <2>1, <5>2 DEF SoundInv, Follows, Gone, KnownInside
        <5>3. CASE Pending(Top, y, fate)
          <6>1. Knows(n, y)
            BY <1>1, <1>15, <2>1, <5>3 DEF SoundInv, Follows, Remembers
          <6>2. \A j \in n .. Len(blocks) : j = n
            BY <1>0, <1>1
          <6>3. KnownInside(y)
            BY <1>1, <6>1, <6>2 DEF Knows, KnownInside
          <6>4. QED
            BY <2>1, <6>3
        <5>4. QED
          BY <3>2, <4>1, <5>1, <5>2, <5>3
      <4>2. n \in n .. Len(blocks')
        BY <1>1, <3>2
      <4>3. QED
        BY <1>1, <2>1, <3>2, <4>1, <4>2 DEF Remembers, Knows
    <3>3. \A k \in n .. Len(blocks') : k = n /\ blocks' # rest
      BY <1>1, <1>2
    <3>4. QED
      BY <3>1, <3>2, <3>3
  <2>2. \A k \in n - 1 + 1 .. Len(blocks') : k \in n .. Len(blocks')
    BY <1>1
  <2>3. QED
    BY <1>4, <2>1, <2>2, FollowsStep DEF SoundInv
<1>18. QED
  BY <1>10, <1>13, <1>14, <1>16, <1>17 DEF Agrees
(* What is heard of inside the innermost block is known inside it.         *)
LEMMA InsideKnown ==
  ASSUME SoundInv, NEW x \in Names, ~ Lost(x)
  PROVE  /\ Gone(fates, x) => KnownInside(x)
         /\ \A fate \in {"moved", "deleted"} : Pending(Top, x, fate) => KnownInside(x)
         /\ Gone(Top.entry, x) => KnownInside(x)
         /\ Gone(Top.ends, x) => KnownInside(x)
         /\ Gone(Top.thrown, x) => KnownInside(x)
         /\ Top.kind \in Joining /\ Gone(Top.entry, x) => Top.pre[x] \in Consumed
<1>1. PICK n : n = Len(blocks)
  OBVIOUS
<1>2. n \in 1 .. Len(blocks) /\ Top = blocks[n] /\ \A j \in n .. Len(blocks) : j = n
  BY <1>1, BlocksType DEF SoundInv, Top
<1>3. Remembers(n, x) /\ (Gone(fates, x) => state[x] \in Consumed)
  BY <1>2 DEF SoundInv, Follows
<1>4. \A fate \in {"moved", "deleted"} : Pending(Top, x, fate) => KnownInside(x)
  BY <1>2, <1>3 DEF Remembers, Knows, KnownInside
<1>5. QED
  BY <1>2, <1>3, <1>4 DEF Remembers, KnownInside, Pending, Gone

(* An end of a scope that nothing else does wrong in.                      *)
LEMMA QuietEnd ==
  ASSUME SoundInv, TypeOK', Agrees', Grows, misuse' = misuse
  PROVE  SoundInv'
<1>1. MisuseIsReported' /\ LoansAreRespected'
  BY MisuseStep DEF Grows
<1>2. QED
  BY <1>1 DEF SoundInv, Agrees

LEMMA CloseBlockSound ==
  ASSUME SoundInv, TypeOK', CloseBlock
  PROVE  SoundInv'
<1>1. /\ ScopeEnds /\ Grows /\ misuse' = misuse /\ state' = AtScopeEnd /\ fates' = fates
      /\ Revived(state, AtScopeEnd) \subseteq forgotten' /\ blocks' = Below
      /\ Top.kind \notin Joining
  BY DEF CloseBlock, ScopeEnds, Grows, truthVars, Joining
<1>2. Ends(Below, Top)
  BY <1>1, BelowEnds DEF SoundInv
<1>3. \A y \in Names : ~ Lost(y)' =>
        /\ ~ Lost(y) /\ (KnownInside(y) => state'[y] \in Consumed)
  BY <1>1, EndKeeps DEF Lost, Reported, Grows, KnownInside, Joins
<1>4. NoName \in Names => FALSE
  BY OwnershipAssumption
<1>5. \A y \in Names : ~ Lost(y)' => (Gone(fates', y) => state'[y] \in Consumed)
  BY <1>1, <1>3, InsideKnown
<1>6. Agrees'
  BY <1>1, <1>2, <1>3, <1>4, <1>5, EndingStep
<1>7. QED
  BY <1>1, <1>6, QuietEnd

LEMMA CloseLoopSound ==
  ASSUME SoundInv, TypeOK', CloseLoop
  PROVE  SoundInv'
<1> DEFINE again == {x \in Top.demanded : Gone(fates, x)}
<1>1. /\ ScopeEnds /\ Grows /\ misuse' = misuse \cup {<<x, "again">> : x \in again}
      /\ state' = AtScopeEnd /\ fates' = Either(Either(Top.entry, Top.ends), fates)
      /\ Revived(state, AtScopeEnd) \subseteq forgotten' /\ again \subseteq forgotten'
      /\ blocks' = Below /\ Top.kind \notin Joining
  BY DEF CloseLoop, ScopeEnds, Grows, Joining
<1> HIDE DEF again
<1>2. Ends(Below, Top)
  BY <1>1, BelowEnds DEF SoundInv
<1>3. \A y \in Names : ~ Lost(y)' =>
        /\ ~ Lost(y) /\ (KnownInside(y) => state'[y] \in Consumed)
  BY <1>1, EndKeeps DEF Lost, Reported, Grows, KnownInside, Joins
<1>4. NoName \in Names => FALSE
  BY OwnershipAssumption
<1>5. \A y \in Names : fates'[y] = (Top.entry[y] \cup Top.ends[y]) \cup fates[y]
  BY <1>1 DEF Either
<1>6. \A y \in Names : ~ Lost(y)' => (Gone(fates', y) => state'[y] \in Consumed)
  BY <1>3, <1>5, InsideKnown DEF Gone
<1>7. \A y \in Names : \A fate \in fates'[y] : fate \in fates[y] \/ Pending(Top, y, fate)
  BY <1>5 DEF Pending
<1>8. Agrees'
  BY <1>1, <1>2, <1>3, <1>4, <1>6, <1>7, EndingStep
<1>9. MisuseIsReported' /\ LoansAreRespected'
  BY <1>1, MisuseStep DEF Grows
<1>10. QED
  BY <1>8, <1>9 DEF SoundInv, Agrees

LEMMA MergeKeeps ==
  ASSUME NEW s \in Snapshots, NEW t \in Snapshots, NEW x \in Names
  PROVE  /\ s[x] \in Consumed \/ t[x] \in Consumed => Merge(s, t)[x] \in Consumed
         /\ s[x] # "Absent" \/ t[x] # "Absent" => Merge(s, t)[x] # "Absent"
  BY DEF Merge, Consumed, Snapshots

(* The branches of an if are joined.                                       *)
LEMMA CloseIfSound ==
  ASSUME SoundInv, TypeOK', CloseIf
  PROVE  SoundInv'
<1> DEFINE end == AtScopeEnd
           joined == Merge(Top.merged, end)
<1>1. /\ ScopeEnds /\ Grows /\ misuse' = misuse /\ blocks' = Below
      /\ Revived(state, end) \subseteq forgotten' /\ Top.kind \in Joining
      /\ state' = IF Top.kind = "if" THEN Merge(joined, Top.pre) ELSE joined
      /\ fates' = Either(Either(Top.ends, fates),
                        IF Top.kind = "if" THEN Top.entry ELSE Nowhere)
  BY DEF CloseIf, ScopeEnds, Grows, Joining
<1>2. end \in Snapshots /\ Top.merged \in Snapshots /\ Top.pre \in Snapshots
  BY <1>1, BelowBlocks, ScopeEndsTypeOK DEF Block, SoundInv
<1>3. joined \in Snapshots
  BY <1>2, SnapshotTypes
<1>4. \A y \in Names :
        /\ end[y] \in Consumed \/ Top.merged[y] \in Consumed => joined[y] \in Consumed
        /\ joined[y] \in Consumed => state'[y] \in Consumed
        /\ Top.kind = "if" /\ Top.pre[y] \in Consumed => state'[y] \in Consumed
        /\ end[y] # "Absent" => state'[y] # "Absent"
  <2> HIDE DEF end
  <2>1. \A y \in Names : /\ end[y] \in Consumed \/ Top.merged[y] \in Consumed => joined[y] \in Consumed
                         /\ end[y] # "Absent" => joined[y] # "Absent"
    BY <1>2, MergeKeeps
  <2> HIDE DEF joined
  <2>2. QED
    BY <1>1, <1>2, <1>3, <2>1, MergeKeeps
<1>5. Ends(Below, Top)
  BY <1>1, BelowEnds DEF SoundInv
<1>6. \A y \in Names : ~ Lost(y)' =>
        /\ ~ Lost(y) /\ (state[y] \in Consumed => end[y] \in Consumed)
  BY <1>1, EndKeeps DEF Lost, Reported, Grows
<1> HIDE DEF end, joined
<1>7. \A y \in Names : ~ Lost(y)' => (KnownInside(y) => state'[y] \in Consumed)
  BY <1>4, <1>6 DEF KnownInside, Joins
<1>8. \A y \in Names : fates'[y] = (Top.ends[y] \cup fates[y])
                                   \cup (IF Top.kind = "if" THEN Top.entry[y] ELSE {})
  BY <1>1 DEF Either, Nowhere
<1>9. \A y \in Names : ~ Lost(y)' => (Gone(fates', y) => state'[y] \in Consumed)
  BY <1>1, <1>6, <1>7, <1>8, InsideKnown DEF Gone
<1>10. \A y \in Names : \A fate \in fates'[y] : fate \in fates[y] \/ Pending(Top, y, fate)
  BY <1>8 DEF Pending
<1>11. NoName \in Names => FALSE
  BY OwnershipAssumption
<1>12. Agrees'
  BY <1>1, <1>4, <1>5, <1>7, <1>9, <1>10, <1>11, EndingStep DEF end
<1>13. QED
  BY <1>1, <1>12, QuietEnd
(* A handler starts with what may have left the body of its try.           *)
LEMMA FirstExceptSound ==
  ASSUME SoundInv, TypeOK', FirstExcept
  PROVE  SoundInv'
<1> DEFINE end == AtScopeEnd
           worse == Merge(Top.pre, end)
           thrown == Either(Top.thrown, fates)
           b == [Top EXCEPT !.kind = "except", !.names = <<>>, !.pre = worse,
                            !.merged = end, !.entry = thrown, !.ends = fates,
                            !.thrown = thrown]
<1>1. /\ ScopeEnds /\ Grows /\ misuse' = misuse /\ blocks' = Append(Below, b)
      /\ Revived(state, end) \subseteq forgotten' /\ Top.kind = "try"
      /\ state' = worse /\ fates' = thrown
  BY DEF FirstExcept, ScopeEnds, Grows
<1>2. Top \in Block /\ end \in Snapshots /\ Top.pre \in Snapshots /\ Top.thrown \in Truths
  BY <1>1, BelowBlocks, ScopeEndsTypeOK DEF Block, SoundInv
<1>3. \A y \in Names : /\ end[y] \in Consumed => worse[y] \in Consumed
                       /\ end[y] # "Absent" => worse[y] # "Absent"
  <2> HIDE DEF end
  <2>1. QED
    BY <1>2, MergeKeeps
<1>4. worse \in Snapshots /\ thrown \in Truths
  BY <1>2, SnapshotTypes, TruthTypes DEF SoundInv, TypeOK
<1>5. \A y \in Names : thrown[y] = Top.thrown[y] \cup fates[y]
  BY DEF Either
<1> HIDE DEF end, worse, thrown
<1>6. /\ b.kind = "except" /\ b.names = <<>> /\ b.pre = worse /\ b.merged = end
      /\ b.entry = thrown /\ b.ends = fates /\ b.thrown = thrown
  BY <1>2 DEF Block
<1>7. b \in Block
  <2>1. <<>> \in Seq(Names) /\ "except" \in Kinds /\ fates \in Truths
    BY DEF Kinds, SoundInv, TypeOK
  <2>2. QED
    BY <1>2, <1>4, <2>1 DEF Block
<1> HIDE DEF b
<1>8. Ends(Below, b)
  BY <1>1, <1>6, <1>7, BelowEnds DEF SoundInv
<1>9. \A y \in Names : ~ Lost(y)' =>
        /\ ~ Lost(y) /\ (state[y] \in Consumed => end[y] \in Consumed)
  BY <1>1, EndKeeps DEF Lost, Reported, Grows, end
<1>10. \A y \in Names : ~ Lost(y)' => (KnownInside(y) => state'[y] \in Consumed)
  BY <1>1, <1>3, <1>9 DEF KnownInside, Joins, Joining
<1>11. \A y \in Names : ~ Lost(y)' => (Gone(thrown, y) => worse[y] \in Consumed)
  BY <1>1, <1>5, <1>9, <1>10, InsideKnown DEF Gone
<1>12. \A y \in Names : \A fate :
        /\ fate \in fates'[y] => fate \in fates[y] \/ Pending(Top, y, fate)
        /\ Pending(b, y, fate) => fate \in fates[y] \/ Pending(Top, y, fate)
  BY <1>1, <1>5, <1>6 DEF Pending
<1>13. NoName \in Names => FALSE
  BY OwnershipAssumption
<1>14. Agrees'
  BY <1>1, <1>3, <1>6, <1>8, <1>10, <1>11, <1>12, <1>13, EndingStep DEF end
<1>15. QED
  BY <1>1, <1>14, QuietEnd

LEMMA CloseTrySound ==
  ASSUME SoundInv, TypeOK', NEW hasFinally \in BOOLEAN, CloseTry(hasFinally)
  PROVE  SoundInv'
<1> DEFINE end == AtScopeEnd
           after == IF Top.kind = "try" THEN end ELSE Merge(Top.merged, end)
           normal == Either(Top.ends, fates)
           all == IF hasFinally THEN Either(normal, Top.thrown) ELSE normal
           b == NewBlock("finally", <<>>, after, all)
<1>1. /\ ScopeEnds /\ Grows /\ misuse' = misuse
      /\ blocks' = IF hasFinally THEN Append(Below, b) ELSE Below
      /\ Revived(state, end) \subseteq forgotten' /\ Top.kind \in {"try", "except"}
      /\ state' = after /\ fates' = all
  BY DEF CloseTry, ScopeEnds, Grows
<1>2. /\ Top \in Block /\ end \in Snapshots /\ Top.merged \in Snapshots
      /\ Top.thrown \in Truths /\ Top.ends \in Truths
  BY <1>1, BelowBlocks, ScopeEndsTypeOK DEF Block, SoundInv
<1>3. \A y \in Names :
        /\ end[y] \in Consumed => after[y] \in Consumed
        /\ Top.kind = "except" /\ Top.merged[y] \in Consumed => after[y] \in Consumed
        /\ end[y] # "Absent" => after[y] # "Absent"
  <2> HIDE DEF end
  <2>1. QED
    BY <1>1, <1>2, MergeKeeps
<1>4. after \in Snapshots /\ normal \in Truths /\ all \in Truths
  BY <1>2, SnapshotTypes, TruthTypes DEF SoundInv, TypeOK
<1>5. \A y \in Names : /\ Top.ends[y] \cup fates[y] \subseteq all[y]
                       /\ all[y] \subseteq (Top.ends[y] \cup fates[y]) \cup Top.thrown[y]
  BY DEF Either
<1> HIDE DEF end, after, all, normal
<1>6. b \in Block
  <2>1. <<>> \in Seq(Names) /\ "finally" \in Kinds
    BY DEF Kinds
  <2>2. QED
    BY <1>4, <2>1, NewBlockType
<1>7. b.names = <<>> /\ b.entry = all /\ b.ends = Nowhere /\ b.thrown = Nowhere /\ b.kind = "finally"
  BY DEF NewBlock
<1> HIDE DEF b
<1>8. Ends(Below, b)
  BY <1>1, <1>6, <1>7, BelowEnds DEF SoundInv
<1>9. \A y \in Names : ~ Lost(y)' =>
        /\ ~ Lost(y) /\ (state[y] \in Consumed => end[y] \in Consumed)
  BY <1>1, EndKeeps DEF Lost, Reported, Grows, end
<1>10. \A y \in Names : ~ Lost(y)' => (KnownInside(y) => state'[y] \in Consumed)
  BY <1>1, <1>3, <1>9 DEF KnownInside, Joins, Joining
<1>11. \A y \in Names : ~ Lost(y)' => (Gone(fates', y) => state'[y] \in Consumed)
  BY <1>1, <1>5, <1>9, <1>10, InsideKnown DEF Gone
<1>12. \A y \in Names : \A fate :
        /\ fate \in fates'[y] => fate \in fates[y] \/ Pending(Top, y, fate)
        /\ Pending(b, y, fate) => fate \in fates'[y]
  BY <1>1, <1>5, <1>7 DEF Pending, Nowhere
<1>13. NoName \in Names => FALSE
  BY OwnershipAssumption
<1>14. b.kind \notin Joining
  BY <1>7 DEF Joining
<1>15. Agrees'
  BY <1>1, <1>3, <1>8, <1>10, <1>11, <1>12, <1>13, <1>14, EndingStep DEF end
<1>16. QED
  BY <1>1, <1>15, QuietEnd
(* The next branch starts from the snapshot, and the merge remembers what  *)
(* the last one did. A name that the condition moves is lost.              *)
LEMMA NextBranchSound ==
  ASSUME SoundInv, TypeOK', NEW kind \in Joining, NEW m \in Names \cup {NoName},
         NextBranch(kind, m), Top.kind \in Joining, m \in Names => Visible(m)
  PROVE  SoundInv'
<1> DEFINE end == AtScopeEnd
           start == Restore(Top.pre, end)
           from == IF m = NoName THEN Top.entry ELSE Becomes(Top.entry, m, "moved")
           p == Passing(m, from)
           rest == [k \in 1 .. Len(blocks) - 1 |-> p[k]]
           b == [Top EXCEPT !.kind = kind, !.names = <<>>, !.entry = from,
                            !.merged = Merge(@, end), !.ends = Either(@, fates)]
<1>1. /\ ScopeEnds /\ Grows /\ blocks' = Append(rest, b) /\ fates' = from
      /\ Revived(state, end) \subseteq forgotten'
      /\ state' = IF m = NoName THEN start ELSE AfterMove(start, m)
      /\ m # NoName => /\ state'[m] # start[m] => m \in forgotten'
                       /\ MoveReport(start, m) \subseteq reported'
                       /\ misuse' = misuse \cup Wrong(Top.entry, m, "move")
      /\ m = NoName => misuse' = misuse
  BY DEF NextBranch, ScopeEnds, Grows
<1>2. /\ Top \in Block /\ end \in Snapshots /\ Top.pre \in Snapshots /\ Top.entry \in Truths
      /\ Top.merged \in Snapshots /\ Top.ends \in Truths
  BY <1>1, BelowBlocks, ScopeEndsTypeOK DEF Block, SoundInv
<1>3. /\ start \in Snapshots /\ from \in Truths /\ Merge(Top.merged, end) \in Snapshots
      /\ Either(Top.ends, fates) \in Truths
  BY <1>2, SnapshotTypes, TruthTypes DEF Fates, SoundInv, TypeOK
<1>4. \A y \in Names : /\ y # m => from[y] = Top.entry[y]
                       /\ Either(Top.ends, fates)[y] = Top.ends[y] \cup fates[y]
  BY <1>2 DEF Becomes, Either, Truths
<1>5. /\ \A y \in Names : start[y] = IF Top.pre[y] = "Absent" THEN end[y] ELSE Top.pre[y]
      /\ \A y \in Names : Top.pre[y] \in Consumed => start[y] \in Consumed
      /\ \A y \in Names : end[y] # "Absent" => start[y] # "Absent"
  BY DEF Restore, Consumed
<1>6. \A y \in Names : Top.merged[y] \in Consumed \/ end[y] \in Consumed
                         => Merge(Top.merged, end)[y] \in Consumed
  <2> HIDE DEF end
  <2>1. QED
    BY <1>2, MergeKeeps
<1>7. /\ rest \in Seq(Block) /\ Len(rest) = Len(blocks) - 1
      /\ \A k \in 1 .. Len(rest) :
           /\ rest[k].kind = blocks[k].kind /\ rest[k].pre = blocks[k].pre
           /\ rest[k].merged = blocks[k].merged /\ rest[k].entry = blocks[k].entry
           /\ rest[k].names = blocks[k].names
           /\ \A y \in Names : \A fate :
                Pending(rest[k], y, fate) => Pending(blocks[k], y, fate) \/ fate \in fates'[y]
  <2> HIDE DEF from
  <2>1. /\ Len(blocks) \in Nat \ {0}
        /\ \A k \in 1 .. Len(blocks) :
              /\ p[k] \in Block /\ p[k].kind = blocks[k].kind /\ p[k].names = blocks[k].names
              /\ p[k].pre = blocks[k].pre /\ p[k].merged = blocks[k].merged
              /\ p[k].entry = blocks[k].entry /\ p[k].ends = blocks[k].ends
              /\ \A y \in Names : p[k].thrown[y] \subseteq blocks[k].thrown[y] \cup from[y]
    BY <1>3, BlocksType, PassingBlocks DEF SoundInv
  <2> HIDE DEF p
  <2>2. \A k \in 1 .. Len(blocks) - 1 : rest[k] = p[k] /\ k \in 1 .. Len(blocks)
    BY <2>1
  <2>3. rest \in [1 .. Len(blocks) - 1 -> Block] /\ Len(blocks) - 1 \in Nat
    BY <2>1
  <2> HIDE DEF rest
  <2>4. rest \in Seq(Block) /\ Len(rest) = Len(blocks) - 1
    BY <2>3, FunctionIsSequence
  <2>5. Len(rest) \in Nat /\ 1 .. Len(rest) = 1 .. Len(blocks) - 1
    BY <2>3, <2>4
  <2>6. ASSUME NEW k \in 1 .. Len(rest)
        PROVE  /\ rest[k].kind = blocks[k].kind /\ rest[k].pre = blocks[k].pre
               /\ rest[k].merged = blocks[k].merged /\ rest[k].entry = blocks[k].entry
               /\ rest[k].names = blocks[k].names
    BY <2>1, <2>2, <2>5
  <2>7. ASSUME NEW k \in 1 .. Len(rest), NEW y \in Names, NEW fate, Pending(rest[k], y, fate)
        PROVE  Pending(blocks[k], y, fate) \/ fate \in fates'[y]
    <3>1. /\ rest[k].entry = blocks[k].entry /\ rest[k].ends = blocks[k].ends
          /\ rest[k].thrown[y] \subseteq blocks[k].thrown[y] \cup from[y]
      BY <2>1, <2>2, <2>5
    <3>2. from[y] \subseteq fates'[y]
      BY <1>1
    <3>3. QED
      BY <2>7, <3>1, <3>2 DEF Pending
  <2>8. QED
    BY <2>4, <2>6, <2>7
<1> HIDE DEF end, start, from, p, rest
<1>8. /\ b.kind = kind /\ b.names = <<>> /\ b.pre = Top.pre /\ b.entry = from
      /\ b.merged = Merge(Top.merged, end) /\ b.ends = Either(Top.ends, fates)
      /\ b.thrown = Top.thrown
  BY <1>2 DEF Block
<1>9. b \in Block
  <2>1. <<>> \in Seq(Names) /\ kind \in Kinds
    BY DEF Kinds, Joining
  <2>2. QED
    BY <1>2, <1>3, <2>1 DEF Block
<1> HIDE DEF b
<1>10. Ends(rest, b)
  BY <1>1, <1>7, <1>8, <1>9 DEF Ends
<1>11. /\ \A y \in Names : y # m => state'[y] = start[y]
       /\ \A y \in Names : start[y] # "Absent" => state'[y] # "Absent"
  BY <1>1, <1>3 DEF AfterMove, Snapshots
<1>12. m \in Names => Reported(m)' \/ m \in forgotten'
  <2> SUFFICES ASSUME m \in Names PROVE Reported(m)' \/ m \in forgotten'
    OBVIOUS
  <2>1. state[m] # "Absent"
    BY DEF SoundInv, Tracked
  <2>2. start[m] # "Absent"
    BY <1>1, <1>5, <2>1, EndKeeps DEF end
  <2>3. m # NoName
    BY OwnershipAssumption
  <2>4. CASE MoveReport(start, m) = {}
    <3>1. state'[m] = "Moved" /\ start[m] # "Moved"
      BY <1>1, <1>3, <2>2, <2>3, <2>4 DEF AfterMove, MoveReport, Snapshots, Consumed
    <3>2. QED
      BY <1>1, <2>3, <3>1
  <2>5. CASE MoveReport(start, m) # {}
    BY <1>1, <2>3, <2>5 DEF MoveReport, Reported, Reasons
  <2>6. QED
    BY <2>4, <2>5
<1>13. m \in Names => Visible(m) /\ Lost(m)'
  BY <1>12 DEF Lost
<1>14. \A y \in Names : ~ Lost(y)' =>
        /\ ~ Lost(y) /\ y # m /\ (state[y] \in Consumed => end[y] \in Consumed)
  BY <1>1, <1>13, EndKeeps DEF Lost, Reported, Grows, end
<1>15. \A y \in Names : ~ Lost(y)' => (KnownInside(y) => Joins(b, y))
  BY <1>6, <1>8, <1>14 DEF KnownInside, Joins
<1>16. \A y \in Names : ~ Lost(y)' => (Gone(from, y) => Top.pre[y] \in Consumed)
  BY <1>4, <1>14, InsideKnown DEF Gone
<1>17. \A y \in Names : ~ Lost(y)' => (Gone(fates', y) => state'[y] \in Consumed)
  BY <1>1, <1>5, <1>11, <1>14, <1>16
<1>18. \A y \in Names : \A fate :
        /\ fate \in fates'[y] => fate \in fates[y] \/ Pending(Top, y, fate) \/ y = m
        /\ Pending(b, y, fate) =>
             fate \in fates[y] \/ Pending(Top, y, fate) \/ fate \in fates'[y]
  BY <1>1, <1>4, <1>8 DEF Pending
<1>19. \A y \in Names : AtScopeEnd[y] # "Absent" => state'[y] # "Absent"
  BY <1>5, <1>11 DEF end
<1>20. blocks' # rest
  BY <1>1, <1>7, <1>9
<1>21. Agrees'
  BY <1>1, <1>8, <1>10, <1>13, <1>15, <1>16, <1>17, <1>18, <1>19, <1>20, EndingStep
<1>22. MisuseIsReported' /\ LoansAreRespected'
  <2>1. \A act, pair : pair \in Wrong(Top.entry, m, act) => pair[1] = m
    BY DEF Wrong
  <2>2. QED
    BY <1>1, <1>12, <2>1, MisuseStep DEF Grows
<1>23. QED
  BY <1>21, <1>22 DEF SoundInv, Agrees

-----------------------------------------------------------------------------
(* Functions, and the theorems.                                            *)

LEMMA NothingAtStart ==
  ASSUME NEW parameters
  PROVE  \A x \in Names : \A fate :
           /\ fate \in AtStart(parameters)[x] => fate = "live"
           /\ ~ Pending(Body(parameters), x, fate)
  BY DEF AtStart, Body, NewBlock, Pending, Nowhere

LEMMA InitSound == Init => SoundInv
<1> SUFFICES ASSUME Init PROVE SoundInv
  OBVIOUS
<1>1. TypeOK
  BY InitTypeOK
<1>2. /\ Len(blocks) = 1 /\ blocks[1] = Body(<<>>) /\ NamesAt(1) = {}
      /\ Body(<<>>).kind = "function" /\ closed = {}
  BY DEF Init, NamesAt, Body, NewBlock, Elements
<1>3. \A k \in 1 .. Len(blocks) : k = 1
  BY <1>2
<1>4. \A x \in Names : \A fate : Heard(x, fate) => fate = "live"
  BY <1>2, <1>3, NothingAtStart DEF Heard, Init
<1>5. Apart /\ Tracked
  BY <1>2, <1>3 DEF Apart, Tracked, Visible, DeclaredAt, NamesAt
<1>6. Untouched /\ Lends
  BY <1>4 DEF Untouched, Lends
<1>7. Follows
  BY <1>2, <1>3, <1>4, NothingAtStart DEF Follows, Heard, Gone, Remembers, Joining
<1>8. MisuseIsReported /\ LoansAreRespected
  BY DEF MisuseIsReported, LoansAreRespected, Init
<1>9. QED
  BY <1>1, <1>5, <1>6, <1>7, <1>8 DEF SoundInv

LEMMA EndFunctionSound ==
  ASSUME SoundInv, TypeOK', NEW parameters \in Parameters, EndFunction(parameters)
  PROVE  SoundInv'
<1>1. /\ Len(blocks') = 1 /\ blocks'[1] = Body(parameters)
      /\ Body(parameters).kind = "function" /\ Body(parameters).names = parameters
      /\ closed' = {} /\ misuse' = {} /\ fates' = AtStart(parameters)
      /\ \A x \in Names : x \in Elements(parameters) => state'[x] = "Owned"
  BY DEF EndFunction, BeginFunction, Body, NewBlock
<1>2. \A k \in 1 .. Len(blocks') : k = 1
  BY <1>1
<1>3. \A x \in Names : \A fate : Heard(x, fate)' => fate = "live"
  BY <1>1, <1>2, NothingAtStart DEF Heard
<1>4. Apart'
  BY <1>1, <1>2 DEF Apart
<1>5. Tracked'
  BY <1>1, <1>2 DEF Tracked, Visible, DeclaredAt
<1>6. Untouched' /\ Lends'
  BY <1>3 DEF Untouched, Lends
<1>7. Follows'
  BY <1>1, <1>2, <1>3, NothingAtStart DEF Follows, Heard, Gone, Remembers, Joining
<1>8. MisuseIsReported' /\ LoansAreRespected'
  BY <1>1 DEF MisuseIsReported, LoansAreRespected
<1>9. QED
  BY <1>1, <1>4, <1>5, <1>6, <1>7, <1>8 DEF SoundInv

LEMMA NextSound == SoundInv /\ [Next]_vars => SoundInv'
<1> SUFFICES ASSUME SoundInv, [Next]_vars PROVE SoundInv'
  OBVIOUS
<1>1. TypeOK'
  BY NextTypeOK DEF SoundInv
<1>2. CASE UNCHANGED vars
  <2>1. /\ state' = state /\ borrows' = borrows /\ blocks' = blocks /\ fates' = fates
        /\ reported' = reported /\ misuse' = misuse /\ forgotten' = forgotten
        /\ closed' = closed
    BY <1>2 DEF vars, checkerVars, truthVars, gapVars
  <2>2. Apart'
    BY <2>1 DEF SoundInv, Apart, NamesAt
  <2>3. Untouched'
    BY <2>1 DEF SoundInv, Untouched, Fresh, Visible, DeclaredAt, Heard
  <2>4. Tracked'
    BY <2>1 DEF SoundInv, Tracked, Visible, DeclaredAt
  <2>5. Follows'
    BY <2>1 DEF SoundInv, Follows, Lost, Reported, Remembers, Knows
  <2>6. Lends'
    BY <2>1 DEF SoundInv, Lends, Lost, Reported, Heard
  <2>7. MisuseIsReported' /\ LoansAreRespected'
    BY <2>1 DEF SoundInv, MisuseIsReported, LoansAreRespected, Reported
  <2>8. QED
    BY <1>1, <2>2, <2>3, <2>4, <2>5, <2>6, <2>7 DEF SoundInv
<1>3. CASE SimpleStatement
  BY <1>1, <1>3, UseSound, MoveOutSound, PassArgumentSound, AssignSound, DeleteSound,
     LeavingSound, BorrowSound, DeclareSound DEF SimpleStatement
<1>4. CASE CompoundStatement
  <2>1. ASSUME NEW m \in Names \cup {NoName}, Elif(m) PROVE SoundInv'
    <3>1. /\ Top.kind \in Joining /\ "if" \in Joining /\ NextBranch("if", m)
          /\ m = NoName \/ \E k \in 1 .. Len(blocks) - 1 : m \in Elements(blocks[k].names)
      BY <2>1 DEF Elif, Joining
    <3>2. m \in Names => Visible(m)
      BY <3>1, BlocksType, OwnershipAssumption DEF Visible, DeclaredAt, SoundInv
    <3>3. QED
      BY <1>1, <3>1, <3>2, NextBranchSound
  <2>2. CASE Else \/ NextExcept
    <3>1. PICK kind \in Joining : NextBranch(kind, NoName) /\ Top.kind \in Joining
      BY <2>2 DEF Else, NextExcept, Joining
    <3>2. NoName \notin Names
      BY OwnershipAssumption
    <3>3. QED
      BY <1>1, <3>1, <3>2, NextBranchSound
  <2>3. QED
    BY <1>1, <1>4, <2>1, <2>2, OpenSound, OpenForSound, CloseIfSound, FirstExceptSound,
       CloseTrySound, CloseBlockSound, CloseLoopSound DEF CompoundStatement
<1>5. CASE \E parameters \in Parameters : EndFunction(parameters)
  BY <1>1, <1>5, EndFunctionSound
<1>6. QED
  BY <1>2, <1>3, <1>4, <1>5 DEF Next

LEMMA WalkSound == Spec => []SoundInv
<1>1. QED
  BY InitSound, NextSound, PTL DEF Spec

(* Whatever an execution does to a value that is gone is reported, unless  *)
(* the name is one the walk is known to lose: in programs of any length    *)
(* and nesting, with any names.                                            *)
THEOREM MisuseReported == Spec => []MisuseIsReported
<1>1. SoundInv => MisuseIsReported
  BY DEF SoundInv
<1>2. QED
  BY <1>1, WalkSound, PTL

(* No value is moved, handed over or deleted while an execution holds a    *)
(* reference to it, without a report, unless it was handed over while it   *)
(* was lent: in programs of any length and nesting, with any names.        *)
THEOREM LoansRespected == Spec => []LoansAreRespected
<1>1. SoundInv => LoansAreRespected
  BY DEF SoundInv
<1>2. QED
  BY <1>1, WalkSound, PTL

-----------------------------------------------------------------------------
(* The converse: what the walk reports as consumed some execution misuses. *)
(* It is the mirror image of Follows. A name that is held consumed, here   *)
(* or in a snapshot, is gone on a path that the truth beside it is about.  *)

(* A report on x is deserved, or x has ended and cannot get one.           *)
Deserved(x) == x \in suspect \/ \E act \in Acts : <<x, act>> \in misuse
Excused(x) == x \in closed \/ Deserved(x)

HoldsConsumed(b, x) == b.pre[x] \in Consumed \/ b.merged[x] \in Consumed

Warrants(b, x) ==
  /\ b.pre[x] \in Consumed => Gone(b.entry, x)
  /\ b.merged[x] \in Consumed => Gone(b.ends, x)

(* Only names that are declared are held consumed: what a declaration      *)
(* finds of its name is clean.                                             *)
Warranted ==
  \A x \in Names : ~ Excused(x) =>
    /\ state[x] \in Consumed => Gone(fates, x) /\ Visible(x)
    /\ \A k \in 1 .. Len(blocks) :
         Warrants(blocks[k], x) /\ (HoldsConsumed(blocks[k], x) => Visible(x))

(* An exception may leave the body of a try before its first statement.    *)
ThrowsAtEntry(b) == b.kind = "try" => \A x \in Names : b.entry[x] \subseteq b.thrown[x]

(* The snapshot of a block holds the names declared around it, so that     *)
(* restoring it leaves none of them as the last branch did.                *)
TrackedAround(k) ==
  \A j \in 1 .. k - 1 : \A x \in Names :
    x \in Elements(blocks[j].names) => blocks[k].pre[x] # "Absent"

FairInv ==
  /\ SoundInv /\ Warranted /\ ReportsAreDeserved
  /\ \A k \in 1 .. Len(blocks) : ThrowsAtEntry(blocks[k]) /\ TrackedAround(k)

(* What a step may do to a block around it.                                *)
Wider(new, old) ==
  /\ new.kind = old.kind /\ new.pre = old.pre /\ new.merged = old.merged
  /\ new.entry = old.entry
  /\ \A x \in Names : old.ends[x] \subseteq new.ends[x] /\ old.thrown[x] \subseteq new.thrown[x]

(* The first m blocks stay; a new name is declared in the last one.        *)
Widens(m) ==
  /\ m \in 0 .. Len(blocks) /\ m <= Len(blocks')
  /\ \A k \in 1 .. m :
       /\ Wider(blocks'[k], blocks[k])
       /\ k < Len(blocks') => blocks'[k].names = blocks[k].names

(* No excuse is withdrawn, and a declared name stays so or ends.           *)
Excuses ==
  /\ closed \subseteq closed' /\ suspect \subseteq suspect' /\ misuse \subseteq misuse'
  /\ \A x \in Names : Visible(x) => Visible(x)' \/ x \in closed'

ReportsOnly ==
  \A x \in Names : <<x, "consumed">> \in reported' =>
    <<x, "consumed">> \in reported \/ Deserved(x)'

(* A step that holds nothing consumed without a warrant, in the blocks it  *)
(* makes neither, keeps the invariant.                                     *)
LEMMA FairStep ==
  ASSUME FairInv, SoundInv', Excuses, ReportsOnly, NEW m, Widens(m),
         \A x \in Names : ~ Excused(x)' =>
           /\ state'[x] \in Consumed => Gone(fates', x) /\ Visible(x)
           /\ \A k \in m + 1 .. Len(blocks') :
                Warrants(blocks'[k], x) /\ (HoldsConsumed(blocks'[k], x) => Visible(x)),
         \A k \in m + 1 .. Len(blocks') : ThrowsAtEntry(blocks'[k]) /\ TrackedAround(k)'
  PROVE  FairInv'
<1>1. Len(blocks) \in Nat /\ Len(blocks') \in Nat
  BY BlocksType DEF FairInv, SoundInv, TypeOK, Nesting
<1>2. \A x \in Names : Deserved(x) => Deserved(x)'
  BY DEF Excuses, Deserved
<1>3. \A x \in Names : ~ Excused(x)' => ~ Excused(x) /\ (Visible(x) => Visible(x)')
  BY <1>2 DEF Excuses, Excused
<1>4. \A k \in 1 .. Len(blocks') : k \in 1 .. m \/ k \in m + 1 .. Len(blocks')
  BY <1>1 DEF Widens
<1>5. \A k \in 1 .. m : k \in 1 .. Len(blocks) /\ Wider(blocks'[k], blocks[k])
  BY <1>1 DEF Widens
<1>6. Warranted'
  <2>1. ASSUME NEW x \in Names, ~ Excused(x)', NEW k \in 1 .. m
        PROVE  /\ Warrants(blocks'[k], x)
               /\ HoldsConsumed(blocks'[k], x) => Visible(x)'
    <3>1. Warrants(blocks[k], x) /\ (HoldsConsumed(blocks[k], x) => Visible(x)')
      BY <1>3, <1>5, <2>1 DEF FairInv, Warranted
    <3>2. Wider(blocks'[k], blocks[k])
      BY <1>5
    <3>3. QED
      BY <3>1, <3>2 DEF Wider, Warrants, HoldsConsumed, Gone
  <2>2. \A x \in Names : ~ Excused(x)' =>
          /\ state'[x] \in Consumed => Gone(fates', x) /\ Visible(x)'
          /\ \A k \in 1 .. Len(blocks') :
               /\ Warrants(blocks'[k], x)
               /\ HoldsConsumed(blocks'[k], x) => Visible(x)'
    BY <1>3, <1>4, <2>1
  <2>3. QED
    BY <2>2 DEF Warranted
<1>7. ReportsAreDeserved'
  BY <1>2 DEF FairInv, ReportsAreDeserved, ReportsOnly, Deserved
<1>8. ASSUME NEW k \in 1 .. m PROVE ThrowsAtEntry(blocks'[k]) /\ TrackedAround(k)'
  <2>1. Wider(blocks'[k], blocks[k]) /\ ThrowsAtEntry(blocks[k]) /\ TrackedAround(k)
    BY <1>5 DEF FairInv
  <2>2. \A j \in 1 .. k - 1 : blocks'[j].names = blocks[j].names
    BY <1>1 DEF Widens
  <2>3. ThrowsAtEntry(blocks'[k])
    BY <2>1 DEF Wider, ThrowsAtEntry
  <2>4. QED
    BY <2>1, <2>2, <2>3 DEF Wider, TrackedAround
<1>9. QED
  BY <1>4, <1>6, <1>7, <1>8 DEF FairInv

LEMMA VisibleIsOpen ==
  ASSUME SoundInv, NEW x \in Names, Visible(x)
  PROVE  x \notin closed
<1>1. PICK k \in 1 .. Len(blocks) : x \in NamesAt(k)
  BY DEF Visible, DeclaredAt, NamesAt
<1>2. QED
  BY <1>1 DEF SoundInv, Apart

(* What is held consumed is gone, or excused.                              *)
LEMMA HeldIsGone ==
  ASSUME FairInv, NEW x \in Names, state[x] \in Consumed
  PROVE  /\ Excused(x) \/ Gone(fates, x)
         /\ Excused(x) \/ Visible(x)
         /\ x \in closed \/ Deserved(x) \/ Gone(fates, x)
  BY DEF FairInv, Warranted, Excused

LEMMA PassingWidens ==
  ASSUME TypeOK, NEW x, NEW f \in Truths, blocks' = Passing(x, f)
  PROVE  /\ Widens(Len(blocks)) /\ Len(blocks') = Len(blocks)
         /\ \A k \in 1 .. Len(blocks) : blocks'[k].names = blocks[k].names
         /\ \A y : Visible(y)' <=> Visible(y)
<1>1. Len(blocks) \in Nat
  BY BlocksType
<1>2. /\ Len(blocks') = Len(blocks)
      /\ \A k \in 1 .. Len(blocks) :
           Wider(blocks'[k], blocks[k]) /\ blocks'[k].names = blocks[k].names
  BY PassingBlocks DEF Wider
<1>3. QED
  BY <1>1, <1>2 DEF Widens, Visible, DeclaredAt

(* A simple statement on names that are visible.                           *)
LEMMA StayingFair ==
  ASSUME FairInv, SoundInv', closed' = closed, suspect \subseteq suspect',
         misuse \subseteq misuse', ReportsOnly,
         NEW x, NEW f \in {fates, fates'}, blocks' = Passing(x, f),
         \A y \in Names : ~ Excused(y)' =>
           (state'[y] \in Consumed => Gone(fates', y) /\ Visible(y))
  PROVE  FairInv'
<1>1. f \in Truths /\ TypeOK
  BY DEF FairInv, SoundInv, TypeOK
<1>2. /\ Widens(Len(blocks)) /\ Len(blocks') = Len(blocks)
      /\ \A y : Visible(y)' <=> Visible(y)
  BY <1>1, PassingWidens
<1>3. \A k \in Len(blocks) + 1 .. Len(blocks') : FALSE
  BY <1>1, <1>2, BlocksType
<1>4. Excuses
  BY <1>2 DEF Excuses
<1>5. QED
  BY <1>2, <1>3, <1>4, FairStep

LEMMA UseFair ==
  ASSUME FairInv, SoundInv', NEW x \in Names, Use(x)
  PROVE  FairInv'
<1>1. /\ closed' = closed /\ suspect' = suspect /\ state' = state /\ fates' = fates
      /\ blocks' = Passing(x, fates) /\ x \notin closed
      /\ misuse' = misuse \cup Wrong(fates, x, "use")
      /\ reported' = reported \cup UseReport(x)
  BY VisibleIsOpen DEF Use, Statement, gapVars, checkerVars, FairInv, Fresh
<1>2. ReportsOnly
  <2>1. state[x] \in Consumed => Deserved(x)'
    BY <1>1, HeldIsGone DEF Deserved, Wrong, Acts
  <2>2. QED
    BY <1>1, <2>1 DEF ReportsOnly, UseReport
<1>3. \A y \in Names : ~ Excused(y)' =>
        (state'[y] \in Consumed => Gone(fates', y) /\ Visible(y))
  BY <1>1, HeldIsGone DEF Excused, Deserved
<1>4. QED
  BY <1>1, <1>2, <1>3, StayingFair

(* A name that is handed over is gone.                                     *)
LEMMA HandOverFair ==
  ASSUME FairInv, SoundInv', NEW x \in Names, MoveOut(x) \/ PassArgument(x)
  PROVE  FairInv'
<1>1. /\ closed' = closed /\ suspect' = suspect
      /\ blocks' = Passing(x, fates') /\ Visible(x) /\ x \notin closed
      /\ fates' = Becomes(fates, x, "moved")
      /\ misuse' = misuse \cup Wrong(fates, x, "move")
  BY VisibleIsOpen DEF MoveOut, PassArgument, Statement, gapVars, FairInv
<1>2. /\ \A y \in Names : y # x => fates'[y] = fates[y] /\ state'[y] = state[y]
      /\ fates'[x] = {"moved"}
  BY <1>1 DEF MoveOut, PassArgument, AfterMove, Becomes, FairInv, SoundInv, TypeOK,
              Truths, Snapshots
<1>3. ReportsOnly
  <2>1. state[x] \in Consumed => Deserved(x)'
    BY <1>1, HeldIsGone DEF Deserved, Wrong, Acts
  <2>2. \A y \in Names : <<y, "consumed">> \in reported' =>
          <<y, "consumed">> \in reported \/ (y = x /\ state[x] \in Consumed)
    BY DEF MoveOut, PassArgument, MoveReport, UseReport
  <2>3. QED
    BY <2>1, <2>2 DEF ReportsOnly
<1>4. \A y \in Names : ~ Excused(y)' =>
        (state'[y] \in Consumed => Gone(fates', y) /\ Visible(y))
  <2>1. ASSUME NEW y \in Names, ~ Excused(y)', state'[y] \in Consumed, y # x
        PROVE  Gone(fates', y) /\ Visible(y)
    BY <1>1, <1>2, <2>1, HeldIsGone DEF Excused, Deserved, Gone
  <2>2. QED
    BY <1>1, <1>2, <2>1 DEF Gone
<1>5. QED
  BY <1>1, <1>3, <1>4, StayingFair

LEMMA BorrowFair ==
  ASSUME FairInv, SoundInv', NEW x \in Names, NEW n \in 1 .. 2, Borrow(x, n)
  PROVE  FairInv'
<1>1. /\ closed' = closed /\ suspect' = suspect
      /\ blocks' = Passing(x, fates') /\ Visible(x) /\ x \notin closed
      /\ fates' = [fates EXCEPT ![x] = {IF g = "live" THEN "lent" ELSE g : g \in @}]
      /\ misuse' = misuse \cup Wrong(fates, x, "borrow")
  BY VisibleIsOpen DEF Borrow, Statement, FairInv
<1>2. /\ \A y \in Names : y # x => fates'[y] = fates[y] /\ state'[y] = state[y]
      /\ fates'[x] = {IF g = "live" THEN "lent" ELSE g : g \in fates[x]}
      /\ state'[x] = state[x] \/ state'[x] = "Borrowed"
  BY <1>1 DEF Borrow, AfterBorrow, FairInv, SoundInv, TypeOK, Truths, Snapshots
<1>3. \A y \in Names : Gone(fates, y) => Gone(fates', y)
  BY <1>2 DEF Gone
<1>4. \A y \in Names : state'[y] \in Consumed => state[y] \in Consumed
  BY <1>2 DEF Consumed
<1>5. ReportsOnly
  <2>1. state[x] \in Consumed => Deserved(x)'
    BY <1>1, HeldIsGone DEF Deserved, Wrong, Acts
  <2>2. \A y \in Names : <<y, "consumed">> \in reported' =>
          <<y, "consumed">> \in reported \/ (y = x /\ state[x] \in Consumed)
    BY DEF Borrow, Consumed
  <2>3. QED
    BY <2>1, <2>2 DEF ReportsOnly
<1>6. \A y \in Names : ~ Excused(y)' =>
        (state'[y] \in Consumed => Gone(fates', y) /\ Visible(y))
  BY <1>1, <1>3, <1>4, HeldIsGone DEF Excused, Deserved
<1>7. QED
  BY <1>1, <1>5, <1>6, StayingFair

LEMMA AssignFair ==
  ASSUME FairInv, SoundInv', NEW x \in Names, Assign(x)
  PROVE  FairInv'
<1>1. /\ closed' = closed /\ state' = state /\ misuse' = misuse
      /\ suspect' = suspect \cup (IF state[x] \in Consumed THEN {x} ELSE {})
      /\ blocks' = Passing(NoName, fates')
      /\ fates' = [fates EXCEPT ![x] = {IF g = "lent" THEN g ELSE "live" : g \in @}]
  BY DEF Assign, Statement, checkerVars
<1>2. \A y \in Names : y # x => fates'[y] = fates[y]
  BY <1>1 DEF FairInv, SoundInv, TypeOK, Truths
<1>3. ReportsOnly
  BY DEF Assign, ReportsOnly
<1>4. \A y \in Names : ~ Excused(y)' =>
        (state'[y] \in Consumed => Gone(fates', y) /\ Visible(y))
  <2>1. ASSUME NEW y \in Names, ~ Excused(y)', state'[y] \in Consumed
        PROVE  Gone(fates', y) /\ Visible(y)
    <3>1. y # x
      BY <1>1, <2>1 DEF Excused, Deserved
    <3>2. QED
      BY <1>1, <1>2, <2>1, <3>1, HeldIsGone DEF Excused, Deserved, Gone
  <2>2. QED
    BY <2>1
<1>5. QED
  BY <1>1, <1>3, <1>4, StayingFair

LEMMA DeleteFair ==
  ASSUME FairInv, SoundInv', NEW x \in Names, Delete(x)
  PROVE  FairInv'
<1>1. /\ closed' = closed /\ suspect' = suspect
      /\ blocks' = Passing(x, fates') /\ Visible(x) /\ x \notin closed
      /\ fates' = Becomes(fates, x, "deleted")
      /\ misuse' = misuse \cup Wrong(fates, x, "delete")
  BY VisibleIsOpen DEF Delete, Statement, FairInv
<1>2. /\ \A y \in Names : y # x => fates'[y] = fates[y]
      /\ fates'[x] = {"deleted"}
      /\ \A y \in Names : y # x /\ state'[y] \in Consumed => state[y] \in Consumed
  BY <1>1 DEF Delete, DropValue, Becomes, FairInv, SoundInv, TypeOK, Truths, Consumed
<1>3. ReportsOnly
  <2>1. state[x] \in Consumed => Deserved(x)'
    BY <1>1, HeldIsGone DEF Deserved, Wrong, Acts
  <2>2. \A y \in Names : <<y, "consumed">> \in reported' =>
          <<y, "consumed">> \in reported \/ (y = x /\ state[x] \in Consumed)
    BY DEF Delete
  <2>3. QED
    BY <2>1, <2>2 DEF ReportsOnly
<1>4. \A y \in Names : ~ Excused(y)' =>
        (state'[y] \in Consumed => Gone(fates', y) /\ Visible(y))
  <2>1. ASSUME NEW y \in Names, ~ Excused(y)', state'[y] \in Consumed, y # x
        PROVE  Gone(fates', y) /\ Visible(y)
    BY <1>1, <1>2, <2>1, HeldIsGone DEF Excused, Deserved, Gone
  <2>2. QED
    BY <1>1, <1>2, <2>1 DEF Gone
<1>5. QED
  BY <1>1, <1>3, <1>4, StayingFair

(* The execution ends; what is held consumed on the way is suspect.        *)
LEMMA LeavingFair ==
  ASSUME FairInv, SoundInv',
         Leave \/ Break \/ \E x \in Names : ReturnReference(x)
  PROVE  FairInv'
<1>1. /\ closed' = closed /\ misuse' = misuse
      /\ suspect' = suspect \cup {y \in Names : state[y] \in Consumed}
      /\ \A y \in Names : state'[y] \in Consumed => state[y] \in Consumed
      /\ ReportsOnly
  <2>1. CASE Leave \/ Break
    BY <2>1 DEF Leave, Break, Statement, checkerVars, ReportsOnly
  <2>2. ASSUME NEW x \in Names, ReturnReference(x)
        PROVE  /\ closed' = closed /\ misuse' = misuse
               /\ suspect' = suspect \cup {y \in Names : state[y] \in Consumed}
               /\ \A y \in Names : state'[y] \in Consumed => state[y] \in Consumed
               /\ ReportsOnly
    BY <2>2 DEF ReturnReference, Statement, AfterBorrow, FairInv, SoundInv, TypeOK,
                Snapshots, Consumed, ReportsOnly
  <2>3. QED
    BY <2>1, <2>2
<1>2. /\ Len(blocks') = Len(blocks) /\ Len(blocks) \in Nat
      /\ \A k \in 1 .. Len(blocks) :
           Wider(blocks'[k], blocks[k]) /\ blocks'[k].names = blocks[k].names
  <2>1. CASE blocks' = blocks
    BY <2>1, BlocksType DEF Wider, FairInv, SoundInv
  <2>2. CASE Break
    <3>1. PICK k \in DOMAIN blocks : blocks' = [blocks EXCEPT ![k].ends = Either(@, fates)]
      BY <2>2 DEF Break
    <3>2. /\ Len(blocks') = Len(blocks) /\ Len(blocks) \in Nat
          /\ \A j \in 1 .. Len(blocks) : j # k => blocks'[j] = blocks[j]
          /\ blocks[k] \in Block
          /\ blocks'[k] = [blocks[k] EXCEPT !.ends = Either(blocks[k].ends, fates)]
      BY <3>1, BlocksType DEF FairInv, SoundInv
    <3>3. Wider(blocks'[k], blocks[k]) /\ blocks'[k].names = blocks[k].names
      BY <3>2 DEF Block, Wider, Either
    <3>4. \A j \in 1 .. Len(blocks) : j # k =>
            Wider(blocks'[j], blocks[j]) /\ blocks'[j].names = blocks[j].names
      BY <3>2 DEF Wider
    <3>5. QED
      BY <3>2, <3>3, <3>4
  <2>3. QED
    BY <2>1, <2>2 DEF Leave, ReturnReference
<1>3. Widens(Len(blocks)) /\ \A y : Visible(y)' <=> Visible(y)
  BY <1>2 DEF Widens, Visible, DeclaredAt
<1>4. Excuses
  BY <1>1, <1>3 DEF Excuses
<1>5. \A y \in Names : ~ Excused(y)' => state'[y] \notin Consumed
  BY <1>1 DEF Excused, Deserved
<1>6. \A k \in Len(blocks) + 1 .. Len(blocks') : FALSE
  BY <1>2
<1>7. QED
  BY <1>1, <1>3, <1>4, <1>5, <1>6, FairStep

(* The name declared finds nothing held consumed, and the one that         *)
(* initializes it is gone if it moves.                                     *)
LEMMA DeclareFair ==
  ASSUME FairInv, SoundInv', NEW x \in Names, NEW y \in Names \cup {NoName},
         NEW isMutable \in BOOLEAN, NEW garbage \in BOOLEAN,
         Declare(x, y, isMutable, garbage)
  PROVE  FairInv'
<1> DEFINE p == Passing(y, fates')
<1>1. /\ closed' = closed /\ suspect' = suspect /\ Fresh(x)
      /\ y # NoName => Visible(y) /\ y \notin closed
      /\ misuse' = misuse \cup (IF y = NoName THEN {}
                                ELSE Wrong(fates, y, IF y \in Moving THEN "move" ELSE "use"))
  BY VisibleIsOpen DEF Declare, Statement, gapVars, FairInv
<1>2. y # x /\ (y # NoName => y \in Names) /\ (y \in Names => y # NoName)
  BY <1>1, OwnershipAssumption DEF Fresh
<1>3. /\ \A z \in Names : z # x /\ z # y => fates'[z] = fates[z] /\ state'[z] = state[z]
      /\ state'[x] = "Owned"
      /\ y \in Names => \/ fates'[y] = {"moved"}
                        \/ fates'[y] = fates[y] /\ state'[y] = state[y]
  BY <1>2, OwnershipAssumption
     DEF Declare, Consume, AfterMove, Becomes, FairInv, SoundInv, TypeOK, Truths, Snapshots
<1>4. ReportsOnly
  <2>1. y # NoName /\ state[y] \in Consumed => Deserved(y)'
    BY <1>1, <1>2, HeldIsGone DEF Deserved, Wrong, Acts
  <2>2. \A z \in Names : <<z, "consumed">> \in reported' =>
          <<z, "consumed">> \in reported \/ (z = y /\ y # NoName /\ state[y] \in Consumed)
    BY DEF Declare, ConsumeReport, UseReport, MoveReport
  <2>3. QED
    BY <2>1, <2>2 DEF ReportsOnly
<1>5. /\ Len(blocks) \in Nat \ {0} /\ p \in Seq(Block) /\ Len(p) = Len(blocks)
      /\ blocks' = [p EXCEPT ![Len(blocks)].names = Append(@, x)]
      /\ \A k \in 1 .. Len(blocks) :
           /\ p[k] \in Block
           /\ Wider(p[k], blocks[k]) /\ p[k].names = blocks[k].names
  <2>1. TypeOK /\ fates' \in Truths
    BY DEF FairInv, SoundInv, TypeOK
  <2>2. Len(blocks) \in Nat \ {0}
    BY <2>1, BlocksType
  <2>3. blocks' = [p EXCEPT ![Len(blocks)].names = Append(@, x)]
    BY DEF Declare
  <2>4. QED
    BY <2>1, <2>2, <2>3, PassingBlocks DEF Wider
<1> HIDE DEF p
<1>6. Len(blocks') = Len(blocks)
  BY <1>5
<1>7. ASSUME NEW k \in 1 .. Len(blocks)
      PROVE  /\ Wider(blocks'[k], blocks[k])
             /\ k < Len(blocks) => blocks'[k].names = blocks[k].names
             /\ Elements(blocks[k].names) \subseteq Elements(blocks'[k].names)
  <2> DEFINE b == p[k]
  <2>1. b \in Block /\ b.names \in Seq(Names)
    BY <1>5 DEF Block
  <2>2. blocks'[k] = IF k = Len(blocks) THEN [b EXCEPT !.names = Append(b.names, x)] ELSE b
    <3>1. /\ p \in Seq(Block) /\ k \in 1 .. Len(p) /\ Len(p) = Len(blocks)
          /\ blocks' = [p EXCEPT ![Len(p)] = [p[Len(p)] EXCEPT !.names = Append(@, x)]]
      BY <1>5
    <3>2. blocks'[k] = IF k = Len(p) THEN [p[Len(p)] EXCEPT !.names = Append(@, x)] ELSE p[k]
      BY <3>1
    <3>3. QED
      BY <3>1, <3>2
  <2>3. Wider(b, blocks[k]) /\ b.names = blocks[k].names
    BY <1>5
  <2> HIDE DEF b
  <2>4. /\ blocks'[k].kind = b.kind /\ blocks'[k].pre = b.pre
        /\ blocks'[k].merged = b.merged /\ blocks'[k].entry = b.entry
        /\ blocks'[k].ends = b.ends /\ blocks'[k].thrown = b.thrown
        /\ blocks'[k].names = IF k = Len(blocks) THEN Append(b.names, x) ELSE b.names
    BY <2>1, <2>2 DEF Block
  <2>5. Elements(Append(b.names, x)) = Elements(b.names) \cup {x}
    BY <2>1, ElementsOfAppend
  <2>6. Wider(blocks'[k], blocks[k])
    BY <2>3, <2>4 DEF Wider
  <2>7. k < Len(blocks) => k # Len(blocks)
    BY <1>5
  <2>8. QED
    BY <2>3, <2>4, <2>5, <2>6, <2>7
<1>8. Widens(Len(blocks))
  <2>1. Len(blocks) \in 0 .. Len(blocks) /\ Len(blocks) <= Len(blocks')
    BY <1>5, <1>6
  <2>2. QED
    BY <1>6, <1>7, <2>1 DEF Widens
<1>9. \A z \in Names : Visible(z) => Visible(z)'
  BY <1>6, <1>7 DEF Visible, DeclaredAt
<1>10. Excuses
  BY <1>1, <1>9 DEF Excuses
<1>11. \A k \in Len(blocks) + 1 .. Len(blocks') : FALSE
  BY <1>5, <1>6
<1>12. ASSUME NEW z \in Names, ~ Excused(z)', state'[z] \in Consumed
       PROVE  Gone(fates', z) /\ Visible(z)
  <2>1. ~ Excused(z) /\ z # x
    BY <1>1, <1>3, <1>12 DEF Excused, Deserved, Consumed
  <2>2. CASE z = y /\ fates'[y] = {"moved"}
    BY <1>1, <1>2, <2>2 DEF Gone
  <2>3. CASE fates'[z] = fates[z] /\ state'[z] = state[z]
    BY <1>12, <2>1, <2>3, HeldIsGone DEF Gone
  <2>4. QED
    BY <1>3, <2>1, <2>2, <2>3
<1>13. QED
  BY <1>4, <1>8, <1>10, <1>11, <1>12, FairStep

(* A new block starts from what is held where it opens.                    *)
LEMMA OpeningFair ==
  ASSUME FairInv, SoundInv', closed' = closed, suspect' = suspect, misuse' = misuse,
         reported' = reported, NEW b \in Block, blocks' = Append(blocks, b),
         b.pre = state, b.merged = Untracked, b.entry = fates',
         ThrowsAtEntry(b),
         \A y \in Names : state[y] \in Consumed /\ Visible(y) => fates'[y] = fates[y],
         \A y \in Names : state'[y] \in Consumed => state[y] \in Consumed
  PROVE  FairInv'
<1>0. PICK n : n = Len(blocks)
  OBVIOUS
<1>1. /\ n \in Nat \ {0} /\ Len(blocks') = n + 1 /\ blocks'[n + 1] = b
      /\ \A k \in 1 .. n : blocks'[k] = blocks[k]
  BY <1>0, BlocksType DEF FairInv, SoundInv, TypeOK
<1>2. Widens(n)
  BY <1>0, <1>1 DEF Widens, Wider
<1>3. \A y \in Names : Visible(y) => Visible(y)'
  BY <1>0, <1>1 DEF Visible, DeclaredAt
<1>4. Excuses /\ ReportsOnly
  BY <1>3 DEF Excuses, ReportsOnly
<1>5. \A k \in n + 1 .. Len(blocks') : k = n + 1
  BY <1>1
<1>6. ASSUME NEW y \in Names, ~ Excused(y)'
      PROVE  /\ state[y] \in Consumed => Gone(fates', y) /\ Visible(y)
             /\ state'[y] \in Consumed => Gone(fates', y) /\ Visible(y)
  BY <1>6, HeldIsGone DEF Excused, Deserved, Gone
<1>7. ASSUME NEW y \in Names, ~ Excused(y)', NEW k \in n + 1 .. Len(blocks')
      PROVE  Warrants(blocks'[k], y) /\ (HoldsConsumed(blocks'[k], y) => Visible(y))
  <2>1. b.merged[y] \notin Consumed
    BY DEF Untracked, Consumed
  <2>2. QED
    BY <1>1, <1>5, <1>6, <1>7, <2>1 DEF Warrants, HoldsConsumed
<1>8. ASSUME NEW k \in n + 1 .. Len(blocks')
      PROVE  ThrowsAtEntry(blocks'[k]) /\ TrackedAround(k)'
  <2>1. k = n + 1 /\ ThrowsAtEntry(blocks'[k])
    BY <1>1, <1>5
  <2>2. ASSUME NEW j \in 1 .. k - 1, NEW y \in Names, y \in Elements(blocks'[j].names)
        PROVE  blocks'[k].pre[y] # "Absent"
    <3>1. j \in 1 .. n /\ y \in Elements(blocks[j].names)
      BY <1>1, <2>1, <2>2
    <3>2. Visible(y)
      BY <1>0, <3>1 DEF Visible, DeclaredAt
    <3>3. QED
      BY <1>1, <2>1, <3>2 DEF FairInv, SoundInv, Tracked
  <2>3. QED
    BY <2>1, <2>2 DEF TrackedAround
<1>9. QED
  BY <1>0, <1>2, <1>4, <1>6, <1>7, <1>8, FairStep

LEMMA OpenFair ==
  ASSUME FairInv, SoundInv', NEW kind \in Kinds, Open(kind)
  PROVE  FairInv'
<1> DEFINE b == NewBlock(kind, <<>>, state, fates)
<1>1. /\ closed' = closed /\ suspect' = suspect /\ misuse' = misuse /\ reported' = reported
      /\ fates' = fates /\ state' = state /\ blocks' = Append(blocks, b)
  BY DEF Open, Statement, checkerVars, truthVars, gapVars
<1>2. b \in Block
  <2>1. <<>> \in Seq(Names)
    OBVIOUS
  <2>2. QED
    BY <2>1, NewBlockType DEF FairInv, SoundInv, TypeOK
<1>3. /\ b.entry = fates' /\ b.merged = Untracked /\ b.pre = state
      /\ ThrowsAtEntry(b)
  BY <1>1 DEF NewBlock, ThrowsAtEntry
<1> HIDE DEF b
<1>4. QED
  BY <1>1, <1>2, <1>3, OpeningFair

LEMMA OpenForFair ==
  ASSUME FairInv, SoundInv', NEW x \in Names, NEW isMutable \in BOOLEAN,
         NEW garbage \in BOOLEAN, OpenFor(x, isMutable, garbage)
  PROVE  FairInv'
<1> DEFINE b == NewBlock("loop", <<x>>, state, fates')
<1>1. /\ closed' = closed /\ suspect' = suspect /\ misuse' = misuse /\ reported' = reported
      /\ Fresh(x) /\ blocks' = Append(blocks, b)
  BY DEF OpenFor, Statement, gapVars
<1>2. b \in Block
  <2>1. <<x>> \in Seq(Names) /\ "loop" \in Kinds
    BY DEF Kinds
  <2>2. QED
    BY <2>1, NewBlockType DEF FairInv, SoundInv, TypeOK
<1>3. /\ b.entry = fates' /\ b.merged = Untracked /\ b.pre = state
      /\ ThrowsAtEntry(b)
  BY <1>1 DEF NewBlock, ThrowsAtEntry
<1> HIDE DEF b
<1>4. /\ \A y \in Names \ {x} : fates'[y] = fates[y] /\ state'[y] = state[y]
      /\ state'[x] = "Owned"
  BY DEF OpenFor, FairInv, SoundInv, TypeOK, Truths, Snapshots
<1>5. ~ Visible(x)
  BY <1>1 DEF Fresh
<1>6. \A y \in Names : state[y] \in Consumed /\ Visible(y) => fates'[y] = fates[y]
  BY <1>4, <1>5
<1>7. \A y \in Names : state'[y] \in Consumed => state[y] \in Consumed
  BY <1>4 DEF Consumed
<1>8. QED
  BY <1>1, <1>2, <1>3, <1>6, <1>7, OpeningFair

(* Declared in a block around the innermost one.                           *)
Outside(x) == \E j \in 1 .. Len(blocks) - 1 : x \in Elements(blocks[j].names)

LEMMA OutsideTracked ==
  ASSUME FairInv, ScopeEnds, NEW x \in Names, Outside(x)
  PROVE  Top.pre[x] # "Absent" /\ AtScopeEnd[x] # "Absent" /\ state[x] # "Absent"
<1>1. PICK n : n = Len(blocks) /\ n \in Nat \ {0} /\ Top = blocks[n]
  BY BlocksType DEF FairInv, SoundInv, Top
<1>2. TrackedAround(n)
  BY <1>1 DEF FairInv
<1>3. Top.pre[x] # "Absent"
  BY <1>1, <1>2 DEF TrackedAround, Outside
<1>4. Visible(x)
  BY <1>1 DEF Outside, Visible, DeclaredAt
<1>5. state[x] # "Absent"
  BY <1>4 DEF FairInv, SoundInv, Tracked
<1>6. QED
  BY <1>3, <1>5, EndKeeps DEF FairInv

(* What the end of a scope leaves consumed was so before.                  *)
LEMMA InsideFair ==
  ASSUME FairInv, ScopeEnds, suspect' = suspect, misuse \subseteq misuse',
         NEW x \in Names, ~ Excused(x)'
  PROVE  /\ AtScopeEnd[x] \in Consumed => Gone(fates, x) /\ Visible(x)
         /\ Top.pre[x] \in Consumed => Gone(Top.entry, x) /\ Visible(x)
         /\ Top.merged[x] \in Consumed => Gone(Top.ends, x) /\ Visible(x)
         /\ Top.kind = "try" /\ Gone(Top.entry, x) => Gone(Top.thrown, x)
         /\ Visible(x) => Outside(x)
<1>1. PICK n : n = Len(blocks) /\ n \in Nat \ {0} /\ Top = blocks[n]
  BY BlocksType DEF FairInv, SoundInv, Top
<1>2. ~ Excused(x) /\ x \notin Elements(Top.names)
  BY DEF Excused, Deserved, ScopeEnds
<1>3. /\ state[x] \in Consumed => Gone(fates, x) /\ Visible(x)
      /\ Warrants(Top, x) /\ (HoldsConsumed(Top, x) => Visible(x))
  BY <1>1, <1>2 DEF FairInv, Warranted
<1>4. AtScopeEnd[x] \in Consumed => state[x] \in Consumed
  <2>1. Top.names \in Seq(Names)
    BY BelowBlocks DEF FairInv, SoundInv, Block
  <2>2. Top.names # <<>> => Top.names[1] \in Elements(Top.names)
    BY <2>1 DEF Elements
  <2>3. QED
    BY <1>2, <2>2 DEF AtScopeEnd, DropScope, Consumed
<1>5. Visible(x) => Outside(x)
  <2>1. \A j \in 1 .. n : j = n \/ j \in 1 .. n - 1
    BY <1>1
  <2>2. QED
    BY <1>1, <1>2, <2>1 DEF Visible, DeclaredAt, Outside
<1>6. ThrowsAtEntry(Top)
  BY <1>1 DEF FairInv
<1>7. QED
  BY <1>3, <1>4, <1>5, <1>6 DEF Warrants, HoldsConsumed, ThrowsAtEntry, Gone

(* The innermost block ends or goes on as b.                               *)
LEMMA EndingFair ==
  ASSUME FairInv, SoundInv', ScopeEnds, suspect' = suspect, misuse \subseteq misuse',
         ReportsOnly, NEW rest \in Seq(Block), Len(rest) = Len(blocks) - 1,
         \A k \in 1 .. Len(rest) :
           Wider(rest[k], blocks[k]) /\ rest[k].names = blocks[k].names,
         NEW b, blocks' = rest \/ blocks' = Append(rest, b),
         \A y \in Names : ~ Excused(y)' =>
           (state'[y] \in Consumed => Gone(fates', y) /\ Visible(y)),
         blocks' # rest =>
           /\ ThrowsAtEntry(b)
           /\ \A y \in Names : Outside(y) => b.pre[y] # "Absent"
           /\ \A y \in Names : ~ Excused(y)' =>
                Warrants(b, y) /\ (HoldsConsumed(b, y) => Visible(y))
  PROVE  FairInv'
<1>1. PICK n : n = Len(blocks) /\ n \in Nat \ {0} /\ Top = blocks[n] /\ DOMAIN blocks = 1 .. n
  BY BlocksType DEF FairInv, SoundInv, Top
<1>2. /\ Len(rest) = n - 1 /\ Len(blocks') \in n - 1 .. n
      /\ \A k \in 1 .. n - 1 : blocks'[k] = rest[k]
      /\ blocks' # rest => Len(blocks') = n /\ blocks'[n] = b
      /\ blocks' = rest => Len(blocks') = n - 1
  BY <1>1
<1>3. Widens(n - 1)
  BY <1>1, <1>2 DEF Widens
<1>4. Excuses
  <2>1. ASSUME NEW y \in Names, Visible(y) PROVE Visible(y)' \/ y \in closed'
    <3>1. PICK k \in 1 .. n : y \in Elements(blocks[k].names)
      BY <1>1, <2>1 DEF Visible, DeclaredAt
    <3>2. CASE k = n
      BY <1>1, <3>1, <3>2 DEF ScopeEnds
    <3>3. CASE k \in 1 .. n - 1
      <4>1. blocks'[k].names = blocks[k].names /\ k \in 1 .. Len(blocks')
        BY <1>1, <1>2, <3>3
      <4>2. QED
        BY <3>1, <4>1 DEF Visible, DeclaredAt
    <3>4. QED
      BY <1>1, <3>2, <3>3
  <2>2. QED
    BY <2>1 DEF Excuses, ScopeEnds
<1>5. \A k \in (n - 1) + 1 .. Len(blocks') : k = n /\ blocks' # rest
  BY <1>1, <1>2
<1>6. ASSUME NEW y \in Names, ~ Excused(y)', NEW k \in (n - 1) + 1 .. Len(blocks')
      PROVE  Warrants(blocks'[k], y) /\ (HoldsConsumed(blocks'[k], y) => Visible(y))
  BY <1>2, <1>5, <1>6
<1>7. ASSUME NEW k \in (n - 1) + 1 .. Len(blocks')
      PROVE  ThrowsAtEntry(blocks'[k]) /\ TrackedAround(k)'
  <2>1. k = n /\ blocks'[k] = b /\ ThrowsAtEntry(b) /\ blocks' # rest
    BY <1>2, <1>5
  <2>2. \A j \in 1 .. k - 1 : blocks'[j].names = blocks[j].names
    BY <1>1, <1>2, <2>1
  <2>3. TrackedAround(k)'
    BY <1>1, <2>1, <2>2 DEF TrackedAround, Outside
  <2>4. QED
    BY <2>1, <2>3
<1>8. QED
  BY <1>3, <1>4, <1>6, <1>7, FairStep

(* What a merge holds consumed one of the merged states does.              *)
LEMMA MergedFrom ==
  ASSUME NEW s, NEW t, NEW x \in Names
  PROVE  /\ Merge(s, t)[x] \in Consumed => s[x] \in Consumed \/ t[x] \in Consumed
         /\ s[x] # "Absent" \/ t[x] # "Absent" => Merge(s, t)[x] # "Absent"
  BY DEF Merge, Consumed

LEMMA BelowFair ==
  ASSUME TypeOK
  PROVE  /\ Below \in Seq(Block) /\ Len(Below) = Len(blocks) - 1
         /\ \A k \in 1 .. Len(Below) :
              Wider(Below[k], blocks[k]) /\ Below[k].names = blocks[k].names
  BY BelowBlocks DEF Wider

LEMMA CloseBlockFair ==
  ASSUME FairInv, SoundInv', CloseBlock \/ CloseLoop
  PROVE  FairInv'
<1>1. /\ ScopeEnds /\ suspect' = suspect /\ misuse \subseteq misuse' /\ ReportsOnly
      /\ state' = AtScopeEnd /\ blocks' = Below
      /\ \A y \in Names : fates[y] \subseteq fates'[y]
  BY DEF CloseBlock, CloseLoop, truthVars, Either, ReportsOnly
<1>2. \A y \in Names : ~ Excused(y)' =>
        (state'[y] \in Consumed => Gone(fates', y) /\ Visible(y))
  BY <1>1, InsideFair DEF Gone
<1>3. QED
  BY <1>1, <1>2, BelowFair, EndingFair DEF FairInv, SoundInv

LEMMA CloseIfFair ==
  ASSUME FairInv, SoundInv', CloseIf
  PROVE  FairInv'
<1> DEFINE joined == Merge(Top.merged, AtScopeEnd)
<1>1. /\ ScopeEnds /\ suspect' = suspect /\ misuse \subseteq misuse' /\ ReportsOnly
      /\ state' = (IF Top.kind = "if" THEN Merge(joined, Top.pre) ELSE joined)
      /\ blocks' = Below
      /\ fates' = Either(Either(Top.ends, fates),
                         IF Top.kind = "if" THEN Top.entry ELSE Nowhere)
  BY DEF CloseIf, ReportsOnly
<1>2. \A y \in Names : /\ Top.ends[y] \cup fates[y] \subseteq fates'[y]
                       /\ Top.kind = "if" => Top.entry[y] \subseteq fates'[y]
  BY <1>1 DEF Either
<1>3. \A y \in Names : joined[y] \in Consumed =>
        Top.merged[y] \in Consumed \/ AtScopeEnd[y] \in Consumed
  BY MergedFrom
<1> HIDE DEF joined
<1>4. \A y \in Names : state'[y] \in Consumed =>
        \/ joined[y] \in Consumed
        \/ Top.kind = "if" /\ Top.pre[y] \in Consumed
  BY <1>1, MergedFrom
<1>5. \A y \in Names : ~ Excused(y)' =>
        (state'[y] \in Consumed => Gone(fates', y) /\ Visible(y))
  BY <1>1, <1>2, <1>3, <1>4, InsideFair DEF Gone
<1>6. QED
  BY <1>1, <1>5, BelowFair, EndingFair DEF FairInv, SoundInv

(* The state of the first handler is the worse of two: of the one an       *)
(* exception before the first statement finds, and of that behind the last.*)
LEMMA FirstExceptFair ==
  ASSUME FairInv, SoundInv', FirstExcept
  PROVE  FairInv'
<1> DEFINE end == AtScopeEnd
           worse == Merge(Top.pre, end)
           thrown == Either(Top.thrown, fates)
           b == [Top EXCEPT !.kind = "except", !.names = <<>>, !.pre = worse,
                            !.merged = end, !.entry = thrown, !.ends = fates,
                            !.thrown = thrown]
<1>1. /\ ScopeEnds /\ suspect' = suspect /\ misuse \subseteq misuse' /\ ReportsOnly
      /\ state' = worse /\ fates' = thrown /\ blocks' = Append(Below, b) /\ Top.kind = "try"
  BY DEF FirstExcept, ReportsOnly
<1>2. \A y \in Names : thrown[y] = Top.thrown[y] \cup fates[y]
  BY DEF Either
<1>3. /\ \A y \in Names : worse[y] \in Consumed =>
                            Top.pre[y] \in Consumed \/ end[y] \in Consumed
      /\ \A y \in Names : Top.pre[y] # "Absent" => worse[y] # "Absent"
  BY MergedFrom
<1>4. ASSUME NEW y \in Names, ~ Excused(y)'
      PROVE  /\ worse[y] \in Consumed => Gone(thrown, y) /\ Visible(y)
             /\ end[y] \in Consumed => Gone(fates, y) /\ Visible(y)
  <2>1. /\ end[y] \in Consumed => Gone(fates, y) /\ Visible(y)
        /\ Top.pre[y] \in Consumed => Gone(Top.thrown, y) /\ Visible(y)
    BY <1>1, <1>4, InsideFair
  <2>2. QED
    BY <1>2, <1>3, <2>1 DEF Gone
<1>5. Top \in Block
  BY BelowBlocks DEF FairInv, SoundInv
<1>6. /\ b.kind = "except" /\ b.pre = worse /\ b.merged = end /\ b.entry = thrown
      /\ b.ends = fates
  BY <1>5 DEF Block
<1> HIDE DEF b, worse, thrown, end
<1>7. /\ ThrowsAtEntry(b)
      /\ \A y \in Names : Outside(y) => b.pre[y] # "Absent"
      /\ \A y \in Names : ~ Excused(y)' =>
           Warrants(b, y) /\ (HoldsConsumed(b, y) => Visible(y))
  BY <1>1, <1>3, <1>4, <1>6, OutsideTracked DEF ThrowsAtEntry, Warrants, HoldsConsumed
<1>8. \A y \in Names : ~ Excused(y)' =>
        (state'[y] \in Consumed => Gone(fates', y) /\ Visible(y))
  BY <1>1, <1>4
<1>9. QED
  BY <1>1, <1>7, <1>8, BelowFair, EndingFair DEF FairInv, SoundInv

LEMMA CloseTryFair ==
  ASSUME FairInv, SoundInv', NEW hasFinally \in BOOLEAN, CloseTry(hasFinally)
  PROVE  FairInv'
<1> DEFINE end == AtScopeEnd
           after == IF Top.kind = "try" THEN end ELSE Merge(Top.merged, end)
           normal == Either(Top.ends, fates)
           all == IF hasFinally THEN Either(normal, Top.thrown) ELSE normal
           b == NewBlock("finally", <<>>, after, all)
<1>1. /\ ScopeEnds /\ suspect' = suspect /\ misuse \subseteq misuse' /\ ReportsOnly
      /\ state' = after /\ fates' = all
      /\ blocks' = Below \/ blocks' = Append(Below, b)
  BY DEF CloseTry, ReportsOnly
<1>2. \A y \in Names : Top.ends[y] \cup fates[y] \subseteq all[y]
  BY DEF Either
<1>3. /\ \A y \in Names : after[y] \in Consumed =>
                            Top.merged[y] \in Consumed \/ end[y] \in Consumed
      /\ \A y \in Names : end[y] # "Absent" => after[y] # "Absent"
  BY MergedFrom
<1>4. /\ b.kind = "finally" /\ b.pre = after /\ b.merged = Untracked /\ b.entry = all
  BY DEF NewBlock
<1>5. ASSUME NEW y \in Names, ~ Excused(y)'
      PROVE  after[y] \in Consumed => Gone(all, y) /\ Visible(y)
  <2>1. /\ end[y] \in Consumed => Gone(fates, y) /\ Visible(y)
        /\ Top.merged[y] \in Consumed => Gone(Top.ends, y) /\ Visible(y)
    BY <1>1, <1>5, InsideFair
  <2>2. QED
    BY <1>2, <1>3, <2>1 DEF Gone
<1> HIDE DEF b, all, normal, after, end
<1>6. \A y \in Names : Untracked[y] \notin Consumed
  BY DEF Untracked, Consumed
<1>7. \A y \in Names : Outside(y) => after[y] # "Absent"
  BY <1>1, <1>3, OutsideTracked DEF end
<1>8. /\ ThrowsAtEntry(b)
      /\ \A y \in Names : Outside(y) => b.pre[y] # "Absent"
      /\ \A y \in Names : ~ Excused(y)' =>
           Warrants(b, y) /\ (HoldsConsumed(b, y) => Visible(y))
  BY <1>4, <1>5, <1>6, <1>7 DEF ThrowsAtEntry, Warrants, HoldsConsumed
<1>9. \A y \in Names : ~ Excused(y)' =>
        (state'[y] \in Consumed => Gone(fates', y) /\ Visible(y))
  BY <1>1, <1>5
<1>10. QED
  BY <1>1, <1>8, <1>9, BelowFair, EndingFair DEF FairInv, SoundInv

(* The next branch starts from the snapshot, and only what is outside the  *)
(* statement can be moved by its condition.                                *)
LEMMA NextBranchFair ==
  ASSUME FairInv, SoundInv', NEW kind \in Joining, NEW m \in Names \cup {NoName},
         NextBranch(kind, m), m \in Names => Outside(m)
  PROVE  FairInv'
<1> DEFINE end == AtScopeEnd
           start == Restore(Top.pre, end)
           from == IF m = NoName THEN Top.entry ELSE Becomes(Top.entry, m, "moved")
           p == Passing(m, from)
           rest == [k \in 1 .. Len(blocks) - 1 |-> p[k]]
           b == [Top EXCEPT !.kind = kind, !.names = <<>>, !.entry = from,
                            !.merged = Merge(@, end), !.ends = Either(@, fates)]
<1>1. /\ ScopeEnds /\ suspect' = suspect /\ misuse \subseteq misuse'
      /\ blocks' = Append(rest, b) /\ fates' = from
      /\ state' = IF m = NoName THEN start ELSE AfterMove(start, m)
      /\ m # NoName => /\ reported' = reported \cup MoveReport(start, m)
                       /\ misuse' = misuse \cup Wrong(Top.entry, m, "move")
      /\ m = NoName => reported' = reported
  BY DEF NextBranch
<1>2. /\ Top \in Block /\ Top.entry \in Truths /\ NoName \notin Names
      /\ Len(blocks) \in Nat \ {0}
  BY BelowBlocks, BlocksType, OwnershipAssumption DEF Block, FairInv, SoundInv
<1>3. from \in Truths
  BY <1>2, TruthTypes DEF Fates
<1>4. /\ \A y \in Names : y # m => from[y] = Top.entry[y]
      /\ m \in Names => from[m] = {"moved"}
  BY <1>2 DEF Becomes, Truths
<1>5. \A y \in Names : start[y] = IF Top.pre[y] = "Absent" THEN end[y] ELSE Top.pre[y]
  BY DEF Restore
<1>6. \A y \in Names : /\ Merge(Top.merged, end)[y] \in Consumed =>
                            Top.merged[y] \in Consumed \/ end[y] \in Consumed
                       /\ Either(Top.ends, fates)[y] = Top.ends[y] \cup fates[y]
  BY MergedFrom DEF Either
<1>7. /\ b.kind = kind /\ b.pre = Top.pre /\ b.merged = Merge(Top.merged, end)
      /\ b.entry = from /\ b.ends = Either(Top.ends, fates)
  BY <1>2 DEF Block
<1>8. /\ rest \in Seq(Block) /\ Len(rest) = Len(blocks) - 1
      /\ \A k \in 1 .. Len(rest) :
           Wider(rest[k], blocks[k]) /\ rest[k].names = blocks[k].names
  <2>1. \A k \in 1 .. Len(blocks) :
          p[k] \in Block /\ Wider(p[k], blocks[k]) /\ p[k].names = blocks[k].names
    BY <1>3, PassingBlocks DEF Wider, FairInv, SoundInv
  <2> HIDE DEF p
  <2>2. rest \in [1 .. Len(blocks) - 1 -> Block] /\ Len(blocks) - 1 \in Nat
    BY <1>2, <2>1
  <2>3. rest \in Seq(Block) /\ Len(rest) = Len(blocks) - 1
    BY <2>2, FunctionIsSequence
  <2>4. QED
    BY <1>2, <2>1, <2>3
<1> HIDE DEF b, rest, p, from, start, end
<1>9. ASSUME NEW y \in Names, ~ Excused(y)'
      PROVE  /\ start[y] \in Consumed => Gone(Top.entry, y) /\ Visible(y)
             /\ Top.pre[y] \in Consumed => Gone(Top.entry, y) /\ Visible(y)
             /\ Top.merged[y] \in Consumed => Gone(Top.ends, y) /\ Visible(y)
             /\ end[y] \in Consumed => Gone(fates, y) /\ Visible(y)
  <2>1. /\ end[y] \in Consumed => Gone(fates, y) /\ Visible(y)
        /\ Top.pre[y] \in Consumed => Gone(Top.entry, y) /\ Visible(y)
        /\ Top.merged[y] \in Consumed => Gone(Top.ends, y) /\ Visible(y)
        /\ Visible(y) => Outside(y)
    BY <1>1, <1>9, InsideFair DEF end
  <2>2. Outside(y) => Top.pre[y] # "Absent"
    BY <1>1, OutsideTracked
  <2>3. QED
    BY <1>5, <2>1, <2>2
<1>10. \A y \in Names : Gone(Top.entry, y) => Gone(from, y)
  BY <1>4 DEF Gone
<1>11. \A y \in Names : y # m => state'[y] = start[y]
  BY <1>1 DEF AfterMove
<1>12. ReportsOnly
  <2>1. ASSUME m \in Names, start[m] \in Consumed PROVE Deserved(m)'
    <3>1. Top.pre[m] # "Absent" /\ Visible(m) /\ m \notin closed
      BY <1>1, <1>2, <2>1, OutsideTracked, VisibleIsOpen
         DEF Outside, Visible, DeclaredAt, FairInv
    <3>2. Top.pre[m] \in Consumed
      BY <1>5, <2>1, <3>1
    <3>3. PICK n : n \in 1 .. Len(blocks) /\ Top = blocks[n]
      BY <1>2 DEF Top
    <3>4. Excused(m) \/ Warrants(Top, m)
      BY <2>1, <3>3 DEF FairInv, Warranted
    <3>5. CASE Gone(Top.entry, m)
      BY <1>1, <1>2, <2>1, <3>5 DEF Deserved, Wrong, Acts
    <3>6. CASE Excused(m)
      BY <1>1, <3>1, <3>6 DEF Excused, Deserved
    <3>7. QED
      BY <3>2, <3>4, <3>5, <3>6 DEF Warrants
  <2>2. \A y \in Names : <<y, "consumed">> \in reported' =>
          \/ <<y, "consumed">> \in reported
          \/ y = m /\ m \in Names /\ start[m] \in Consumed
    BY <1>1 DEF MoveReport
  <2>3. QED
    BY <2>1, <2>2 DEF ReportsOnly
<1>13. \A y \in Names : ~ Excused(y)' =>
         (state'[y] \in Consumed => Gone(fates', y) /\ Visible(y))
  <2>1. m \in Names => Visible(m)
    BY <1>2 DEF Outside, Visible, DeclaredAt
  <2>2. m \in Names => Gone(from, m)
    BY <1>4 DEF Gone
  <2>3. QED
    BY <1>1, <1>9, <1>10, <1>11, <2>1, <2>2
<1>14. ASSUME NEW y \in Names, ~ Excused(y)'
       PROVE  Warrants(b, y) /\ (HoldsConsumed(b, y) => Visible(y))
  <2>1. b.merged[y] \in Consumed => Gone(b.ends, y) /\ Visible(y)
    BY <1>6, <1>7, <1>9, <1>14 DEF Gone
  <2>2. QED
    BY <1>7, <1>9, <1>10, <1>14, <2>1 DEF Warrants, HoldsConsumed
<1>15. /\ ThrowsAtEntry(b)
       /\ \A y \in Names : Outside(y) => b.pre[y] # "Absent"
  BY <1>1, <1>7, OutsideTracked DEF ThrowsAtEntry, Joining
<1>16. QED
  BY <1>1, <1>8, <1>12, <1>13, <1>14, <1>15, EndingFair

LEMMA InitFair == Init => FairInv
<1> SUFFICES ASSUME Init PROVE FairInv
  OBVIOUS
<1>1. SoundInv
  BY InitSound
<1>2. /\ Len(blocks) = 1 /\ blocks[1] = Body(<<>>) /\ Body(<<>>).kind = "function"
      /\ Body(<<>>).pre = Untracked /\ Body(<<>>).merged = Untracked /\ state = Untracked
  BY DEF Init, Body, NewBlock
<1>3. \A k \in 1 .. Len(blocks) : k = 1
  BY <1>2
<1>4. \A x \in Names : Untracked[x] \notin Consumed
  BY DEF Untracked, Consumed
<1>5. Warranted
  BY <1>2, <1>3, <1>4 DEF Warranted, Warrants, HoldsConsumed
<1>6. \A k \in 1 .. Len(blocks) : ThrowsAtEntry(blocks[k]) /\ TrackedAround(k)
  BY <1>2, <1>3 DEF ThrowsAtEntry, TrackedAround
<1>7. QED
  BY <1>1, <1>5, <1>6 DEF FairInv, ReportsAreDeserved, Init

(* What a function leaves consumed is suspect in the next.                 *)
LEMMA EndFunctionFair ==
  ASSUME SoundInv', NEW parameters \in Parameters, EndFunction(parameters)
  PROVE  FairInv'
<1>1. /\ Len(blocks') = 1 /\ blocks'[1] = Body(parameters)
      /\ Body(parameters).kind = "function"
      /\ Body(parameters).pre = Untracked /\ Body(parameters).merged = Untracked
      /\ suspect' = {x \in Names : state'[x] \in Consumed} /\ reported' = {}
  BY DEF EndFunction, BeginFunction, Body, NewBlock
<1>2. \A k \in 1 .. Len(blocks') : k = 1
  BY <1>1
<1>3. \A x \in Names : Untracked[x] \notin Consumed
  BY DEF Untracked, Consumed
<1>4. Warranted'
  BY <1>1, <1>2, <1>3 DEF Warranted, Warrants, HoldsConsumed, Excused, Deserved
<1>5. \A k \in 1 .. Len(blocks') : ThrowsAtEntry(blocks'[k]) /\ TrackedAround(k)'
  BY <1>1, <1>2 DEF ThrowsAtEntry, TrackedAround
<1>6. QED
  BY <1>1, <1>4, <1>5 DEF FairInv, ReportsAreDeserved

LEMMA NextFair == FairInv /\ [Next]_vars => FairInv'
<1> SUFFICES ASSUME FairInv, [Next]_vars PROVE FairInv'
  OBVIOUS
<1>1. SoundInv'
  BY NextSound DEF FairInv
<1>2. CASE UNCHANGED vars
  BY <1>1, <1>2 DEF vars, checkerVars, truthVars, gapVars, FairInv, Warranted,
                    ReportsAreDeserved, Excused, Deserved, Visible, DeclaredAt, TrackedAround
<1>3. CASE SimpleStatement
  BY <1>1, <1>3, UseFair, HandOverFair, AssignFair, DeleteFair, LeavingFair, BorrowFair,
     DeclareFair DEF SimpleStatement
<1>4. CASE CompoundStatement
  <2>1. ASSUME NEW m \in Names \cup {NoName}, Elif(m) PROVE FairInv'
    <3>1. "if" \in Joining /\ NextBranch("if", m) /\ (m \in Names => Outside(m))
      BY <2>1, OwnershipAssumption DEF Elif, Joining, Outside
    <3>2. QED
      BY <1>1, <3>1, NextBranchFair
  <2>2. CASE Else \/ NextExcept
    <3>1. PICK kind \in Joining : NextBranch(kind, NoName)
      BY <2>2 DEF Else, NextExcept, Joining
    <3>2. NoName \notin Names
      BY OwnershipAssumption
    <3>3. QED
      BY <1>1, <3>1, <3>2, NextBranchFair
  <2>3. QED
    BY <1>1, <1>4, <2>1, <2>2, OpenFair, OpenForFair, CloseIfFair, FirstExceptFair,
       CloseTryFair, CloseBlockFair DEF CompoundStatement
<1>5. CASE \E parameters \in Parameters : EndFunction(parameters)
  BY <1>1, <1>5, EndFunctionFair
<1>6. QED
  BY <1>2, <1>3, <1>4, <1>5 DEF Next

(* No name is reported as consumed without a reason: some execution        *)
(* misuses it, or the walk is known to hold it consumed beside the         *)
(* executions: in programs of any length and nesting, with any names.      *)
THEOREM ReportsDeserved == Spec => []ReportsAreDeserved
<1>1. FairInv => ReportsAreDeserved
  BY DEF FairInv
<1>2. QED
  BY <1>1, InitFair, NextFair, PTL DEF Spec
=============================================================================

-------------------------- MODULE OwnershipChecker --------------------------
(***************************************************************************)
(* The borrow checker of the front end (src/uranite/semantic/borrow.cpp):  *)
(* a walk over the statements of each function, in the order they are      *)
(* written, that keeps the ownership state of every name and reports the   *)
(* misuses it sees. A program with a report is not compiled.               *)
(*                                                                         *)
(* The program is chosen as the walk goes: an action is the checker's      *)
(* handler for one expression, one statement or one edge of a compound     *)
(* statement. Beside the checker's own state the module keeps the truth:   *)
(* fates, what the executions that reach this point have done to the value *)
(* of each name. misuse is what some execution does wrong; the properties  *)
(* compare it with what is reported.                                       *)
(*                                                                         *)
(* A function declares a name once (names are apart, as after renaming);   *)
(* two functions may declare the same. A statement that holds several      *)
(* expressions is the sequence of their actions: the checker keeps nothing *)
(* between them. The checker ignores every statement and expression it has *)
(* no case for (switch, match, with, defer, constructor arguments, await,  *)
(* lambdas): they are no steps here.                                       *)
(***************************************************************************)
EXTENDS Integers, Sequences

CONSTANTS
  Names,          (* variables, and names of the module around the function *)
  Moving,         (* names of types that move without the keyword           *)
  Outer,          (* names the module declares as well                      *)
  Here,           (* not a name: the key of fates that says whether any     *)
                  (* execution reaches this point                           *)
  NoName,
  Parameters,     (* the lists of parameters a function may have            *)
  MaxStatements,  (* bounds: statements of a program,                       *)
  MaxDepth,       (*   open blocks,                                         *)
  MaxFunctions    (*   functions                                            *)

ASSUME OwnershipAssumption ==
  /\ Moving \subseteq Names
  /\ Outer \subseteq Names
  /\ Here \notin Names /\ NoName \notin Names
  /\ Parameters \subseteq Seq(Names)
  /\ MaxStatements \in Nat /\ MaxDepth \in Nat /\ MaxFunctions \in Nat

VARIABLES
  state,      (* ownershipTracking[name].state; "Absent" if not tracked    *)
  borrows,    (* the number of its activeBorrows                           *)
  mutable,    (* its isMutable                                             *)
  exclusive,  (* its hasMutableBorrow, which no constructor sets           *)
  blocks,     (* variableScope, with the locals of the handlers under way  *)
  reported,   (* the diagnostics of this function: <<name, reason>>        *)
  fates,      (* [name -> what executions reaching this point did to it]   *)
  misuse,     (* what some execution of this function does wrong           *)
  forgotten,  (* names whose misuse the checker stopped following          *)
  suspect,    (* names it holds consumed although no execution did that    *)
  closed,     (* names of this function whose scope has ended              *)
  statements, (* counters, for the bounds                                  *)
  functions

checkerVars == <<state, borrows, mutable, exclusive>>
truthVars == <<fates, misuse>>
gapVars == <<forgotten, suspect>>
vars == <<checkerVars, blocks, reported, truthVars, gapVars, closed, statements,
          functions>>

-----------------------------------------------------------------------------
(* Types. MutableBorrowed is a state of the code that nothing enters: every *)
(* caller of borrowValue asks for a shared borrow.                         *)

States == {"Owned", "Borrowed", "Moved", "Dropped"}
Consumed == {"Moved", "Dropped"}
Snapshots == [Names -> States \cup {"Absent"}]

Fates == {"live", "lent", "moved", "deleted"}
Truths == [Names \cup {Here} -> SUBSET Fates]

Reasons == {"consumed", "lent", "exclusive", "immutable", "reference"}
Acts == {"use", "move", "delete", "borrow", "lent", "again"}

Kinds == {"function", "if", "else", "loop", "unsafe", "try", "except", "finally"}

(* names: the scope. pre: the snapshot further branches start from, and    *)
(* entry the truth they start from. merged: the merge so far of the        *)
(* snapshots at the ends of branches, and ends the truth there. thrown:    *)
(* the truth wherever an exception may leave. demanded: the names from     *)
(* outside a loop that an iteration needs.                                 *)
Block ==
  [kind : Kinds, names : Seq(Names), pre : Snapshots, merged : Snapshots,
   entry : Truths, ends : Truths, thrown : Truths, demanded : SUBSET Names]

(* The function's own block is the first.                                  *)
Nesting(open) ==
  /\ open \in Seq(Block) /\ open # <<>>
  /\ \A k \in 1 .. Len(open) : (open[k].kind = "function") <=> (k = 1)

TypeOK ==
  /\ state \in Snapshots
  /\ borrows \in [Names -> Nat]
  /\ mutable \in [Names -> BOOLEAN]
  /\ exclusive \in [Names -> BOOLEAN]
  /\ Nesting(blocks)
  /\ reported \subseteq Names \X Reasons
  /\ fates \in Truths
  /\ misuse \subseteq Names \X Acts
  /\ forgotten \subseteq Names
  /\ suspect \subseteq Names
  /\ closed \subseteq Names
  /\ statements \in Nat
  /\ functions \in Nat

-----------------------------------------------------------------------------
(* The truth: sets of fates, joined where executions meet.                 *)

Elements(s) == {s[k] : k \in DOMAIN s}

Nowhere == [x \in Names \cup {Here} |-> {}]
Either(f, g) == [x \in Names \cup {Here} |-> f[x] \cup g[x]]
Gone(f, x) == f[x] \cap {"moved", "deleted"} # {}

Becomes(f, x, fate) == [f EXCEPT ![x] = {fate}]

(* What an execution does wrong that acts on x where the truth is f.       *)
Wrong(f, x, act) ==
  (IF Gone(f, x) THEN {<<x, act>>} ELSE {})
    \cup (IF act \in {"move", "delete"} /\ "lent" \in f[x]
          THEN {<<x, "lent">>} ELSE {})

Top == blocks[Len(blocks)]
Below == [k \in 1 .. Len(blocks) - 1 |-> blocks[k]]

DeclaredAt(k, x) == \E j \in k .. Len(blocks) : x \in Elements(blocks[j].names)

(* An action on x, after which the truth is f: it may throw on its way, and *)
(* loops around it need x again in the next iteration.                     *)
Passing(x, f) ==
  [k \in 1 .. Len(blocks) |->
     [blocks[k] EXCEPT
        !.thrown = IF blocks[k].kind \in {"try", "except"} THEN Either(@, f)
                                                           ELSE @,
        !.demanded = IF x \in Names /\ ~ DeclaredAt(k, x) THEN @ \cup {x} ELSE @]]

-----------------------------------------------------------------------------
(* Names and states.                                                       *)

Visible(x) == DeclaredAt(1, x)
Fresh(x) == ~ Visible(x) /\ x \notin closed

Reached == fates[Here] # {}

Statement ==
  /\ Reached
  /\ statements < MaxStatements
  /\ statements' = statements + 1
  /\ UNCHANGED <<functions, closed>>

(* checkUseAfterMove.                                                      *)
UseReport(x) == IF state[x] \in Consumed THEN {<<x, "consumed">>} ELSE {}

Mut_MoveReport(s, x) ==
  IF s[x] \in Consumed THEN {<<x, "consumed">>} ELSE {}

(* moveValue: what it reports, and the states it leaves.                   *)
MoveReport(s, x) ==
  IF s[x] \in Consumed THEN {<<x, "consumed">>}
  ELSE IF s[x] # "Absent" /\ borrows[x] > 0 THEN {<<x, "lent">>} ELSE {}

AfterMove(s, x) ==
  IF s[x] = "Absent" \/ MoveReport(s, x) # {} THEN s
                                              ELSE [s EXCEPT ![x] = "Moved"]

(* dropValue. The records it erases are those whose borrower is the        *)
(* dropped name; borrowers are called "<temp>" and "<call>", so it erases  *)
(* none. It recomputes the flags of all and sets back to Owned every other *)
(* name without borrows that is not Moved.                                 *)
DropValue(s, y) ==
  [x \in Names |->
     IF x = y THEN "Dropped"
     ELSE IF s[x] # "Absent" /\ s[x] # "Moved" /\ borrows[x] = 0 THEN "Owned"
     ELSE s[x]]

(* popScope: dropValue of the names of the scope, the last one first. Each *)
(* drop undoes the one before it, and the first name stays Dropped.        *)
DropScope(s, names) ==
  [x \in Names |->
     IF names = <<>> THEN s[x]
     ELSE IF x = names[1] THEN "Dropped"
     ELSE IF x \in Elements(names)
          THEN IF borrows[x] = 0 THEN "Owned" ELSE "Dropped"
     ELSE IF s[x] # "Absent" /\ s[x] # "Moved" /\ borrows[x] = 0 THEN "Owned"
     ELSE s[x]]

(* The names a drop makes usable again although they were dropped.         *)
Revived(s, t) == {x \in Names : s[x] = "Dropped" /\ t[x] = "Owned"}

AtScopeEnd == DropScope(state, Top.names)

(* What every popScope does beside the states.                             *)
ScopeEnds ==
  /\ exclusive' = [x \in Names |-> Top.names = <<>> /\ exclusive[x]]
  /\ closed' = closed \cup Elements(Top.names)
  /\ UNCHANGED <<borrows, mutable>>

Mut_Merge(s, t) ==
  [x \in Names |->
     IF s[x] = "Absent" THEN t[x]
     ELSE IF t[x] = "Absent" \/ s[x] = t[x] THEN s[x]
     ELSE IF "Dropped" \in {s[x], t[x]} THEN "Dropped"
     ELSE s[x]]

(* mergeOwnershipStates, one snapshot after another.                       *)
Merge(s, t) ==
  [x \in Names |->
     IF s[x] = "Absent" THEN t[x]
     ELSE IF t[x] = "Absent" \/ s[x] = t[x] THEN s[x]
     ELSE IF "Dropped" \in {s[x], t[x]} THEN "Dropped"
     ELSE IF "Moved" \in {s[x], t[x]} THEN "Moved"
     ELSE s[x]]

Mut_Restore(snapshot, s) ==
  [x \in Names |-> s[x]]

(* restoreOwnershipStates, over the states s: names the snapshot does not   *)
(* hold keep theirs, and no borrow is restored.                            *)
Restore(snapshot, s) ==
  [x \in Names |-> IF snapshot[x] = "Absent" THEN s[x] ELSE snapshot[x]]

-----------------------------------------------------------------------------
(* Expressions and simple statements.                                      *)

(* An identifier where its value is read: an operand, a callee, the object *)
(* of a member, an index or a method call.                                 *)
Use(x) ==
  /\ Statement
  /\ Visible(x) \/ (x \in Outer /\ Fresh(x))
  /\ reported' = reported \cup UseReport(x)
  /\ misuse' = misuse \cup Wrong(fates, x, "use")
  /\ blocks' = Passing(x, fates)
  /\ UNCHANGED <<checkerVars, fates, gapVars>>

(* move x.                                                                 *)
MoveOut(x) ==
  /\ Statement
  /\ Visible(x)
  /\ reported' = reported \cup MoveReport(state, x)
  /\ state' = AfterMove(state, x)
  /\ misuse' = misuse \cup Wrong(fates, x, "move")
  /\ fates' = Becomes(fates, x, "moved")
  /\ blocks' = Passing(x, fates')
  /\ UNCHANGED <<borrows, mutable, exclusive, gapVars>>

(* x as an argument of a call, of a type that moves: a value that is lent   *)
(* is handed over without a report and without being marked.               *)
PassArgument(x) ==
  /\ Statement
  /\ Visible(x) /\ x \in Moving
  /\ reported' = reported \cup UseReport(x)
                   \cup (IF state[x] = "Owned" THEN MoveReport(state, x) ELSE {})
  /\ state' = IF state[x] = "Owned" THEN AfterMove(state, x) ELSE state
  /\ forgotten' = forgotten \cup (IF state[x] = "Borrowed" THEN {x} ELSE {})
  /\ misuse' = misuse \cup Wrong(fates, x, "move")
  /\ fates' = Becomes(fates, x, "moved")
  /\ blocks' = Passing(x, fates')
  /\ UNCHANGED <<borrows, mutable, exclusive, suspect>>

Mut_AfterBorrow(x) == [state EXCEPT ![x] = "MutableBorrowed"]

AfterBorrow(x) == [state EXCEPT ![x] = "Borrowed"]

(* &x: n records, one as an expression and one more as an argument. Only a *)
(* Moved value is refused: a Dropped one is Borrowed from now on.          *)
Borrow(x, n) ==
  LET moved == state[x] = "Moved"
      refused == moved \/ exclusive[x]
  IN /\ Statement
     /\ Visible(x)
     /\ reported' = reported \cup (IF moved THEN {<<x, "consumed">>}
                                   ELSE IF refused THEN {<<x, "exclusive">>}
                                   ELSE {})
     /\ state' = IF refused THEN state ELSE AfterBorrow(x)
     /\ borrows' = IF refused THEN borrows ELSE [borrows EXCEPT ![x] = @ + n]
     /\ forgotten' = forgotten \cup (IF state[x] = "Dropped" THEN {x} ELSE {})
     /\ misuse' = misuse \cup Wrong(fates, x, "borrow")
     /\ fates' = [fates EXCEPT ![x] =
                    {IF g = "live" THEN "lent" ELSE g : g \in @}]
     /\ blocks' = Passing(x, fates')
     /\ UNCHANGED <<mutable, exclusive, suspect>>

(* x = e. The state is neither looked at nor set.                          *)
Assign(x) ==
  /\ Statement
  /\ Visible(x)
  /\ reported' = reported
       \cup (IF mutable[x] THEN {} ELSE {<<x, "immutable">>})
       \cup (IF borrows[x] > 0 THEN {<<x, "lent">>} ELSE {})
  /\ suspect' = suspect \cup (IF state[x] \in Consumed THEN {x} ELSE {})
  /\ fates' = [fates EXCEPT ![x] = {IF g = "lent" THEN g ELSE "live" : g \in @}]
  /\ blocks' = Passing(NoName, fates')
  /\ UNCHANGED <<checkerVars, forgotten, misuse>>

Delete(x) ==
  LET refused == state[x] \in Consumed \/ borrows[x] > 0
      after == IF refused THEN state ELSE DropValue(state, x)
  IN /\ Statement
     /\ Visible(x)
     /\ reported' = reported \cup (IF state[x] \in Consumed THEN {<<x, "consumed">>}
                                   ELSE IF refused THEN {<<x, "lent">>}
                                   ELSE {})
     /\ state' = after
     /\ exclusive' = [y \in Names |-> refused /\ exclusive[y]]
     /\ forgotten' = forgotten \cup Revived(state, after)
     /\ misuse' = misuse \cup Wrong(fates, x, "delete")
     /\ fates' = Becomes(fates, x, "deleted")
     /\ blocks' = Passing(x, fates')
     /\ UNCHANGED <<borrows, mutable, suspect>>

(* A variable whose initializer is the identifier y moves y, if its type   *)
(* moves.                                                                  *)
Consume(y) == IF y \in Moving THEN AfterMove(state, y) ELSE state
ConsumeReport(y) == UseReport(y) \cup (IF y \in Moving THEN MoveReport(state, y) ELSE {})

(* A variable or a parameter x; y is the identifier that initializes it.   *)
Declare(x, y, isMutable, garbage) ==
  LET left == IF y \in Moving THEN Becomes(fates, y, "moved") ELSE fates
  IN /\ Statement
     /\ Fresh(x)
     /\ y = NoName \/ Visible(y)
     /\ reported' = reported \cup (IF y = NoName THEN {} ELSE ConsumeReport(y))
     /\ state' = [(IF y = NoName THEN state ELSE Consume(y)) EXCEPT ![x] = "Owned"]
     /\ borrows' = [borrows EXCEPT ![x] = 0]
     /\ mutable' = [mutable EXCEPT ![x] = isMutable]
     /\ exclusive' = [exclusive EXCEPT ![x] = garbage]
     /\ misuse' = misuse \cup (IF y = NoName THEN {}
                               ELSE Wrong(fates, y, IF y \in Moving THEN "move" ELSE "use"))
     /\ fates' = [left EXCEPT ![x] = {"live"}]
     /\ blocks' = [Passing(y, fates') EXCEPT ![Len(blocks)].names = Append(@, x)]
     /\ UNCHANGED gapVars

(* return and throw end the execution, not the walk. What the walk holds   *)
(* consumed here it goes on holding, on paths that did not come this way.  *)
Leave ==
  /\ Statement
  /\ fates' = Nowhere
  /\ suspect' = suspect \cup {x \in Names : state[x] \in Consumed}
  /\ UNCHANGED <<checkerVars, blocks, reported, misuse, forgotten>>

(* return &x: every tracked name is deeper than the program's scope.       *)
ReturnReference(x) ==
  LET refused == state[x] = "Moved" \/ exclusive[x]
  IN /\ Statement
     /\ Visible(x)
     /\ reported' = reported \cup {<<x, "reference">>}
     /\ state' = IF refused THEN state ELSE AfterBorrow(x)
     /\ borrows' = IF refused THEN borrows ELSE [borrows EXCEPT ![x] = @ + 1]
     /\ fates' = Nowhere
     /\ suspect' = suspect \cup {y \in Names : state[y] \in Consumed}
     /\ UNCHANGED <<mutable, exclusive, blocks, misuse, forgotten>>

(* break and continue: the checker has no case for them. The execution     *)
(* goes on behind the innermost loop.                                      *)
Break ==
  /\ Statement
  /\ \E k \in DOMAIN blocks :
       /\ blocks[k].kind = "loop"
       /\ \A j \in k + 1 .. Len(blocks) : blocks[j].kind # "loop"
       /\ blocks' = [blocks EXCEPT ![k].ends = Either(@, fates)]
  /\ fates' = Nowhere
  /\ suspect' = suspect \cup {x \in Names : state[x] \in Consumed}
  /\ UNCHANGED <<checkerVars, reported, misuse, forgotten>>

-----------------------------------------------------------------------------
(* Compound statements.                                                    *)

Untracked == [x \in Names |-> "Absent"]

NewBlock(kind, names, s, f) ==
  [kind |-> kind, names |-> names, pre |-> s, merged |-> Untracked, entry |-> f,
   ends |-> Nowhere, thrown |-> IF kind = "try" THEN f ELSE Nowhere,
   demanded |-> {}]

(* if, try and unsafe, and a while loop.                                   *)
Open(kind) ==
  /\ Statement
  /\ Len(blocks) < MaxDepth
  /\ kind \in {"if", "try", "unsafe", "loop"}
  /\ blocks' = Append(blocks, NewBlock(kind, <<>>, state, fates))
  /\ UNCHANGED <<checkerVars, reported, truthVars, gapVars>>

(* A for loop declares its variable in the scope of the loop.              *)
OpenFor(x, isMutable, garbage) ==
  /\ Statement
  /\ Len(blocks) < MaxDepth
  /\ Fresh(x)
  /\ state' = [state EXCEPT ![x] = "Owned"]
  /\ borrows' = [borrows EXCEPT ![x] = 0]
  /\ mutable' = [mutable EXCEPT ![x] = isMutable]
  /\ exclusive' = [exclusive EXCEPT ![x] = garbage]
  /\ fates' = [fates EXCEPT ![x] = {"live"}]
  /\ blocks' = Append(blocks, NewBlock("loop", <<x>>, state, fates'))
  /\ UNCHANGED <<reported, misuse, gapVars>>

(* The end of a branch and the start of the next one of the same           *)
(* statement, whose condition moves m.                                     *)
NextBranch(kind, m) ==
  LET end == AtScopeEnd
      start == Restore(Top.pre, end)
      from == IF m = NoName THEN Top.entry ELSE Becomes(Top.entry, m, "moved")
  IN /\ blocks' = Append([k \in 1 .. Len(blocks) - 1 |-> Passing(m, from)[k]],
           [Top EXCEPT !.kind = kind, !.names = <<>>, !.entry = from,
                       !.merged = Merge(@, end), !.ends = Either(@, fates)])
     /\ fates' = from
     /\ IF m = NoName
        THEN /\ state' = start
             /\ forgotten' = forgotten \cup Revived(state, end)
             /\ UNCHANGED <<reported, misuse>>
        ELSE /\ state' = AfterMove(start, m)
             /\ forgotten' = forgotten \cup Revived(state, end)
                               \cup (IF state'[m] = start[m] THEN {} ELSE {m})
             /\ reported' = reported \cup MoveReport(start, m)
             /\ misuse' = misuse \cup Wrong(Top.entry, m, "move")
     /\ ScopeEnds
     /\ UNCHANGED <<suspect, functions>>

(* elif: what its condition moves is forgotten by the restore that ends    *)
(* the branch.                                                             *)
Elif(m) ==
  /\ Top.kind = "if"
  /\ statements < MaxStatements
  /\ statements' = statements + 1
  /\ m = NoName \/ \E k \in 1 .. Len(blocks) - 1 : m \in Elements(blocks[k].names)
  /\ NextBranch("if", m)

Else ==
  /\ Top.kind = "if"
  /\ NextBranch("else", NoName)
  /\ UNCHANGED statements

CloseIf ==
  LET end == AtScopeEnd
      joined == Merge(Top.merged, end)
  IN /\ Top.kind \in {"if", "else"}
     /\ state' = IF Top.kind = "if" THEN Merge(joined, Top.pre) ELSE joined
     /\ fates' = Either(Either(Top.ends, fates),
                        IF Top.kind = "if" THEN Top.entry ELSE Nowhere)
     /\ forgotten' = forgotten \cup Revived(state, end)
     /\ blocks' = Below
     /\ ScopeEnds
     /\ UNCHANGED <<reported, misuse, suspect, statements, functions>>

(* The end of the body of a try, and the start of its first handler, whose *)
(* state is the worse of that before the try and that behind its body: an  *)
(* exception may leave the body anywhere.                                  *)
FirstExcept ==
  LET end == AtScopeEnd
      worse == Merge(Top.pre, end)
      thrown == Either(Top.thrown, fates)
  IN /\ Top.kind = "try"
     /\ state' = worse
     /\ fates' = thrown
     /\ forgotten' = forgotten \cup Revived(state, end)
     /\ blocks' = Append(Below,
           [Top EXCEPT !.kind = "except", !.names = <<>>, !.pre = worse,
                       !.merged = end, !.entry = thrown, !.ends = fates,
                       !.thrown = thrown])
     /\ ScopeEnds
     /\ UNCHANGED <<reported, misuse, suspect, statements, functions>>

NextExcept ==
  /\ Top.kind = "except"
  /\ statements < MaxStatements
  /\ statements' = statements + 1
  /\ NextBranch("except", NoName)

(* The end of the last handler, or of the body if there is none; a finally *)
(* block runs on every way out. What follows it is taken to follow it on   *)
(* every way.                                                              *)
CloseTry(hasFinally) ==
  LET end == AtScopeEnd
      after == IF Top.kind = "try" THEN end ELSE Merge(Top.merged, end)
      normal == Either(Top.ends, fates)
      all == IF hasFinally THEN Either(normal, Top.thrown) ELSE normal
  IN /\ Top.kind \in {"try", "except"}
     /\ state' = after
     /\ fates' = all
     /\ forgotten' = forgotten \cup Revived(state, end)
     /\ blocks' = IF hasFinally
                  THEN Append(Below, NewBlock("finally", <<>>, after, all))
                  ELSE Below
     /\ ScopeEnds
     /\ UNCHANGED <<reported, misuse, suspect, statements, functions>>

(* The end of an unsafe or a finally block.                                *)
CloseBlock ==
  /\ Top.kind \in {"unsafe", "finally"}
  /\ state' = AtScopeEnd
  /\ forgotten' = forgotten \cup Revived(state, AtScopeEnd)
  /\ blocks' = Below
  /\ ScopeEnds
  /\ UNCHANGED <<reported, truthVars, suspect, statements, functions>>

(* The end of a loop. The walk saw one iteration: a value from outside     *)
(* that is gone when the next iteration needs it is not noticed.           *)
CloseLoop ==
  LET again == {x \in Top.demanded : Gone(fates, x)}
  IN /\ Top.kind = "loop"
     /\ state' = AtScopeEnd
     /\ fates' = Either(Either(Top.entry, Top.ends), fates)
     /\ misuse' = misuse \cup {<<x, "again">> : x \in again}
     /\ forgotten' = forgotten \cup Revived(state, AtScopeEnd) \cup again
     /\ blocks' = Below
     /\ ScopeEnds
     /\ UNCHANGED <<reported, suspect, statements, functions>>

-----------------------------------------------------------------------------
(* Functions. The scope of the parameters and that of the body end one     *)
(* after the other: they are one scope here, the parameters first. Nothing *)
(* is forgotten between two functions: a name the last one left consumed   *)
(* is consumed in the next.                                                *)

AtStart(parameters) ==
  [x \in Names \cup {Here} |->
     IF x = Here \/ x \in Outer \/ x \in Elements(parameters) THEN {"live"} ELSE {}]

Body(parameters) == NewBlock("function", parameters, Untracked, Nowhere)

(* declareOwnership of the parameters, over the states s.                  *)
BeginFunction(parameters, s) ==
  LET declared == Elements(parameters)
  IN /\ state' = [x \in Names |-> IF x \in declared THEN "Owned" ELSE s[x]]
     /\ borrows' = [x \in Names |-> IF x \in declared THEN 0 ELSE borrows[x]]
     /\ \E isMutable, garbage \in [declared -> BOOLEAN] :
          /\ mutable' = [x \in Names |-> IF x \in declared THEN isMutable[x]
                                                          ELSE mutable[x]]
          /\ exclusive' = [x \in Names |-> IF x \in declared THEN garbage[x]
                               ELSE Top.names = <<>> /\ exclusive[x]]
     /\ blocks' = <<Body(parameters)>>
     /\ fates' = AtStart(parameters)
     /\ suspect' = {x \in Names : state'[x] \in Consumed}

EndFunction(parameters) ==
  /\ Top.kind = "function"
  /\ functions < MaxFunctions
  /\ functions' = functions + 1
  /\ BeginFunction(parameters, AtScopeEnd)
  /\ reported' = {} /\ misuse' = {} /\ forgotten' = {} /\ closed' = {}
  /\ UNCHANGED statements

Init ==
  /\ state = Untracked
  /\ borrows = [x \in Names |-> 0]
  /\ mutable = [x \in Names |-> FALSE]
  /\ exclusive = [x \in Names |-> FALSE]
  /\ blocks = <<Body(<<>>)>>
  /\ fates = AtStart(<<>>)
  /\ reported = {} /\ misuse = {} /\ forgotten = {} /\ suspect = {} /\ closed = {}
  /\ statements = 0 /\ functions = 0

SimpleStatement ==
  \/ \E x \in Names : \/ Use(x) \/ MoveOut(x) \/ PassArgument(x) \/ Assign(x)
                      \/ Delete(x) \/ ReturnReference(x)
                      \/ \E n \in 1 .. 2 : Borrow(x, n)
  \/ \E x \in Names, y \in Names \cup {NoName}, isMutable, garbage \in BOOLEAN :
       Declare(x, y, isMutable, garbage)
  \/ Leave
  \/ Break

CompoundStatement ==
  \/ \E kind \in Kinds : Open(kind)
  \/ \E x \in Names, isMutable, garbage \in BOOLEAN : OpenFor(x, isMutable, garbage)
  \/ \E m \in Names \cup {NoName} : Elif(m)
  \/ Else \/ CloseIf
  \/ FirstExcept \/ NextExcept
  \/ \E hasFinally \in BOOLEAN : CloseTry(hasFinally)
  \/ CloseBlock \/ CloseLoop

Next ==
  \/ SimpleStatement
  \/ CompoundStatement
  \/ \E parameters \in Parameters : EndFunction(parameters)

Spec == Init /\ [][Next]_vars

-----------------------------------------------------------------------------
(* The properties.                                                         *)

Reported(x) == \E reason \in Reasons : <<x, reason>> \in reported

(* What an execution does to a value that was moved or deleted on its way  *)
(* is reported, unless the name is one of those the walk is known to have  *)
(* lost: a drop of another name revived it, it was borrowed after its      *)
(* deletion, handed over while it was lent, moved by the condition of an   *)
(* elif, or consumed by an iteration that comes back for it.               *)
MisuseIsReported ==
  \A x \in Names, act \in {"use", "move", "delete", "borrow", "again"} :
    <<x, act>> \in misuse => Reported(x) \/ x \in forgotten

(* A value is never moved, handed over or deleted while an execution holds *)
(* a reference to it, without a report: the records of borrows outlive the *)
(* branches they were taken in. Only handing it over escapes.              *)
LoansAreRespected ==
  \A x \in Names : <<x, "lent">> \in misuse => Reported(x) \/ x \in forgotten

(* A name is reported as consumed only if some execution misuses it, or an *)
(* execution left the function or the loop with the value gone, or it was  *)
(* assigned a new value, or an earlier function left the name consumed.    *)
ReportsAreDeserved ==
  \A x \in Names :
    <<x, "consumed">> \in reported =>
      x \in suspect \/ \E act \in Acts : <<x, act>> \in misuse

=============================================================================

---------------------------- MODULE MIRLowering ----------------------------
(***************************************************************************)
(* How the body of a function becomes MIR: the statements of the source,   *)
(* desugared by src/uranite/ir/hir/lowering.cpp and lowered into blocks by *)
(* src/uranite/ir/mir/lowering.cpp, which keeps what it knows in a builder *)
(* while it walks the tree once. The instructions are those of             *)
(* MIRBehaviour.                                                           *)
(*                                                                         *)
(* Statements are records with the field s, expressions with the field e;  *)
(* names are strings and a function or method that is called is a number.  *)
(***************************************************************************)
EXTENDS Integers, Sequences, FiniteSets, SequencesExt

CONSTANT
  NoVariable   (* INVALID_VARIABLE_IDENTIFIER; the variables are 1, 2, ... *)

NoBlock == -1  (* INVALID_BLOCK_IDENTIFIER                                 *)

-----------------------------------------------------------------------------
(* Instructions                                                            *)

Make(kind, dst, src) ==
  [kind |-> kind, dst |-> dst, src |-> src, value |-> 0, targets |-> <<>>,
   pad |-> NoBlock, callee |-> NoVariable]
Constant(n) == [Make("const", NoVariable, <<>>) EXCEPT !.value = n]
Invocation(kind, function) == [Make(kind, NoVariable, <<>>) EXCEPT !.value = function]
Goes(kind, src, targets) ==
  [Make(kind, NoVariable, src) EXCEPT !.targets = targets]
Jump(target) == Goes("jump", <<>>, <<target>>)

-----------------------------------------------------------------------------
(* The builder                                                             *)

NewBuilder(parameters) ==
  [code |-> [block \in {0} |-> <<>>],
   at |-> 0,            (* currentBlock                                    *)
   closed |-> {},       (* the blocks with isTerminated                    *)
   variables |-> Len(parameters),
   names |->            (* variableNameMap, one for the whole function     *)
     [x \in {parameters[k] : k \in DOMAIN parameters} |->
        CHOOSE k \in DOMAIN parameters : parameters[k] = x],
   pad |-> NoBlock,     (* activeLandingPad                                *)
   operands |-> <<>>,   (* the variables that expressions returned         *)
   loops |-> <<>>,      (* loopContextStack                                *)
   deferred |-> <<>>,   (* deferredStatements                              *)
   lambdas |-> <<>>]    (* the functions made of lambdas so far            *)

Ended(b) == b.at \in b.closed

Emit(b, instruction) ==
  IF Ended(b) THEN b ELSE [b EXCEPT !.code[b.at] = Append(@, instruction)]

Terminate(b, instruction) ==
  IF Ended(b) THEN b ELSE [Emit(b, instruction) EXCEPT !.closed = @ \cup {b.at}]

JumpTo(b, target) == Terminate(b, Jump(target))

(* The identifier the next block gets, and a builder with n blocks more.   *)
NextBlock(b) == Cardinality(DOMAIN b.code)
WithBlocks(b, n) ==
  [b EXCEPT !.code = [block \in 0 .. NextBlock(b) + n - 1 |->
                        IF block \in DOMAIN @ THEN @[block] ELSE <<>>]]

SwitchTo(b, block) == [b EXCEPT !.at = block]
Enter(b, block) == SwitchTo(JumpTo(b, block), block)

(* The lowering of an expression leaves the variable with the value on top *)
(* of the operands; what uses it takes it from there.                      *)
Operand(b, v) == [b EXCEPT !.operands = Append(@, v)]
Top(b) == Last(b.operands)
Drop(b, n) == [b EXCEPT !.operands = SubSeq(@, 1, Len(@) - n)]
Operands(b, n) == SubSeq(b.operands, Len(b.operands) - n + 1, Len(b.operands))

(* The instruction with a fresh temporary as its destination, and with the *)
(* last n operands as its own.                                             *)
Define(b, instruction) ==
  LET t == b.variables + 1
  IN Emit(Operand([b EXCEPT !.variables = t], t), [instruction EXCEPT !.dst = t])
Operate(b, n, instruction) ==
  Define(Drop(b, n), [instruction EXCEPT !.src = Operands(b, n)])

(* A variable the source declares: from here on the name means it.         *)
Allocate(b, name) ==
  LET v == b.variables + 1
  IN [b EXCEPT !.variables = v,
               !.names = [x \in DOMAIN @ \cup {name} |->
                            IF x = name THEN v ELSE @[x]]]

(* A name that is not in the map is the variable of no operand.            *)
VariableOf(b, name) == IF name \in DOMAIN b.names THEN b.names[name] ELSE NoVariable

Put(b, v) == Drop(Emit(b, Make("store", v, <<Top(b)>>)), 1)
Store(b, name) == Put(b, VariableOf(b, name))
Load(b, v) == Define(b, Make("load", NoVariable, <<v>>))

Branch(b, then, else) ==
  Drop(Terminate(b, Goes("branch", <<Top(b)>>, <<then, else>>)), 1)

(* A loop over a range adds one to its variable.                           *)
Increment(b, v) ==
  Put(Operate(Define(Load(b, v), Constant(1)), 2, Make("add", NoVariable, <<>>)), v)

-----------------------------------------------------------------------------
(* Expressions                                                             *)

(* In a try a call ends its block: it goes on in a block of its own, or    *)
(* with the landing pad.                                                   *)
Called(b, function, n) ==
  IF b.pad = NoBlock THEN Operate(b, n, Invocation("call", function))
  ELSE LET result == b.variables + 1
           next == NextBlock(b)
           invoke == [Invocation("invoke", function) EXCEPT
                        !.dst = result, !.src = Operands(b, n), !.targets = <<next>>,
                        !.pad = b.pad]
           after == Operand(Drop([b EXCEPT !.variables = result], n), result)
       IN SwitchTo(Terminate(WithBlocks(after, 1), invoke), next)

Receiving(b, e) ==
  IF ~e.static THEN b
  ELSE LET n == Len(e.args)
       IN [b EXCEPT !.operands = Drop(b, n).operands \o Operands(b, n - 1)]

(* The methods of an iterable, an iterator and a list, a list, a lambda.   *)
Iterator == 20
Has == 21
Next == 22
Add == 23
Get == 24
List == 50
Lambda == 60

RECURSIVE LowerExpression(_, _)
RECURSIVE LowerStatement(_, _)

RECURSIVE LowerBlock(_, _)
LowerBlock(b, statements) ==
  IF statements = <<>> THEN b
  ELSE LowerBlock(LowerStatement(b, Head(statements)), Tail(statements))

RECURSIVE LowerArguments(_, _)
LowerArguments(b, arguments) ==
  IF arguments = <<>> THEN b
  ELSE LowerArguments(LowerExpression(b, Head(arguments)), Tail(arguments))

Mut_LowerMove(b, e) ==
  LET source == LowerExpression(b, e)
  IN Drop(Define(source, Make("move", NoVariable, <<Top(source)>>)), 1)

LowerMove(b, e) == Operate(LowerExpression(b, e), 1, Make("move", NoVariable, <<>>))

(* The first argument of a method is its receiver. A static method does    *)
(* not get it.                                                             *)
LowerMethod(b, e) ==
  Called(Receiving(LowerArguments(b, e.args), e), e.f,
         Len(e.args) - (IF e.static THEN 1 ELSE 0))

(* x++ and ++x                                                             *)
Incremented(b, v, prefix) ==
  LET old == Define(b, Make("copy", NoVariable, <<Top(b)>>))
      one == Define(old, Constant(1))
      new == Define(one, Make("add", NoVariable, <<Top(b), Top(one)>>))
  IN Operand(Drop(Emit(new, Make("store", v, <<Top(new)>>)), 4),
             Top(IF prefix THEN new ELSE old))
LowerIncrement(b, e) == Incremented(LowerExpression(b, e.args[1]), VariableOf(b, e.x), e.prefix)

(* The patterns in their order, and the default where none is equal. The   *)
(* subject is the operand below them.                                      *)
LowerChoice(b, value, result, merge) == JumpTo(Put(LowerExpression(b, value), result), merge)

LowerArm(b, value, result, merge, block) ==
  SwitchTo(LowerChoice(SwitchTo(Branch(WithBlocks(b, 2), block, block + 1), block),
                       value, result, merge), block + 1)

Compared(b) ==
  Define(Drop(b, 1), Make("equal", NoVariable, Operands(b, 2)))

RECURSIVE LowerArms(_, _, _, _)
LowerArms(b, arms, result, merge) ==
  IF arms = <<>> THEN b
  ELSE LET compared == Compared(LowerExpression(b, Head(arms).pattern))
       IN LowerArms(LowerArm(compared, Head(arms).value, result, merge, NextBlock(compared)),
                    Tail(arms), result, merge)

LowerChoices(b, e, result, merge) ==
  LET arms == LowerArms(WithBlocks([b EXCEPT !.variables = result], 1), e.arms, result, merge)
      done == IF e.default = <<>> THEN JumpTo(arms, merge)
              ELSE LowerChoice(arms, e.default[1], result, merge)
  IN Load(Drop(SwitchTo(done, merge), 1), result)

MatchOn(b, e) == LowerChoices(b, e, b.variables + 1, NextBlock(b))
LowerMatch(b, e) == MatchOn(LowerExpression(b, e.subject), e)

(* [body for x in low..high if filter], or in an iterator. over: the       *)
(* operands it walks over. The methods of the iterator and the list.       *)
Asked(b, function, operands) ==
  Define(b, [Invocation("call", function) EXCEPT !.src = operands, !.pad = b.pad])

RangeTest(b, inclusive) ==
  Operate(b, 2, Make(IF inclusive THEN "lessEqual" ELSE "less", NoVariable, <<>>))
LowerMore(b, e, over, x) ==
  IF e.range THEN RangeTest(Operand(Load(b, x), over[2]), e.inclusive)
  ELSE Asked(b, Has, over)

LowerNext(b, e, over, x) == IF e.range THEN b ELSE Put(Asked(b, Next, over), x)

(* What the filter does not keep goes on at update.                        *)
Filtered(b, update) ==
  LET add == NextBlock(b) IN SwitchTo(Branch(WithBlocks(b, 1), add, update), add)
LowerFilter(b, e, update) ==
  IF e.filter = <<>> THEN b ELSE Filtered(LowerExpression(b, e.filter[1]), update)

Gathered(b, list) == Drop(Asked(b, Add, <<list, Top(b)>>), 2)

LowerGathering(b, e, list, over, x, header) ==
  LET set == IF e.range THEN Emit(b, Make("store", x, <<over[1]>>)) ELSE b
      more == LowerMore(Enter(WithBlocks(set, 4), header), e, over, x)
      at == LowerNext(SwitchTo(Branch(more, header + 1, header + 3), header + 1), e, over, x)
      kept == LowerFilter(LowerExpression(at, e.body), e, header + 2)
      walked == Enter(Gathered(kept, list), header + 2)
  IN SwitchTo(JumpTo(IF e.range THEN Increment(walked, x) ELSE walked, header), header + 3)

(* The body comes before the filter. The name x stays in the map.          *)
GatherOver(b, e) ==
  LET n == Len(e.args)
      named == Allocate(b, e.x)
  IN Drop(LowerGathering(named, e, Top(Drop(b, n)), Operands(b, n), named.names[e.x],
                         NextBlock(b)), n)
LowerComprehension(b, e) ==
  GatherOver(LowerArguments(Define(b, Constant(List)), e.args), e)

(* An array evaluates its elements, and then they are added; a set or a    *)
(* map evaluates and adds its entries one by one. width: of an entry.      *)
RECURSIVE AddAll(_, _, _)
AddAll(b, list, elements) ==
  IF elements = <<>> THEN b
  ELSE AddAll(Drop(Asked(b, Add, <<list, Head(elements)>>), 1), list, Tail(elements))

ListWith(b, elements) == LET made == Define(b, Constant(List)) IN AddAll(made, Top(made), elements)
LowerArray(b, e) ==
  LET n == Len(e.args)
      all == LowerArguments(b, e.args)
  IN ListWith(Drop(all, n), Operands(all, n))

RECURSIVE LowerEntries(_, _, _, _)
LowerEntry(b, list, n) == Drop(Asked(Drop(b, n), Add, <<list>> \o Operands(b, n)), 1)
LowerEntries(b, list, n, arguments) ==
  IF arguments = <<>> THEN b
  ELSE LowerEntries(LowerEntry(LowerArguments(b, SubSeq(arguments, 1, n)), list, n), list, n,
                    SubSeq(arguments, n + 1, Len(arguments)))
EntriesOf(b, e) == LowerEntries(b, Top(b), e.width, e.args)
LowerTable(b, e) == EntriesOf(Define(b, Constant(List)), e)

(* The names a lambda captures are those it mentions in these places.      *)
RECURSIVE Mentions(_)
Mentions(e) ==
  CASE e.e = "name" -> {e.x}
    [] e.e \in {"add", "less", "and", "operator", "call", "method", "index", "increment"} ->
         UNION {Mentions(e.args[k]) : k \in DOMAIN e.args}
    [] OTHER -> {}
RECURSIVE MentionedIn(_)
MentionedIn(statements) ==
  UNION {CASE s.s \in {"return", "evaluate"} -> Mentions(s.value)
           [] s.s = "block" -> MentionedIn(s.body)
           [] OTHER -> {} : s \in ToSet(statements)}

RECURSIVE EmitDeferred(_, _)

(* ensureBlockTerminated                                                   *)
EndFunction(b) == Terminate(EmitDeferred(b, 0), Make("return", NoVariable, <<>>))

(* A lambda becomes a function of its parameters and captures. The landing *)
(* pad, the loops and the deferred statements stay those of the function   *)
(* around it, and what the lambda defers stays deferred there.             *)
LowerLambda(b, e) ==
  LET captures == (MentionedIn(e.body) \cap DOMAIN b.names) \ ToSet(e.parameters)
      parameters == e.parameters \o SetToSeq(captures)
      inside == [NewBuilder(parameters) EXCEPT
                   !.pad = b.pad, !.loops = b.loops, !.deferred = b.deferred,
                   !.lambdas = b.lambdas]
      ended == EndFunction(LowerBlock(inside, e.body))
      function == [parameters |-> parameters, body |-> e.body, code |-> ended.code,
                   variables |-> ended.variables]
  IN Define([b EXCEPT !.deferred = ended.deferred,
                      !.lambdas = Append(ended.lambdas, function)],
            Constant(Lambda))

(* An operator of a class is a call that no try is the landing pad of; an  *)
(* await is a call in the middle of a block.                               *)
LowerExpression(b, e) ==
  CASE e.e = "number" -> Define(b, Constant(e.n))
    [] e.e = "name" -> Load(b, VariableOf(b, e.x))
    [] e.e = "move" -> LowerMove(b, e.args[1])
    [] e.e \in {"add", "less", "and"} ->
         Operate(LowerArguments(b, e.args), Len(e.args), Make(e.e, NoVariable, <<>>))
    [] e.e = "operator" ->
         Operate(LowerArguments(b, e.args), Len(e.args), Invocation("call", e.f))
    [] e.e = "await" ->
         Operate(LowerArguments(b, e.args), Len(e.args),
               [Invocation("await", e.f) EXCEPT !.pad = b.pad])
    [] e.e = "call" -> Called(LowerArguments(b, e.args), e.f, Len(e.args))
    [] e.e = "method" -> LowerMethod(b, e)
    [] e.e = "index" -> Called(LowerArguments(b, e.args), Get, 2)
    [] e.e = "increment" -> LowerIncrement(b, e)
    [] e.e = "array" -> LowerArray(b, e)
    [] e.e = "table" -> LowerTable(b, e)
    [] e.e = "match" -> LowerMatch(b, e)
    [] e.e = "comprehension" -> LowerComprehension(b, e)
    [] e.e = "lambda" -> LowerLambda(b, e)

-----------------------------------------------------------------------------
(* Statements                                                              *)

Mut_EmitDeferred(b, since) ==
  LowerBlock(b, SubSeq(b.deferred, since + 1, Len(b.deferred)))

(* The statements deferred since there were so many of them, last first.   *)
EmitDeferred(b, since) ==
  LowerBlock(b, Reverse(SubSeq(b.deferred, since + 1, Len(b.deferred))))

Mut_Declare(b, s) == Drop(LowerExpression(Allocate(b, s.x), s.value), 1)

Declare(b, s) ==
  LET named == Allocate(b, s.x)
  IN Put(LowerExpression(named, s.value), named.names[s.x])

Assign(b, s) == Store(LowerExpression(b, s.value), s.x)

(* x += e loads x after e.                                                 *)
Summed(b) ==
  Define(Drop(b, 2), Make("add", NoVariable, Reverse(Operands(b, 2))))
Augment(b, s) ==
  Store(Summed(Load(LowerExpression(b, s.value), VariableOf(b, s.x))), s.x)

Returning(b) ==
  Drop(Terminate(b, Make("return", NoVariable, <<Top(b)>>)), 1)
Return(b, s) == Returning(EmitDeferred(LowerExpression(b, s.value), 0))

Throwing(b) ==
  Drop(Terminate(b, [Make("throw", NoVariable, <<Top(b)>>) EXCEPT !.pad = b.pad]), 1)
Throw(b, s) == Throwing(LowerExpression(b, [e |-> "number", n |-> 0]))

(* A break or a continue that no loop is around says nothing.              *)
LeaveLoop(b, where) ==
  IF b.loops = <<>> THEN b
  ELSE JumpTo(EmitDeferred(b, Last(b.loops).deferred), Last(b.loops)[where])
Break(b) == LeaveLoop(b, "exit")
Continue(b) == LeaveLoop(b, "continue")

(* branches: the condition and body of the if and of every elif.           *)
RECURSIVE LowerIf(_, _, _)
LowerBranches(b, branches, else, then) ==
  LET merge == then + 1
      hasElse == Len(branches) > 1 \/ else # <<>>
      other == IF hasElse THEN then + 2 ELSE merge
      branched == Branch(WithBlocks(b, IF hasElse THEN 3 ELSE 2), then, other)
      joined == JumpTo(LowerBlock(SwitchTo(branched, then), Head(branches).body), merge)
      Untaken(c) == IF Len(branches) > 1 THEN LowerIf(c, Tail(branches), else)
                    ELSE LowerBlock(c, else)
      Otherwise(c) == IF hasElse THEN JumpTo(Untaken(SwitchTo(c, other)), merge) ELSE c
  IN SwitchTo(Otherwise(joined), merge)

BranchOn(b, branches, else) == LowerBranches(b, branches, else, NextBlock(b))
LowerIf(b, branches, else) ==
  BranchOn(LowerExpression(b, Head(branches).condition), branches, else)

(* The body of a loop. What was deferred in it runs at its end, and stays  *)
(* deferred.                                                               *)
LoopBody(b, body, loop) ==
  LET inside == [b EXCEPT !.loops = Append(@, loop)]
      walked == LowerBlock(inside, body)
  IN JumpTo(EmitDeferred(walked, loop.deferred), loop.continue)

Loop(b, exit, continue) ==
  [exit |-> exit, continue |-> continue, deferred |-> Len(b.deferred)]

AfterLoop(b, exit) == SwitchTo([b EXCEPT !.loops = Front(@)], exit)

(* while, and the for with an initializer, a condition and an update.      *)
LowerWhile(b, s) ==
  LET header == NextBlock(b)
      body == header + 1
      exit == header + 2
      continue == IF s.update = <<>> THEN header ELSE header + 3
      blocks == WithBlocks(b, IF s.update = <<>> THEN 3 ELSE 4)
      entered == Enter(LowerBlock(blocks, s.init), header)
      tested == Branch(LowerExpression(entered, s.condition), body, exit)
      walked == LoopBody(SwitchTo(tested, body), s.body, Loop(b, exit, continue))
      Updated(c) == IF s.update = <<>> THEN c
                    ELSE JumpTo(LowerBlock(SwitchTo(c, continue), s.update), header)
  IN AfterLoop(Updated(walked), exit)

(* for x in low..high, or low..=high                                       *)
RangeLoop(b, v, s) ==
  LET header == NextBlock(b)
      update == header + 2
      exit == header + 3
      entered == Enter(WithBlocks(b, 4), header)
      tested == Branch(RangeTest(Operand(Load(entered, v), Top(b)), s.inclusive),
                       header + 1, exit)
      walked == LoopBody(SwitchTo(tested, header + 1), s.body, Loop(b, exit, update))
      stepped == Increment(SwitchTo(walked, update), v)
  IN Drop(AfterLoop(JumpTo(stepped, header), exit), 1)
RangeFrom(b, v, s) == RangeLoop(LowerExpression(Put(b, v), s.high), v, s)
RangeOf(b, s) == RangeFrom(b, b.names[s.x], s)
LowerRange(b, s) == RangeOf(LowerExpression(Allocate(b, s.x), s.low), s)

(* for x in an iterator: its methods are called outside of any landing pad.*)
Iterating(b, function, iterator) ==
  Define(b, [Invocation("call", function) EXCEPT !.src = <<iterator>>])
EachLoop(b, v, s) ==
  LET header == NextBlock(b)
      exit == header + 2
      tested == Branch(Iterating(Enter(WithBlocks(b, 3), header), Has, Top(b)),
                       header + 1, exit)
      stored == Put(Iterating(SwitchTo(tested, header + 1), Next, Top(b)), v)
  IN Drop(AfterLoop(LoopBody(stored, s.body, Loop(b, exit, header)), exit), 1)
EachOf(b, s) == LET named == Allocate(b, s.x) IN EachLoop(named, named.names[s.x], s)

(* An iterable is asked for its iterator first, which has a variable.      *)
IteratorOf(b) ==
  LET v == b.variables + 1
  IN Operand(Drop(Put(Iterating([b EXCEPT !.variables = v], Iterator, Top(b)), v), 1), v)
EachFrom(b, s) == EachOf(IF s.iterates THEN IteratorOf(b) ELSE b, s)
LowerEach(b, s) == EachFrom(LowerExpression(b, s.iterable), s)

(* for x in a string: an index counts up to its length. The increment is   *)
(* at the end of the body, and a continue goes to the header.              *)
StringBody(b, index, body, loop) ==
  LET walked == LowerBlock([b EXCEPT !.loops = Append(@, loop)], body)
  IN JumpTo(EmitDeferred(Increment(walked, index), loop.deferred), loop.continue)

StringLoop(b, string, index, s) ==
  LET header == NextBlock(b)
      exit == header + 2
      at == Load(Enter(WithBlocks(b, 3), header), index)
      tested == Branch(RangeTest(Operand(at, Top(b)), FALSE), header + 1, exit)
      element == Make("element", NoVariable, <<string, Top(at)>>)
      stored == Put(Define(SwitchTo(tested, header + 1), element), b.names[s.x])
  IN AfterLoop(StringBody(stored, index, s.body, Loop(b, exit, header)), exit)

StringOf(b, s) ==
  LET index == b.variables + 1
      zero == Put(Define([b EXCEPT !.variables = index], Constant(0)), index)
      length == Define(zero, Make("length", NoVariable, <<Top(b)>>))
  IN Drop(StringLoop(length, Top(b), index, s), 2)
LowerString(b, s) == StringOf(Allocate(LowerExpression(b, s.iterable), s.x), s)

(* The target of a value is that of the case with this number, not of the  *)
(* case with this value. The last target is that of every other value.     *)
RECURSIVE LowerCases(_, _, _, _)
LowerCases(b, cases, block, merge) ==
  IF cases = <<>> THEN b
  ELSE LowerCases(JumpTo(LowerBlock(SwitchTo(b, block), Head(cases).body), merge),
                  Tail(cases), block + 1, merge)

Switched(b, cases, merge) ==
  LET defaults == {k \in DOMAIN cases : cases[k].default}
      default == IF defaults = {} THEN merge
                 ELSE merge + CHOOSE k \in defaults : \A n \in defaults : n <= k
      targets == [k \in DOMAIN cases |-> IF cases[k].default THEN default ELSE merge + k]
      blocks == WithBlocks(b, 1 + Len(cases))
      switched == Terminate(blocks, Goes("switch", <<Top(b)>>, Append(targets, default)))
  IN SwitchTo(LowerCases(Drop(switched, 1), cases, merge + 1, merge), merge)
SwitchOver(b, cases) == Switched(b, cases, NextBlock(b))
LowerSwitch(b, s) == SwitchOver(LowerExpression(b, s.subject), s.cases)

(* The landing pad goes to the first handler, whatever type it names.      *)
Bound(b, x) ==
  LET bound == Allocate(b, x) IN Emit(bound, Make("copy", bound.names[x], <<Top(b)>>))

RECURSIVE LowerHandlers(_, _, _)
LowerHandler(b, handler, after) ==
  LET at == Enter(WithBlocks(b, 1), NextBlock(b))
  IN JumpTo(LowerBlock(IF handler.x = "" THEN at ELSE Bound(at, handler.x), handler.body),
            after)
LowerHandlers(b, handlers, after) ==
  IF handlers = <<>> THEN b
  ELSE LowerHandlers(LowerHandler(b, Head(handlers), after), Tail(handlers), after)

LowerTry(b, s) ==
  LET body == NextBlock(b)
      merge == body + 1
      landing == body + 2
      finally == body + 3
      after == IF s.finally = <<>> THEN merge ELSE finally
      entered == Enter(WithBlocks(b, IF s.finally = <<>> THEN 3 ELSE 4), body)
      tried == LowerBlock([entered EXCEPT !.pad = landing], s.body)
      left == JumpTo([tried EXCEPT !.pad = b.pad], after)
      caught == Define(SwitchTo(left, landing), Make("landing", NoVariable, <<>>))
      handled == Drop(LowerHandlers(caught, s.handlers, after), 1)
      Finished(c) == IF s.finally = <<>> THEN c
                     ELSE JumpTo(LowerBlock(SwitchTo(c, finally), s.finally), merge)
  IN SwitchTo(Finished(handled), merge)

Freeing(b) == Drop(Emit(b, Make("free", NoVariable, <<Top(b)>>)), 1)
Delete(b, s) == Freeing(LowerExpression(b, s.value))

LowerDefer(b, s) == [b EXCEPT !.deferred = Append(@, s.deferred)]

(* Behind a return, a throw, a break or a continue nothing is lowered.     *)
LowerStatement(b, s) ==
  IF Ended(b) THEN b ELSE
  CASE s.s = "declare" -> Declare(b, s)
    [] s.s = "assign" -> Assign(b, s)
    [] s.s = "augment" -> Augment(b, s)
    [] s.s = "evaluate" -> Drop(LowerExpression(b, s.value), 1)
    [] s.s = "return" -> Return(b, s)
    [] s.s = "throw" -> Throw(b, s)
    [] s.s = "break" -> Break(b)
    [] s.s = "continue" -> Continue(b)
    [] s.s = "if" -> LowerIf(b, s.branches, s.else)
    [] s.s = "while" -> LowerWhile(b, s)
    [] s.s = "range" -> LowerRange(b, s)
    [] s.s = "each" -> LowerEach(b, s)
    [] s.s = "string" -> LowerString(b, s)
    [] s.s = "switch" -> LowerSwitch(b, s)
    [] s.s = "try" -> LowerTry(b, s)
    [] s.s = "delete" -> Delete(b, s)
    [] s.s = "defer" -> LowerDefer(b, s)
    [] s.s = "block" -> LowerBlock(b, s.body)

LowerFunction(parameters, body) == EndFunction(LowerBlock(NewBuilder(parameters), body))

=============================================================================

-------------------------- MODULE SourceSemantics --------------------------
(***************************************************************************)
(* The reference: what the documentation of the language (docs/syntax/)    *)
(* says the statements of MIRLowering do. A run of a function is a trace   *)
(* as in MIRBehaviour, and a set of gaps, the reasons that came up in the  *)
(* run why the lowered function may do something else:                     *)
(*   "finally"   a finally block that is entered by an exception, a return,*)
(*               a break or a continue                                     *)
(*   "handler"   an exception that is not for the first of the handlers    *)
(*   "switch"    a value whose case is not the one with that number        *)
(*   "operator"  an operator of a class, or the method of an iterator, that*)
(*               raises in a try                                           *)
(*   "deferred"  a deferred statement that raises, or an exception that    *)
(*               leaves a function with deferred statements                *)
(*   "nested"    a statement that is deferred in a branch, a loop or a try *)
(*   "shadow"    a name declared where the same name is visible            *)
(*   "lambda"    a lambda in a function that defers, or in a try           *)
(*   "string"    a continue of a loop over a string                        *)
(*   "match"     a match without a default                                 *)
(* All but the first five and "string" are found in the text of the        *)
(* function.                                                               *)
(***************************************************************************)
EXTENDS MIRLowering

Raises == -1          (* the outcome of a call that throws                 *)
Exception == 7        (* the value a handler finds                         *)
CallFails == "call"   (* the type of what a call throws                    *)

B == INSTANCE MIRBehaviour WITH MaxJumps <- 0

-----------------------------------------------------------------------------
(* The text of a function                                                  *)

(* The lists of statements directly in a statement.                        *)
Bodies(s) ==
  CASE s.s = "if" -> {s.branches[k].body : k \in DOMAIN s.branches} \cup {s.else}
    [] s.s = "while" -> {s.body, s.update}
    [] s.s \in {"range", "each", "string", "block"} -> {s.body}
    [] s.s = "switch" -> {s.cases[k].body : k \in DOMAIN s.cases}
    [] s.s = "try" ->
         {s.body, s.finally} \cup {s.handlers[k].body : k \in DOMAIN s.handlers}
    [] s.s = "defer" -> {<<s.deferred>>}
    [] OTHER -> {}

(* The expressions in a statement that are more than operators and calls.  *)
RECURSIVE Special(_)
Special(e) ==
  CASE e.e \in {"match", "comprehension", "lambda"} -> {e}
    [] "args" \in DOMAIN e -> UNION {Special(e.args[k]) : k \in DOMAIN e.args}
    [] OTHER -> {}
Specials(s) == IF s.s \in {"declare", "assign", "augment", "evaluate", "delete", "return"}
               THEN Special(s.value) ELSE {}

(* The names a statement declares, where it stands and for its bodies.     *)
Declares(s) == IF s.s = "declare" THEN {s.x} ELSE {}
Binds(s) ==
  CASE s.s \in {"range", "each", "string"} -> {s.x}
    [] s.s = "while" -> {s.init[k].x : k \in DOMAIN s.init}
    [] s.s = "try" -> {s.handlers[k].x : k \in DOMAIN s.handlers} \ {""}
    [] OTHER -> {e.x : e \in {e \in Specials(s) : e.e = "comprehension"}}

RECURSIVE Shadows(_, _)
Shadows(statements, visible) ==
  \E k \in DOMAIN statements :
    LET s == statements[k]
        seen == visible \cup UNION {Declares(statements[n]) : n \in 1 .. k - 1}
    IN \/ (Declares(s) \cup Binds(s)) \cap seen # {}
       \/ \E body \in Bodies(s) : Shadows(body, seen \cup Binds(s))

RECURSIVE Defers(_)
Defers(s) == s.s = "defer" \/ \E body \in Bodies(s) : \E k \in DOMAIN body : Defers(body[k])

RECURSIVE NestedDefers(_)
NestedDefers(s) ==
  \E body \in Bodies(s) : \E k \in DOMAIN body :
    IF s.s = "block" THEN NestedDefers(body[k]) ELSE Defers(body[k])

(* A lambda in the statements whose function runs, or leaves, statements   *)
(* that are deferred outside, or whose calls have the landing pad of a try.*)
RECURSIVE Leaks(_, _)
Leaks(statements, unsafe) ==
  \E s \in ToSet(statements) :
    \/ \E e \in Specials(s) :
         e.e = "lambda" /\ (unsafe \/ \E k \in DOMAIN e.body : Defers(e.body[k]))
    \/ \E body \in Bodies(s) : Leaks(body, unsafe \/ s.s = "try")

RECURSIVE Partial(_)
Partial(statements) ==
  \E s \in ToSet(statements) :
    \/ \E e \in Specials(s) : e.e = "match" /\ e.default = <<>>
    \/ \E body \in Bodies(s) : Partial(body)

StaticGaps(parameters, body) ==
  (IF Shadows(body, {parameters[k] : k \in DOMAIN parameters}) THEN {"shadow"} ELSE {})
  \cup
  (IF \E k \in DOMAIN body : NestedDefers(body[k]) THEN {"nested"} ELSE {})
  \cup
  (IF Leaks(body, \E k \in DOMAIN body : Defers(body[k])) THEN {"lambda"} ELSE {})
  \cup
  (IF Partial(body) THEN {"match"} ELSE {})

-----------------------------------------------------------------------------
(* The state of a run. end: "on" while statements follow each other, else  *)
(* how the statement that ended did; value: of the last expression; type:  *)
(* of the exception.                                                       *)

Start(env, inputs) ==
  [env |-> env, inputs |-> inputs, trace |-> <<>>, end |-> "on", value |-> 0,
   type |-> CallFails, deferred |-> <<>>, trying |-> FALSE, gaps |-> {}]

Gap(st, gap, when) == IF when THEN [st EXCEPT !.gaps = @ \cup {gap}] ELSE st

Bind(st, x, value) ==
  [st EXCEPT !.env = [y \in DOMAIN @ \cup {x} |-> IF y = x THEN value ELSE @[y]]]

(* A call takes the next outcome from the environment.                     *)
Answered(st, outcome) ==
  IF outcome = Raises THEN [st EXCEPT !.end = "threw", !.type = CallFails]
  ELSE [st EXCEPT !.value = outcome]

CallOf(st, function, arguments) ==
  IF st.inputs = <<>>
  THEN [st EXCEPT !.trace = Append(@, B!OutOfInputs), !.end = "stopped"]
  ELSE Answered([st EXCEPT !.trace = Append(@, <<7, Head(st.inputs), function>> \o arguments),
                           !.inputs = Tail(@)],
                Head(st.inputs))

OutsideHandlers(st, called) == Gap(called, "operator", st.trying /\ called.end = "threw")

Truth(p) == IF p THEN 1 ELSE 0

-----------------------------------------------------------------------------
(* Expressions. An operator named after what comes next goes on with the   *)
(* state that came out of the step before it.                              *)

RECURSIVE Eval(_, _)

(* The value of the first arm whose pattern is equal, n arms tried so far. *)
RECURSIVE Match(_, _, _, _)
Matched(pattern, e, subject, n) ==
  IF pattern.end # "on" THEN pattern
  ELSE IF pattern.value = subject THEN Eval(pattern, e.arms[n + 1].value)
  ELSE Match(pattern, e, subject, n + 1)
Match(st, e, subject, n) ==
  IF n = Len(e.arms) THEN IF e.default = <<>> THEN st ELSE Eval(st, e.default[1])
  ELSE Matched(Eval(st, e.arms[n + 1].pattern), e, subject, n)

MatchWith(subject, e) ==
  IF subject.end # "on" THEN subject ELSE Match(subject, e, subject.value, 0)

(* One iteration of a comprehension: its body, and where the filter holds  *)
(* the list gets the value.                                                *)
Gather(filter, value) ==
  IF filter.end # "on" \/ filter.value = 0 THEN filter
  ELSE CallOf(filter, Add, <<List, value>>)

Filter(element, e) ==
  IF element.end # "on" THEN element
  ELSE Gather(IF e.filter = <<>> THEN [element EXCEPT !.value = 1]
              ELSE Eval(element, e.filter[1]),
              element.value)

Element(st, e, x) == Filter(Eval(Bind(st, e.x, x), e.body), e)

(* An inclusive range has its high end in it.                              *)
End(over, high) == IF over.inclusive THEN high + 1 ELSE high

RECURSIVE OverRange(_, _, _, _)
OverRange(st, e, low, high) ==
  IF low >= high \/ st.end # "on" THEN st
  ELSE OverRange(Element(st, e, low), e, low + 1, high)

RECURSIVE OverIterator(_, _, _)
OverNext(next, e, iterator) ==
  IF next.end # "on" THEN next
  ELSE OverIterator(Element(next, e, next.value), e, iterator)
OverHas(has, e, iterator) ==
  IF has.end # "on" \/ has.value = 0 THEN has
  ELSE OverNext(CallOf(has, Next, <<iterator>>), e, iterator)
OverIterator(st, e, iterator) ==
  IF st.end # "on" THEN st ELSE OverHas(CallOf(st, Has, <<iterator>>), e, iterator)

(* The list is the value, and what the variable hid is back.               *)
Collected(st, after, x) ==
  [after EXCEPT !.value = List,
                !.env = [y \in DOMAIN st.env |-> IF y = x THEN st.env[y] ELSE @[y]]]

Comprehension(st, e, over) ==
  Collected(st, IF e.range THEN OverRange(st, e, over[1], End(e, over[2]))
                ELSE OverIterator(st, e, over[1]), e.x)

(* The values of a literal are added n at a time. The literals of sets and *)
(* maps evaluate an entry when the one before is in.                       *)
Worth(st, value) == IF st.end = "on" THEN [st EXCEPT !.value = value] ELSE st

RECURSIVE Adding(_, _)
Adding(st, values) ==
  IF st.end # "on" \/ values = <<>> THEN Worth(st, List)
  ELSE Adding(CallOf(st, Add, <<List, Head(values)>>), Tail(values))

RECURSIVE Entries(_, _, _, _)
EntryNext(operand, e, n, v) ==
  IF operand.end # "on" THEN operand
  ELSE IF Len(v) + 1 < e.width THEN Entries(operand, e, n + 1, Append(v, operand.value))
  ELSE Entries(CallOf(operand, Add, <<List>> \o Append(v, operand.value)), e, n + 1, <<>>)
Entries(st, e, n, v) ==
  IF st.end # "on" \/ n = Len(e.args) THEN Worth(st, List)
  ELSE EntryNext(Eval(st, e.args[n + 1]), e, n, v)

(* The operation of e on the values v of its operands.                     *)
Operation(st, e, v) ==
  CASE st.end # "on" -> st
    [] st.end = "on" /\ e.e = "add" -> [st EXCEPT !.value = v[1] + v[2]]
    [] st.end = "on" /\ e.e = "move" -> [st EXCEPT !.value = v[1]]
    [] st.end = "on" /\ e.e = "less" -> [st EXCEPT !.value = Truth(v[1] < v[2])]
    [] st.end = "on" /\ e.e = "and" -> [st EXCEPT !.value = Truth(0 \notin {v[1], v[2]})]
    [] st.end = "on" /\ e.e = "comprehension" -> Comprehension(st, e, v)
    [] st.end = "on" /\ e.e \in {"call", "await"} -> CallOf(st, e.f, v)
    [] st.end = "on" /\ e.e = "method" -> CallOf(st, e.f, IF e.static THEN Tail(v) ELSE v)
    [] st.end = "on" /\ e.e = "index" -> CallOf(st, Get, v)
    [] st.end = "on" /\ e.e = "increment" ->
         [Bind(st, e.x, v[1] + 1) EXCEPT !.value = IF e.prefix THEN v[1] + 1 ELSE v[1]]
    [] st.end = "on" /\ e.e = "array" -> Adding(st, v)
    [] st.end = "on" /\ e.e = "operator" -> OutsideHandlers(st, CallOf(st, e.f, v))

(* The operands from left to right; v: the values of those before.         *)
RECURSIVE EvalAll(_, _, _)
EvalNext(operand, e, v) == EvalAll(operand, e, Append(v, operand.value))
EvalAll(st, e, v) ==
  IF st.end # "on" \/ Len(v) = Len(e.args) THEN Operation(st, e, v)
  ELSE EvalNext(Eval(st, e.args[Len(v) + 1]), e, v)

Eval(st, e) ==
  CASE e.e = "number" -> [st EXCEPT !.value = e.n]
    [] e.e = "name" -> [st EXCEPT !.value = st.env[e.x]]
    [] e.e = "lambda" -> [st EXCEPT !.value = Lambda]
    [] e.e = "table" -> Entries(st, e, 0, <<>>)
    [] e.e = "match" -> MatchWith(Eval(st, e.subject), e)
    [] OTHER -> EvalAll(st, e, <<>>)

-----------------------------------------------------------------------------
(* Statements                                                              *)

RECURSIVE Exec(_, _)

RECURSIVE Each(_, _)
Each(st, statements) ==
  IF st.end # "on" \/ statements = <<>> THEN st
  ELSE Each(Exec(st, Head(statements)), Tail(statements))

(* What was declared in between is gone, and what it hid is back.          *)
Leave(st, after, own) ==
  [after EXCEPT !.env = [x \in DOMAIN st.env |-> IF x \in own THEN st.env[x] ELSE @[x]]]

Block(st, statements) ==
  Leave(st, Each(st, statements),
        UNION {Declares(statements[k]) : k \in DOMAIN statements})

Scoped(st, x, value, statements) ==
  Leave(st, Block(Bind(st, x, value), statements), {x})

(* After the body of a loop: the loop goes on unless it was left.          *)
Repeats(st) == st.end \in {"on", "continue"}
On(st) == [st EXCEPT !.end = "on"]
LoopEnded(st) == IF st.end = "break" THEN On(st) ELSE st

RECURSIVE While(_, _)
WhileUpdated(st, s) == IF st.end # "on" THEN st ELSE While(st, s)
WhileWalked(st, s) ==
  IF Repeats(st) THEN WhileUpdated(Each(On(st), s.update), s) ELSE LoopEnded(st)
WhileTested(st, s) ==
  IF st.end # "on" \/ st.value = 0 THEN st ELSE WhileWalked(Block(st, s.body), s)
While(st, s) == WhileTested(Eval(st, s.condition), s)

RECURSIVE Ranging(_, _, _, _)
RangingOn(st, s, low, high) ==
  IF Repeats(st)
  THEN Ranging(On(Gap(st, "string", s.s = "string" /\ st.end = "continue")), s, low, high)
  ELSE LoopEnded(st)
Ranging(st, s, low, high) ==
  IF low >= high THEN st
  ELSE RangingOn(Scoped(st, s.x, low, s.body), s, low + 1, high)

RangingTo(high, s, low) ==
  IF high.end # "on" THEN high ELSE Ranging(high, s, low, End(s, high.value))
RangingFrom(low, s) ==
  IF low.end # "on" THEN low ELSE RangingTo(Eval(low, s.high), s, low.value)

RECURSIVE Iterate(_, _, _)
IterateOn(st, s, iterator) ==
  IF Repeats(st) THEN Iterate(On(st), s, iterator) ELSE LoopEnded(st)
IterateNext(next, s, iterator) ==
  IF next.end # "on" THEN next
  ELSE IterateOn(Scoped(next, s.x, next.value, s.body), s, iterator)
IterateHas(has, s, iterator) ==
  IF has.end # "on" \/ has.value = 0 THEN has
  ELSE IterateNext(OutsideHandlers(has, CallOf(has, Next, <<iterator>>)), s, iterator)
Iterate(st, s, iterator) ==
  IterateHas(OutsideHandlers(st, CallOf(st, Has, <<iterator>>)), s, iterator)

IterateIt(st, s) == IF st.end # "on" THEN st ELSE Iterate(st, s, st.value)
IterateOver(st, s) ==
  IterateIt(IF st.end = "on" /\ s.iterates
            THEN OutsideHandlers(st, CallOf(st, Iterator, <<st.value>>)) ELSE st, s)

(* The characters of a string in their order.                              *)
Spell(st, s) == IF st.end # "on" THEN st ELSE Ranging(st, s, 0, st.value)

(* The first branch whose condition holds; n: the branches tried so far.   *)
RECURSIVE If(_, _, _)
IfTested(st, s, n) ==
  IF st.end # "on" THEN st
  ELSE IF st.value # 0 THEN Block(st, s.branches[n + 1].body) ELSE If(st, s, n + 1)
If(st, s, n) ==
  IF n = Len(s.branches) THEN Block(st, s.else)
  ELSE IfTested(Eval(st, s.branches[n + 1].condition), s, n)

(* The first case with the value, else the default.                        *)
FirstCase(s, value) == SelectInSeq(s.cases, LAMBDA c : ~c.default /\ c.n = value)
DefaultCase(s) == SelectInSeq(s.cases, LAMBDA c : c.default)
Numbered(s, value) == value + 1 \in DOMAIN s.cases /\ ~s.cases[value + 1].default
ByPosition(s, value) == FirstCase(s, value) = IF Numbered(s, value) THEN value + 1 ELSE 0
RunCase(st, s, chosen) == IF chosen = 0 THEN st ELSE Block(st, s.cases[chosen].body)

Switch(st, s) ==
  IF st.end # "on" THEN st
  ELSE RunCase(Gap(st, "switch", ~ByPosition(s, st.value)), s,
            IF FirstCase(s, st.value) # 0 THEN FirstCase(s, st.value) ELSE DefaultCase(s))

(* A finally block ends every way out of a try and its handlers, and then  *)
(* that way goes on, unless the block leaves on its own.                   *)
GoesOn(after, st) ==
  IF after.end # "on" THEN after
  ELSE [after EXCEPT !.end = st.end, !.value = st.value, !.type = st.type]

Finally(st, statements) ==
  IF statements = <<>> \/ st.end = "stopped" THEN st
  ELSE GoesOn(Block(On(Gap(st, "finally", st.end # "on")), statements), st)

(* The first handler for the type of the exception.                        *)
HandlerFor(s, type) == SelectInSeq(s.handlers, LAMBDA h : type \in h.types)

RunHandler(st, for) ==
  IF for.x = "" THEN Block(On(st), for.body) ELSE Scoped(On(st), for.x, Exception, for.body)

Handled(st, s, handler) ==
  IF handler = 0 THEN st ELSE RunHandler(st, s.handlers[handler])

Tried(st, s) ==
  IF st.end # "threw" THEN st
  ELSE Handled(Gap(st, "handler", s.handlers # <<>> /\ HandlerFor(s, st.type) # 1),
               s, HandlerFor(s, st.type))

Try(st, s) ==
  Finally(Tried([Block([st EXCEPT !.trying = TRUE], s.body) EXCEPT !.trying = st.trying], s),
          s.finally)

(* What a statement does with the value of its expression.                 *)
Use(st, s) ==
  CASE st.end # "on" -> st
    [] st.end = "on" /\ s.s \in {"declare", "assign"} -> Bind(st, s.x, st.value)
    [] st.end = "on" /\ s.s = "augment" -> Bind(st, s.x, st.env[s.x] + st.value)
    [] st.end = "on" /\ s.s = "evaluate" -> st
    [] st.end = "on" /\ s.s = "delete" -> [st EXCEPT !.trace = Append(@, B!Freed(st.value))]
    [] st.end = "on" /\ s.s = "return" -> [st EXCEPT !.end = "returned"]

Exec(st, s) ==
  CASE s.s \in {"declare", "assign", "augment", "evaluate", "delete", "return"} ->
         Use(Eval(st, s.value), s)
    [] s.s = "throw" -> [st EXCEPT !.end = "threw", !.type = s.type]
    [] s.s \in {"break", "continue"} -> [st EXCEPT !.end = s.s]
    [] s.s = "if" -> If(st, s, 0)
    [] s.s = "while" -> Leave(st, While(Each(st, s.init), s), Binds(s))
    [] s.s = "range" -> RangingFrom(Eval(st, s.low), s)
    [] s.s = "each" -> IterateOver(Eval(st, s.iterable), s)
    [] s.s = "string" -> Spell(Eval(st, s.iterable), s)
    [] s.s = "switch" -> Switch(Eval(st, s.subject), s)
    [] s.s = "try" -> Try(st, s)
    [] s.s = "defer" -> [st EXCEPT !.deferred = Append(@, s.deferred)]
    [] s.s = "block" -> Block(st, s.body)

-----------------------------------------------------------------------------
(* What was deferred runs when the function returns, last first.           *)
DeferredRan(ran, value) ==
  IF ran.end = "on" THEN [ran EXCEPT !.end = "returned", !.value = value]
  ELSE Gap(ran, "deferred", ran.end # "stopped")

Deferred(st) ==
  CASE st.end = "stopped" -> st
    [] st.end = "threw" -> Gap(st, "deferred", st.deferred # <<>>)
    [] OTHER -> DeferredRan(Each(On(st), Reverse(st.deferred)),
                            IF st.end = "returned" THEN st.value ELSE 0)

(* The trace with how the function ended.                                  *)
Ending(st) == CASE st.end = "stopped" -> <<>>
                [] st.end = "threw" -> <<B!Uncaught>>
                [] OTHER -> <<B!Returned(st.value)>>
Outcome(st, gaps) == [trace |-> st.trace \o Ending(st), gaps |-> st.gaps \cup gaps]

Arguments(parameters, arguments) ==
  [x \in {parameters[k] : k \in DOMAIN parameters} |->
     arguments[CHOOSE k \in DOMAIN parameters : parameters[k] = x]]

RunFunction(parameters, body, arguments, inputs) ==
  Outcome(Deferred(Each(Start(Arguments(parameters, arguments), inputs), body)),
          StaticGaps(parameters, body))

=============================================================================

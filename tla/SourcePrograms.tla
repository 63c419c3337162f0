--------------------------- MODULE SourcePrograms ---------------------------
(***************************************************************************)
(* Small functions in the form of MIRLowering: their statements, and sets  *)
(* of functions that put each kind of statement and expression in others.  *)
(***************************************************************************)
EXTENDS SourceSemantics

Parameters == <<"a">>
OtherException == "other"

-----------------------------------------------------------------------------
Number(n) == [e |-> "number", n |-> n]
Name(x) == [e |-> "name", x |-> x]
Apply(kind, function, args) == [e |-> kind, f |-> function, args |-> args]
Call(args) == Apply("call", 31, args)
Await == Apply("await", 32, <<Name("a")>>)
Compare(args) == Apply("operator", 33, args)
Sum(l, r) == [e |-> "add", args |-> <<l, r>>]
Method(static, args) == [e |-> "method", f |-> 34, static |-> static, args |-> args]
Index(l, r) == [e |-> "index", args |-> <<l, r>>]
Plus1(x, prefix) == [e |-> "increment", x |-> x, prefix |-> prefix, args |-> <<Name(x)>>]
Array(args) == [e |-> "array", args |-> args]
Table(width, args) == [e |-> "table", width |-> width, args |-> args]
Moved(x) == [e |-> "move", args |-> <<Name(x)>>]
Both(l, r) == [e |-> "and", args |-> <<l, r>>]
Arm(n, value) == [pattern |-> Number(n), value |-> value]
MatchOf(subject, arms, default) ==
  [e |-> "match", subject |-> subject, arms |-> arms, default |-> default]
ListOf(element, x, range, args, filter) ==
  [e |-> "comprehension", body |-> element, x |-> x, range |-> range, inclusive |-> FALSE,
   args |-> args, filter |-> filter]
LambdaOf(parameters, statements) ==
  [e |-> "lambda", parameters |-> parameters, body |-> statements]

Evaluated(e) == [s |-> "evaluate", value |-> e]
Show(x) == Evaluated(Call(<<Name(x)>>))
Declared(x, e) == [s |-> "declare", x |-> x, value |-> e]
Assigned(x, e) == [s |-> "assign", x |-> x, value |-> e]
Augmented(x, e) == [s |-> "augment", x |-> x, value |-> e]
Returned(e) == [s |-> "return", value |-> e]
Thrown(type) == [s |-> "throw", type |-> type]
Leaves(kind) == [s |-> kind]
Deleted(e) == [s |-> "delete", value |-> e]
Deferring(s) == [s |-> "defer", deferred |-> s]
InBlock(p) == [s |-> "block", body |-> p]

IfElse(c, p, q) ==
  [s |-> "if", branches |-> <<[condition |-> c, body |-> p]>>, else |-> q]
IfElif(c, p, d, q, r) ==
  [s |-> "if", else |-> r,
   branches |-> <<[condition |-> c, body |-> p], [condition |-> d, body |-> q]>>]
WhileLoop(c, p) ==
  [s |-> "while", init |-> <<>>, condition |-> c, update |-> <<>>, body |-> p]
ForLoop(x, n, p) ==
  [s |-> "while", init |-> <<Declared(x, Number(0))>>,
   condition |-> [e |-> "less", args |-> <<Name(x), Number(n)>>],
   update |-> <<Augmented(x, Number(1))>>, body |-> p]
InRange(x, low, high, p) ==
  [s |-> "range", x |-> x, inclusive |-> FALSE, low |-> low, high |-> high, body |-> p]
Through(x, low, high, p) == [InRange(x, low, high, p) EXCEPT !.inclusive = TRUE]
InIterator(x, e, p) == [s |-> "each", x |-> x, iterates |-> FALSE, iterable |-> e, body |-> p]
InIterable(x, e, p) == [InIterator(x, e, p) EXCEPT !.iterates = TRUE]
InString(x, e, p) == [s |-> "string", x |-> x, iterable |-> e, body |-> p]
Case(n, p) == [default |-> FALSE, n |-> n, body |-> p]
Default(p) == [default |-> TRUE, n |-> 0, body |-> p]
SwitchOn(e, cases) == [s |-> "switch", subject |-> e, cases |-> cases]
Handler(types, x, p) == [types |-> types, x |-> x, body |-> p]
TryExcept(p, handlers, q) ==
  [s |-> "try", body |-> p, handlers |-> handlers, finally |-> q]

-----------------------------------------------------------------------------
(* The functions                                                           *)

Everything == {CallFails, OtherException}

Simple ==
  {<<Show("b")>>,
   <<Assigned("b", Call(<<Sum(Name("a"), Name("b"))>>))>>,
   <<Augmented("b", Await)>>,
   <<Augmented("a", Compare(<<Name("b")>>)), Show("a")>>,
   <<Show("b"), Returned(Name("b")), Show("a")>>,
   <<Augmented("b", Number(1)), Thrown(OtherException)>>,
   <<Augmented("b", Number(1)), Leaves("break"), Show("a")>>,
   <<Augmented("b", Number(1)), Leaves("continue"), Show("a")>>}

(* What a branch, a loop or a try may hold, with p and q in it.            *)
Branching(p, q) ==
  {IfElse(Name("a"), p, q),
   IfElif(Call(<<>>), p, Name("a"), q, <<Show("a")>>),
   SwitchOn(Name("a"), <<Case(0, p), Case(1, q)>>),
   SwitchOn(Call(<<Name("a")>>), <<Case(1, p), Case(0, q), Default(<<Show("a")>>)>>),
   SwitchOn(Name("b"), <<Default(p), Case(1, q)>>)}
Looping(p, q) ==
  {WhileLoop(Call(<<Name("b")>>), p),
   ForLoop("i", 2, p),
   InRange("i", Name("a"), Number(2), p \o <<Augmented("a", Number(1))>>),
   InIterator("b2", Name("a"), p)}
Trying(p, q) ==
  {TryExcept(p, <<Handler(Everything, "e", q \o <<Show("b")>>)>>, <<>>),
   TryExcept(p, <<Handler({CallFails}, "", <<Show("a")>>),
                  Handler({OtherException}, "e", q)>>, <<>>),
   TryExcept(p, <<Handler({OtherException}, "", q)>>, <<Augmented("b", Number(2))>>),
   TryExcept(p, <<>>, <<Show("b")>>)}
Scoping(p, q) ==
  {InBlock(<<Declared("c", Name("b"))>> \o <<Assigned("b", Name("c"))>> \o p),
   InBlock(<<Declared("b2", Number(5))>> \o q)}

Compound(p, q) == Branching(p, q) \cup Looping(p, q) \cup Trying(p, q)

(* A statement in another, in a function that may have deferred a call, or *)
(* declares a name again, or defers in a branch.                           *)
Around(p) ==
  {<<Declared("b", Number(1))>> \o p \o <<Show("b")>>,
   <<Declared("b", Number(1)), Deferring(Show("b"))>> \o p
      \o <<Deferring(InBlock(<<Augmented("b", Number(1)), Show("a")>>)), Returned(Name("b"))>>}

Nested ==
  UNION {Around(<<outer>>) :
    outer \in UNION {Compound(<<inner>>, <<Show("a")>>) :
      inner \in UNION {Compound(p, <<Assigned("a", Number(0))>>) : p \in Simple}}}
Flat ==
  UNION {Around(<<outer>>) :
    outer \in UNION {Compound(p, q) \cup Scoping(p, q) : p \in Simple, q \in Simple}}
(* A jump or an exception through three loops or tries.                    *)
Leaving(p) == Looping(p, <<Show("a")>>) \cup Trying(p, <<Assigned("a", Number(0))>>)
Deep ==
  {<<Declared("b", Number(1)), outer, Show("b")>> :
    outer \in UNION {Leaving(<<middle>>) :
      middle \in UNION {Leaving(<<inner>>) :
        inner \in UNION {Leaving(p) : p \in Simple}}}}
Odd ==
  UNION {Around(<<outer>>) :
    outer \in UNION {Compound(p, q) :
      p \in {<<Declared("b", Call(<<>>))>>, <<Deferring(Show("a"))>>,
             <<Declared("c", Moved("a")), Assigned("a", Number(1)), Deleted(Name("c"))>>,
             <<Declared("i", Number(3)), Show("i")>>},
      q \in {<<Show("b")>>, <<Declared("b", Number(0))>>}}}

(* The other loops, in what may be around them and around what may be in   *)
(* them.                                                                   *)
OtherLoops(p) ==
  {Through("i", Number(0), Name("a"), p),
   InIterable("b2", Call(<<Name("a")>>), p),
   InString("b2", Number(2), p),
   InString("b2", Call(<<>>), p \o <<Show("b2")>>)}
Others ==
  UNION {Around(<<outer>>) :
    outer \in UNION {OtherLoops(p) \cup UNION {Compound(<<inner>>, <<Show("a")>>) : inner \in OtherLoops(p)}
                       \cup UNION {OtherLoops(<<inner>>) : inner \in Compound(p, <<Show("b")>>)} :
                     p \in Simple}}

(* Expressions with control flow in them, where a function may have them.  *)
ControlExpressions ==
  {Both(Call(<<Number(1)>>), Call(<<Number(2)>>)),
   MatchOf(Call(<<>>), <<Arm(1, Call(<<Name("a")>>)), Arm(0, Number(4))>>, <<Await>>),
   MatchOf(Name("a"), <<[pattern |-> Call(<<>>), value |-> Number(1)]>>, <<Name("b")>>),
   MatchOf(Name("a"), <<Arm(1, Number(2))>>, <<>>),
   ListOf(Name("x"), "x", TRUE, <<Number(0), Number(2)>>, <<>>),
   ListOf(Call(<<Name("x")>>), "x", TRUE, <<Name("a"), Number(2)>>, <<Name("x")>>),
   ListOf(Name("x"), "x", FALSE, <<Name("a")>>, <<Call(<<Name("x")>>)>>),
   ListOf(Compare(<<Name("x")>>), "b", FALSE, <<Name("b")>>, <<>>)}
Lambdas ==
  {LambdaOf(<<"y">>, <<Returned(Call(<<Sum(Name("y"), Name("a"))>>))>>),
   LambdaOf(<<"a">>,
     <<IfElse(Name("a"), <<Show("a"), Returned(Number(1))>>, <<>>), Show("b")>>),
   LambdaOf(<<"y">>, <<TryExcept(<<Show("y")>>, <<Handler(Everything, "", <<>>)>>, <<>>),
                       Evaluated(Apply("await", 32, <<Name("y")>>))>>),
   LambdaOf(<<"y">>, <<Deferring(Show("y")), Show("a")>>)}
(* Expressions that call and change variables between their operands.      *)
OtherExpressions ==
  {Method(FALSE, <<Call(<<Name("a")>>), Plus1("b", TRUE)>>),
   Method(TRUE, <<Call(<<Name("b")>>), Plus1("b", FALSE), Name("b")>>),
   Index(Call(<<>>), Sum(Name("a"), Plus1("a", FALSE))),
   Array(<<Call(<<Name("a")>>), Name("b")>>),
   Table(1, <<Name("b"), Index(Name("a"), Number(1))>>),
   Table(2, <<Name("a"), Call(<<>>), Number(4), Plus1("b", FALSE)>>),
   [ListOf(Name("x"), "x", TRUE, <<Number(0), Name("a")>>, <<>>) EXCEPT !.inclusive = TRUE],
   LambdaOf(<<"y">>,
     <<Returned(Method(FALSE, <<Plus1("a", TRUE), Index(Name("b"), Name("y"))>>))>>)}

Using(e) == {Evaluated(Call(<<e, Name("b")>>)), Augmented("b", e), Returned(e)}
Inside == UNION {Using(e) : e \in ControlExpressions \cup Lambdas}
InsideAny == Inside \cup UNION {Using(e) : e \in OtherExpressions}
WithExpressions ==
  UNION {Around(p) :
    p \in {<<s>> : s \in InsideAny}
            \cup {<<s>> : s \in UNION {Compound(<<s>>, <<Show("a")>>) : s \in InsideAny}}
            \cup {<<s, Returned(Call(<<e>>))>> : s \in InsideAny,
                   e \in ControlExpressions \cup Lambdas \cup OtherExpressions}}

(* The analyzer wants a loop around a break or a continue.                 *)
RECURSIVE Loose(_)
Loose(s) ==
  \/ s.s \in {"break", "continue"}
  \/ /\ s.s \notin {"while", "range", "each", "string"}
     /\ \E p \in Bodies(s) : \E k \in DOMAIN p : Loose(p[k])

Programs ==
  {p \in Nested \cup Flat \cup Deep \cup Odd \cup Others \cup WithExpressions :
     \A k \in DOMAIN p : ~Loose(p[k])}

-----------------------------------------------------------------------------
(* Functions for what works on MIR: lowered, with the given blocks.        *)

Lowered(p) == LowerFunction(Parameters, p).code
Compiled(code, blocks) ==
  [b \in blocks |-> IF b \in DOMAIN code THEN code[b] ELSE <<>>]

(* The programs in which every name is that of a variable.                 *)
Suitable(programs) ==
  {p \in programs : StaticGaps(Parameters, p) = {} /\ \A k \in DOMAIN p : ~Loose(p[k])}

(* The code needs no more blocks than these. No call or await in the middle*)
(* of a block has a landing pad.                                           *)
Fits(code, blocks) ==
  /\ DOMAIN code \subseteq blocks
  /\ \A b \in DOMAIN code : \A k \in DOMAIN code[b] :
       code[b][k].kind \in {"call", "await"} => code[b][k].pad = NoBlock

CompiledFunctions(programs, blocks) ==
  {Compiled(code, blocks) :
    code \in {c \in {Lowered(p) : p \in Suitable(programs)} : Fits(c, blocks)}}

=============================================================================

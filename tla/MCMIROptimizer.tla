--------------------------- MODULE MCMIROptimizer ---------------------------
(***************************************************************************)
(* Small functions for MIROptimizer, in the shape lowering gives them, and *)
(* what the optimizer must preserve of them.                               *)
(***************************************************************************)
EXTENDS MIROptimizer

CONSTANT MaxJumps   (* bound: jumps of an execution                        *)

(* The program's variables; the temporaries are the numbers from 10 on,    *)
(* each written by one instruction.                                        *)
X == 1
Y == 2
F == 3
E == 4
ObjectField == 5
Numbers == 1 .. 86

(*-------------------------------------------------------------------------*)
(* Instructions and statements. t is the first temporary of a statement.   *)

Make(kind, dst, src) ==
  [kind |-> kind, dst |-> dst, src |-> src, value |-> 0, targets |-> <<>>,
   pad |-> NoBlock, callee |-> NoVariable]
Number(t, n) == [Make("const", t, <<>>) EXCEPT !.value = n]
Load(t, v) == Make("load", t, <<v>>)
Store(v, t) == Make("store", v, <<t>>)
Call(dst, args) == Make("call", dst, args)
Goes(kind, src, to) == [Make(kind, NoVariable, src) EXCEPT !.targets = to]
Jump(to) == Goes("jump", <<>>, <<to>>)
Branch(t, yes, no) == Goes("branch", <<t>>, <<yes, no>>)
Invoke(args, next, pad) ==
  [Goes("invoke", args, <<next>>) EXCEPT !.pad = pad]
Return(t) == Make("return", NoVariable, <<t>>)

Skip(t) == <<>>
SetX(t) == <<Number(t, 1), Store(X, t)>>
XGetsY(t) == <<Load(t, Y), Store(X, t)>>
YGetsX(t) == <<Load(t, X), Store(Y, t)>>
Show(t) == <<Load(t, X), Call(NoVariable, <<t>>)>>
Ask(t) == <<Call(t, <<>>), Store(X, t)>>
(* y = x++                                                                 *)
Increment(t) ==
  <<Load(t, X), Make("copy", t + 1, <<t>>), Number(t + 2, 1),
    Make("add", t + 3, <<t, t + 2>>), Store(X, t + 3), Store(Y, t + 1)>>
(* x = 1 + 2, x = not (2 < 1), x = 1 / 0                                   *)
Sum(t) == <<Number(t, 1), Number(t + 1, 2), Make("add", t + 2, <<t, t + 1>>),
            Store(X, t + 2)>>
Negation(t) ==
  <<Number(t, 2), Number(t + 1, 1), Make("less", t + 2, <<t, t + 1>>),
    Make("not", t + 3, <<t + 2>>), Store(X, t + 3)>>
DivideByZero(t) ==
  <<Number(t, 1), Number(t + 1, 0), Make("divide", t + 2, <<t, t + 1>>),
    Store(X, t + 2)>>
(* object.field = y, and f = lambda; f(x)                                  *)
SetField(t) ==
  <<Load(t, Y), [Make("field", t + 1, <<E>>) EXCEPT !.value = ObjectField],
    Store(t + 1, t)>>
GetField(t) ==
  <<[Make("field", t, <<E>>) EXCEPT !.value = ObjectField], Load(t + 1, t),
    Store(X, t + 1)>>
MakeLambda(t) == <<[Make("function", t, <<>>) EXCEPT !.value = 9], Store(F, t)>>
CallLambda(t) ==
  <<Load(t, X), [Call(NoVariable, <<t>>) EXCEPT !.callee = F]>>

Statements(t) ==
  {Skip(t), SetX(t), XGetsY(t), YGetsX(t), Show(t), Increment(t)}
Others(t) ==
  {Ask(t), Sum(t), Negation(t), DivideByZero(t), SetField(t) \o GetField(t + 3),
   MakeLambda(t) \o CallLambda(t + 2)}

(*-------------------------------------------------------------------------*)
(* The functions, of six blocks; a block that is empty is one that         *)
(* lowering creates behind a return or a throw.                            *)

Cond(t) == <<Load(t, X), Load(t + 1, Y), Make("less", t + 2, <<t, t + 1>>)>>
Last(t) == <<Load(t, X), Return(t)>>
Code(b0, b1, b2, b3, b4, b5) ==
  [b \in Blocks |-> CASE b = 0 -> b0 [] b = 1 -> b1 [] b = 2 -> b2
                      [] b = 3 -> b3 [] b = 4 -> b4 [] b = 5 -> b5
                      [] OTHER -> <<>>]

If(p, q, r) ==
  Code(p \o Cond(15) \o <<Branch(17, 1, 2)>>, q \o <<Jump(3)>>,
       r \o <<Jump(3)>>, Last(40), <<>>, <<>>)
While(p, q, r) ==
  Code(p \o <<Jump(1)>>, Cond(25) \o <<Branch(27, 2, 3)>>,
       q \o <<Jump(1)>>, r \o Last(45), <<>>, <<>>)
(* try: x passed to a call; q; except e: r                                 *)
Try(p, q, r) ==
  Code(p \o <<Jump(1)>>, <<Load(26, X), Invoke(<<26>>, 4, 3)>>, Last(30),
       <<Make("landing", 36, <<>>), Jump(5)>>, q \o <<Jump(2)>>,
       <<Make("copy", E, <<36>>), Load(56, E), Call(NoVariable, <<56>>)>>
         \o r \o <<Jump(2)>>)
(* while: try: a call; throw; except: r, with q in the loop                *)
TryInLoop(p, q, r) ==
  Code(p \o <<Jump(1)>>, Cond(25) \o <<Branch(27, 2, 5)>>,
       q \o <<Invoke(<<>>, 3, 4)>>,
       <<[Make("throw", NoVariable, <<>>) EXCEPT !.pad = 4]>>,
       <<Make("landing", 40, <<>>)>> \o r \o <<Jump(1)>>, Last(55))
Switch(p, q, r) ==
  Code(p \o <<Load(15, X), Goes("switch", <<15>>, <<2, 3, 1>>)>>, Last(20),
       q \o <<Jump(1)>>, r \o <<Load(19, X), Return(19)>>, <<Jump(1)>>, <<>>)
(* y = match of x < y: a call's answer, or else y; q before it, r after    *)
Match(p, q, r) ==
  Code(p \o q \o Cond(15) \o <<Branch(17, 1, 2)>>,
       <<Call(35, <<>>), Store(60, 35), Jump(3)>>,
       <<Load(46, Y), Store(60, 46), Jump(3)>>,
       <<Load(47, 60), Store(Y, 47)>> \o r \o
         <<Load(48, Y), Call(NoVariable, <<48>>)>> \o Last(50), <<>>, <<>>)

(* In the body of a try every call is an invoke: q is then without calls.   *)
Calls(q) == \E k \in DOMAIN q : q[k].kind = "call"

Shapes(p, q, r) ==
  {If(p, q, r), While(p, q, r), Switch(p, q, r), Match(p, q, r)}
  \cup (IF Calls(q) THEN {} ELSE {Try(p, q, r), TryInLoop(p, q, r)})

ShapedFunctions ==
  UNION {Shapes(p, q, r) : p \in {Ask(10), Increment(10)},
                           q \in Statements(30), r \in {Skip(80), YGetsX(80), Show(80)}}
  \cup
  UNION {Shapes(p, q, r) : p \in {XGetsY(10)}, q \in Others(30),
                           r \in {Skip(80), SetField(80) \o GetField(83)}}

(* try: x = await x; except e: a call. An await is a call in the middle of *)
(* a block, with a landing pad (lowering.cpp:2809-2830).                   *)
AwaitInTry(p, q) ==
  Code(p \o <<Jump(1)>>,
       q \o <<Load(26, X), [Make("await", 27, <<26>>) EXCEPT !.pad = 3],
              Store(X, 27), Jump(2)>>,
       Last(40), <<Make("landing", 46, <<>>), Jump(5)>>, <<>>,
       <<Make("copy", E, <<46>>), Load(56, E), Call(NoVariable, <<56>>),
         Jump(2)>>)

AwaitFunctions == {AwaitInTry(p, q) : p \in {Ask(10)}, q \in Statements(30) \ {Show(30)}}

(*-------------------------------------------------------------------------*)
(* Functions that MIRLowering makes of statements and expressions inside   *)
(* each other. An await in a try: see AwaitFunctions.                      *)

Source == INSTANCE SourcePrograms

SourceFunctions ==
  Source!CompiledFunctions(
    UNION {Source!Around(<<s>>) : s \in Source!Inside \cup
      UNION {Source!Compound(q, <<Source!Show("a")>>) : q \in Source!Simple}},
    Blocks)

AllFunctions == ShapedFunctions \cup SourceFunctions

(*-------------------------------------------------------------------------*)
(* The meaning of a function.                                              *)

Raises == -1
Behaviour == INSTANCE MIRBehaviour WITH Exception <- 7

(* The parameters x and y, and what the calls answer.                      *)
Environments ==
  {[v \in Variables |-> CASE v = X -> x [] v = Y -> y [] OTHER -> 0] :
     x \in {0, 1}, y \in {0, 1}}
Inputs == [1 .. 3 -> {0, 1, Raises}]

(* The function that comes out makes the calls the lowered one makes, with *)
(* the same values and in the same order, whatever they answer and         *)
(* whichever of them throws, and ends as it does (optimizer.cpp:35-48).    *)
SameBehaviour ==
  pass = "finished" =>
    \A env \in Environments, inputs \in Inputs :
      Behaviour!Trace(code, present, env, inputs) =
      Behaviour!Trace(original, Blocks, env, inputs)

(* An exception that the function as it was written handles does not leave *)
(* the function that comes out (lowering.cpp:2826-2828).                   *)
ExceptHandlesException ==
  pass = "finished" =>
    \A env \in Environments, inputs \in Inputs :
      LET End(trace) == trace[Len(trace)]
      IN End(Behaviour!Trace(original, Blocks, env, inputs)) # Behaviour!Uncaught
           => End(Behaviour!Trace(code, present, env, inputs)) # Behaviour!Uncaught

=============================================================================

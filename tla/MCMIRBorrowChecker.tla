------------------------- MODULE MCMIRBorrowChecker -------------------------
(***************************************************************************)
(* Functions for MIRBorrowChecker: small ones with every choice of what a  *)
(* block does to a variable, in the control-flow graphs of branches, loops *)
(* and tries, and those that MIRLowering makes.                            *)
(***************************************************************************)
EXTENDS MIRBorrowChecker

Numbers == 1 .. 40
FirstParameter == {1}
X == 1
Y == 2

Instruction(kind, dst, src, targets, pad) ==
  [kind |-> kind, dst |-> dst, src |-> src, value |-> 0, targets |-> targets,
   pad |-> pad, callee |-> NoVariable]

Jump(t) == Instruction("jump", NoVariable, <<>>, <<t>>, NoBlock)
Branch(t, f) == Instruction("branch", NoVariable, <<>>, <<t, f>>, NoBlock)
Switch(to) == Instruction("switch", NoVariable, <<>>, to, NoBlock)
Invoke(next, pad) == Instruction("invoke", NoVariable, <<>>, <<next>>, pad)
Throw(pad) == Instruction("throw", NoVariable, <<>>, <<>>, pad)
Return == Instruction("return", NoVariable, <<>>, <<>>, NoBlock)

(* The terminators of blocks 0 to 4: nothing goes to block 0.              *)
Graphs ==
  { <<Branch(1, 2), Jump(3), Jump(3), Branch(1, 4), Return>>,
    <<Jump(3), Jump(2), Branch(1, 4), Branch(2, 4), Return>>,
    <<Invoke(1, 2), Throw(2), Jump(4), Jump(1), Return>>,
    <<Jump(1), Switch(<<2, 3, 3>>), Jump(4), Invoke(4, 2), Branch(1, NoBlock)>> }

Write(v) == Instruction("const", v, <<>>, <<>>, NoBlock)
Read(v) == Instruction("call", NoVariable, <<v>>, <<>>, NoBlock)
Move(v, w) == Instruction("move", v, <<w>>, <<>>, NoBlock)
Free(v) == Instruction("free", NoVariable, <<v>>, <<>>, NoBlock)
Reference(v, w) == Instruction("reference", v, <<w>>, <<>>, NoBlock)

Bodies(v, w) ==
  {<<Free(v)>>, <<Move(w, v)>>, <<Read(v), Write(v)>>, <<Reference(w, v), Read(v)>>,
   <<Move(v, v), Free(w)>>}

SmallFunctions ==
  {[b \in Blocks |-> IF b > 4 THEN <<>> ELSE body[b + 1] \o <<graph[b + 1]>>] :
     graph \in Graphs,
     body \in {<<>>, <<Write(X), Write(Y)>>}
                \X Bodies(X, Y) \X ({<<>>} \cup Bodies(Y, X)) \X Bodies(X, Y)
                \X {<<Read(X)>>, <<Free(Y)>>}}

Source == INSTANCE SourcePrograms

SourceFunctions ==
  Source!CompiledFunctions(
    Source!Odd \cup UNION {Source!Around(<<s>>) : s \in Source!Inside}, Blocks)

AllFunctions == SmallFunctions \cup SourceFunctions

(* Only the functions that MIRLowering made have these.                    *)
HasTemporaries == \E b \in Blocks : \E k \in DOMAIN code[b] : code[b][k].dst > Y

-----------------------------------------------------------------------------
(* The check has no error for what lowering makes of a program that the    *)
(* semantic checker let through, in branches and loops and where a name is *)
(* moved, given a value and deleted: a name is loaded anew for each use    *)
(* (lowering.cpp:1089-1097, 2478-2489).                                    *)
LoweredCodeIsClean == HasTemporaries => reports = {}

=============================================================================

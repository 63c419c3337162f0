--------------------------- MODULE MCMIRLiveness ----------------------------
(***************************************************************************)
(* Functions of four blocks for MIRLiveness: every control-flow graph that *)
(* lowering makes out of an if, a loop, a try, two nested loops, and code  *)
(* that nothing reaches, with every choice of what a block reads and       *)
(* writes.                                                                 *)
(***************************************************************************)
EXTENDS MIRLiveness

Instruction(kind, dst, src, targets, pad) ==
  [kind |-> kind, dst |-> dst, src |-> src, value |-> 0, targets |-> targets,
   pad |-> pad, callee |-> NoVariable]

Jump(t) == Instruction("jump", NoVariable, <<>>, <<t>>, NoBlock)
Branch(t, f) == Instruction("branch", NoVariable, <<>>, <<t, f>>, NoBlock)
Switch(to) == Instruction("switch", NoVariable, <<>>, to, NoBlock)
Invoke(next, pad) == Instruction("invoke", NoVariable, <<>>, <<next>>, pad)
Throw(pad) == Instruction("throw", NoVariable, <<>>, <<>>, pad)
Return == Instruction("return", NoVariable, <<>>, <<>>, NoBlock)

(* The terminators of blocks 0 to 3.                                       *)
Graphs ==
  { <<Branch(1, 2), Jump(3), Jump(3), Return>>,
    <<Jump(1), Branch(2, 3), Jump(1), Return>>,
    <<Invoke(1, 2), Throw(2), Jump(3), Return>>,
    <<Jump(1), Switch(<<1, 2, 2>>), Branch(1, 3), Return>>,
    <<Jump(3), Branch(1, NoBlock), Invoke(1, 2), Branch(0, 3)>> }

Write(v) == Instruction("const", v, <<>>, <<>>, NoBlock)
Read(v) == Instruction("call", NoVariable, <<v>>, <<>>, NoBlock)
Assign(v, w) == Instruction("load", v, <<w>>, <<>>, NoBlock)

Bodies(v, w) ==
  {<<>>, <<Read(v)>>, <<Write(v), Read(v)>>, <<Assign(v, w)>>,
   <<Assign(v, v), Write(w)>>}

SmallFunctions ==
  {[b \in Blocks |-> body[b] \o <<graph[b + 1]>>] :
     graph \in Graphs,
     body \in {f \in [Blocks -> Bodies("x", "y") \cup Bodies("y", "x")] :
                 /\ f[0] \in Bodies("x", "y")
                 /\ f[1] \in Bodies("x", "y")
                 /\ f[2] \in {<<>>, <<Read("y")>>, <<Assign("x", "y")>>}
                 /\ f[3] \in {<<Read("x")>>, <<Assign("y", "x"), Read("y")>>}}}

=============================================================================

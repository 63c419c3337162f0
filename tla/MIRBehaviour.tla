---------------------------- MODULE MIRBehaviour ----------------------------
(***************************************************************************)
(* What a MIR function does when it runs, as the code generator            *)
(* (src/uranite/ir/mir/codegen.cpp) lowers it: an interpreter that returns *)
(* the trace of an execution. A trace holds the calls with the values they *)
(* see and how they ended, what is freed, and at last how the function     *)
(* ended. Calls are the only contact with the rest of the program, so the  *)
(* environment is the sequence of their outcomes: a value, or Raises.      *)
(***************************************************************************)
EXTENDS Integers, Sequences

CONSTANTS
  Raises,       (* the outcome of a call that throws                       *)
  NoVariable,   (* INVALID_VARIABLE_IDENTIFIER                             *)
  Exception,    (* the value a landing pad finds                           *)
  MaxJumps      (* bound: an execution that jumps more often diverges      *)

(* A variable that holds the address of a field holds this, more than any  *)
(* number a program computes; the fields are variables too.                *)
Address(field) == 1000 + field
IsAddress(value) == value >= 1000
Pointee(value) == value - 1000

Loaded(env, v) == IF IsAddress(env[v]) THEN env[Pointee(env[v])] ELSE env[v]

(* The variables after an instruction that neither calls nor jumps. A      *)
(* string is named by its length, and its characters by their places.      *)
Assigned(env, i) ==
  CASE i.kind \in {"const", "bool", "function"} -> [env EXCEPT ![i.dst] = i.value]
    [] i.kind \in {"load", "copy", "move"} -> [env EXCEPT ![i.dst] = Loaded(env, i.src[1])]
    [] i.kind = "store" ->
         [env EXCEPT ![IF IsAddress(env[i.dst]) THEN Pointee(env[i.dst])
                       ELSE i.dst] = env[i.src[1]]]
    [] i.kind = "add" -> [env EXCEPT ![i.dst] = env[i.src[1]] + env[i.src[2]]]
    [] i.kind = "divide" -> [env EXCEPT ![i.dst] = env[i.src[1]] \div env[i.src[2]]]
    [] i.kind = "less" ->
         [env EXCEPT ![i.dst] = IF env[i.src[1]] < env[i.src[2]] THEN 1 ELSE 0]
    [] i.kind = "lessEqual" ->
         [env EXCEPT ![i.dst] = IF env[i.src[1]] <= env[i.src[2]] THEN 1 ELSE 0]
    [] i.kind = "length" -> [env EXCEPT ![i.dst] = env[i.src[1]]]
    [] i.kind = "element" -> [env EXCEPT ![i.dst] = env[i.src[2]]]
    [] i.kind = "equal" ->
         [env EXCEPT ![i.dst] = IF env[i.src[1]] = env[i.src[2]] THEN 1 ELSE 0]
    [] i.kind = "and" ->
         [env EXCEPT ![i.dst] = IF 0 \in {env[i.src[1]], env[i.src[2]]} THEN 0 ELSE 1]
    [] i.kind = "not" -> [env EXCEPT ![i.dst] = 1 - env[i.src[1]]]
    [] i.kind = "field" -> [env EXCEPT ![i.dst] = Address(i.value)]
    [] i.kind = "landing" -> [env EXCEPT ![i.dst] = Exception]

Result(env, dst, outcome) ==
  IF dst = NoVariable THEN env ELSE [env EXCEPT ![dst] = outcome]

(* The block a terminator goes to. A switch takes case n for the value n.  *)
Chosen(env, i) ==
  CASE i.kind = "jump" -> i.targets[1]
    [] i.kind = "branch" -> IF env[i.src[1]] # 0 THEN i.targets[1] ELSE i.targets[2]
    [] i.kind = "switch" ->
         IF env[i.src[1]] \in 0 .. Len(i.targets) - 2
         THEN i.targets[env[i.src[1]] + 1] ELSE i.targets[Len(i.targets)]

Traps(env, i) == i.kind = "divide" /\ env[i.src[2]] = 0

(* How a function ends.                                                    *)
Returned(value) == <<1, value>>
Uncaught == <<2>>      (* the exception leaves the function                *)
Trapped == <<3>>       (* a division by zero                               *)
Diverges == <<4>>
OutOfInputs == <<5>>   (* it makes more calls than there are outcomes      *)
Broken == <<6>>        (* control reaches a block that is not there        *)

Freed(value) == <<8, value>>   (* the heap gets it back                     *)

(* The trace from instruction k of b on. live: the blocks that exist. A    *)
(* block without a terminator returns nothing.                             *)
RECURSIVE Run(_, _, _, _, _, _, _)
Run(code, live, b, k, env, inputs, jumps) ==
  LET goto(t, e, in) == Run(code, live, t, 1, e, in, jumps - 1)
      i == code[b][k]
      seen == <<IF i.callee = NoVariable THEN i.value ELSE env[i.callee]>>
                \o [n \in DOMAIN i.src |-> env[i.src[n]]]
      call == <<7, Head(inputs)>> \o seen
      unwind(in) == IF i.pad \in live THEN goto(i.pad, env, in) ELSE <<Uncaught>>
  IN CASE b \notin live -> <<Broken>>
       [] b \in live /\ k > Len(code[b]) -> <<Returned(0)>>
       [] jumps = 0 -> <<Diverges>>
       [] OTHER ->
          CASE i.kind = "return" ->
                 <<Returned(IF i.src = <<>> THEN 0 ELSE env[i.src[1]])>>
            [] i.kind \in {"jump", "branch", "switch"} ->
                 goto(Chosen(env, i), env, inputs)
            [] i.kind = "throw" -> unwind(inputs)
            [] i.kind \in {"call", "await", "invoke"} ->
                 IF inputs = <<>> THEN <<OutOfInputs>>
                 ELSE <<call>> \o
                   (IF Head(inputs) = Raises THEN unwind(Tail(inputs))
                    ELSE LET e == Result(env, i.dst, Head(inputs))
                         IN IF i.kind = "invoke"
                            THEN goto(i.targets[1], e, Tail(inputs))
                            ELSE Run(code, live, b, k + 1, e, Tail(inputs), jumps))
            [] i.kind = "free" ->
                 <<Freed(env[i.src[1]])>> \o Run(code, live, b, k + 1, env, inputs, jumps)
            [] Traps(env, i) -> <<Trapped>>
            [] OTHER -> Run(code, live, b, k + 1, Assigned(env, i), inputs, jumps)

(* A function starts in block 0.                                           *)
Trace(code, live, env, inputs) == Run(code, live, 0, 1, env, inputs, MaxJumps)

=============================================================================

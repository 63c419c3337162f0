--------------------------- MODULE MCMIRLowering ---------------------------
(***************************************************************************)
(* Small functions for MIRLowering: what lowering makes of them is         *)
(* compared with what SourceSemantics says they do.                        *)
(***************************************************************************)
EXTENDS SourcePrograms

CONSTANTS
  MaxJumps,    (* bound: jumps of a run of lowered code                    *)
  MaxInputs    (* bound: calls of a run                                    *)

VARIABLES
  body,      (* the statements of the function                             *)
  lowered    (* what lowering made of them; <<>> before it ran             *)

programVars == <<body, lowered>>

-----------------------------------------------------------------------------
Init == body \in Programs /\ lowered = <<>>

Lower ==
  /\ lowered = <<>>
  /\ lowered' = LowerFunction(Parameters, body)
  /\ UNCHANGED body

Spec == Init /\ [][Lower]_programVars

-----------------------------------------------------------------------------
Behaviour == INSTANCE MIRBehaviour

Inputs == [1 .. MaxInputs -> {0, 1, Raises}]

TraceOf(function, arguments, inputs) ==
  LET env == [v \in 0 .. function.variables |->
                IF v \in DOMAIN arguments THEN arguments[v] ELSE 0]
  IN Behaviour!Trace(function.code, DOMAIN function.code, env, inputs)

(* The function, and the lambdas in it.                                    *)
Functions ==
  {[parameters |-> Parameters, body |-> body, code |-> lowered.code,
    variables |-> lowered.variables]} \cup ToSet(lowered.lambdas)

(* In every run whose gaps are among these, the lowered function makes the *)
(* calls the source says and ends as it says.                              *)
AgreesBut(gaps) ==
  lowered # <<>> /\ StaticGaps(Parameters, body) \subseteq gaps =>
    \A f \in Functions :
      \A arguments \in [DOMAIN f.parameters -> {0, 1}], inputs \in Inputs :
        LET run == RunFunction(f.parameters, f.body, arguments, inputs)
        IN run.gaps \subseteq gaps => TraceOf(f, arguments, inputs) = run.trace

(* The lowered function makes the calls the source says, with the values   *)
(* and in the order it says, whatever they answer and whichever of them    *)
(* raises, and ends as the source says, in every run that meets none of    *)
(* the gaps of SourceSemantics (hir/lowering.cpp:568-789,                  *)
(* mir/lowering.cpp:910-2263).                                             *)
LoweringKeepsBehaviour == AgreesBut({})

(* "The finally block runs after the try block completes, whether an       *)
(* exception occurred or not. It guarantees cleanup code executes          *)
(* regardless of the outcome." (try-except-finally.md:27)                  *)
FinallyAlwaysRuns == AgreesBut({"finally"})

-----------------------------------------------------------------------------
(* The control flow that the code generator makes of the lowered function. *)
Instructions(b) == lowered.code[b]
Writes(b, k, v) == \E n \in 1 .. k - 1 : Instructions(b)[n].dst = v

(* The blocks that are reached while v has not been written yet. An        *)
(* instruction that raises has not written its destination.                *)
RECURSIVE ReachedWithout(_, _)
ReachedWithout(blocks, v) ==
  LET next == UNION {UNION {
        LET i == Instructions(b)[k]
            written == Writes(b, k, v)
        IN (IF written THEN {} ELSE {i.pad})
             \cup (IF written \/ i.dst = v THEN {} ELSE ToSet(i.targets)) :
        k \in DOMAIN Instructions(b)} : b \in blocks} \ {NoBlock}
  IN IF next \subseteq blocks THEN blocks ELSE ReachedWithout(blocks \cup next, v)

(* No instruction reads a variable before a value has been stored in it,   *)
(* on any path: a name means the variable that is visible there, and a     *)
(* deferred statement only runs behind the declarations of its names. A    *)
(* name that hides another and a statement deferred in a branch break it   *)
(* (lowering.cpp:918-926, 2252-2263).                                      *)
ReadsFollowWrites ==
  lowered # <<>> /\ StaticGaps(Parameters, body) = {} =>
    \A v \in Len(Parameters) + 1 .. lowered.variables :
      \A b \in ReachedWithout({0}, v) : \A k \in DOMAIN Instructions(b) :
        v \in ToSet(Instructions(b)[k].src) => Writes(b, k, v)

=============================================================================

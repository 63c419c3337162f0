------------------------- MODULE MCOwnershipChecker -------------------------
(***************************************************************************)
(* Two names, one of a type that moves, one that the module declares too.  *)
(***************************************************************************)
EXTENDS OwnershipChecker

CONSTANTS a, b

MCNames == {a, b}
MCMoving == {a}
MCOuter == {b}
MCParameters == {<<>>, <<b, a>>}

=============================================================================

-------------------------- MODULE MCMoveResolution --------------------------
(***************************************************************************)
(* Inputs for MoveResolution: up to three inserted moves, in any order,    *)
(* each between two registers of one class (Int or Float, two registers   *)
(* each, a move to itself included), at one of three (point, priority)     *)
(* groups: two priorities at point 0 and one at point 1.  No two moves of  *)
(* a group write the same location.  Block 0, entered at point 1, has two  *)
(* parameters, recorded in either order.                                   *)
(***************************************************************************)
EXTENDS MoveResolution, TLC

MCClasses == {"Int", "Float"}
MCRegs == MCClasses \X {0, 1}
MCScratch == [c \in MCClasses |-> <<c, 9>>]

MCKeys == {<<0, "InEdgeMoves">>, <<0, "Regular">>, <<1, "Regular">>}

MCMoves ==
  {[pos |-> k[1], prio |-> k[2], from |-> f, to |-> t] :
     k \in MCKeys, f \in MCRegs, t \in MCRegs}

MCSameClass(m) == Class(m.from) = Class(m.to)

(* No two moves of one group share a destination. *)
MCDistinctDests(s) ==
  \A a, b \in DOMAIN s :
    a # b => <<s[a].pos, s[a].prio, s[a].to>> # <<s[b].pos, s[b].prio, s[b].to>>

MCMoveSeqs ==
  {s \in UNION {[1 .. n -> {m \in MCMoves : MCSameClass(m)}] : n \in 0 .. 3} :
     MCDistinctDests(s)}

MCParams == <<<<0, 0, "v0", <<"Int", 1>>>>, <<0, 1, "v1", <<"Float", 0>>>>>>

MCInputs ==
  [moves : MCMoveSeqs,
   bpa : {MCParams, Reverse(MCParams)},
   nparams : {0 :> 2},
   entry : {0 :> 1}]

=============================================================================

------------------------------ MODULE MCFixups ------------------------------
(***************************************************************************)
(* Two instructions.  Instruction 0 defines v0 and v1 (at After, each Reg *)
(* or fixed to p0 or p1).  Instruction 1 has one or two uses of v0 or v1  *)
(* at Before, each Reg or fixed to p0 or p1, and may define v2 at After,  *)
(* as Reg or reusing one of its inputs.  Three registers.                *)
(***************************************************************************)
EXTENDS Fixups

MCNumVRegs == 3
MCPRegs == {0, 1, 2}

MCPolicies == {<<"Reg">>, <<"Fixed", 0>>, <<"Fixed", 1>>}

MCDefs0 ==
  {<<[vreg |-> 0, kind |-> "Def", pos |-> "After", policy |-> p],
     [vreg |-> 1, kind |-> "Def", pos |-> "After", policy |-> q]>> :
     p \in MCPolicies, q \in MCPolicies}

MCUse(v, p) == [vreg |-> v, kind |-> "Use", pos |-> "Before", policy |-> p]

MCUses1 ==
  {<<MCUse(v, p)>> : v \in {0, 1}, p \in MCPolicies}
  \cup {<<MCUse(v, p), MCUse(w, q)>> : v \in {0, 1}, p \in MCPolicies,
                                      w \in {0, 1}, q \in MCPolicies}

MCDef2(uses) ==
  {<<>>, <<[vreg |-> 2, kind |-> "Def", pos |-> "After", policy |-> <<"Reg">>]>>}
  \cup {<<[vreg |-> 2, kind |-> "Def", pos |-> "After", policy |-> <<"Reuse", j>>]>> :
          j \in DOMAIN uses}

(* The first FixedReg operand of vreg v at point x in P, if any. *)
MCFirstFixed(P, v, x) ==
  LET fs == {s \in SlotsOf(P) : P[s[1]][s[2]].vreg = v /\ PointOf(P, s) = x
                               /\ IsFixed(P[s[1]][s[2]].policy)}
  IN IF fs = {} THEN {}
     ELSE {CHOOSE s \in fs : \A t \in fs : s[1] < t[1] \/ (s[1] = t[1] /\ s[2] <= t[2])}

(* An allocation of unsplit bundles exists when, at each point, each vreg *)
(* keeps only its first fixed constraint: the programs the allocator      *)
(* handles without splitting.                                              *)
MCAllocatable(P) ==
  \E a \in [0 .. MCNumVRegs - 1 -> MCPRegs] :
    /\ \A v \in 0 .. MCNumVRegs - 1, x \in 0 .. 2 * Len(P) + 1 :
         \A s \in MCFirstFixed(P, v, x) : a[v] = P[s[1]][s[2]].policy[2]
    /\ \A v, w \in 0 .. MCNumVRegs - 1 :
         v # w /\ a[v] = a[w] => LiveOf(P, v) \cap LiveOf(P, w) = {}

MCProgs ==
  {P \in UNION {{<<d0, u \o d2>> : d2 \in MCDef2(u)} : d0 \in MCDefs0, u \in MCUses1} :
     MCAllocatable(P)}

=============================================================================

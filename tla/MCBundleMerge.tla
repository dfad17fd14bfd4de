--------------------------- MODULE MCBundleMerge ---------------------------
(***************************************************************************)
(* Programs for BundleMerge: three vregs over four instructions (program  *)
(* points 0..7), each with one or two live ranges from a family that has  *)
(* disjoint, touching, interleaving and overlapping pairs; merge requests *)
(* (a move or a reused operand) at up to two instructions and at most one *)
(* block-parameter pair.                                                   *)
(***************************************************************************)
EXTENDS BundleMerge, FiniteSets

CONSTANTS
  MCNumInsts,       \* instructions in the program
  MCNumVRegs,       \* vregs in the program
  MCFixedChoice     \* whether a range may hold a FixedReg def or use

MCVRegs == 0 .. MCNumVRegs - 1

(* One register class: moves, reuses and block parameters only relate *)
(* vregs of the same class. *)
MCClasses == [v \in MCVRegs |-> "Int"]

Rg(f, t, x) == [from |-> f, to |-> t, fixed |-> x]

(* Live ranges of one vreg in next_in_reg order; a fixed operand, where *)
(* allowed, sits in its last range.                                     *)
MCRangeLists ==
  UNION {{<<Rg(1, 5, x)>>, <<Rg(3, 5, x)>>, <<Rg(5, 7, x)>>,
          <<Rg(1, 3, FALSE), Rg(5, 7, x)>>} : x \in MCFixedChoice}

MCPairs == {<<a, b>> \in MCVRegs \X MCVRegs : a # b}

NoOp == [reuse |-> <<>>, move |-> <<>>]

(* Instruction lists with merge requests (a move or a reused operand) at *)
(* up to two instructions.                                               *)
MCOps == {NoOp} \cup {[NoOp EXCEPT !.move = p] : p \in MCPairs}
                \cup {[NoOp EXCEPT !.reuse = <<p>>] : p \in MCPairs}

MCInstSeqs ==
  {s \in [1 .. MCNumInsts -> MCOps] :
     Cardinality({n \in 1 .. MCNumInsts : s[n] # NoOp}) <= 2}

(* A reused operand or a move at inst i relates an input used at       *)
(* Before(i) to an output defined at After(i).                          *)
OperandsOK(vr, i, p) ==
  /\ vr[p[2]][1].from = 2 * i + 1
  /\ \E k \in DOMAIN vr[p[1]] : vr[p[1]][k].from <= 2 * i /\ 2 * i < vr[p[1]][k].to

MCInputs ==
  {prog \in [vranges : [MCVRegs -> MCRangeLists], class : {MCClasses},
              insts : MCInstSeqs, bparams : {<<>>} \cup {<<p>> : p \in MCPairs}] :
     \A n \in 1 .. MCNumInsts :
       LET op == prog.insts[n] IN
       /\ \A k \in DOMAIN op.reuse : OperandsOK(prog.vranges, n - 1, op.reuse[k])
       /\ op.move # <<>> => OperandsOK(prog.vranges, n - 1, op.move)}


=============================================================================

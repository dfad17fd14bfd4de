----------------------------- MODULE MCLiveness -----------------------------
(***************************************************************************)
(* Functions of four blocks over two vregs.  v0 is defined by the entry   *)
(* block's body instruction; v1 by it too, or as the parameter of a       *)
(* later block whose every predecessor passes v0.  Each vreg has at most  *)
(* one use, Before or After some body instruction.  The CFGs are a loop   *)
(* whose header branches to its body first or to the exit first (the two  *)
(* postorders), and a diamond.  None has a critical edge, as the         *)
(* Function contract requires.                                             *)
(***************************************************************************)
EXTENDS Liveness, TLC

MCVRegs == {0, 1}

LoopBodyFirst == (0 :> <<1>>) @@ (1 :> <<2, 3>>) @@ (2 :> <<1>>) @@ (3 :> <<>>)
LoopExitFirst == (0 :> <<1>>) @@ (1 :> <<3, 2>>) @@ (2 :> <<1>>) @@ (3 :> <<>>)
Diamond       == (0 :> <<1, 2>>) @@ (1 :> <<3>>) @@ (2 :> <<3>>) @@ (3 :> <<>>)

MCCFGs == {LoopBodyFirst, LoopExitFirst, Diamond}

DefOp(v) == [vreg |-> v, kind |-> "Def", pos |-> "After"]
UseOp(v, p) == [vreg |-> v, kind |-> "Use", pos |-> p]
UseSites == {"none"} \cup ((0 .. 3) \X {"Before", "After"})

MCPreds(sc, b) == {p \in 0 .. 3 : \E j \in DOMAIN sc[p] : sc[p][j] = b}

UsesIn(b, u) ==
  LET vs == SelectSeq(<<0, 1>>, LAMBDA v : u[v] # "none" /\ u[v][1] = b)
  IN [j \in DOMAIN vs |-> UseOp(vs[j], u[vs[j]][2])]

MkProg(sc, pb, u) ==
  [succs  |-> sc,
   postorder |-> PostorderOf(sc),
   params |-> [b \in 0 .. 3 |-> IF b = pb THEN <<1>> ELSE <<>>],
   insts  |-> [b \in 0 .. 3 |->
                <<(IF b = 0 THEN <<DefOp(0)>> \o (IF pb = -1 THEN <<DefOp(1)>> ELSE <<>>) ELSE <<>>)
                  \o UsesIn(b, u),
                  [j \in DOMAIN SelectSeq(sc[b], LAMBDA s : s = pb) |-> UseOp(0, "Before")]>>]]

MCProgs ==
  UNION {{MkProg(sc, pb, u) : pb \in {-1} \cup {b \in 1 .. 3 : MCPreds(sc, b) # {}},
                               u \in [{0, 1} -> UseSites]} : sc \in MCCFGs}
=============================================================================

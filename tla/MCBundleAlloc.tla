--------------------------- MODULE MCBundleAlloc ---------------------------
(***************************************************************************)
(* Model-checking instance of BundleAlloc: a block of NumInsts            *)
(* instructions in which instruction v defines vreg v (at its After       *)
(* point) and later instructions read it at their Before point.  The      *)
(* programs enumerated are every choice of policies and up to MaxUses     *)
(* uses per vreg, with or without the clobbers in ClobberSets.            *)
(***************************************************************************)
EXTENDS BundleAlloc

CONSTANTS p0, p1

CONSTANTS
  DefPols,      \* policies a def may carry
  UsePols,      \* policies a use may carry
  MaxUses,      \* uses per vreg
  ClobberSets   \* the clobber sets tried

MCNoBundle == 0
MCRegsByClass == <<p0, p1>>
MCPRegs == {p0, p1}
MCClobberSets == {{}, {<<2, p0>>}}

(* The use sets vreg v may have: at most MaxUses uses at distinct later  *)
(* instructions.                                                          *)
UseChoice(v) ==
  {S \in SUBSET [inst : (v + 1) .. (NumInsts - 1), pos : {"Before"}, pol : UsePols] :
     /\ Cardinality(S) <= MaxUses
     /\ \A x, y \in S : x.inst = y.inst => x = y}

DefChoice(v) == [inst : {v}, pos : {"After"}, pol : DefPols]

(* The operands of instruction i, each with its vreg: the def of vreg i  *)
(* and the uses at i.                                                     *)
OperandsAt(prog, i) ==
  {<<v, prog.def[v]>> : v \in {v \in VRegs : prog.def[v].inst = i}}
  \cup UNION {{<<v, u>> : u \in {u \in prog.uses[v] : u.inst = i}} : v \in VRegs}

(* A program the allocator can satisfy: at every instruction the operands *)
(* that need a register fit in the pregs the instruction does not         *)
(* clobber, and fixed operands name distinct, unclobbered pregs.           *)
Allocatable(prog) ==
  \A i \in Insts :
    LET ops == OperandsAt(prog, i)
        clobbered == {c[2] : c \in {c \in prog.clobbers : c[1] = i}}
        fixedOps == {o \in ops : IsFixed(o[2].pol)}
    IN /\ Cardinality({o \in ops : o[2].pol # "Any"}) <= NumPRegs - Cardinality(clobbered)
       /\ Cardinality({o[2].pol : o \in fixedOps}) = Cardinality(fixedOps)
       /\ \A o \in fixedOps : o[2].pol \notin clobbered

(* Spec 4.4 "termination is guaranteed": the allocator stops short of   *)
(* "done" (the debug_assert!(!minimal_bundle) of process_bundle, or the  *)
(* "Infinite loop!" panic of process_bundles) only on a program it cannot *)
(* satisfy.  With StopsOnUnsatisfiable, every allocatable program is      *)
(* allocated: every split makes progress and a minimal bundle always     *)
(* finds a register or a lighter conflict set to evict.                   *)
AbortsOnlyWhenUnallocatable ==
  pc \in {"abort", "panic"} => ~Allocatable(input)

(* Every program of the family, allocatable or not. *)
MCAllPrograms ==
  {[def |-> (0 :> d0) @@ (1 :> d1) @@ (2 :> d2),
   uses |-> (0 :> u0) @@ (1 :> u1) @@ (2 :> u2),
   clobbers |-> c] :
     d0 \in DefChoice(0), d1 \in DefChoice(1), d2 \in DefChoice(2),
     u0 \in UseChoice(0), u1 \in UseChoice(1), u2 \in UseChoice(2),
     c \in ClobberSets}

MCPrograms == {prog \in MCAllPrograms : Allocatable(prog)}
=============================================================================

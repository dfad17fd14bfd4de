--------------------------- MODULE VRegPartition ---------------------------
(***************************************************************************)
(* What bundle merging promises (spec 4.3), independent of how bundles    *)
(* are stored: the vregs start in one part each, two parts are joined only *)
(* when a move, a reused operand or a block parameter relates a vreg of   *)
(* each, their register classes agree and none of their live ranges       *)
(* overlap; afterwards every part is put on the allocation queue once.    *)
(* A requested merge may also be declined (the code gives up on overlap,  *)
(* on a class mismatch and on its range-count cap).                       *)
(***************************************************************************)
EXTENDS Naturals, Sequences, FiniteSets

CONSTANTS
  Inputs          \* possible programs: [vranges, class, insts, bparams]

VARIABLES
  prog,           \* the program, fixed by Init
  parts,          \* set of sets of vregs: the bundles
  queued          \* the parts already on the allocation queue

vars == <<prog, parts, queued>>

VRegsWithRanges == {v \in DOMAIN prog.vranges : Len(prog.vranges[v]) > 0}

(* The pairs of vregs the program asks to share a bundle. *)
Requests ==
  UNION {{{op[1], op[2]} : op \in {i.reuse[k] : k \in DOMAIN i.reuse}}
         \cup (IF i.move = <<>> THEN {} ELSE {{i.move[1], i.move[2]}})
         : i \in {prog.insts[n] : n \in DOMAIN prog.insts}}
  \cup {{p[1], p[2]} : p \in {prog.bparams[k] : k \in DOMAIN prog.bparams}}

RangesOfPart(P) ==
  UNION {{prog.vranges[v][k] : k \in DOMAIN prog.vranges[v]} : v \in P}

Overlap(a, b) == b.to > a.from /\ b.from < a.to

Init ==
  /\ prog \in Inputs
  /\ parts = {{v} : v \in VRegsWithRanges}
  /\ queued = {}

(* Join the parts of the two vregs of a request. *)
Merge(P, Q) ==
  /\ P # Q
  /\ {P, Q} \cap queued = {}
  /\ \E req \in Requests : req \cap P # {} /\ req \cap Q # {}
  /\ \E v \in P, w \in Q : prog.class[v] = prog.class[w]
  /\ \A a \in RangesOfPart(P), b \in RangesOfPart(Q) : ~Overlap(a, b)
  /\ parts' = (parts \ {P, Q}) \cup {P \cup Q}
  /\ UNCHANGED <<prog, queued>>

(* Put a part on the allocation queue. *)
Enqueue(P) ==
  /\ P \notin queued
  /\ queued' = queued \cup {P}
  /\ UNCHANGED <<prog, parts>>

Next ==
  \/ \E P, Q \in parts : Merge(P, Q)
  \/ \E P \in parts : Enqueue(P)

Spec == Init /\ [][Next]_vars /\ WF_vars(Next)

(* Every bundle eventually reaches the allocation queue. *)
AllQueued == <>(queued = parts)

=============================================================================

------------------------------- MODULE Fixups -------------------------------
(***************************************************************************)
(* The operand fixups of ion/mod.rs, for the instructions of one block:   *)
(*  - the multi-fixed-reg cleanup at the end of compute_liveness: per     *)
(*    vreg range, the def and then the uses in use-list order; at one     *)
(*    program point a second FixedReg operand of the vreg is rewritten to *)
(*    Reg, recorded as a fixup (pos, first preg, its preg), and its preg  *)
(*    is reserved over the instruction like a clobber;                     *)
(*  - the allocations written by apply_allocations_and_insert_moves       *)
(*    (set_alloc of every def and use) and its two fixup loops: a         *)
(*    MultiFixedReg move per fixup, and a ReusedInput move plus set_alloc *)
(*    for each reused input whose allocation differs from the output's.   *)
(* Use positions follow compute_liveness: Before, or After for Both and   *)
(* After and for every use but the reused input of an instruction with a  *)
(* Reuse operand.  The allocator in between is the nondeterministic       *)
(* choice of an unsplit allocation per vreg meeting its guarantees.       *)
(***************************************************************************)
EXTENDS Integers, Sequences, FiniteSets, SequencesExt

CONSTANTS
  NumVRegs,  \* vregs.len()
  Progs,     \* possible inst_operands: Seq of Seq of [vreg, kind, pos, policy]
  PRegs,
  None       \* Allocation::none(), and an empty register

VARIABLES
  prog,          \* inst_operands, as the function gives them
  policy,        \* [slot -> policy]: the operands after the cleanup rewrites
  phase,         \* "cleanup", "alloc", "apply", "reuse", "done" or "panic"
  cv,            \* the vreg of the cleanup loop
  ck,            \* the position in that vreg's def-and-use list
  last_point,    \* the closure's last_point (None or a point)
  first_preg,    \* seen_fixed_for_vreg / first_preg: <<>> or <<preg>>
  extra,         \* extra_clobbers: Seq of <<preg, inst>>
  reserved,      \* pregs' allocations holding reservations: set of <<preg, inst>>
  fixups,        \* multi_fixed_reg_fixups: Seq of <<pos, from, to>>
  vreg_alloc,    \* the allocation of each vreg's bundle
  allocs,        \* [slot -> allocation]
  reuse_insts,   \* reuse_input_insts
  ri,            \* the cursor of the reuse loop
  inserted       \* inserted_moves: Seq of [pos, prio, from, to]

vars == <<prog, policy, phase, cv, ck, last_point, first_preg, extra, reserved,
          fixups, vreg_alloc, allocs, reuse_insts, ri, inserted>>

(* The operators below take the program P as an argument so that an     *)
(* input family can be filtered with them.                                 *)
SlotsOf(P) == UNION {{<<i, k>> : k \in DOMAIN P[i]} : i \in DOMAIN P}

Before(i) == 2 * i
After(i) == 2 * i + 1
InstOf(x) == x \div 2

IsFixed(p) == p[1] = "Fixed"
IsReuse(p) == p[1] = "Reuse"

(* The first Reuse operand's input index, or 0. *)
ReusedInputOf(P, i) ==
  LET r == SelectSeq(P[i], LAMBDA o : IsReuse(o.policy))
  IN IF r = <<>> THEN 0 ELSE r[1].policy[2]

(* The point of a def or use, as compute_liveness places it. *)
PointOf(P, s) ==
  LET o == P[s[1]][s[2]]  i == s[1]
  IN IF o.kind = "Def"
     THEN IF o.pos = "After" THEN After(i) ELSE Before(i)
     ELSE IF o.pos = "Before" /\ (ReusedInputOf(P, i) = 0 \/ ReusedInputOf(P, i) = s[2])
          THEN Before(i) ELSE After(i)

(* The points at which vreg v is live: from its def to its last use. *)
LiveOf(P, v) ==
  LET pts == {PointOf(P, s) : s \in {s \in SlotsOf(P) : P[s[1]][s[2]].vreg = v}}
  IN {x \in 0 .. 2 * Len(P) + 1 : \E d, u \in pts : d <= x /\ x <= u}

Insts == DOMAIN prog
Slots == SlotsOf(prog)
Op(s) == prog[s[1]][s[2]]
VRegs == 0 .. NumVRegs - 1
OpPoint(s) == PointOf(prog, s)
LivePoints(v) == LiveOf(prog, v)

(* Use-list order: by point, then by instruction and operand index. *)
UseOrder(a, b) == a[1] < b[1] \/ (a[1] = b[1] /\ (a[2] < b[2] \/ (a[2] = b[2] /\ a[3] < b[3])))

(* The cleanup's walk over vreg v's range: its def, then its uses in use- *)
(* list order (by point, and in operand order at one point).             *)
VisitOrder(v) ==
  LET defs == {s \in Slots : Op(s).vreg = v /\ Op(s).kind = "Def"}
      uses == {s \in Slots : Op(s).vreg = v /\ Op(s).kind = "Use"}
  IN SetToSortSeq(defs, LAMBDA a, b : FALSE)
     \o SetToSortSeq(uses, LAMBDA a, b : UseOrder(<<OpPoint(a), a[1], a[2]>>, <<OpPoint(b), b[1], b[2]>>))

(* What the allocator guarantees of an allocation of unsplit bundles:     *)
(* each FixedReg operand gets its preg, vregs live at one point get       *)
(* distinct pregs, and no vreg sits in a preg reserved at a point where   *)
(* it is live (try_to_allocate_bundle_to_reg's ConflictWithFixed).        *)
ValidAllocs ==
  {a \in [VRegs -> PRegs] :
     /\ \A s \in Slots : IsFixed(policy[s]) => a[Op(s).vreg] = policy[s][2]
     /\ \A v, w \in VRegs : v # w /\ a[v] = a[w] => LivePoints(v) \cap LivePoints(w) = {}
     /\ \A r \in reserved, v \in VRegs :
          a[v] = r[1] => LivePoints(v) \cap {Before(r[2]), After(r[2])} = {}}

Init ==
  /\ prog \in Progs
  /\ policy = [s \in Slots |-> Op(s).policy]
  /\ phase = "cleanup"
  /\ cv = 0
  /\ ck = 1
  /\ last_point = None
  /\ first_preg = <<>>
  /\ extra = <<>>
  /\ reserved = {}
  /\ fixups = <<>>
  /\ vreg_alloc = [v \in VRegs |-> None]
  /\ allocs = [s \in Slots |-> None]
  /\ reuse_insts = <<>>
  /\ ri = 1
  /\ inserted = <<>>

(* fixup_multi_fixed_vregs on the next def or use of the range. *)
VisitOperand ==
  /\ phase = "cleanup"
  /\ cv < NumVRegs
  /\ ck <= Len(VisitOrder(cv))
  /\ LET s == VisitOrder(cv)[ck]
         pos == OpPoint(s)
         seen == IF last_point # None /\ pos # last_point THEN <<>> ELSE first_preg
     IN /\ last_point' = pos
        /\ IF IsFixed(policy[s]) /\ seen # <<>>
           THEN /\ fixups' = Append(fixups, <<pos, seen[1], policy[s][2]>>)
                /\ policy' = [policy EXCEPT ![s] = <<"Reg">>]
                /\ extra' = Append(extra, <<policy[s][2], s[1]>>)
                /\ first_preg' = seen
           ELSE /\ first_preg' = IF IsFixed(policy[s]) THEN <<policy[s][2]>> ELSE seen
                /\ UNCHANGED <<fixups, policy, extra>>
  /\ ck' = ck + 1
  /\ UNCHANGED <<prog, phase, cv, reserved, vreg_alloc, allocs, reuse_insts, ri, inserted>>

(* Mutant: the reservation starts one instruction late. *)
EndRangeNextInst ==
  /\ phase = "cleanup"
  /\ cv < NumVRegs
  /\ ck > Len(VisitOrder(cv))
  /\ reserved' = reserved \cup {<<e[1], e[2] + 1>> : e \in ToSet(extra)}
  /\ cv' = cv + 1
  /\ ck' = 1
  /\ last_point' = None
  /\ first_preg' = <<>>
  /\ extra' = <<>>
  /\ UNCHANGED <<prog, policy, phase, fixups, vreg_alloc, allocs, reuse_insts, ri, inserted>>

(* The range is done: each extra clobber reserves its preg over          *)
(* [before(inst), before(inst + 1)); the next vreg starts afresh.         *)
EndRange ==
  /\ phase = "cleanup"
  /\ cv < NumVRegs
  /\ ck > Len(VisitOrder(cv))
  /\ reserved' = reserved \cup ToSet(extra)
  /\ cv' = cv + 1
  /\ ck' = 1
  /\ last_point' = None
  /\ first_preg' = <<>>
  /\ extra' = <<>>
  /\ UNCHANGED <<prog, policy, phase, fixups, vreg_alloc, allocs, reuse_insts, ri, inserted>>

CleanupDone ==
  /\ phase = "cleanup"
  /\ cv = NumVRegs
  /\ phase' = "alloc"
  /\ UNCHANGED <<prog, policy, cv, ck, last_point, first_preg, extra, reserved,
                 fixups, vreg_alloc, allocs, reuse_insts, ri, inserted>>

(* Allocation succeeds, and the range scan writes every def's and use's   *)
(* allocation and collects the instructions with a Reuse def.            *)
ApplyAllocations ==
  /\ phase = "alloc"
  /\ \E a \in ValidAllocs :
       /\ vreg_alloc' = a
       /\ allocs' = [s \in Slots |-> a[Op(s).vreg]]
  /\ reuse_insts' = SetToSortSeq({s[1] : s \in {s \in Slots : Op(s).kind = "Def"
                                                            /\ IsReuse(Op(s).policy)}}, <)
  /\ phase' = "apply"
  /\ UNCHANGED <<prog, policy, cv, ck, last_point, first_preg, extra, reserved,
                 fixups, ri, inserted>>

(* No allocation exists: the minimal bundle is unsatisfiable. *)
Unsatisfiable ==
  /\ phase = "alloc"
  /\ ValidAllocs = {}
  /\ phase' = "panic"
  /\ UNCHANGED <<prog, policy, cv, ck, last_point, first_preg, extra, reserved,
                 fixups, vreg_alloc, allocs, reuse_insts, ri, inserted>>

(* Mutant: the fixup moves copy the other way. *)
MultiFixedMovesSwapped ==
  /\ phase = "apply"
  /\ inserted' = inserted \o [k \in DOMAIN fixups |->
                   [pos |-> fixups[k][1], prio |-> "MultiFixedReg",
                    from |-> fixups[k][3], to |-> fixups[k][2]]]
  /\ fixups' = <<>>
  /\ phase' = "reuse"
  /\ UNCHANGED <<prog, policy, cv, ck, last_point, first_preg, extra, reserved,
                 vreg_alloc, allocs, reuse_insts, ri>>

(* One MultiFixedReg move from the first preg to each other one; the     *)
(* fixup list is taken (mem::replace).                                   *)
MultiFixedMoves ==
  /\ phase = "apply"
  /\ inserted' = inserted \o [k \in DOMAIN fixups |->
                   [pos |-> fixups[k][1], prio |-> "MultiFixedReg",
                    from |-> fixups[k][2], to |-> fixups[k][3]]]
  /\ fixups' = <<>>
  /\ phase' = "reuse"
  /\ UNCHANGED <<prog, policy, cv, ck, last_point, first_preg, extra, reserved,
                 vreg_alloc, allocs, reuse_insts, ri>>

(* One instruction of the reuse loop: for each output Reuse(j) whose      *)
(* allocation differs from input j's, a ReusedInput move at before(inst)  *)
(* and input j's allocation set to the output's.                         *)
ReuseFixup ==
  /\ phase = "reuse"
  /\ ri <= Len(reuse_insts)
  /\ LET i == reuse_insts[ri]
         outs == SetToSortSeq({k \in DOMAIN prog[i] : IsReuse(prog[i][k].policy)
                                 /\ allocs[<<i, prog[i][k].policy[2]>>] # allocs[<<i, k>>]}, <)
     IN /\ inserted' = inserted \o [n \in DOMAIN outs |->
                         [pos |-> Before(i), prio |-> "ReusedInput",
                          from |-> allocs[<<i, prog[i][outs[n]].policy[2]>>],
                          to |-> allocs[<<i, outs[n]>>]]]
        /\ allocs' = [s \in Slots |->
                        IF s[1] = i /\ \E n \in DOMAIN outs : prog[i][outs[n]].policy[2] = s[2]
                        THEN allocs[<<i, (CHOOSE n \in ToSet(outs) :
                                            prog[i][n].policy[2] = s[2])>>]
                        ELSE allocs[s]]
  /\ ri' = ri + 1
  /\ UNCHANGED <<prog, policy, phase, cv, ck, last_point, first_preg, extra, reserved,
                 fixups, vreg_alloc, reuse_insts>>

ReuseDone ==
  /\ phase = "reuse"
  /\ ri > Len(reuse_insts)
  /\ phase' = "done"
  /\ UNCHANGED <<prog, policy, cv, ck, last_point, first_preg, extra, reserved,
                 fixups, vreg_alloc, allocs, reuse_insts, ri, inserted>>

(* resolve_inserted_moves follows, or the allocator has panicked. *)
Terminating == phase \in {"done", "panic"} /\ UNCHANGED vars

Next ==
  \/ VisitOperand
  \/ EndRange
  \/ CleanupDone
  \/ ApplyAllocations
  \/ Unsatisfiable
  \/ MultiFixedMoves
  \/ ReuseFixup
  \/ ReuseDone
  \/ Terminating

Spec == Init /\ [][Next]_vars /\ WF_vars(Next)

-----------------------------------------------------------------------------
(* The registers at point x before its moves: each vreg live at x sits in *)
(* its bundle's allocation.                                               *)
RegsAt(x) ==
  [p \in PRegs |-> IF \E v \in VRegs : vreg_alloc[v] = p /\ x \in LivePoints(v)
                   THEN CHOOSE v \in VRegs : vreg_alloc[v] = p /\ x \in LivePoints(v)
                   ELSE None]

(* One parallel move group applied to the register file val. *)
ParallelStep(val, ms) ==
  [l \in DOMAIN val |-> IF \E m \in ms : m.to = l
                        THEN val[(CHOOSE m \in ms : m.to = l).from] ELSE val[l]]

MovesAt(x, prio) == {m \in ToSet(inserted) : m.pos = x /\ m.prio = prio}

(* What instruction i reads: the registers once the moves at before(i)   *)
(* have run, the MultiFixedReg group before the ReusedInput group.        *)
ReadsOf(i) ==
  ParallelStep(ParallelStep(RegsAt(Before(i)), MovesAt(Before(i), "MultiFixedReg")),
               MovesAt(Before(i), "ReusedInput"))

-----------------------------------------------------------------------------
(* Type invariant: the cleanup keeps at most one first preg per range,    *)
(* and reservations, fixups and allocations name the function's           *)
(* instructions, points and registers.                                    *)
TypeOK ==
  /\ phase \in {"cleanup", "alloc", "apply", "reuse", "done", "panic"}
  /\ Len(first_preg) <= 1
  /\ reserved \subseteq PRegs \X Insts
  /\ \A k \in DOMAIN fixups : InstOf(fixups[k][1]) \in Insts /\ fixups[k][3] \in PRegs
  /\ allocs \in [Slots -> PRegs \cup {None}]

(* When the instruction executes, after the moves inserted before it,     *)
(* every use finds its vreg in the allocation reported for its slot, every *)
(* use the function fixed to a preg finds its vreg in that preg (spec      *)
(* 4.7: the multi-fixed and reuse fixups happen just before their          *)
(* instruction), and a reused input is reported in its output's            *)
(* allocation (spec 8, invariant 1).                                       *)
FixedValuesDelivered ==
  phase = "done" =>
    \A s \in Slots :
      /\ Op(s).kind = "Use" =>
           /\ ReadsOf(s[1])[allocs[s]] = Op(s).vreg
           /\ IsFixed(Op(s).policy) => ReadsOf(s[1])[Op(s).policy[2]] = Op(s).vreg
      /\ IsReuse(Op(s).policy) => allocs[<<s[1], Op(s).policy[2]>>] = allocs[s]

(* The cleanup never reserves a preg at an instruction where an operand   *)
(* of the same vreg keeps a FixedReg constraint to that preg, which       *)
(* try_to_allocate_bundle_to_reg would report as ConflictWithFixed (spec  *)
(* 4.1: only constraints to different pregs are demoted).                 *)
KeptFixedNotReserved ==
  \A r \in reserved, s \in Slots :
    ~(s[1] = r[2] /\ policy[s] = <<"Fixed", r[1]>>
      /\ \E t \in Slots : t[1] = r[2] /\ Op(t).vreg = Op(s).vreg /\ t # s
                         /\ Op(t).policy = <<"Fixed", r[1]>>)

(* Every operand the function fixed to a preg is reported in that preg    *)
(* (spec 8, invariant 1: FixedReg(p) => the allocation is Reg(p)).  The   *)
(* cleanup's rewrite of a demoted operand to Reg (line 1293) breaks it on  *)
(* purpose; no run checks it (README, section 5).                          *)
PoliciesHonoured ==
  phase = "done" =>
    \A s \in Slots : IsFixed(Op(s).policy) => allocs[s] = Op(s).policy[2]

=============================================================================

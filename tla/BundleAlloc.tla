---------------------------- MODULE BundleAlloc ----------------------------
(***************************************************************************)
(* The allocation loop of the backtracking register allocator             *)
(* (src/src/ion/mod.rs): the priority queue of live bundles,               *)
(* process_bundle with its probe / evict / split loop, the overlap-keyed   *)
(* per-preg occupancy maps, the splitter, and the final retry of spilled   *)
(* bundles.                                                                *)
(*                                                                         *)
(* The input is a single basic block of NumInsts instructions with one    *)
(* register class.  Each vreg has one def and a set of uses; its initial  *)
(* bundle is the single live range compute_liveness builds for it.        *)
(*                                                                         *)
(* Program points use ProgPoint::to_index: before(i) = 2i, after(i) =     *)
(* 2i+1.  A range is half-open [from, to).  Bundle identifiers are        *)
(* positions in the `bundles` arena, so LiveBundleIndex = id - 1.         *)
(***************************************************************************)
EXTENDS Integers, Sequences, FiniteSets, SequencesExt, BagsExt

CONSTANTS
  NumInsts,      \* instructions 0 .. NumInsts-1 of the block
  VRegs,         \* vreg indices 0 .. Cardinality(VRegs)-1
  PRegs,         \* the physical registers of the (only) class
  RegsByClass,   \* env.regs_by_class[Int]: the probe order base
  NoPReg,        \* Allocation::none() / an absent reg_hint
  NoBundle,      \* LiveBundleIndex::invalid(); owner of a clobber
  Programs,      \* the input programs: [def: [VRegs -> [pos, pol]],
                 \*   uses: [VRegs -> set of [inst, pos, pol]],
                 \*   clobbers: set of <<inst, preg>>]
  HotCode,       \* hot_code: set of [from, to] ranges (empty: no loop)
  DebugBuild,    \* TRUE: debug_assert! is compiled in
  MaxBundles     \* bound on the bundle arena

ASSUME NumInsts \in Nat \ {0}
ASSUME RegsByClass \in Seq(PRegs) /\ ToSet(RegsByClass) = PRegs
ASSUME NoPReg \notin PRegs
ASSUME DebugBuild \in BOOLEAN

Insts == 0 .. NumInsts - 1
Before(i) == 2 * i
After(i) == 2 * i + 1
InstOf(p) == p \div 2
NumPRegs == Len(RegsByClass)

Policies == {"Any", "Reg"} \cup PRegs
IsFixed(pol) == pol \in PRegs

(* OperandPos of a def: Before/Both -> before(inst), After -> after(inst) *)
DefPoint(op) == IF op.pos \in {"Before", "Both"} THEN Before(op.inst)
                                                 ELSE After(op.inst)
(* OperandPos of a use: Before -> before(inst), Both/After -> after(inst) *)
UsePoint(op) == IF op.pos = "Before" THEN Before(op.inst) ELSE After(op.inst)

SpillWeightFromPolicy(pol) ==
  IF pol = "Any" THEN 1000
  ELSE IF pol = "Reg" \/ IsFixed(pol) THEN 2000
  ELSE 0

(* uses_spill_weight of a use list: the sum of the policies' weights. *)
SumW(s) == MapThenSumSet(LAMBDA k : SpillWeightFromPolicy(s[k].pol), DOMAIN s)

(* The i-th smallest element first: a set of points as a sorted sequence. *)
SortedSeqOf(S) ==
  [i \in 1 .. Cardinality(S) |->
     CHOOSE x \in S : Cardinality({y \in S : y < x}) = i - 1]

Overlaps(a, b) == b.to > a.from /\ b.from < a.to

(***************************************************************************)
(* LiveRangeSet lookups.  The BTreeMap is keyed by LiveRangeKey whose Ord *)
(* calls two keys Equal iff they overlap.  Searching a node walks its     *)
(* keys left to right and stops at the first key the probe is not wholly  *)
(* after, so `get`/`remove`/`contains_key` find the leftmost overlapping  *)
(* key (every map here fits in one B-tree node).                          *)
(***************************************************************************)
NoEntry == [from |-> -1, to |-> -1, owner |-> NoBundle]
LeftmostOverlap(set, r) ==
  LET hits == {e \in set : Overlaps(e, r)}
  IN IF hits = {} THEN NoEntry
     ELSE CHOOSE e \in hits : \A f \in hits : e.from <= f.from

-----------------------------------------------------------------------------
(* Requirement and its merge (Requirement::merge, from_operand).          *)
NoReq == [kind |-> "None", preg |-> NoPReg]
AnyReq == [kind |-> "Any", preg |-> NoPReg]
RegReq == [kind |-> "Register", preg |-> NoPReg]
FixedReq(p) == [kind |-> "Fixed", preg |-> p]

FromOperand(pol) ==
  IF IsFixed(pol) THEN FixedReq(pol)
  ELSE IF pol = "Reg" THEN RegReq
  ELSE AnyReq

(* Fault variant: a Register requirement absorbs a later Fixed one, as   *)
(* if the Register/Fixed arms were written the wrong way round.          *)
MergeReqAnyFixed(a, b) ==
  CASE a = NoReq -> NoReq
    [] b.kind = "Any" -> a
    [] a.kind = "Any" -> b
    [] a.kind = "Register" /\ b.kind = "Fixed" -> a
    [] a.kind = "Fixed" /\ b.kind = "Register" -> a
    [] a.kind = "Register" /\ b.kind = "Register" -> a
    [] a.kind = "Fixed" /\ b.kind = "Fixed" /\ a.preg = b.preg -> a
    [] OTHER -> NoReq

MergeReq(a, b) ==
  CASE a = NoReq -> NoReq
    [] b.kind = "Any" -> a
    [] a.kind = "Any" -> b
    [] a.kind = "Register" /\ b.kind = "Fixed" -> b
    [] a.kind = "Fixed" /\ b.kind = "Register" -> a
    [] a.kind = "Register" /\ b.kind = "Register" -> a
    [] a.kind = "Fixed" /\ b.kind = "Fixed" /\ a.preg = b.preg -> a
    [] OTHER -> NoReq

NoDef == [pos |-> -1, pol |-> "Any"]

(* The operand policies of a range chain in the order compute_requirement *)
(* visits them: per range, its def (if any) and then its uses.           *)
ChainPolicies(rs) ==
  FlattenSeq([k \in 1 .. Len(rs) |->
                (IF rs[k].def = NoDef THEN <<>> ELSE <<rs[k].def.pol>>)
                  \o [j \in 1 .. Len(rs[k].uses) |-> rs[k].uses[j].pol]])

(* compute_requirement: merge the requirement of every operand, in chain *)
(* order, starting from Any; `?` stops at the first failed merge (NoReq  *)
(* is absorbing in MergeReq).                                             *)
ComputeRequirement(rs) ==
  FoldLeft(LAMBDA acc, pol : MergeReq(acc, FromOperand(pol)), AnyReq,
           ChainPolicies(rs))

(* Reference: the requirement as a function of the set of policies       *)
(* alone: two fixed pregs give None, one gives Fixed, any Reg gives      *)
(* Register, else Any.                                                   *)
RequirementOf(P) ==
  LET fixedRegs == P \cap PRegs IN
  IF Cardinality(fixedRegs) > 1 THEN NoReq
  ELSE IF fixedRegs # {} THEN FixedReq(CHOOSE p \in fixedRegs : TRUE)
  ELSE IF "Reg" \in P THEN RegReq
  ELSE AnyReq

-----------------------------------------------------------------------------
(* Bundle priority and spill weight (compute_bundle_prio,                 *)
(* recompute_bundle_properties, set_cached_spill_weight_and_props).       *)
RangeLen(r) == InstOf(r.to) - InstOf(r.from)

BundlePrio(rs) == MapThenSumSet(LAMBDA k : RangeLen(rs[k]), DOMAIN rs)

BundleFixed(rs) ==
  \/ rs[1].def # NoDef /\ IsFixed(rs[1].def.pol)
  \/ \E k \in 1 .. Len(rs[1].uses) : IsFixed(rs[1].uses[k].pol)

(* Fault variant: the range's end is compared without to.prev(). *)
BundleMinimalNoPrev(rs) ==
  Len(rs) = 1 /\ InstOf(rs[1].from) = InstOf(rs[1].to)

BundleMinimal(rs) ==
  Len(rs) = 1 /\ InstOf(rs[1].from) = InstOf(rs[1].to - 1)

BundleSpillWeight(rs, prio) ==
  IF BundleMinimal(rs)
  THEN IF BundleFixed(rs) THEN 2000000 ELSE 1000000
  ELSE LET total == MapThenSumSet(LAMBDA k : (IF rs[k].def # NoDef THEN 2000 ELSE 0)
                                              + rs[k].usw,
                                  DOMAIN rs)
       IN IF prio > 0 THEN total \div prio ELSE total

(* A bundle record with its prio and cached properties recomputed. *)
MkBundle(rs, ss) ==
  LET prio == BundlePrio(rs) IN
  [ranges |-> rs, alloc |-> NoPReg, ss |-> ss, prio |-> prio,
   w |-> BundleSpillWeight(rs, prio),
   minimal |-> BundleMinimal(rs), fixed |-> BundleFixed(rs)]

(***************************************************************************)
(* cached_spill_weight() returns spill_weight_and_props & !((1<<30)-1):   *)
(* the word with its low 30 bits cleared, i.e. only the minimal (bit 31)  *)
(* and fixed (bit 30) flags.  The value is kept in units of 2^30.          *)
(***************************************************************************)
CachedSpillWeight(b) ==
  (IF b.minimal THEN 2 ELSE 0) + (IF b.fixed THEN 1 ELSE 0)

VARIABLES
  bundles,      \* the bundle arena: Seq of bundle records
  pregs,        \* [PRegs -> set of [from, to, owner]]: PRegData.allocations
  queue,        \* allocation_queue: a bag of <<prio, bundle id>> heap entries
  spilled,      \* spilled_bundles
  hints,        \* [spill set -> PReg or NoPReg]: SpillSet.reg_hint
  cur,          \* the bundle process_bundle is working on
  attempts,     \* process_bundle's `attempts`
  count,        \* process_bundles' `count`
  retry,        \* index into spilled_bundles of the final retry loop
  ssBundles,    \* [spill set -> Seq of bundle ids]: SpillSet.bundles
  pc,           \* "pop", "try", "retry", "done", "abort", "panic"
  input         \* the program: [def: [VRegs -> op], uses, clobbers]

vars == <<bundles, pregs, queue, spilled, hints, cur, attempts, count,
          retry, ssBundles, pc, input>>

BundleIds == 1 .. Len(bundles)
SpillSets == DOMAIN hints
(* Fault variant: the loop bound without its factor, insts alone. *)
LoopLimitPerInst == NumInsts
(* process_bundles panics "Infinite loop!" once count > insts * 50 *)
LoopLimit == NumInsts * 50
(* process_bundle's debug_assert!(attempts < 100 * insts) *)
AttemptLimit == 100 * NumInsts

-----------------------------------------------------------------------------
(* Initial state: compute_liveness for one block, merge_vreg_bundles      *)
(* (one bundle per vreg: nothing to merge without moves, reuses or block  *)
(* params) and queue_bundles.  A vreg's range runs from its def to just   *)
(* after its last use; a dead def gets the trivial range [pos, pos+1).    *)
(* The uses of a vreg sit at distinct program points.                     *)
VRegRange(v, d, us) ==
  LET from == DefPoint(d)
      pts == {UsePoint(u) : u \in us}
      to == IF pts = {} THEN from + 1
            ELSE (CHOOSE p \in pts : \A q \in pts : q <= p) + 1
      useSeq == LET ps == SortedSeqOf(pts)
                IN [k \in 1 .. Len(ps) |->
                      LET u == CHOOSE u \in us : UsePoint(u) = ps[k]
                      IN [pos |-> ps[k], pol |-> u.pol]]
  IN [vreg |-> v, from |-> from, to |-> to,
      def |-> [pos |-> from, pol |-> d.pol],
      uses |-> useSeq, usw |-> SumW(useSeq)]

(* add_liverange_to_preg for a clobber: [before(inst), before(inst+1)). *)
ClobberEntry(c) == [from |-> Before(c[1]), to |-> Before(c[1] + 1),
                    owner |-> NoBundle]

ClobberEntries(prog, p) == {ClobberEntry(c) : c \in {c \in prog.clobbers : c[2] = p}}

InitFrom(prog) ==
  LET n == Cardinality(VRegs)
      bs == [k \in 1 .. n |->
               MkBundle(<<VRegRange(k - 1, prog.def[k - 1], prog.uses[k - 1])>>, k)]
  IN
  /\ input = prog
  /\ bundles = bs
  /\ pregs = [p \in PRegs |-> ClobberEntries(prog, p)]
  /\ queue = SetToBag({<<bs[k].prio, k>> : k \in 1 .. n})
  /\ spilled = <<>>
  /\ hints = [s \in 1 .. n |-> NoPReg]
  /\ cur = NoBundle
  /\ attempts = 0
  /\ count = 0
  /\ retry = 1
  /\ ssBundles = [s \in 1 .. n |-> <<>>]
  /\ pc = "pop"

Init == \E prog \in Programs : InitFrom(prog)

ClobberInsts == {c[1] : c \in input.clobbers}

-----------------------------------------------------------------------------
(* try_to_allocate_bundle_to_reg, without its side effect: the result of  *)
(* probing preg p for bundle b.  A conflict set is kept as the set of   *)
(* bundles and the first one found (conflicts[0]).                        *)
NoConflicts == [set |-> {}, first |-> NoBundle]

(* Fault variant: a fixed reservation is not told apart from a free     *)
(* register.                                                              *)
ProbeResultIgnoresClobbers(b, p) ==
  LET rs == bundles[b].ranges
      Hit(k) == LeftmostOverlap(pregs[p], rs[k])
      owned == {k \in DOMAIN rs : Hit(k) # NoEntry /\ Hit(k).owner # NoBundle}
  IN IF owned # {}
     THEN [kind |-> "Conflict",
           conflicts |-> [set |-> {Hit(k).owner : k \in owned},
                          first |-> Hit(Min(owned)).owner]]
     ELSE [kind |-> "Allocated", conflicts |-> NoConflicts]

ProbeResult(b, p) ==
  LET rs == bundles[b].ranges
      Hit(k) == LeftmostOverlap(pregs[p], rs[k])
      owned == {k \in DOMAIN rs : Hit(k) # NoEntry /\ Hit(k).owner # NoBundle}
  IN IF \E k \in DOMAIN rs : Hit(k) # NoEntry /\ Hit(k).owner = NoBundle
     THEN [kind |-> "ConflictWithFixed", conflicts |-> NoConflicts]
     ELSE IF owned # {}
     THEN [kind |-> "Conflict",
           conflicts |-> [set |-> {Hit(k).owner : k \in owned},
                          first |-> Hit(Min(owned)).owner]]
     ELSE [kind |-> "Allocated", conflicts |-> NoConflicts]

(* The success path: the bundle takes p and its ranges enter p's map. *)
AllocateTo(b, p) ==
  /\ bundles' = [bundles EXCEPT ![b].alloc = p]
  /\ pregs' = [pregs EXCEPT ![p] = @ \cup
                 {[from |-> r.from, to |-> r.to, owner |-> b] :
                    r \in ToSet(bundles[b].ranges)}]

(* maximum_spill_weight_in_bundle_set: 0 for an empty set. *)
MaxCachedWeight(set) == Max({CachedSpillWeight(bundles[x]) : x \in set} \cup {0})

(* The order process_bundle probes registers in for a Register           *)
(* requirement: the hint first, then regs_by_class rotated by the bundle  *)
(* index, skipping the hint.                                              *)
ProbeOrder(b, hint) ==
  IF hint # NoPReg
  THEN <<hint>> \o SelectSeq([i \in 1 .. NumPRegs |->
                               RegsByClass[((i - 1 + (b - 1)) % NumPRegs) + 1]],
                             LAMBDA p : p # hint)
  ELSE [i \in 1 .. NumPRegs |-> RegsByClass[((i - 1 + (b - 1)) % NumPRegs) + 1]]

(* The first register of the order that takes the bundle, if any. *)
FirstFree(b, order) ==
  LET ok == {i \in 1 .. Len(order) : ProbeResult(b, order[i]).kind = "Allocated"}
  IN IF ok = {} THEN NoPReg
     ELSE order[CHOOSE i \in ok : \A j \in ok : i <= j]

(* lowest_cost_conflict_set over the registers probed. *)
(* lowest_cost_conflict_set over the registers probed: a later set       *)
(* replaces the kept one only when strictly cheaper, so the result is the *)
(* first of the cheapest.                                                 *)
LowestCostConflicts(b, order) ==
  LET res == [i \in DOMAIN order |-> ProbeResult(b, order[i])]
      cands == {i \in DOMAIN order : res[i].kind = "Conflict"}
      W == [i \in cands |-> MaxCachedWeight(res[i].conflicts.set)]
  IN IF cands = {} THEN NoConflicts
     ELSE res[CHOOSE i \in cands :
                \A j \in cands : W[i] < W[j] \/ (W[i] = W[j] /\ i <= j)].conflicts

-----------------------------------------------------------------------------
(* find_split_points and find_all_use_split_points.                       *)
OperandPoints(rs) ==
  FoldLeft(LAMBDA acc, r :
             acc \o (IF r.def = NoDef THEN <<>> ELSE <<r.def.pos>>)
                 \o [k \in 1 .. Len(r.uses) |-> r.uses[k].pos],
           <<>>, rs)

AllUseSplitPoints(rs) ==
  LET bstart == rs[1].from
      bend == rs[Len(rs)].to
      defPts == UNION {IF r.def = NoDef THEN {}
                       ELSE {p \in {r.def.pos} : p > bstart}
                            \cup {p \in {Before(InstOf(r.def.pos) + 1)} : p < bend}
                       : r \in ToSet(rs)}
      usePts == UNION {UNION {{p \in {Before(InstOf(u.pos))} : p > bstart}
                                \cup {Before(InstOf(u.pos) + 1)}
                              : u \in ToSet(r.uses)}
                       : r \in ToSet(rs)}
  IN SortedSeqOf(defPts \cup usePts)

(* The scan of update_with_pos over every def/use, in chain order. *)
ConflictScan(rs, cfrom, cto) ==
  LET bstart == rs[1].from
      bend == rs[Len(rs)].to
      step(acc, pos) ==
        LET bi == Before(InstOf(pos))
            bn == bi + 2
        IN [lbc |-> IF bi > bstart /\ (cfrom = -1 \/ bi < cfrom)
                       /\ (acc.lbc = -1 \/ bi > acc.lbc)
                    THEN bi ELSE acc.lbc,
            fac |-> IF bn < bend /\ (cto = -1 \/ pos >= cto)
                       /\ (acc.fac = -1 \/ pos > acc.fac)
                    THEN bn ELSE acc.fac]
  IN FoldLeft(step, [lbc |-> -1, fac |-> -1], OperandPoints(rs))

FindSplitPoints(b, conflicting) ==
  LET rs == bundles[b].ranges
      bstart == rs[1].from
      cfrom == IF conflicting = NoBundle THEN -1
               ELSE bundles[conflicting].ranges[1].from
      cto == IF conflicting = NoBundle THEN -1
             ELSE LET crs == bundles[conflicting].ranges IN crs[Len(crs)].to
      hot == UNION {LET h == LeftmostOverlap(HotCode, r) IN
                      IF h = NoEntry THEN {}
                      ELSE {p \in {h.from} : r.from < h.from}
                           \cup {p \in {h.to} : r.to > h.to}
                    : r \in ToSet(rs)}
      clob == {Before(c) : c \in {c \in ClobberInsts :
                 /\ Before(c) > bstart
                 /\ \E r \in ToSet(rs) : r.from <= Before(c) /\ Before(c) < r.to}}
      scan == ConflictScan(rs, cfrom, cto)
  IN IF hot # {} THEN SortedSeqOf(hot)
     ELSE IF clob # {} THEN SortedSeqOf(clob)
     ELSE IF scan.fac # -1 THEN <<scan.fac>>
     ELSE IF scan.lbc # -1 THEN <<scan.lbc>>
     ELSE AllUseSplitPoints(rs)

-----------------------------------------------------------------------------
(* split_and_requeue_bundle: the single pass over the bundle's ranges.    *)

(* Fault variant: the rest range's use weight subtracts the wrong way. *)
CutAtSwappedUsw(r, s) ==
  LET keep == SelectSeq(r.uses, LAMBDA u : u.pos < s)
      move == SelectSeq(r.uses, LAMBDA u : u.pos >= s)
      keptW == SumW(keep)
      moved == move # <<>>
      defMoves == r.def # NoDef /\ r.def.pos >= s
  IN [first |-> [r EXCEPT !.to = s,
                          !.def = IF defMoves THEN NoDef ELSE r.def,
                          !.uses = keep,
                          !.usw = IF moved THEN keptW ELSE r.usw],
      rest |-> [r EXCEPT !.from = s,
                         !.def = IF defMoves THEN r.def ELSE NoDef,
                         !.uses = move,
                         !.usw = IF moved THEN keptW - r.usw ELSE 0]]

(* Fault variant: a use at the split point stays in the first part. *)
CutAtKeepsBoundaryUse(r, s) ==
  LET keep == SelectSeq(r.uses, LAMBDA u : u.pos <= s)
      move == SelectSeq(r.uses, LAMBDA u : u.pos > s)
      keptW == SumW(keep)
      moved == move # <<>>
      defMoves == r.def # NoDef /\ r.def.pos >= s
  IN [first |-> [r EXCEPT !.to = s,
                          !.def = IF defMoves THEN NoDef ELSE r.def,
                          !.uses = keep,
                          !.usw = IF moved THEN keptW ELSE r.usw],
      rest |-> [r EXCEPT !.from = s,
                         !.def = IF defMoves THEN r.def ELSE NoDef,
                         !.uses = move,
                         !.usw = IF moved THEN r.usw - keptW ELSE 0]]

(* Cut range r at s: uses at or after s and a def at or after s move to   *)
(* the rest range; the use stats are re-accumulated for the first part    *)
(* only when some use moves, else both keep what they had (rest: 0).      *)
CutAt(r, s) ==
  LET keep == SelectSeq(r.uses, LAMBDA u : u.pos < s)
      move == SelectSeq(r.uses, LAMBDA u : u.pos >= s)
      keptW == SumW(keep)
      moved == move # <<>>
      defMoves == r.def # NoDef /\ r.def.pos >= s
  IN [first |-> [r EXCEPT !.to = s,
                          !.def = IF defMoves THEN NoDef ELSE r.def,
                          !.uses = keep,
                          !.usw = IF moved THEN keptW ELSE r.usw],
      rest |-> [r EXCEPT !.from = s,
                         !.def = IF defMoves THEN r.def ELSE NoDef,
                         !.uses = move,
                         !.usw = IF moved THEN r.usw - keptW ELSE 0]]

(* Consume the split points below r.to: the pieces of r, and the points  *)
(* left over for the next ranges.                                         *)
RECURSIVE CutRange(_, _, _)
CutRange(r, sp, pieces) ==
  IF sp = <<>> \/ Head(sp) >= r.to
  THEN [pieces |-> Append(pieces, r), rest |-> sp]
  ELSE IF Head(sp) <= r.from
  THEN CutRange(r, Tail(sp), pieces)
  ELSE LET c == CutAt(r, Head(sp))
       IN CutRange(c.rest, Tail(sp), Append(pieces, c.first))

DropUpTo(sp, x) ==
  SubSeq(sp, Cardinality({k \in 1 .. Len(sp) : sp[k] <= x}) + 1, Len(sp))

(* The groups of ranges that end up in `bundle` (the first) and in each   *)
(* new bundle, in creation order.                                         *)
RECURSIVE SplitWalk(_, _, _)
SplitWalk(rs, sp, groups) ==
  IF rs = <<>> THEN groups
  ELSE
    LET r == Head(rs)
        g1 == IF sp # <<>> /\ Head(sp) <= r.from
              THEN Append(groups, <<>>) ELSE groups
        c == CutRange(r, DropUpTo(sp, r.from), <<>>)
        g2 == [g1 EXCEPT ![Len(g1)] = Append(@, c.pieces[1])]
              \o [k \in 1 .. Len(c.pieces) - 1 |-> <<c.pieces[k + 1]>>]
    IN SplitWalk(Tail(rs), c.rest, g2)

SplitGroups(b, points) ==
  LET rs == bundles[b].ranges
  IN SplitWalk(rs, DropUpTo(points, rs[1].from), << <<>> >>)

-----------------------------------------------------------------------------
(* Actions.                                                               *)

(* The end of one process_bundles iteration: count the bundle and panic  *)
(* past the loop limit.                                                   *)
FinishBundle ==
  /\ count' = count + 1
  /\ pc' = IF count + 1 > LoopLimit THEN "panic" ELSE "pop"
  /\ cur' = NoBundle

(* create_bundle: the index of a new bundle is the arena length before   *)
(* the push, so the bundles a split adds are the ids past the old end.    *)
NewBundleIds(old, new) == Len(old) + 1 .. Len(new)

QueueEntries(ids, bs) == SetToBag({<<bs[k].prio, k>> : k \in ids})

(* split_and_requeue_bundle's walk: `b` keeps the first group of ranges  *)
(* and each further group becomes a new bundle of b's spill set; all get  *)
(* their prio and cached properties recomputed.                           *)
SplitBundles(b, groups) ==
  [bundles EXCEPT ![b] = MkBundle(groups[1], bundles[b].ss)]
    \o [k \in 1 .. Len(groups) - 1 |-> MkBundle(groups[k + 1], bundles[b].ss)]

(* split_and_requeue_bundle: queue `b` and every new bundle. *)
SplitAndRequeue(b, conflicting) ==
  /\ \E groups \in {SplitGroups(b, FindSplitPoints(b, conflicting))} :
       bundles' = SplitBundles(b, groups)
  /\ Len(bundles') <= MaxBundles
  /\ queue' = queue (+) QueueEntries({b} \cup NewBundleIds(bundles, bundles'), bundles')
  /\ FinishBundle

(* Fault variant: the evicted ranges stay in the preg's map. *)
EvictBundlesKeepsRanges(ev) ==
  /\ bundles' = [k \in BundleIds |->
                   IF k \in ev THEN [bundles[k] EXCEPT !.alloc = NoPReg]
                   ELSE bundles[k]]
  /\ pregs' = pregs
  /\ queue' = queue (+) QueueEntries(ev, bundles)

(* Fault variant: the evicted bundles are not queued again. *)
EvictBundlesNoRequeue(ev) ==
  /\ bundles' = [k \in BundleIds |->
                   IF k \in ev THEN [bundles[k] EXCEPT !.alloc = NoPReg]
                   ELSE bundles[k]]
  /\ pregs' = [p \in PRegs |->
                 pregs[p] \ {LeftmostOverlap(pregs[p], r) :
                              r \in UNION {ToSet(bundles[k].ranges) :
                                             k \in {k \in ev : bundles[k].alloc = p}}}]
  /\ queue' = queue

(* evict_bundle for each bundle of the conflict set: clear its           *)
(* allocation, remove each of its ranges from its preg's map (the         *)
(* leftmost overlapping key), and queue it again with its prio.           *)
EvictBundles(ev) ==
  /\ bundles' = [k \in BundleIds |->
                   IF k \in ev THEN [bundles[k] EXCEPT !.alloc = NoPReg]
                   ELSE bundles[k]]
  /\ pregs' = [p \in PRegs |->
                 pregs[p] \ {LeftmostOverlap(pregs[p], r) :
                              r \in UNION {ToSet(bundles[k].ranges) :
                                             k \in {k \in ev : bundles[k].alloc = p}}}]
  /\ queue' = queue (+) QueueEntries(ev, bundles)

(* process_bundles: pop the greatest (prio, index) heap entry. *)
PopBundle ==
  /\ pc = "pop"
  /\ BagToSet(queue) # {}
  /\ LET Q == BagToSet(queue)
         e == CHOOSE e \in Q :
                \A f \in Q : e[1] > f[1] \/ (e[1] = f[1] /\ e[2] >= f[2])
     IN /\ queue' = BagRemove(queue, e)
        /\ cur' = e[2]
  /\ attempts' = 0
  /\ pc' = "try"
  /\ UNCHANGED <<bundles, pregs, spilled, hints, count, retry, ssBundles, input>>

(* The queue is empty: process_bundles returns and                       *)
(* try_allocating_regs_for_spilled_bundles starts.                        *)
QueueDrained ==
  /\ pc = "pop"
  /\ BagToSet(queue) = {}
  /\ pc' = "retry"
  /\ UNCHANGED <<bundles, pregs, queue, spilled, hints, cur, attempts, count,
                 retry, ssBundles, input>>

(* Fault variant: a Fixed requirement probes the whole class. *)
ProbeRegsIgnoresFixed(b, req, hint) == ProbeOrder(b, hint)

(* The registers process_bundle probes for requirement req. *)
ProbeRegs(b, req, hint) ==
  IF req.kind = "Fixed" THEN <<req.preg>> ELSE ProbeOrder(b, hint)

(* Leaving the loop: debug_assert!(!minimal_bundle) then a split, with  *)
(* the first conflicting bundle if one was recorded.                      *)
SplitOutcome(b, with) ==
  IF DebugBuild /\ bundles[b].minimal THEN [kind |-> "abort"]
  ELSE [kind |-> "split", with |-> with]

(* The decision of one iteration of process_bundle's loop for bundle b,  *)
(* in code order: the debug_assert on attempts, requirement None -> split, *)
(* Any -> spill, a free preg -> allocate, else the split-or-evict choice  *)
(* on the conflict set (the first break condition, then the weight        *)
(* comparison).  req is computed before the loop in the code.             *)
AttemptOutcome(b, req, free, conflicts) ==
  CASE DebugBuild /\ attempts + 1 >= AttemptLimit -> [kind |-> "abort"]
    [] req = NoReq -> SplitOutcome(b, NoBundle)
    [] req.kind = "Any" -> [kind |-> "spill"]
    [] free # NoPReg -> [kind |-> "alloc", preg |-> free]
    [] (attempts + 1 >= 2 /\ ~bundles[b].minimal) \/ conflicts.set = {} ->
         SplitOutcome(b, NoBundle)
    [] MaxCachedWeight(conflicts.set) >= CachedSpillWeight(bundles[b]) ->
         SplitOutcome(b, conflicts.first)
    [] OTHER -> [kind |-> "evict", set |-> conflicts.set]

(* The conflicts process_bundle keeps: the probed fixed preg's set, or    *)
(* the lowest-cost set over the probe order.                              *)
KeptConflicts(b, req, order) ==
  IF req.kind = "Fixed" THEN ProbeResult(b, req.preg).conflicts
  ELSE LowestCostConflicts(b, order)

(* One iteration of process_bundle's loop for bundle `cur`. *)
Attempt ==
  /\ pc = "try"
  /\ \E req \in {ComputeRequirement(bundles[cur].ranges)} :
     \E order \in {ProbeRegs(cur, req, hints[bundles[cur].ss])} :
     \E free \in {FirstFree(cur, order)} :
     \E conflicts \in {KeptConflicts(cur, req, order)} :
     \E o \in {AttemptOutcome(cur, req, free, conflicts)} :
       CASE o.kind = "abort" ->
              /\ pc' = "abort"
              /\ UNCHANGED <<bundles, pregs, queue, spilled, hints, cur, attempts,
                             count, retry, ssBundles, input>>
         [] o.kind = "split" ->
              /\ SplitAndRequeue(cur, o.with)
              /\ UNCHANGED <<pregs, spilled, hints, attempts, retry, ssBundles, input>>
         [] o.kind = "spill" ->
              /\ spilled' = Append(spilled, cur)
              /\ FinishBundle
              /\ UNCHANGED <<bundles, pregs, queue, hints, attempts, retry, ssBundles,
                             input>>
         [] o.kind = "alloc" ->
              /\ AllocateTo(cur, o.preg)
              /\ hints' = [hints EXCEPT ![bundles[cur].ss] = o.preg]
              /\ FinishBundle
              /\ UNCHANGED <<queue, spilled, attempts, retry, ssBundles, input>>
         [] o.kind = "evict" ->
              /\ EvictBundles(o.set)
              /\ attempts' = attempts + 1
              /\ UNCHANGED <<spilled, hints, cur, count, pc, retry, ssBundles, input>>

(* try_allocating_regs_for_spilled_bundles: one spilled bundle, probed   *)
(* in rotated order without the hint; on failure it joins its spill set.  *)
RetrySpilled ==
  /\ pc = "retry"
  /\ retry <= Len(spilled)
  /\ LET b == spilled[retry]
         free == FirstFree(b, ProbeOrder(b, NoPReg))
     IN IF free # NoPReg
        THEN /\ AllocateTo(b, free)
             /\ UNCHANGED ssBundles
        ELSE /\ ssBundles' = [ssBundles EXCEPT ![bundles[b].ss] = Append(@, b)]
             /\ UNCHANGED <<bundles, pregs>>
  /\ retry' = retry + 1
  /\ UNCHANGED <<queue, spilled, hints, cur, attempts, count, pc, input>>

RetryDone ==
  /\ pc = "retry"
  /\ retry > Len(spilled)
  /\ pc' = "done"
  /\ UNCHANGED <<bundles, pregs, queue, spilled, hints, cur, attempts, count,
                 retry, ssBundles, input>>

(* The allocator has returned, or stopped at an assertion or a panic. *)
Stopped ==
  /\ pc \in {"done", "abort", "panic"}
  /\ UNCHANGED vars

Next ==
  \/ PopBundle
  \/ QueueDrained
  \/ Attempt
  \/ RetrySpilled
  \/ RetryDone
  \/ Stopped

(* The allocator is one sequential thread that never blocks: until it    *)
(* returns or stops, it keeps taking steps.  This is WF_vars(Next) with   *)
(* ENABLED <<Next>>_vars written as the state in which run() is still     *)
(* executing; the two agree because every running state has a Next step, *)
(* which the runs check as absence of deadlock.                           *)
Running == pc \in {"pop", "try", "retry"}

Spec == Init /\ [][Next]_vars /\ ([]<>~Running \/ []<><<Next>>_vars)

-----------------------------------------------------------------------------
(* Properties.                                                            *)

(* The program points a range or map entry covers, from first principles. *)
PointsOf(r) == r.from .. (r.to - 1)

(* The policies of every def and use in a bundle. *)
PoliciesOf(b) ==
  UNION {{u.pol : u \in ToSet(r.uses)} \cup (IF r.def = NoDef THEN {} ELSE {r.def.pol})
         : r \in ToSet(bundles[b].ranges)}

RangeRec == [vreg : VRegs, from : Nat, to : Nat,
             def : [pos : Int, pol : Policies],
             uses : Seq([pos : Nat, pol : Policies]), usw : Nat]

TypeOK ==
  /\ bundles \in Seq([ranges : Seq(RangeRec), alloc : PRegs \cup {NoPReg},
                      ss : Nat, prio : Nat, w : Nat,
                      minimal : BOOLEAN, fixed : BOOLEAN])
  /\ \A p \in PRegs : pregs[p] \subseteq [from : Nat, to : Nat,
                                          owner : BundleIds \cup {NoBundle}]
  /\ IsABag(queue) /\ BagToSet(queue) \subseteq Nat \X BundleIds
  /\ spilled \in Seq(BundleIds)
  /\ hints \in [SpillSets -> PRegs \cup {NoPReg}]
  /\ cur \in BundleIds \cup {NoBundle}
  /\ attempts \in Nat /\ count \in Nat /\ retry \in Nat \ {0}
  /\ ssBundles \in [SpillSets -> Seq(BundleIds)]
  /\ pc \in {"pop", "try", "retry", "done", "abort", "panic"}

(* Spec 8, invariant 2: two bundles allocated to the same preg never     *)
(* share a program point, and no bundle holds a preg at a point where an  *)
(* instruction clobbers it.  This rests on try_to_allocate_bundle_to_reg  *)
(* seeing every conflict through a lookup that only returns the leftmost  *)
(* overlapping key, and on evict_bundle removing exactly the evicted      *)
(* ranges.                                                                *)
NoSharedRegister ==
  \A b1, b2 \in BundleIds :
    LET P1 == UNION {PointsOf(r) : r \in ToSet(bundles[b1].ranges)}
        P2 == UNION {PointsOf(r) : r \in ToSet(bundles[b2].ranges)}
    IN /\ b1 # b2 /\ bundles[b1].alloc # NoPReg
          /\ bundles[b1].alloc = bundles[b2].alloc => P1 \cap P2 = {}
       /\ bundles[b1].alloc # NoPReg =>
            \A c \in input.clobbers :
              c[2] = bundles[b1].alloc => 2 * c[1] \notin P1 /\ 2 * c[1] + 1 \notin P1

(* Each preg's occupancy map holds exactly its clobbers plus the ranges   *)
(* of the bundles whose allocation is that preg: allocation, eviction and *)
(* splitting never leave a stale or missing entry behind.                 *)
OccupancyMatchesAllocation ==
  \A p \in PRegs :
    pregs[p] = ClobberEntries(input, p)
               \cup UNION {{[from |-> r.from, to |-> r.to, owner |-> b] :
                             r \in ToSet(bundles[b].ranges)}
                           : b \in {b \in BundleIds : bundles[b].alloc = p}}

(* split_and_requeue_bundle only repartitions: for every vreg, the ranges *)
(* of all bundles together cover exactly the points of its original live  *)
(* range, without overlap; every use sits in exactly one range that       *)
(* contains it; the def sits in the one range containing its point; and   *)
(* each range's uses_spill_weight is the sum over the uses it holds.      *)
LiveRangesPartitioned ==
  \A v \in VRegs :
    LET orig == VRegRange(v, input.def[v], input.uses[v])
        Rs == {<<b, k>> \in UNION {{b} \X DOMAIN bundles[b].ranges : b \in BundleIds} :
                 bundles[b].ranges[k].vreg = v}
        R(x) == bundles[x[1]].ranges[x[2]]
    IN /\ UNION {PointsOf(R(x)) : x \in Rs} = PointsOf(orig)
       /\ \A x, y \in Rs : x # y => PointsOf(R(x)) \cap PointsOf(R(y)) = {}
       /\ UNION {ToSet(R(x).uses) : x \in Rs} = ToSet(orig.uses)
       /\ \A x \in Rs :
            /\ \A k \in DOMAIN R(x).uses :
                 /\ R(x).uses[k].pos \in PointsOf(R(x))
                 /\ k > 1 => R(x).uses[k - 1].pos < R(x).uses[k].pos
            /\ R(x).usw = SumW(R(x).uses)
            /\ (R(x).def # NoDef) <=> (orig.def.pos \in PointsOf(R(x)))
            /\ R(x).def # NoDef => R(x).def = orig.def

(* While bundles are processed, every bundle is in exactly one place:     *)
(* being processed, in the heap (once, under its current prio), holding a *)
(* register, or on spilled_bundles.  Eviction and splitting requeue what  *)
(* they take out.                                                         *)
NoBundleLost ==
  pc \in {"pop", "try"} =>
    /\ \A e \in BagToSet(queue) : e[1] = bundles[e[2]].prio
    /\ \A b \in BundleIds :
         LET queued == MapThenSumSet(LAMBDA e : CopiesIn(e, queue),
                                     {e \in BagToSet(queue) : e[2] = b})
             inSpilled == Cardinality({k \in DOMAIN spilled : spilled[k] = b})
         IN (IF b = cur THEN 1 ELSE 0) + queued
            + (IF bundles[b].alloc # NoPReg THEN 1 ELSE 0) + inSpilled = 1

(* Spec 8, invariant 1, on return: every def and use with a FixedReg      *)
(* policy got that preg and every Reg operand got some preg, and every    *)
(* bundle left without a register is on its spill set's bundle list.      *)
PoliciesSatisfied ==
  pc = "done" =>
    \A b \in BundleIds :
      /\ \A pol \in PoliciesOf(b) :
           /\ pol = "Reg" => bundles[b].alloc \in PRegs
           /\ pol \in PRegs => bundles[b].alloc = pol
      /\ bundles[b].alloc = NoPReg =>
           \E k \in DOMAIN ssBundles[bundles[b].ss] : ssBundles[bundles[b].ss][k] = b

(* compute_requirement folds Requirement::merge over a bundle's operands *)
(* in chain order, and splits reorder and regroup those operands.  For   *)
(* every bundle the allocator holds, original or split piece, the fold   *)
(* must give the requirement its set of policies determines, so that no  *)
(* Fixed use is hidden by an earlier Register one and conflicting fixed  *)
(* pregs always give None whatever the order they are met in.            *)
RequirementMergeIsOrderFree ==
  \A b \in BundleIds :
    ComputeRequirement(bundles[b].ranges) = RequirementOf(PoliciesOf(b))

(* Spec 4.4 and 5: a program the allocator cannot satisfy stops it at the *)
(* debug_assert on the minimal bundle that cannot be placed; the debug    *)
(* build never spins in process_bundles until the loop-count panic.       *)
StopsOnUnsatisfiable == <>(pc \in {"done", "abort"})

(* Spec 4.4: a bundle evicts a conflict set only when the heaviest        *)
(* bundle in it has a smaller spill weight than its own.  The comparison  *)
(* in process_bundle reads cached_spill_weight().                         *)
EvictOnlyLighter ==
  [][\A k \in BundleIds :
       (pc = "try" /\ bundles[k].alloc # NoPReg /\ bundles'[k].alloc = NoPReg)
         => bundles[k].w < bundles[cur].w]_vars

=============================================================================

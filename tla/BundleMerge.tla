---------------------------- MODULE BundleMerge ----------------------------
(***************************************************************************)
(* Bundle merging and queueing in ion/mod.rs: merge_vreg_bundles gives    *)
(* every vreg with live ranges a bundle (create_bundle and                *)
(* insert_liverange_into_bundle), then merges bundles for reused          *)
(* operands (try_merge_reused_register), moves and block parameters with  *)
(* merge_bundles; queue_bundles then gives every bundle a spill set, its  *)
(* prio and its properties and puts it on the allocation queue.  A        *)
(* bundle's ranges form a singly linked list through next_in_bundle, kept *)
(* sorted, with first_range and last_range in the bundle and a bundle     *)
(* up-link in every range; the model keeps these pointers.                *)
(***************************************************************************)
EXTENDS Naturals, Sequences, FiniteSets, SequencesExt, Bags

CONSTANTS
  Inputs,           \* possible programs: [vranges, class, insts, bparams]
  MergeRangeLimit   \* the cap of 200 range steps in merge_bundles

VARIABLES
  input,            \* the program: live ranges per vreg (in next_in_reg
                    \* order), class per vreg, merge requests per inst
  rng,              \* [range id -> [bundle, next]]: up-link, next_in_bundle
  bnd,              \* Seq of [first, last, ss, prio, fixed, minimal]
  spillsets,        \* Seq of [class]
  queue,            \* allocation_queue: bag of <<prio, bundle>>
  vi, ii, oi, bi, qi \* loop counters: vreg, inst, operand, blockparam, vreg

vars == <<input, rng, bnd, spillsets, queue, vi, ii, oi, bi, qi>>

NoRange == <<>>
NoBundle == 0
NumVRegs == Cardinality(DOMAIN input.vranges)

(* A range id is <<vreg, k>>: the k-th range of vreg in next_in_reg order. *)
R(r) == input.vranges[r[1]][r[2]]
RangeIds == UNION {{<<v, k>> : k \in DOMAIN input.vranges[v]} : v \in DOMAIN input.vranges}
FirstRange(v) == IF Len(input.vranges[v]) = 0 THEN NoRange ELSE <<v, 1>>
NextInReg(r) == IF r[2] < Len(input.vranges[r[1]]) THEN <<r[1], r[2] + 1>> ELSE NoRange
Fuel == Cardinality(RangeIds) + 1
InstOf(p) == p \div 2
ClassOf(v) == input.class[v]

(* The ranges reached from r along next_in_bundle, cut after Fuel steps. *)
RECURSIVE ChainFrom(_, _, _)
ChainFrom(links, r, n) ==
  IF r = NoRange \/ n = 0 THEN <<>> ELSE <<r>> \o ChainFrom(links, links[r].next, n - 1)

Chain(b) == ChainFrom(rng, bnd[b].first, Fuel)

EmptyBundle == [first |-> NoRange, last |-> NoRange, ss |-> 0, prio |-> 0,
                fixed |-> FALSE, minimal |-> FALSE]

(* Mutant: appending a range leaves last_range behind. *)
InsertLiveRangeKeepsLast(st, b, lr) ==
  LET s1 == [st EXCEPT !.rng[lr] = [bundle |-> b, next |-> NoRange]]
      first == st.bnd[b].first
  IN IF first = NoRange THEN [s1 EXCEPT !.bnd[b].first = lr, !.bnd[b].last = lr]
     ELSE [s1 EXCEPT !.rng[st.bnd[b].last].next = lr]

(* insert_liverange_into_bundle on the state st = [rng, bnd]. *)
InsertLiveRange(st, b, lr) ==
  LET s1 == [st EXCEPT !.rng[lr] = [bundle |-> b, next |-> NoRange]]
      first == st.bnd[b].first
      RECURSIVE InsertAfter(_, _)
      InsertAfter(iter, after) ==
        IF iter = NoRange \/ R(iter).to <= R(lr).from THEN after
        ELSE InsertAfter(st.rng[iter].next, iter)
      after == InsertAfter(first, NoRange)
  IN IF first = NoRange THEN [s1 EXCEPT !.bnd[b].first = lr, !.bnd[b].last = lr]
     ELSE IF R(first).to <= R(lr).from
       THEN [s1 EXCEPT !.rng[st.bnd[b].last].next = lr, !.bnd[b].last = lr]
     ELSE IF after # NoRange
       THEN [s1 EXCEPT !.rng[after].next = lr,
                       !.bnd[b].last = IF @ = after THEN lr ELSE @]
     ELSE [s1 EXCEPT !.rng[lr].next = first, !.bnd[b].first = lr]

(* The loop of merge_vreg_bundles inserting a vreg's ranges in order. *)
RECURSIVE InsertAll(_, _, _)
InsertAll(st, b, r) ==
  IF r = NoRange THEN st ELSE InsertAll(InsertLiveRange(st, b, r), b, NextInReg(r))

(* Mutant: when the `from` range lies after the `to` range, the scan  *)
(* steps the `from` chain instead of the `to` chain.                  *)
RECURSIVE OverlapScanSwapped(_, _, _)
OverlapScanSwapped(i0, i1, count) ==
  IF i0 = NoRange \/ i1 = NoRange THEN "ok"
  ELSE IF count + 1 > MergeRangeLimit THEN "limit"
  ELSE IF R(i0).from >= R(i1).to THEN OverlapScanSwapped(rng[i0].next, i1, count + 1)
  ELSE IF R(i1).from >= R(i0).to THEN OverlapScanSwapped(rng[i0].next, i1, count + 1)
  ELSE "overlap"

(* The first loop of merge_bundles: walk both chains; "overlap" on an    *)
(* overlapping pair, "limit" once range_count passes the cap.            *)
RECURSIVE OverlapScan(_, _, _)
OverlapScan(i0, i1, count) ==
  IF i0 = NoRange \/ i1 = NoRange THEN "ok"
  ELSE IF count + 1 > MergeRangeLimit THEN "limit"
  ELSE IF R(i0).from >= R(i1).to THEN OverlapScan(i0, rng[i1].next, count + 1)
  ELSE IF R(i1).from >= R(i0).to THEN OverlapScan(rng[i0].next, i1, count + 1)
  ELSE "overlap"

(* The merge-sort loop: the order in which ranges are linked into `to`. *)
RECURSIVE MergeChains(_, _)
MergeChains(i0, i1) ==
  IF i0 = NoRange /\ i1 = NoRange THEN <<>>
  ELSE IF i0 # NoRange /\ (i1 = NoRange \/ R(i0).from <= R(i1).from)
    THEN <<i0>> \o MergeChains(rng[i0].next, i1)
  ELSE <<i1>> \o MergeChains(i0, rng[i1].next)

(* merge_bundles(from, to) as the new [rng, bnd]; from # to.  The class *)
(* check looks up the first range of both bundles, which panics on an   *)
(* empty bundle, so the caller requires both non-empty and the code's   *)
(* later "from is empty" and "to is empty" cases are never reached.     *)
MergeBundles(from, to) ==
  LET f0 == bnd[from].first
      f1 == bnd[to].first
      m == MergeChains(f0, f1)
      Pos(r) == CHOOSE k \in DOMAIN m : m[k] = r
  IN IF ClassOf(f0[1]) # ClassOf(f1[1]) THEN [rng |-> rng, bnd |-> bnd]
     ELSE IF OverlapScan(f0, f1, 0) # "ok" THEN [rng |-> rng, bnd |-> bnd]
     ELSE [rng |-> [r \in DOMAIN rng |->
                     IF r \in ToSet(m)
                       THEN [bundle |-> to,
                             next |-> IF Pos(r) < Len(m) THEN m[Pos(r) + 1] ELSE rng[r].next]
                     ELSE rng[r]],
           bnd |-> [bnd EXCEPT ![to].first = m[1], ![to].last = m[Len(m)],
                               ![from].first = NoRange, ![from].last = NoRange]]

BundleOf(v) == rng[FirstRange(v)].bundle

(* A merge request between the bundles of two vregs. *)
MergeStep(from, to) ==
  IF from = to THEN UNCHANGED <<rng, bnd>>
  ELSE /\ bnd[from].first # NoRange /\ bnd[to].first # NoRange
       /\ LET st == MergeBundles(from, to) IN rng' = st.rng /\ bnd' = st.bnd

Init ==
  /\ input \in Inputs
  /\ rng = [r \in RangeIds |-> [bundle |-> NoBundle, next |-> NoRange]]
  /\ bnd = <<>>
  /\ spillsets = <<>>
  /\ queue = EmptyBag
  /\ vi = 0 /\ ii = 0 /\ oi = 1 /\ bi = 1 /\ qi = 0

(* First loop of merge_vreg_bundles: a bundle for vreg vi. *)
CreateVRegBundle ==
  /\ vi < NumVRegs
  /\ IF FirstRange(vi) = NoRange THEN UNCHANGED <<rng, bnd>>
     ELSE LET b == Len(bnd) + 1
              st == InsertAll([rng |-> rng, bnd |-> Append(bnd, EmptyBundle)], b, FirstRange(vi))
          IN rng' = st.rng /\ bnd' = st.bnd
  /\ vi' = vi + 1
  /\ UNCHANGED <<input, spillsets, queue, ii, oi, bi, qi>>

Reuses(i) == input.insts[i + 1].reuse

(* try_merge_reused_register(input_vreg, output_vreg) for the oi-th      *)
(* Reuse operand of inst ii: no merge if the def is at a Before point or *)
(* the input is still live at the def.                                   *)
MergeReuse ==
  /\ vi = NumVRegs /\ ii < Len(input.insts) /\ oi <= Len(Reuses(ii))
  /\ LET from == Reuses(ii)[oi][1]
         to == Reuses(ii)[oi][2]
         defPoint == R(FirstRange(to)).from
     IN IF defPoint % 2 = 0 \/ \E k \in DOMAIN input.vranges[from] :
                                  R(<<from, k>>).from <= defPoint /\ defPoint < R(<<from, k>>).to
        THEN UNCHANGED <<rng, bnd>>
        ELSE MergeStep(BundleOf(from), BundleOf(to))
  /\ oi' = oi + 1
  /\ UNCHANGED <<input, spillsets, queue, vi, ii, bi, qi>>

(* The is_move merge of inst ii: from the dst's bundle to the src's. *)
MergeMove ==
  /\ vi = NumVRegs /\ ii < Len(input.insts) /\ oi > Len(Reuses(ii))
  /\ LET mv == input.insts[ii + 1].move
     IN IF mv = <<>> THEN UNCHANGED <<rng, bnd>>
        ELSE MergeStep(BundleOf(mv[2]), BundleOf(mv[1]))
  /\ ii' = ii + 1 /\ oi' = 1
  /\ UNCHANGED <<input, spillsets, queue, vi, bi, qi>>

(* The blockparam_outs loop: from the input's bundle to the param's. *)
MergeBlockparam ==
  /\ vi = NumVRegs /\ ii = Len(input.insts) /\ bi <= Len(input.bparams)
  /\ MergeStep(BundleOf(input.bparams[bi][1]), BundleOf(input.bparams[bi][2]))
  /\ bi' = bi + 1
  /\ UNCHANGED <<input, spillsets, queue, vi, ii, oi, qi>>

(* compute_bundle_prio: instructions covered by all ranges. *)
ComputeBundlePrio(c) == FoldSeq(LAMBDA r, acc : acc + InstOf(R(r).to) - InstOf(R(r).from), 0, c)

(* recompute_bundle_properties: fixed and minimal from the first range. *)
RecomputeFixed(c) == R(c[1]).fixed
RecomputeMinimal(c) == rng[c[1]].next = NoRange /\ InstOf(R(c[1]).from) = InstOf(R(c[1]).to - 1)

(* Mutants: the spill-set index taken after the push; a bundle taken  *)
(* as first seen at every vreg's first range.                         *)
NewSpillSetIndexAfterPush(k) == Len(spillsets) + k + 1
FirstTimeSeenPerVReg(lr) == lr[2] = 1

(* The index of the k-th spill set pushed by this vreg's walk. *)
NewSpillSetIndex(k) == Len(spillsets) + k

(* queue_bundles sees a bundle for the first time at its first_range. *)
FirstTimeSeen(lr) == bnd[rng[lr].bundle].first = lr

(* queue_bundles for vreg qi: walk next_in_bundle from its first range; *)
(* every range that is its bundle's first_range gets that bundle a new  *)
(* spill set, its prio and properties, and a place in the queue.        *)
QueueVReg ==
  /\ vi = NumVRegs /\ ii = Len(input.insts) /\ bi > Len(input.bparams) /\ qi < NumVRegs
  /\ LET walk == ChainFrom(rng, FirstRange(qi), Fuel)
         heads == SelectSeq(walk, LAMBDA lr : FirstTimeSeen(lr))
         hb == [k \in DOMAIN heads |-> rng[heads[k]].bundle]
         Upd(b) == LET k == CHOOSE j \in DOMAIN hb : hb[j] = b
                       c == Chain(b)
                   IN [bnd[b] EXCEPT !.ss = NewSpillSetIndex(k), !.prio = ComputeBundlePrio(c),
                                     !.fixed = RecomputeFixed(c), !.minimal = RecomputeMinimal(c)]
     IN /\ bnd' = [b \in DOMAIN bnd |-> IF b \in ToSet(hb) THEN Upd(b) ELSE bnd[b]]
        /\ spillsets' = spillsets \o [k \in DOMAIN hb |-> [class |-> ClassOf(qi)]]
        /\ queue' = queue (+) SetToBag({<<bnd'[b].prio, b>> : b \in ToSet(hb)})
  /\ qi' = qi + 1
  /\ UNCHANGED <<input, rng, vi, ii, oi, bi>>

Done == qi = NumVRegs

(* After queue_bundles the allocator moves on to process_bundles. *)
Terminating == Done /\ UNCHANGED vars

Next ==
  \/ CreateVRegBundle
  \/ MergeReuse
  \/ MergeMove
  \/ MergeBlockparam
  \/ QueueVReg
  \/ Terminating

Spec == Init /\ [][Next]_vars /\ WF_vars(Next)

-----------------------------------------------------------------------------
(* The vregs whose ranges point up to bundle b. *)
VRegsOf(b) == {r[1] : r \in {q \in RangeIds : rng[q].bundle = b}}

NonEmpty == {b \in DOMAIN bnd : bnd[b].first # NoRange}

TypeOK ==
  /\ rng \in [RangeIds -> [bundle : 0 .. Len(bnd), next : RangeIds \cup {NoRange}]]
  /\ bnd \in Seq([first : RangeIds \cup {NoRange}, last : RangeIds \cup {NoRange},
                  ss : 0 .. Len(spillsets), prio : Nat, fixed : BOOLEAN, minimal : BOOLEAN])
  /\ IsABag(queue) /\ BagToSet(queue) \subseteq Nat \X DOMAIN bnd
  /\ vi \in 0 .. NumVRegs /\ qi \in 0 .. NumVRegs

(* After every create, insert and merge, each bundle's next_in_bundle    *)
(* list runs from first_range to last_range without a cycle, its ranges *)
(* are sorted and pairwise disjoint and point up to the bundle, an empty *)
(* bundle has neither end, and every range placed in a bundle is on that *)
(* bundle's list.  merge_bundles relinks two lists in place, and its     *)
(* overlap scan must see every overlapping pair for this to hold.        *)
ChainsWellFormed ==
  /\ \A b \in DOMAIN bnd :
       LET c == Chain(b) IN
       /\ (bnd[b].first = NoRange) <=> (bnd[b].last = NoRange)
       /\ Len(c) < Fuel
       /\ c # <<>> => c[Len(c)] = bnd[b].last
       /\ \A k \in 1 .. Len(c) - 1 : R(c[k]).to <= R(c[k + 1]).from
       /\ \A r \in ToSet(c) : rng[r].bundle = b
  /\ \A r \in RangeIds : rng[r].bundle # NoBundle => r \in ToSet(Chain(rng[r].bundle))

(* Once queue_bundles has run, the allocation queue holds every          *)
(* non-empty bundle exactly once, under the number of instructions its   *)
(* ranges cover, and each has a spill set of its own whose class is the  *)
(* class of its vregs; merged-away bundles are never queued.             *)
QueueConsistent ==
  Done =>
    /\ queue = SetToBag({<<ComputeBundlePrio(Chain(b)), b>> : b \in NonEmpty})
    /\ \A b \in NonEmpty :
         /\ bnd[b].ss # 0
         /\ \A v \in VRegsOf(b) : spillsets[bnd[b].ss].class = ClassOf(v)
    /\ \A b1, b2 \in NonEmpty : b1 # b2 => bnd[b1].ss # bnd[b2].ss

(* Merging and queueing implement VRegPartition: a bundle is the set of  *)
(* vregs whose ranges point to it (vregs not yet given a bundle count as *)
(* one part each), merges join only requested, same-class, disjoint      *)
(* parts, and every part eventually reaches the queue.                   *)
Partition == INSTANCE VRegPartition WITH
  prog <- input,
  parts <- {VRegsOf(b) : b \in NonEmpty}
           \cup {{v} : v \in {w \in DOMAIN input.vranges : w >= vi /\ FirstRange(w) # NoRange}},
  queued <- {VRegsOf(b) : b \in {c \in NonEmpty : bnd[c].ss # 0}}

PartitionSpec == Partition!Spec

=============================================================================

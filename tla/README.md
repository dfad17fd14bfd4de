# TLA+ models of the regalloc2 backtracking allocator (`src/ion/mod.rs`)

This directory holds TLA+ models of the allocator in `src/src/ion/mod.rs`,
the TLC configurations that check them, and the results. `PROJECT.json`
lists the components, the runs, the mutants that each property must catch,
the source lines behind every definition, the hazards and the findings.

## 1. Inventory of the system

The allocator is one sequential pass over one function (`Env::run`, line
3626). There are no threads, no callbacks and nothing is persisted. The
hard behaviours are the long, data-dependent sequences of evictions, splits
and requeues in the allocation loop, and the arithmetic at range
boundaries.

| Component | State (in `Env`) | Operations | Modelled |
|---|---|---|---|
| Liveness | `ranges`, `uses`, `vregs[].first_range`, `pregs[].allocations` (clobbers), `multi_fixed_reg_fixups` | `compute_liveness`, `add_liverange_to_vreg`, `insert_use_into_liverange_and_update_stats`, `add_liverange_to_preg` | partly: `Liveness` (the pass over a CFG, loop ranges and block parameters; no clobbers or use statistics), one block with weights and clobbers in `BundleAlloc`, the multi-fixed-reg cleanup in `Fixups` |
| Hot code | `hot_code` | `compute_hot_code` | yes: `HotCode` (a constant in `BundleAlloc`) |
| Bundle merging | `bundles[].first_range/last_range`, `ranges[].next_in_bundle/bundle`, `spillsets` | `merge_vreg_bundles`, `insert_liverange_into_bundle`, `try_merge_reused_register`, `merge_bundles`, `queue_bundles`, `compute_bundle_prio` | yes: `BundleMerge`, refining `VRegPartition` |
| Queue and main loop | `allocation_queue` (BinaryHeap) | `queue_bundles`, `process_bundles` | yes |
| Bundle allocation | `pregs[].allocations` (BTreeMap keyed by overlap), `bundles[].allocation`, `spill_weight_and_props` | `process_bundle`, `compute_requirement`, `try_to_allocate_bundle_to_reg`, `evict_bundle`, `maximum_spill_weight_in_bundle_set` | yes |
| Splitter | `ranges`, `uses`, new bundles | `find_split_points`, `find_all_use_split_points`, `split_and_requeue_bundle` | yes |
| Retry of spilled bundles | `spilled_bundles`, `spillsets[].bundles` | `try_allocating_regs_for_spilled_bundles` | yes |
| Spill slots | `spillslots`, `slots_by_size`, `spillsets[].slot` | `allocate_spillslots`, `spillslot_can_fit_spillset`, `allocate_spillset_to_spillslot` | yes: `SpillSlots`, refining `SpillSlotPacking` |
| Moves and fixups | `inserted_moves`, `multi_fixed_reg_fixups`, `blockparam_*`, `allocs` | `apply_allocations_and_insert_moves`, `set_alloc` | yes: `HalfMoves` (edge, block-parameter and split moves) and `Fixups` (operand allocations, multi-fixed and reused-input moves) |
| Move resolution | `inserted_moves`, `blockparam_allocs`, `edits` | `resolve_inserted_moves`, `add_edit` (uses `ParallelMoves`, not in `src/`) | partly: `MoveResolution`, registers only, `ParallelMoves` from the spec |
| Output | `stats`, debug dumps | `dump_state`, `dump_results`, `annotate` | no: output only |

**How the parts interact.** Liveness builds ranges with sorted uses and
reserves clobbered registers in the per-register maps. Merging groups the
ranges into bundles, each with a spill set. The queue orders the bundles by
priority, which is their total range length. `process_bundle` computes a
requirement from the uses and probes registers, starting with the spill
set's hint. It then either allocates, evicts a lighter conflict set and
requeues it, splits the bundle into requeued pieces, or spills it. Spilled
bundles are retried once without the hint; the bundles that still fail get
spill slots. Finally the allocations are written into moves and edits.

**Hard behaviours** (see `hazards` in `PROJECT.json`):
- The per-register map's key order calls overlapping ranges equal. Lookups
  and removals therefore find one overlapping entry, and are exact only
  while the map's entries stay disjoint.
- Spill weights are cached with flag bits in a packed `u32` (lines
  205-227).
- The count panic (line 1703) and the minimal-bundle assertion (line 2684)
  are reached only after long evict and split sequences.
- The split arithmetic moves uses, defs and `uses_spill_weight` at an exact
  program point (lines 2391-2482).
- Minimality is decided by an `inst` comparison with `to.prev()` (line
  1943).
- A clobber reservation covers the same instruction's operands (line 1001).
- `merge_bundles` relinks two `next_in_bundle` lists in place (lines
  1493-1522). `queue_bundles` counts a bundle only at its `first_range`
  (line 1667).
- `recompute_bundle_properties` reads the first range only (line 1917).
- Edge moves are found by one scan that emits half-moves with a packed
  64-bit key (lines 2963-2976), two cursors shared by every vreg (lines
  3137 and 3213), a sort, and a match of each Source to the Dests with key
  `| 1`. A critical edge panics only once a half-move lands on it (line
  3400).
- The per-size spill-slot lists are rotated in place with a 10-probe limit
  (lines 2808-2846). Slot offsets are aligned by bit masking (line 2873).
- Inserted moves are grouped by point and priority, and each group gets
  one scratch register, of its first move's class (line 3533).
- `compute_hot_code` inserts loop spans into a map whose keys compare
  equal when they overlap, so an outer loop's span is silently dropped or
  overwritten (line 1369).
- `compute_liveness` visits blocks once, in postorder, and covers loops
  by one range over a postorder interval (lines 1202-1240), whose end and
  extent depend on the successor order. Each new range may merge several
  existing ranges of the vreg and move their uses (lines 667-758), and
  `vreg_ranges` is shared by all blocks (line 1049).
- The multi-fixed cleanup finds a duplicate fixed constraint by vreg only
  (line 1288), reserves the demoted preg like a clobber (line 1294), and
  leaves the demoted slot's reported allocation to `set_alloc` (line
  3316).

**What makes each part correct:**
- Each vreg's ranges are sorted and disjoint, hold all its uses and its
  def, and cover every point where it is live (spec §3, invariants 1 and
  5, and §4.1).
- No register holds two live bundles at one point.
- The register maps hold exactly the allocated bundles' ranges.
- The pieces of a split cover the original range, with every use inside its
  own range and the weights consistent.
- No bundle is lost between the queue, the allocations and the spill list.
- Every fixed or register operand ends up in a suitable place.
- Eviction only removes strictly lighter bundles (spec §4.4).
- The loop always ends.
- Merged bundles keep well-formed range lists, and each is queued exactly
  once.
- No spill slot is shared by spill sets whose ranges overlap, and every
  spill set gets a slot.
- Every value crossing a block edge, a block-parameter transfer and a
  split inside a block gets exactly one move, in a place that runs only on
  that edge (spec §8, invariant 3).
- Executing each group's edits one by one computes the group's parallel
  move, and the edit list is sorted with no self-moves (spec §8,
  invariants 4 and 6).
- The hot code is exactly the innermost loops (spec §4.2).
- When an instruction runs, every use finds its vreg in its reported
  allocation and in its fixed preg, and every fixed operand is reported
  in its preg (spec §4.7 and §8, invariant 1).

## 2. Modules and how they fit

| Module | Models | Checked by |
|---|---|---|
| `BundleAlloc` | liveness of one block, one bundle per vreg, the queue, `process_bundle`, the splitter, the retry of spilled bundles | `MCBundleAlloc` |
| `BundleMerge` | `merge_vreg_bundles` and `queue_bundles`: the linked range lists, the three kinds of merge, spill-set creation | `MCBundleMerge` |
| `VRegPartition` | what merging promises: a partition of the vregs, joined only along requests, same class, disjoint | refinement property of `BundleMerge` |
| `SpillSlots` | `allocate_spillslots`: the per-size slot lists, the rotating probe, the layout | `MCSpillSlots` |
| `SpillSlotPacking` | what slot allocation promises: same size, no overlap in a shared slot, every spill set placed | refinement property of `SpillSlots` |
| `HalfMoves` | the range scan and half-move matching of `apply_allocations_and_insert_moves`, with move placement and the critical-edge panic | `MCHalfMoves` |
| `MoveResolution` | `resolve_inserted_moves` and `add_edit`: grouping, serialising through the scratch register, block-parameter edits, the final sort | `MCMoveResolution` |
| `HotCode` | `compute_hot_code`: the scan for loop headers and backedges, and the overlap-keyed map | `MCHotCode` |
| `Liveness` | `compute_liveness` over a CFG: postorder walk, seeding, the backward def/use walk, block parameters, the loop scan and loop range, `add_liverange_to_vreg` with merging | `MCLiveness` |
| `Fixups` | the multi-fixed-reg cleanup of `compute_liveness`, the allocations `set_alloc` writes, and the MultiFixedReg and ReusedInput fixups | `MCFixups` |

The code runs these parts in sequence (`init` at line 3625, `run` at line
3638): merging and queueing, then the allocation loop, then spill slots.
Each part reads only what the previous one leaves behind, so each module
starts from the states its predecessor can produce:
- `Liveness` starts from any function of its family in SSA form. Its
  result, sorted and disjoint per-vreg ranges, is checked by the
  `liveness` run.
- `BundleMerge` starts from sorted, disjoint per-vreg ranges, as liveness
  produces them.
- `BundleAlloc` starts from one bundle per vreg, which is what
  `BundleMerge` produces on a single block without moves or reused
  operands.
- `SpillSlots` starts from any table of spill sets with their sizes and
  range sets.
- `HotCode` starts from any predecessor relation; its output is the
  constant `HotCode` of `BundleAlloc`, which is empty on one block.
- `Fixups` runs the cleanup on its own input, then replaces the
  allocation loop by any allocation of unsplit bundles that meets the
  loop's guarantees (the ones the `alloc` run checks), and then applies
  it.
- `HalfMoves` starts from allocated ranges over a CFG. Their shape is
  derived as liveness builds it, and cut at block entries and at splits
  inside blocks. Each range's allocation is the range itself.

Two refinements are checked. `BundleMerge` implements `VRegPartition`, and
`SpillSlots` implements `SpillSlotPacking`. Each is checked as a `PROPERTY`
with `INSTANCE ... WITH` a refinement mapping, described below.

Still planned:
- an `AllocSpec` for the allocation loop's result. Today that result is
  stated by the invariants `NoSharedRegister`, `LiveRangesPartitioned` and
  `PoliciesSatisfied`.

## 3. The module `BundleAlloc`

**Input.** A program is a record with a def per vreg (operand position and
policy), a set of uses per vreg (instruction, position, policy) and a set
of clobbers `<<inst, preg>>`. `Init` chooses one program from the
constant set `Programs` and builds the state that `init()` leaves (lines
1574-1695):
- one range per vreg, from the def to after its last use, as in
  `compute_liveness`, with the sorted uses and `uses_spill_weight`;
- one bundle and one spill set per vreg, with priority, weight and flags
  computed as in `recompute_bundle_properties`;
- the clobber reservations in the register maps;
- every bundle in the queue.

**State:**
- `bundles` is the arena: its ranges with their uses, allocation, priority,
  weight and the minimal and fixed flags.
- `pregs` is `PRegData.allocations`, a set of `[from, to, owner]` entries
  with `NoBundle` for clobbers.
- `queue` is a bag of `<<prio, bundle>>` heap entries.
- `spilled`, `hints` and `ssBundles` are `spilled_bundles`,
  `SpillSet.reg_hint` and `SpillSet.bundles`.
- `cur`, `attempts` and `count` are the loop variables of `process_bundle`
  and `process_bundles`.
- `pc` says where the driver is: `pop`, `try`, `retry`, or one of the
  stops `done`, `abort` (a failed `debug_assert!`) and `panic` (the count
  panic).

**Actions:**
- `PopBundle` is the heap pop in `process_bundles`, including the count
  check.
- `Attempt` is one iteration of `process_bundle`'s loop. It computes the
  requirement, the probe order (the fixed register, or the hint first and
  then the class order rotated), the first free register or the lowest-cost
  conflict set, and then takes exactly one outcome of the code: abort,
  split (`SplitAndRequeue`, the whole `split_and_requeue_bundle` including
  the requeue), spill, allocate (with the hint update), or evict
  (`EvictBundles`, including the requeue of every evicted bundle).
- `QueueDrained` moves to the spilled-bundle retry.
- `RetrySpilled` is one iteration of `try_allocating_regs_for_spilled_bundles`.
- `RetryDone` ends the run.

**Helpers.** The BTreeMap's "overlap is Equal" order is modelled by
`LeftmostOverlap`, the entry a search returns. `CachedSpillWeight` is
translated from the code's mask, which is the finding below. Split points,
the cut of a range and the split walk are the operators `FindSplitPoints`,
`CutAt`, `CutRange` and `SplitWalk` (the last two `RECURSIVE`).

**Data abstraction.**
- One register class.
- Operand policies `Any`, `Reg` and fixed registers. Reuse policies only
  matter for merging, which `BundleMerge` models on its own. Stack
  policies are not in the input family.
- One basic block with no loop, so `hot_code` is empty and no range
  crosses a block boundary.

## 3b. The modules `BundleMerge` and `VRegPartition`

**Input.** A program gives, per vreg, its live ranges in `next_in_reg`
order, each with a flag for a FixedReg def or use in it. It also gives
each vreg's class, and the merge requests: per instruction, its Reuse
operands and its `is_move` pair, and then the `blockparam_outs` pairs.

**State.** The model keeps the code's pointers.
- `rng[r]` holds `bundle` and `next_in_bundle` of range `r = <<vreg, k>>`.
- `bnd` holds `first_range`, `last_range`, `spillset`, `prio` and the
  fixed and minimal flags of each bundle.
- `spillsets` and `queue` are the spill-set table and the allocation
  queue, a bag of `<<prio, bundle>>`.
- `vi`, `ii`, `oi`, `bi` and `qi` are the loop counters of the two
  functions.

**Actions.** There is one action per loop iteration, in code order:
- `CreateVRegBundle`: `create_bundle`, then `insert_liverange_into_bundle`
  for each range of the vreg.
- `MergeReuse`: `try_merge_reused_register`, with its Before-point and
  live-at-def early returns.
- `MergeMove`: the `is_move` merge, from the dst's bundle into the src's.
- `MergeBlockparam`: the block-parameter merge.
- `QueueVReg`: one vreg of `queue_bundles`. It walks `next_in_bundle` from
  the vreg's first range. At each bundle's `first_range` it pushes a spill
  set and computes `prio` and the flags.

`merge_bundles` is the operator `MergeBundles`. It does the class check and
the overlap scan `OverlapScan`, with the range-count cap
`MergeRangeLimit`. It then relinks the two lists in the order the code's
merge-sort loop picks them (`MergeChains`), including the code's choice to
leave the last picked range's `next` as it was. Looking up the first range
of an empty bundle panics, so `MergeStep` requires both bundles to be
non-empty. The code's two "empty bundle" cases after the class check can
therefore never be reached, and are left out.

**Refinement.** `VRegPartition` has:
- `parts`, a set of sets of vregs;
- `queued`, the parts already on the queue;
- `Merge(P, Q)`: join two unqueued parts related by a request, of one
  class, whose ranges are disjoint;
- `Enqueue(P)`;
- weak fairness of its `Next`.

The mapping takes:
- `parts` to the vreg sets read off the ranges' `bundle` up-links of the
  non-empty bundles, plus a singleton for each vreg not yet given a bundle;
- `queued` to those bundles that have a spill set.

A declined merge is a stuttering step. This covers overlap, a class
mismatch, the range-count cap, and the reuse early returns.

## 3c. The modules `SpillSlots` and `SpillSlotPacking`

**State.** `SpillSlots` translates `allocate_spillslots` (lines
2729-2885), one loop iteration per action:
- `spillsets` holds size, ranges and slot. A spill set is abstracted to
  the set of `[from, to)` ranges of all its bundles.
- `spillslots` holds each slot's occupancy ranges, size, `next_spillslot`
  link and alloc.
- `slots_by_size` holds each size's `first_spillslot` and `last_spillslot`.
- `spillset`, `spillslot_iter`, `first_slot`, `prev`, `attempt` and
  `num_spillslots` are the loop variables, and `pc` is the loop position.

**Actions.**
- `StartProbe` and `SkipEmpty` begin a spill set.
- `ProbeFits` takes a slot that fits (`spillslot_can_fit_spillset`, then
  `allocate_spillset_to_spillslot`).
- `ProbeRotate` moves a failing slot to the tail of its list. It is a
  literal translation of lines 2825-2846, stale link included.
- `NewSlot` creates a slot after 10 attempts or an exhausted list, and
  pushes it at the head.
- `Layout` is the final offset pass: round up to the size and name the
  slot.

**Refinement.** `SpillSlotPacking` has a set per slot and two actions:
- `AssignExisting`: any slot of the right size whose ranges are disjoint;
- `AssignNew`.

The mapping sends each slot's list of ranges to its occupancy. Under weak
fairness every spill set with bundles is eventually placed.

## 3d. The module `HalfMoves`

`HalfMoves` models lines 2934-3413 of `apply_allocations_and_insert_moves`.

**Programs.** Every block has two instructions, so block `b` has entry
point `4b` and exit point `4b+3`, as `ProgPoint::to_index` counts them. A
program (`prog`) holds what the function reads:
- the successors;
- each vreg's def (an instruction, or a block parameter);
- the ranges of each vreg in `next_in_reg` order;
- `liveins`;
- the def and use points;
- the sorted `blockparam_outs` and `blockparam_ins`.

`get_alloc_for_range` is abstracted to the range's own identity
`<<vreg, k>>`. So every move the code makes between two ranges is a
distinct, checkable move. The code never branches on allocation values
here, apart from a debug assertion.

**State and actions:**
- `ScanRange` is one iteration of the per-range loop, with every effect it
  has:
  - the `Regular` move from an abutting previous range (`AbutMove`);
  - the Source scan over covered block exits, with the `blockparam_outs`
    cursor (`SourceScan`, `BpoScan`);
  - the Dest scan over covered block entries, with the `blockparam_ins`
    cursor and the defined-here check (`DestStart`, `DestScan`, `BpiScan`);
  - the `blockparam_allocs` push;
  - `set_alloc` for the def and the uses in the range (`op_allocs`).
- `SortHalfMoves` is `sort_by_key`.
- `MatchSource` is one iteration of the matching loop. It finds the next
  Source, takes the run of Dests with key `| 1`, decodes the edge from the
  key, places the moves (`EdgePlacement`) and appends them.
- `CriticalEdgePanic` is the panic branch of the same iteration.
- `MatchingDone` is the loop's exit.

`half_move_key` and its decoders are the code's shifts and masks with a
field width `W`. The code has `W = 21`, giving shifts 43, 22 and 1; the
model uses `W = 2`, giving shifts 5, 3 and 1. Both are written with
`Bitwise`.

**Properties.** `EditsExact` states the required moves from the ranges and
the CFG alone (`RequiredMoves`):
- for every edge, one move per vreg live into the target and not defined
  there, and one per block parameter, whenever the ranges on the two sides
  differ;
- placed after the branch of the source block when the target has several
  ways in, and otherwise at the head of the target;
- plus a `Regular` move at every split inside a block, other than at a
  block entry or the def.

Throughout the run, the inserted moves are a duplicate-free subset of
`RequiredMoves`. Once the function returns, they are all of it, and
`blockparam_allocs` and every operand's allocation are right.

`PanicIffCriticalTransfer` says the panic happens exactly when some value
must cross an edge that is critical in the glossary's sense (spec §7 and
boundary scenario 4).

## 3e. The module `MoveResolution`

`MoveResolution` models `resolve_inserted_moves` (lines 3515-3612) and
`add_edit` (lines 3615-3622). An allocation is `<<class, n>>`; the inputs
are the `inserted_moves` and `blockparam_allocs` vectors as
`apply_allocations_and_insert_moves` leaves them, in any order.

**State and actions:**
- `SortInserted` is the stable `sort_by_key` on `(pos, prio)`, with
  `PrioRank` giving `InsertMovePrio`'s declaration order.
- `ResolveGroup` is one iteration of the outer loop: the group of equal
  `(pos, prio)` (`GroupEnd`, `SameKey`), the scratch register of the first
  move's class, the moves with `from != to`, `ParallelMoves::resolve`
  (`Sequentialize`), and `add_edit` for each result (`MoveEdits`).
- `MovesDone` is the loop's exit and the `(block, idx)` sort of
  `blockparam_allocs`.
- `EmitBlockParams` is one block's group, guarded by the two `assert_eq`s
  on the parameter count, appending a `BlockParams` edit at the block's
  entry with priority `BlockParam`.
- `SortEdits` is the final stable sort of `edits` by `(pos, prio)`.

`ParallelMoves` is in `moves.rs`, which is not under `src/`.
`Sequentialize` is the standard algorithm spec §5 names. It repeatedly
emits the first pending move whose destination no other pending move
reads. When only cycles remain, it saves one destination in the scratch
register and redirects that destination's readers to the scratch.

**Properties:**
- `EditsImplementMoves` runs the Move edits of each group, in edit-list
  order, on a symbolic register file (`Exec`). It requires every
  non-scratch location to end up holding what the parallel move puts
  there (spec §8, invariant 4, for one point).
- `EditsWellFormed` requires the final list to be sorted by
  `(pos, prio)`, to hold no self-move, and to hold one `BlockParams` edit
  per block with parameters, listing the allocations in parameter order
  (invariant 6).
- `EditClassesMatch` requires every Move to stay within one class. It is
  checked alone, and is violated (section 5).

## 3f. The module `HotCode`

`HotCode` models `compute_hot_code` (lines 1344-1372). Every block has one
instruction, so block `b` covers points `2b` and `2b+1`.

**State.** `preds` is `block_preds`, chosen once. `block`, `header` and
`backedge` are the loop variables, with `-1` for `Block::invalid()`. `hot`
is the `hot_code` map as a set of `[from, to, lr]` entries, and `nranges`
is the index `create_liverange` returns next.

**Actions.** `VisitBlock` is one iteration: `MaxBackedge` finds the highest
predecessor numbered at least the block; if there is one, the block
becomes the header with that backedge. When the loop reaches the current
backedge, it creates a range from the header's entry to the backedge's
exit and inserts it with `MapInsert`. `KeysEqual` is `LiveRangeKey`'s
order, under which overlapping keys are equal, so an insert over an
overlapping key keeps the old key and takes the new range index.

**Property.** `HotCodeIsInnerLoops` compares the final map with
`InnerLoopSpans`, computed from `preds` alone: a header is a block with a
predecessor at or after it, its loop ends at its highest such
predecessor, and a loop is innermost when no other header lies inside it.
The map must hold exactly these spans, one created range per entry, with
no two keys overlapping.

## 3g. The module `Fixups`

`Fixups` models the operand fixups for the instructions of one block:
- the multi-fixed-reg cleanup at the end of `compute_liveness` (lines
  1254-1331), with the use and def points as `compute_liveness` sets them
  (lines 1011-1088);
- `set_alloc` for every def and use (lines 3298-3318);
- the `multi_fixed_reg_fixups` loop (lines 3415-3431);
- the reused-input loop (lines 3477-3513).

**Input.** `prog` is `inst_operands`: per instruction, a sequence of
operands `[vreg, kind, pos, policy]`, with policies `Reg`, `Fixed p` and
`Reuse j`. `PointOf` gives each operand's point. A use is at `Before`
unless it is at `Both` or `After`, or is an input other than the reused
one of an instruction with a `Reuse` operand; then it is at `After`.
`LiveOf` gives each vreg's live points, from its def to its last use.

**Actions:**
- `VisitOperand` is one call of the `fixup_multi_fixed_vregs` closure, in
  the cleanup's order (`VisitOrder`: the def, then the uses in use-list
  order). A fixed operand after a first one at the same point is
  rewritten to `Reg`, recorded as a fixup `<<pos, first preg, its preg>>`,
  and its preg is pushed onto `extra_clobbers`.
- `EndRange` is the end of one vreg's range. It reserves each extra
  clobber's preg over its instruction, and resets `last_point`,
  `first_preg` and `extra_clobbers`.
- `CleanupDone` goes on to allocation.
- `ApplyAllocations` chooses an allocation from `ValidAllocs`: one preg
  per vreg, fixed operands in their preg, simultaneously live vregs apart,
  and no vreg in a preg reserved where it is live. It writes every slot's
  allocation, as the range scan's `set_alloc` calls do, and collects
  `reuse_input_insts`.
- `Unsatisfiable` is the case where no such allocation exists: the
  minimal bundle cannot be placed, and the debug build stops.
- `MultiFixedMoves` inserts one `MultiFixedReg` move per fixup, from the
  first preg to the demoted one, and takes the list.
- `ReuseFixup` is one instruction of the reuse loop. For each output
  `Reuse(j)` whose allocation differs from input `j`'s, it inserts a
  `ReusedInput` move at `before(inst)` and sets input `j`'s allocation to
  the output's.
- `ReuseDone` ends the function.

**Properties:**
- `FixedValuesDelivered` runs the register file forward at each
  instruction (`ReadsOf`): the vregs live at `before(i)` sit in their
  allocation, then the `MultiFixedReg` group and then the `ReusedInput`
  group run as parallel moves. Every use must then find its vreg in its
  reported allocation and in the preg it was fixed to, and a reused input
  must be reported in its output's allocation.
- `KeptFixedNotReserved` says the cleanup never reserves a preg at an
  instruction where an operand of the same vreg keeps a fixed constraint
  to it. It is checked alone, and is violated (section 5).
- `PoliciesHonoured` says every operand fixed to a preg is reported in
  that preg. No run checks it; it does not hold, by design of the
  cleanup (section 5).

## 3h. The module `Liveness`

`Liveness` models `compute_liveness` (lines 908-1243) over a CFG, with
`add_liverange_to_vreg` (lines 652-758) and `distribute_liverange_uses`
(lines 760-814). Every block has a body instruction `2b` and a terminator
`2b+1`, so block `b` covers points `4b` (its entry) to `4b+3` (its exit).

**Input.** `prog` is the function: `succs` per block, `postorder` as
`CFGInfo` computes it (`PostorderOf`, a depth-first walk that takes the
successors in order; `CFGInfo` is outside `src/`), `params` per block,
and per instruction its operands `[vreg, kind, pos]`. `SSA` keeps the
functions `validate_ssa` accepts: one def per vreg, which every path from
the entry to a use passes.

**State.** `lrs` is the range arena (`ranges`): `[vreg, from, to, def,
uses]`. `first[v]` is the vreg's `next_in_reg` list as a sequence of arena
indices. `vreg_ranges`, `liveins`, `live`, `blockparam_outs` and
`blockparam_ins` are the code's variables. `i` is the postorder index,
`k` the instruction still to visit, and `pc` the phase of the block.

**Actions** (one iteration of the block loop is three steps):
- `SeedBlock`: `live` is the union of the successors' live-ins; each
  live vreg gets `[entry, exit.next())` and its `vreg_ranges` entry; a
  branch records `blockparam_outs`, taking its operands in successor and
  parameter order.
- `VisitInst`: one instruction, terminator first, with its operands in
  order (`OperandStep`). A def takes `vreg_ranges[v]`, or a new
  `[pos, pos+1)` range when there is none, trims it to `pos` if it starts
  at the block entry, marks it as the def's range, and removes `v` from
  `live`. A use adds `[entry, pos.next())`, where a branch use is at the
  block exit, records the use and makes `v` live.
- `EndBlock`: block parameters leave `live` (a dead one gets
  `[entry, entry.next())`) and add `blockparam_ins` per predecessor. Then
  the loop scan (`MinPred`): if a block of postorder `[min_pred, i]` has a
  predecessor earlier in postorder, every block of the interval gets
  `live` added to its live-ins, and every live vreg gets the range from
  the least entry to the greatest `block_exit` of the interval. Finally
  `liveins[block] = live`.
- `AddLiveRange` is `add_liverange_to_vreg`: a walk of the list
  (`AddStep`) that records lower bounds, breaks at the first range above,
  extends the first overlapping range, and merges every later overlapping
  range into it (end, def and uses, then unlinks it). With no overlap, a
  new range is linked after the last lower bound.

**Reference.** `LivePoints(v)` is liveness from first principles: the
points reached from v's def from which a use of v is reached without
passing the def again. Control goes from a block's exit to its
successors' entries and elsewhere to the next point.

**Properties:**
- `RangesSortedDisjoint` (spec §3, invariant 1): in every state, each
  vreg's list holds its own non-empty ranges, sorted and disjoint.
- `OperandsInRanges` (spec §3, invariant 5): in every state, each use
  held by any range, unlinked ones included, is held by a linked range of
  its vreg that covers it. At the end, the linked ranges hold exactly the
  function's uses, and the def-marked range covers the def.
- `LivenessSound` (spec §4.1 and the comment at line 1170): at the end,
  every live point is covered. It does not hold (section 5), and no run
  checks it.

## 4. Runs

| Run | Module / config | Expect | Checks | Distinct states |
|---|---|---|---|---|
| `alloc` | `MCBundleAlloc` / `MCBundleAlloc.cfg` | pass | `TypeOK`, `RequirementMergeIsOrderFree`, `NoSharedRegister`, `OccupancyMatchesAllocation`, `LiveRangesPartitioned`, `NoBundleLost`, `PoliciesSatisfied`, `AbortsOnlyWhenUnallocatable`, `StopsOnUnsatisfiable` | 144,143 |
| `evict_weight` | `MCBundleAlloc` / `MCEvictWeight.cfg` | violation | `EvictOnlyLighter` | |
| `spillslots` | `MCSpillSlots` / `MCSpillSlots.cfg` | pass | `TypeOK`, `LayoutSound`, `PackingSpec` | 107,916 |
| `spillslot_reuse` | `MCSpillSlots` / `MCSlotList.cfg` | violation | `NewSlotOnlyWhenNoneFits` | |
| `merge` | `MCBundleMerge` / `MCBundleMerge.cfg` | pass | `TypeOK`, `ChainsWellFormed`, `QueueConsistent`, `PartitionSpec` | 28,400 |
| `half_moves` | `MCHalfMoves` / `MCHalfMoves.cfg` | pass | `TypeOK`, `EditsExact`, `PanicIffCriticalTransfer` | 30,594 |
| `move_resolution` | `MCMoveResolution` / `MCMoveResolution.cfg` | pass | `TypeOK`, `EditsImplementMoves`, `EditsWellFormed` | 160,234 |
| `scratch_class` | `MCMoveResolution` / `MCScratchClass.cfg` | violation | `EditClassesMatch` | |
| `hot_code` | `MCHotCode` / `MCHotCode.cfg` | pass | `TypeOK`, `HotCodeIsInnerLoops` | 327,680 |
| `fixups` | `MCFixups` / `MCFixups.cfg` | pass | `TypeOK`, `FixedValuesDelivered` | 14,360 |
| `same_preg_fixup` | `MCFixups` / `MCSamePreg.cfg` | violation | `KeptFixedNotReserved` | |
| `liveness` | `MCLiveness` / `MCLiveness.cfg` | pass | `TypeOK`, `RangesSortedDisjoint`, `OperandsInRanges` | 5,593 |

**Bounds of the `BundleAlloc` runs:**
- 4 instructions and 3 vregs.
- 2 registers.
- Def policies `Reg` and `Any`; use policies `Reg` and fixed `p0`.
- At most 2 uses per vreg.
- Clobber sets: none, or `p0` at instruction 2.
- Debug build.
- At most 10 bundles in the arena. No run reaches this bound, so it cuts
  off nothing. A bound of 8 is reached, and the run then deadlocks on
  an unsatisfiable program.

`MCBundleAlloc.tla` enumerates every program of this family
(`MCAllPrograms`), allocatable or not. `Allocatable` says which ones the
allocator must satisfy: at every instruction, no more register operands
than unclobbered registers, distinct fixed registers, and no fixed use of
a clobbered register. `AbortsOnlyWhenUnallocatable` uses it; `evict_weight`
takes the allocatable ones only (`MCPrograms`).

Three vregs on two registers are the smallest case in which a register is
contended by more than one other bundle. In it:
- evictions, splits of evicted bundles and repeated requeues happen;
- conflict, clobber and all-use split points are all reached;
- the fixed-register path and the hint path both fire;
- the spilled-bundle retry runs.

**Bounds of `merge`:**
- 3 vregs over 4 instructions (points 0..7).
- Each vreg has one of `[1,5)`, `[3,5)`, `[5,7)` or `[1,3)+[5,7)`. The
  family has overlapping, touching and interleaving pairs, and a reused
  input still live at the output's def.
- Moves or reused operands at up to two instructions, each relating an
  input used at `Before(i)` to an output defined at `After(i)`.
- At most one block-parameter pair, between any two vregs.
- The code's range-count cap of 200.

Three vregs allow two successive merges into one bundle. A two-range vreg
against a one-range vreg makes the merge-sort interleave. Four vregs take
about four minutes.

**Bounds of `half_moves`** (2,926 programs, about 20 s):
- Three CFGs: a diamond; a loop `0→1→{2,3}`, `2→1`; and a branch `0→{1,2}`,
  `1→2`, whose edge `0→2` is critical.
- Two vregs. `v0` is defined by an instruction. `v1` is defined by an
  instruction, or is a parameter of a non-entry block that takes `v0` from
  every predecessor.
- At most one further use per vreg.
- Liveness is derived as `compute_liveness` builds it, keeping only
  programs whose defs dominate their uses.
- The live points are cut into ranges in one of three ways: at every block
  entry (as liveness builds them), not at all (as a loop range or merged
  bundle spans them), or at every block entry plus a split before the
  second instruction of one block.

These programs reach the following:
- Sources and Dests on every edge kind: out-edge placement into a join,
  in-edge placement, and loop back edges.
- Both block-parameter cursors, with entries skipped and matched.
- Abutting-range moves inside blocks.
- Ranges that span a fallthrough and so need no edge move.
- The critical-edge panic.

**Bounds of `move_resolution` and `scratch_class`** (22,226 inputs, about
5 s):
- Two registers in each of two classes, plus one scratch register per
  class.
- Three groups: `InEdgeMoves` and `Regular` at point 0, and `Regular` at
  point 1.
- Up to three moves, in any order. Each move is between two registers of
  one class, self-moves included, and no two moves of a group write the
  same location.
- One block, entered at point 1, with two parameters recorded in either
  order.

Three moves are enough for the following:
- a swap (a cycle) next to a move of the other class;
- a swap split across two priorities at the same point;
- groups that interleave before the sort.

The entry at point 1 puts the `BlockParams` edit among `Regular` moves of
the same point, so the final sort has to order priorities within a point.

**Bounds of `hot_code`:** every predecessor relation on 4 blocks (2^16
of them). This includes self-loops, nested loops, two loops sharing a
backedge block, loops whose spans overlap without nesting, and edges into
the entry block.

**Bounds of the `Fixups` runs** (618 programs):
- 2 instructions, 3 vregs and 3 registers.
- Instruction 0 defines `v0` and `v1` at `After`, each `Reg`, fixed to
  `p0` or fixed to `p1`.
- Instruction 1 has one or two uses of `v0` or `v1` at `Before`, with the
  same policies, and may define `v2` at `After` as `Reg` or as
  `Reuse j` of one of its inputs.
- `MCAllocatable` keeps the programs in which every vreg can be given one
  preg: its first fixed constraint at each point, and distinct pregs for
  vregs live together. The allocation loop's own choice among valid
  allocations is left free, so every allocation it could report is taken.

Two uses of one vreg at one instruction, with every pair of policies,
are the smallest case with a demoted constraint, to a different preg or
to the same one. A third vreg with a `Reuse` def makes the reuse loop
both move and skip.

**Bounds of `liveness`** (329 functions, a few seconds):
- Four blocks: a loop `0→1`, `1→{2,3}`, `2→1` with the header's successors
  in either order (so the loop interval is `{1,2,3}` or `{1,2}`), and a
  diamond. None has a critical edge, as the `Function` contract requires.
- Two vregs. `v0` is defined at `After` by block 0's body. `v1` is defined
  there too, or is the parameter of a later block whose every
  predecessor passes `v0` as a branch argument.
- At most one further use per vreg, `Before` or `After` any body
  instruction, in SSA form.

These functions reach seeded ranges, dead defs and dead parameters,
trims at a block entry, loop ranges over both intervals, and loop ranges
that merge existing ranges and move their uses.

**Bounds of the spill-slot runs.** `spillslots` covers every table of 4
spill sets:
- sizes 1 and 2;
- range sets drawn from `[0,2)`, `[1,3)` and `[2,4)`: empty, a single range,
  or the disjoint pair.

This makes sets that fit, sets that do not, rotations and new slots all
happen. `spillslot_reuse` uses 5 sets of size 1, enough for a slot to be
rotated twice.

TLC's coverage report shows every action, and every outcome of `Attempt`,
firing in the passing runs.

**What the runs show:**
- `alloc`: on every program the loop:
  - keeps registers exclusive and the maps exact;
  - keeps ranges partitioned, with consistent weights;
  - loses no bundle, and satisfies every policy when it returns;
  - always stops, never at the count panic, and stops at the
    minimal-bundle assertion only on a program it cannot satisfy. So
    every allocatable program is allocated.
- `spillslots`: slot allocation implements the packing promise, including
  that every spill set is eventually placed. Offsets are aligned, and slots
  are disjoint in the frame.
- `merge`: after any sequence of reuse, move and block-parameter merges:
  - every bundle's list is sorted, disjoint and acyclic;
  - every list ends at `last_range` and agrees with the up-links;
  - each non-empty bundle is queued once, with its own spill set and the
    right `prio`;
  - merging implements `VRegPartition`.
- `half_moves`: on every program of the family, the scan, sort and match
  insert exactly the moves the ranges require, record every block
  parameter's allocation, and give every operand its range's allocation.
  They panic exactly when a value must cross a critical edge.
- `move_resolution`: for every order of inserted moves in the family, the
  edits compute each group's parallel move, are sorted, hold no self-move,
  and give each block one `BlockParams` edit in parameter order.
- `hot_code`: for every predecessor relation on four blocks, the one pass
  marks exactly the innermost loops by block index, each once, with no
  two keys overlapping.
- `fixups`: on every program of the family and every allocation the loop
  may choose, each use reads its vreg from its reported allocation and
  from its fixed preg once the moves before the instruction have run, and
  each reused input is reported in its output's allocation.
- `liveness`: on every function of the family, every range list stays
  sorted and disjoint through extensions and merges, no use is lost when
  a merge unlinks a range, and the pass ends with exactly the function's
  uses recorded and each def in its def-marked range.
- The four violation runs are the findings below.

`RequirementMergeIsOrderFree` checks, for every bundle held in any state
(original bundles and split pieces), that `compute_requirement`'s fold in
chain order gives the requirement determined by the bundle's set of
policies, which is the order-free reading of spec §4.4.

**Mutants.** Each property is shown to be violated by a plausible bug in
the code it is about (`mutants` in `PROJECT.json`):
- a swapped `uses_spill_weight` split;
- a use on the split point kept in the first part;
- a clobber ignored in the probe;
- an evicted bundle left in the map, or not requeued;
- a fixed requirement ignored;
- the minimal check without `prev()` (caught by
  `AbortsOnlyWhenUnallocatable`);
- the loop-count bound without its factor 50;
- `Requirement::merge` letting a Register requirement absorb a later Fixed
  one;
- for spill slots, a slot index taken after the push, alignment rounding
  down, and a fit test that looks at the first range only;
- for merging:
  - a spill-set index taken after the push;
  - an append that leaves `last_range` behind;
  - a first-time test on every vreg's first range;
  - an overlap scan that steps the wrong list;
- for move insertion:
  - a half-move key packed without the gap for the kind bit;
  - a Dest scan that does not skip the block a mid-block range starts in;
  - the placement's second test checking the source block instead of the
    target;
  - the range loop stepping past the last range;
- for move resolution:
  - moves grouped by point only, ignoring priority;
  - `blockparam_allocs` sorted by block only;
  - the loop cursor not reset for the block-parameter loop;
- for hot code:
  - the span taken from the backedge's entry to the header's exit;
  - a self-loop not counted as a backedge;
- for fixups:
  - the reservation placed one instruction late;
  - the MultiFixedReg moves copying the other way;
- for liveness:
  - a new range's index taken after the push;
  - a new range linked at the head of the list;
  - a merged range unlinked without moving its uses.

**Fairness.**
- `BundleAlloc` and `BundleMerge` are each one sequential loop that never
  waits. While they run, some step is always enabled, which deadlock
  checking confirms. So the only fairness the code justifies is that the
  process keeps taking steps, which is weak fairness of `Next`.
  - `BundleAlloc` writes it as `[]<>~Running \/ []<><<Next>>_vars`, so that
    TLC does not re-evaluate the action's large `ENABLED`.
  - `BundleMerge`, `SpillSlots` and `HalfMoves` use `WF_vars(Next)`.
    `HalfMoves` checks no liveness property: its loops are bounded by the
    number of ranges and half-moves. `MoveResolution`, `HotCode`,
    `Fixups` and `Liveness` also use `WF_vars(Next)`, and their loops are bounded by
    their vectors, blocks and operands.
  - `Terminating` and `Stopped` are the stuttering steps at the point
    where the code goes on to its next phase.
- The abstract specifications carry weak fairness of their own `Next`.
  Their liveness (every part queued, every spill set placed) is therefore
  checked as part of the refinement.

## 5. Findings

**`cached_spill_weight` (line 224) masks out the weight** (`evict_weight`).
- The code returns `spill_weight_and_props & !((1 << 30) - 1)`, which keeps
  only the minimal and fixed flag bits.
- `process_bundle` (lines 2612-2666) and
  `maximum_spill_weight_in_bundle_set` therefore compare flags, not
  weights.
- TLC finds a fixed bundle of weight 2000 evicting a non-fixed bundle of
  equal weight 2000. Spec §4.4 allows eviction only when the conflict set's
  maximum weight is strictly below the bundle's own.

**The spill-slot list loses slots (line 2842)** (`spillslot_reuse`).
- A failing slot is moved to the tail of its size list, but keeps its old
  `next_spillslot`, so the list becomes a cycle.
- A later rotation through the old tail then drops a slot from the list.
- TLC finds four size-1 spill sets with ranges `[1,3)`, `[0,2)`, `[1,3)`
  and `[2,4)`. The fourth fits slot 2, which is no longer on the list, so a
  new slot is created. This wastes stack space; it is not unsound.

**A group mixing classes uses one class's scratch register (line 3533)**
(`scratch_class`).
- `resolve_inserted_moves` groups the inserted moves by `(pos, prio)` only,
  and takes `regclass` from `moves[0].from_alloc`.
- Edge moves of Int and Float vregs share their edge's point and priority,
  so a group can mix classes.
- TLC finds a group whose first move is an Int self-move (dropped, but it
  still sets the class) and whose Float moves swap `f0` and `f1`. The swap
  is broken as `f1 -> Int scratch`, `f0 -> f1`, `Int scratch -> f0`.
- Spec §5 says cycles are broken through "the class-appropriate scratch
  preg". The values still arrive (`EditsImplementMoves` holds), but a
  Float value passes through an Int register.

**A second fixed constraint to the same preg is demoted and reserved
(line 1288)** (`same_preg_fixup`).
- The cleanup looks a duplicate up by vreg only
  (`seen_fixed_for_vreg.position(|r| *r == op.vreg())`). So a second
  FixedReg operand of the vreg to the SAME preg at one point is also
  demoted, and line 1294 reserves that preg over the instruction.
- The kept operand still requires the preg, so
  `try_to_allocate_bundle_to_reg` returns `ConflictWithFixed` for every
  bundle holding it, and the minimal bundle cannot be placed (the
  `debug_assert` at line 2684).
- Spec §4.1 demotes only constraints to different pregs, and boundary
  scenario 5 (two `FixedReg(r0)` slots of one vreg at a call) expects a
  successful allocation.

**Disagreements listed as hazards, not checked by a run.** Reading the
code while modelling it shows six more places where it differs from the
spec or its own comments. They are in `hazards` with a note:
- The loop range of `compute_liveness` (lines 1212-1219) is
  `[min(loop_block_entry), max(loop_block_exit))`, as spec §4.1 step 6
  writes it, without the `.next()` that the per-block range (line 956)
  and `compute_hot_code` (line 1364) use. The spec and the comment at line
  1170 call the approximation correct, possibly over-live, but it misses
  a live point. With `LivenessSound` added to `MCLiveness.cfg`, TLC finds
  the loop whose header branches to the exit first (postorder 3, 2, 1, 0;
  interval `{1,2}`), with `v0` defined in block 0 and used in block 3.
  `v0` is live at point 11, the exit of the latch block 2, and its ranges
  are `[1,4)`, `[4,11)` and `[12,14)`. Spec §4.7 places out-edge moves
  after the branch, at that point. With the successors in the other order
  the interval includes block 3, and the point is covered.
- Spec §4.1 says range insertion coalesces ranges that abut. The code
  merges only overlapping ranges (lines 670-681 test `>=` and `<=`), so a
  vreg keeps abutting ranges such as `[1,4)` and `[4,11)` above. The
  properties of the `liveness` run allow abutting ranges.
- A demoted FixedReg operand is reported in the bundle's preg, not the
  preg it was fixed to (`set_alloc`, line 3316), against spec §8,
  invariant 1. `PoliciesHonoured` in `Fixups.tla` states the requirement;
  with it as the invariant of `MCFixups.cfg`, TLC finds `v0` used as
  `FixedReg(p0)` and `FixedReg(p1)` at one instruction, with the second
  slot reported in `p0`. The cleanup rewrites the operand's policy to
  `Reg` on purpose (line 1293), so this follows from the design.
- `find_split_points` (line 2127) overwrites `first_after_conflict` while
  the position grows, so the split lands after the LAST use following the
  conflict, where the spec (§4.5, rule 3) and the comment say the FIRST.
  This changes how a bundle is cut, not the soundness of the result.
- `recompute_bundle_properties` (line 1917) sets `fixed` from the first
  range only, where spec §4.4 says any FixedReg def or use makes a bundle
  fixed. The flag only weighs the bundle in the queue and in eviction.
- The multi-fixed fixup is recorded at the use's own point (line 1292),
  which is `after(inst)` for a use at `Both` or `After` and for the
  non-reused inputs of an instruction with a `Reuse` operand. The move
  then runs after the instruction has read its operands, where spec §4.7
  puts it before. The `fixups` family has its fixed uses at `Before` only.

## 6. Not modelled, and why

- **Composing `Liveness` with the later phases.** `MCHalfMoves` derives
  exact liveness for its own inputs rather than taking `Liveness`'s
  ranges, and `BundleAlloc` keeps its one-block liveness with weights and
  clobbers. The over-approximation, where a
  vreg is live into its own defining block, never arises in its CFGs, so
  the defined-in-this-block check of the Dest scan is modelled but never
  decides anything. `BundleMerge` takes block-parameter pairs as input and
  does not derive them.
- **Register classes in `BundleMerge`.** The family uses one class,
  because moves, reuses and block parameters relate vregs of one class. The
  class check is modelled, but no input reaches its failing branch.
- **The 200-range cap.** It is modelled as `MergeRangeLimit`, and checked at
  the code's value, which small programs never reach. A declined merge is
  allowed by `VRegPartition`, so the cap can cost merging but not
  soundness.
- **Composition of `BundleMerge` with `BundleAlloc`.** Merged multi-range
  bundles would multiply the allocation loop's state space beyond TLC's
  reach at useful bounds. The hand-off between the two is one bundle per
  vreg, which is what `BundleMerge` produces without moves and reuses.
- **Spill weights in `BundleMerge`.** Only `prio` and the two flags are
  recomputed there; `BundleAlloc` models the weight.
- **The allocation between the cleanup and the fixups.** `Fixups`
  chooses any allocation of unsplit bundles that meets the loop's
  guarantees, rather than running `BundleAlloc` on the rewritten
  operands. Split bundles, stack allocations and fixups across block
  boundaries are not in its family.
- **Hot code in the allocation loop.** `BundleAlloc` models one block, on
  which `HotCode` gives the empty map, so the hot-code split rule is
  modelled but never decides anything.
- **The composition of `HalfMoves` with `MoveResolution`.** `HalfMoves`
  abstracts allocations to range identities, and `MoveResolution` takes
  its inserted moves as free input over registers. Every order and
  grouping the scan can produce is among those inputs.
- **Stack slots in resolution, and `ParallelMoves` itself.** The model's
  allocations are registers. `ParallelMoves` is modelled from the spec,
  because its code is outside `src/`. The debug `annotate` loop is output
  only.
- **The 21-bit asserts of `half_move_key`.** The inputs stay below `2^W`,
  so the asserts always hold and no run reaches them.
- **Equal allocations on two ranges.** The code inserts a move even when
  both sides share an allocation, and the model cannot show that case,
  because allocations are range identities. Resolution drops such
  self-moves.
- **Clobbers, reused-input promotion and use statistics in `Liveness`.**
  They are modelled for one block in `BundleAlloc` and `Fixups`; adding
  them to the CFG family would not change the ranges `Liveness` checks.
- **`COALESCE_LIMIT`.** Past 100000 ranges the lower-bound test is skipped
  and a later range is merged into an earlier one. No small function
  reaches it.
- **Statistics, logging and debug dumps.** They are output only.
- **The release build's behaviour on unsatisfiable input.** Without the
  assertion it runs until the count panic, which is consistent with the
  spec's "fatal" outcome. This is too deep for the runs (about 400 steps
  for 4 instructions), and the debug build is checked instead.

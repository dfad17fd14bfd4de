----------------------------- MODULE SpillSlots -----------------------------
(***************************************************************************)
(* Env::allocate_spillslots (src/ion/mod.rs): spill sets are visited in   *)
(* index order; each with bundles probes at most 10 slots of its size,    *)
(* taking the first whose occupancy map has no range the set's bundles    *)
(* overlap and rotating every slot that does not fit to the tail of the   *)
(* per-size list; if none fits a new slot is pushed at the head.  At the  *)
(* end every slot is laid out at an offset aligned to its size.           *)
(*                                                                         *)
(* A spill set is abstracted to its size and the set of [from, to)        *)
(* ranges of all its bundles' live ranges, since spillslot_can_fit_spillset *)
(* and allocate_spillset_to_spillslot only ever walk all of them.  Index  *)
(* 0 stands for SpillSlotIndex::invalid().                                *)
(***************************************************************************)
EXTENDS Naturals, Sequences

CONSTANTS
  Inputs,            \* possible spill-set tables: Seq of [size, ranges]
  Sizes,             \* spillslot sizes (powers of two)
  NamedByLastSlot    \* func.multi_spillslot_named_by_last_slot()

ASSUME NamedByLastSlot \in BOOLEAN

Invalid == 0
(* for _attempt in 0..10 *)
ProbeLimit == 10

VARIABLES
  spillsets,        \* Seq of [size, ranges, slot]
  spillslots,       \* Seq of [ranges, size, next, alloc]: SpillSlotData
  slots_by_size,    \* [Sizes -> [first, last]]: SpillSlotList
  spillset,         \* the outer loop's spill-set index
  spillslot_iter,   \* the probe loop's locals ...
  first_slot,
  prev,
  attempt,
  num_spillslots,
  pc                \* "outer", "probe", "done"

vars == <<spillsets, spillslots, slots_by_size, spillset, spillslot_iter,
          first_slot, prev, attempt, num_spillslots, pc>>

(* LiveRangeKey equality: the two ranges overlap. *)
RangesOverlap(a, b) == a[2] > b[1] /\ a[1] < b[2]

(* Fault variant: only the lowest range of the spill set is looked up,   *)
(* as if the walk stopped after the first range of the first bundle.     *)
CanFitFirstRangeOnly(k, i) ==
  LET rs == spillsets[i].ranges
      low == CHOOSE r \in rs : \A q \in rs : r[1] <= q[1]
  IN ~\E q \in spillslots[k].ranges : RangesOverlap(low, q)

(* spillslot_can_fit_spillset: no range of any bundle of the set is      *)
(* found (contains_key under the overlap order) in the slot's map.        *)
CanFit(k, i) ==
  \A r \in spillsets[i].ranges :
    ~\E q \in spillslots[k].ranges : RangesOverlap(r, q)

(* allocate_spillset_to_spillslot: record the slot and insert every      *)
(* range into the slot's map.                                             *)
AllocateTo(i, k) ==
  /\ spillsets' = [spillsets EXCEPT ![i].slot = k]
  /\ spillslots' = [spillslots EXCEPT ![k].ranges = @ \cup spillsets[i].ranges]

Init ==
  /\ \E input \in Inputs :
       spillsets = [i \in 1 .. Len(input) |->
                      [size |-> input[i].size, ranges |-> input[i].ranges,
                       slot |-> Invalid]]
  /\ spillslots = <<>>
  /\ slots_by_size = [s \in Sizes |-> [first |-> Invalid, last |-> Invalid]]
  /\ spillset = 1
  /\ spillslot_iter = Invalid
  /\ first_slot = Invalid
  /\ prev = Invalid
  /\ attempt = 0
  /\ num_spillslots = 0
  /\ pc = "outer"

-----------------------------------------------------------------------------
(* The outer loop over spill sets. *)

(* `if bundles.is_empty() { continue; }` *)
SkipEmpty ==
  /\ pc = "outer"
  /\ spillset <= Len(spillsets)
  /\ spillsets[spillset].ranges = {}
  /\ spillset' = spillset + 1
  /\ UNCHANGED <<spillsets, spillslots, slots_by_size, spillslot_iter,
                 first_slot, prev, attempt, num_spillslots, pc>>

(* Start probing the list of the spill set's size. *)
StartProbe ==
  /\ pc = "outer"
  /\ spillset <= Len(spillsets)
  /\ spillsets[spillset].ranges # {}
  /\ spillslot_iter' = slots_by_size[spillsets[spillset].size].first
  /\ first_slot' = Invalid
  /\ prev' = Invalid
  /\ attempt' = 0
  /\ pc' = "probe"
  /\ UNCHANGED <<spillsets, spillslots, slots_by_size, spillset, num_spillslots>>

(* The loop body is reached: none of its three breaks (10 attempts done, *)
(* end of list, back at the first slot probed) applies.                  *)
ProbeContinues ==
  /\ attempt < ProbeLimit
  /\ spillslot_iter # Invalid
  /\ spillslot_iter # first_slot

(* The probed slot fits: allocate the set to it and end the search. *)
ProbeFits ==
  /\ pc = "probe"
  /\ ProbeContinues
  /\ CanFit(spillslot_iter, spillset)
  /\ AllocateTo(spillset, spillslot_iter)
  /\ spillset' = spillset + 1
  /\ pc' = "outer"
  /\ UNCHANGED <<slots_by_size, spillslot_iter, first_slot, prev, attempt,
                 num_spillslots>>

(* The slot does not fit: unlink it and append it at the tail. *)
ProbeRotate ==
  /\ pc = "probe"
  /\ ProbeContinues
  /\ ~CanFit(spillslot_iter, spillset)
  /\ LET size == spillsets[spillset].size
         it   == spillslot_iter
         next == spillslots[it].next
         s1   == IF prev # Invalid
                   THEN [spillslots EXCEPT ![prev].next = next] ELSE spillslots
         l1   == IF prev # Invalid THEN slots_by_size[size]
                   ELSE [slots_by_size[size] EXCEPT !.first = next]
         l2   == IF next = Invalid THEN [l1 EXCEPT !.last = prev] ELSE l1
         last == l2.last
         s2   == IF last # Invalid THEN [s1 EXCEPT ![last].next = it] ELSE s1
         l3   == IF last # Invalid THEN l2 ELSE [l2 EXCEPT !.first = it]
     IN /\ spillslots' = s2
        /\ slots_by_size' = [slots_by_size EXCEPT ![size] = [l3 EXCEPT !.last = it]]
        /\ first_slot' = IF first_slot = Invalid THEN it ELSE first_slot
        /\ prev' = it
        /\ spillslot_iter' = next
  /\ attempt' = attempt + 1
  /\ UNCHANGED <<spillsets, spillset, num_spillslots, pc>>

(* Fault variant: the new slot's index read after the push. *)
NewSlotIndexAfterPush == Len(spillslots) + 2

(* SpillSlotIndex::new(self.spillslots.len()), read before the push. *)
NewSlotIndex == Len(spillslots) + 1

(* A break without success: push a new slot at the head of the list and *)
(* allocate the set to it.                                                *)
NewSlot ==
  /\ pc = "probe"
  /\ ~ProbeContinues
  /\ LET size == spillsets[spillset].size
         k    == NewSlotIndex
         next == slots_by_size[size].first
     IN /\ spillslots' = Append(spillslots,
                             [ranges |-> spillsets[spillset].ranges,
                              size |-> size, next |-> next, alloc |-> Invalid])
        /\ spillsets' = [spillsets EXCEPT ![spillset].slot = k]
        /\ slots_by_size' =
             [slots_by_size EXCEPT ![size] =
                [first |-> k, last |-> IF next = Invalid THEN k ELSE @.last]]
  /\ spillset' = spillset + 1
  /\ pc' = "outer"
  /\ UNCHANGED <<spillslot_iter, first_slot, prev, attempt, num_spillslots>>

-----------------------------------------------------------------------------
(* Assign actual slot indices: offset rounded up to each slot's size.    *)

(* Fault variant: the mask applied without adding size - 1 first, which  *)
(* rounds the offset down onto the previous slot.                         *)
AlignDown(offset, size) == offset - (offset % size)

(* (offset + size - 1) & !(size - 1), for a power-of-two size. *)
AlignUp(offset, size) == LET x == offset + size - 1 IN x - (x % size)

(* The offset of every slot after the loop, and the offset at its end.    *)
Offsets(ss) ==
  LET off[k \in 0 .. Len(ss)] ==
        IF k = 0 THEN 0
        ELSE AlignUp(off[k - 1] + (IF k = 1 THEN 0 ELSE ss[k - 1].size), ss[k].size)
  IN off

EndOffset(ss) ==
  IF ss = <<>> THEN 0 ELSE Offsets(ss)[Len(ss)] + ss[Len(ss)].size

Layout ==
  /\ pc = "outer"
  /\ spillset > Len(spillsets)
  /\ spillslots' =
       [k \in DOMAIN spillslots |->
          [spillslots[k] EXCEPT !.alloc =
             Offsets(spillslots)[k] + (IF NamedByLastSlot THEN spillslots[k].size - 1 ELSE 0)]]
  /\ num_spillslots' = EndOffset(spillslots)
  /\ pc' = "done"
  /\ UNCHANGED <<spillsets, slots_by_size, spillset, spillslot_iter,
                 first_slot, prev, attempt>>

(* allocate_spillslots has returned. *)
Stopped == pc = "done" /\ UNCHANGED vars

Next ==
  \/ SkipEmpty \/ StartProbe
  \/ ProbeFits \/ ProbeRotate \/ NewSlot
  \/ Layout
  \/ Stopped

(* The loop runs as one sequential procedure: it keeps taking steps.     *)
Spec == Init /\ [][Next]_vars /\ WF_vars(Next)

-----------------------------------------------------------------------------
(* Properties *)

TypeOK ==
  /\ spillset \in 1 .. Len(spillsets) + 1
  /\ attempt \in 0 .. ProbeLimit
  /\ pc \in {"outer", "probe", "done"}
  /\ \A k \in DOMAIN spillslots :
       /\ spillslots[k].next \in 0 .. Len(spillslots)
       /\ spillslots[k].size \in Sizes
  /\ \A s \in Sizes : slots_by_size[s].first \in 0 .. Len(spillslots)
                      /\ slots_by_size[s].last \in 0 .. Len(spillslots)
  /\ {spillslot_iter, first_slot, prev} \subseteq 0 .. Len(spillslots)
  /\ \A i \in DOMAIN spillsets : spillsets[i].slot \in 0 .. Len(spillslots)

(* The detailed loop implements the packing promise of spec 4.6: read   *)
(* through the mapping below, every probe, rotation and new slot is a    *)
(* step of SpillSlotPacking or leaves its state alone, so the list       *)
(* manipulation never puts a spill set into a slot of another size or    *)
(* one holding a range it overlaps, and (under the fairness of the one   *)
(* sequential loop) every spill set with bundles gets a slot.            *)
Packing == INSTANCE SpillSlotPacking WITH
  sets   <- [i \in DOMAIN spillsets |->
               [size |-> spillsets[i].size, ranges |-> spillsets[i].ranges]],
  slotOf <- [i \in DOMAIN spillsets |-> spillsets[i].slot],
  slots  <- [k \in DOMAIN spillslots |->
               [size |-> spillslots[k].size, ranges |-> spillslots[k].ranges]]
PackingSpec == Packing!Spec

(* The final layout loop gives every slot its own aligned stretch of the *)
(* frame: offsets are multiples of the slot size, the stretches of two   *)
(* slots never overlap, the reported slot number (first or last sub-slot *)
(* per multi_spillslot_named_by_last_slot) lies inside its own stretch,  *)
(* and num_spillslots covers them all.                                   *)
LayoutSound ==
  pc = "done" =>
    LET off == Offsets(spillslots) IN
    /\ \A k \in DOMAIN spillslots :
         /\ off[k] % spillslots[k].size = 0
         /\ spillslots[k].alloc \in off[k] .. off[k] + spillslots[k].size - 1
         /\ off[k] + spillslots[k].size <= num_spillslots
    /\ \A j, k \in DOMAIN spillslots :
         j < k => off[j] + spillslots[j].size <= off[k]

(* Spec 4.6: allocate_spillslots creates a new slot only if none of the *)
(* first (at most 10) slots of the set's size fits: with fewer than      *)
(* ProbeLimit slots of that size, only if no existing slot of the size   *)
(* fits.  Rotating a failed slot to the tail must keep every slot on the *)
(* list for this to hold.                                                *)
NewSlotOnlyWhenNoneFits ==
  [][(pc = "probe" /\ Len(spillslots') > Len(spillslots)) =>
       \/ attempt = ProbeLimit
       \/ \A k \in DOMAIN spillslots :
            spillslots[k].size = spillsets[spillset].size => ~CanFit(k, spillset)]_vars

=============================================================================

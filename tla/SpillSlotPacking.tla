-------------------------- MODULE SpillSlotPacking --------------------------
(***************************************************************************)
(* What spill-slot packing promises (spec 4.6), independent of how slots *)
(* are probed: every spill set that holds spilled bundles is given a      *)
(* slot of its own size, and a slot is only shared by spill sets whose    *)
(* live ranges never overlap.  A new slot may be created at any time; an  *)
(* existing slot may be reused only if the spill set fits in it.          *)
(***************************************************************************)
EXTENDS Naturals, Sequences

CONSTANTS
  Inputs          \* possible spill-set tables: Seq of [size, ranges]

VARIABLES
  sets,           \* the spill-set table, fixed by Init
  slotOf,         \* [spill set -> slot id, 0 while none]
  slots           \* Seq of [size, ranges]: each slot's occupancy

vars == <<sets, slotOf, slots>>

(* Two half-open ranges [from, to) intersect. *)
RangesOverlap(a, b) == a[2] > b[1] /\ a[1] < b[2]

Disjoint(R, S) == \A r \in R, q \in S : ~RangesOverlap(r, q)

(* A spill set that has bundles and no slot yet. *)
Waiting(i) == sets[i].ranges # {} /\ slotOf[i] = 0

Init ==
  /\ sets \in Inputs
  /\ slotOf = [i \in 1 .. Len(sets) |-> 0]
  /\ slots = <<>>

(* Give spill set i the existing slot k. *)
AssignExisting(i, k) ==
  /\ Waiting(i)
  /\ slots[k].size = sets[i].size
  /\ Disjoint(slots[k].ranges, sets[i].ranges)
  /\ slotOf' = [slotOf EXCEPT ![i] = k]
  /\ slots' = [slots EXCEPT ![k].ranges = @ \cup sets[i].ranges]
  /\ UNCHANGED sets

(* Give spill set i a fresh slot. *)
AssignNew(i) ==
  /\ Waiting(i)
  /\ slotOf' = [slotOf EXCEPT ![i] = Len(slots) + 1]
  /\ slots' = Append(slots, [size |-> sets[i].size, ranges |-> sets[i].ranges])
  /\ UNCHANGED sets

Next ==
  \E i \in DOMAIN sets :
    \/ AssignNew(i)
    \/ \E k \in DOMAIN slots : AssignExisting(i, k)

Spec == Init /\ [][Next]_vars /\ WF_vars(Next)

(* Packing is sound: spill sets placed in one slot have its size and     *)
(* pairwise disjoint ranges, so no two spilled values share stack memory  *)
(* while both are live.                                                   *)
SharedSlotsDisjoint ==
  \A i, j \in DOMAIN sets :
    (i # j /\ slotOf[i] # 0 /\ slotOf[i] = slotOf[j]) =>
      /\ sets[i].size = sets[j].size
      /\ Disjoint(sets[i].ranges, sets[j].ranges)

(* Every spill set with spilled bundles eventually has a slot. *)
AllPlaced == <>(\A i \in DOMAIN sets : ~Waiting(i))

=============================================================================

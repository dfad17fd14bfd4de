--------------------------- MODULE MoveResolution ---------------------------
(***************************************************************************)
(* resolve_inserted_moves in ion/mod.rs: the moves inserted so far are    *)
(* sorted by (program point, priority); each group with the same point    *)
(* and priority is one parallel move, which ParallelMoves turns into a    *)
(* sequence through the scratch register of the class of the group's     *)
(* first move; add_edit drops moves from a location to itself.  Then the  *)
(* block-parameter allocations are sorted by (block, index) and each      *)
(* block gets one BlockParams edit at its entry, and the edits are sorted *)
(* by (point, priority).                                                   *)
(*                                                                         *)
(* An allocation is <<class, n>>.  ParallelMoves is not in this           *)
(* repository; Sequentialize is the standard algorithm the spec names.    *)
(***************************************************************************)
EXTENDS Integers, Sequences, FiniteSets, SequencesExt

CONSTANTS
  Inputs,    \* [moves, bpa, nparams, entry]: inserted_moves, blockparam_allocs
  Scratch    \* [class -> allocation]: scratch_by_class

VARIABLES
  prog,        \* the input, kept for the properties
  inserted,    \* inserted_moves: Seq of [pos, prio, from, to]
  bp_allocs,   \* blockparam_allocs: Seq of <<block, idx, vreg, alloc>>
  edits,       \* Seq of [pos, prio, kind, ...]
  phase,       \* "sort", "moves", "params" or "done"
  i            \* the cursor of the current loop

vars == <<prog, inserted, bp_allocs, edits, phase, i>>

(* InsertMovePrio, in declaration order. *)
PrioRank == ("InEdgeMoves" :> 0) @@ ("BlockParam" :> 1) @@ ("Regular" :> 2)
            @@ ("MultiFixedReg" :> 3) @@ ("ReusedInput" :> 4) @@ ("OutEdgeMoves" :> 5)

Class(a) == a[1]

RECURSIVE LexLess(_, _)
LexLess(a, b) == a # <<>> /\ (a[1] < b[1] \/ (a[1] = b[1] /\ LexLess(Tail(a), Tail(b))))

(* A stable sort of s by the keys ks (ks[k] is the key of s[k]): Rust's   *)
(* sort_by_key.                                                            *)
StableSortBy(s, ks) ==
  LET order == SortSeq([k \in DOMAIN s |-> k],
                       LAMBDA a, b : LexLess(Append(ks[a], a), Append(ks[b], b)))
  IN [k \in DOMAIN s |-> s[order[k]]]

MoveKey(m) == <<m.pos, PrioRank[m.prio]>>

(* ParallelMoves::resolve: emit a move whose destination no other pending *)
(* move reads; when only cycles are left, save one destination in the     *)
(* scratch register and read it from there.                               *)
RECURSIVE Sequentialize(_, _)
Sequentialize(pending, scratch) ==
  IF pending = <<>> THEN <<>>
  ELSE LET ready == {k \in DOMAIN pending :
                       \A j \in DOMAIN pending : j # k => pending[j].from # pending[k].to}
       IN IF ready # {}
          THEN LET k == CHOOSE k \in ready : \A j \in ready : k <= j
               IN <<pending[k]>> \o Sequentialize(RemoveAt(pending, k), scratch)
          ELSE LET d == pending[1].to
               IN <<[from |-> d, to |-> scratch]>>
                  \o Sequentialize([m \in DOMAIN pending |->
                                      IF pending[m].from = d
                                      THEN [pending[m] EXCEPT !.from = scratch]
                                      ELSE pending[m]], scratch)

(* Mutant: moves are grouped by program point only. *)
SameKeyPosOnly(j, k) == inserted[j].pos = inserted[k].pos

(* Move j is in the same (pos, prio) group as move k. *)
SameKey(j, k) == inserted[j].pos = inserted[k].pos /\ inserted[j].prio = inserted[k].prio

(* The first move after the group that starts at k. *)
GroupEnd(k) ==
  CHOOSE e \in k + 1 .. Len(inserted) + 1 :
    /\ \A j \in k .. e - 1 : SameKey(j, k)
    /\ e <= Len(inserted) => ~SameKey(e, k)

(* add_edit for each resolved move: a move to its own source is dropped. *)
MoveEdits(pos, prio, ms) ==
  LET kept == SelectSeq(ms, LAMBDA m : m.from # m.to)
  IN [k \in DOMAIN kept |-> [pos |-> pos, prio |-> prio, kind |-> "Move",
                             from |-> kept[k].from, to |-> kept[k].to]]

Init ==
  /\ prog \in Inputs
  /\ inserted = prog.moves
  /\ bp_allocs = prog.bpa
  /\ edits = <<>>
  /\ phase = "sort"
  /\ i = 1

(* inserted_moves.sort_by_key(|m| (m.pos.to_index(), m.prio)) *)
SortInserted ==
  /\ phase = "sort"
  /\ inserted' = StableSortBy(inserted, [k \in DOMAIN inserted |-> MoveKey(inserted[k])])
  /\ phase' = "moves"
  /\ UNCHANGED <<prog, bp_allocs, edits, i>>

(* One group of parallel moves, resolved through the scratch register of *)
(* the class of its first move.                                           *)
ResolveGroup ==
  /\ phase = "moves"
  /\ i <= Len(inserted)
  /\ LET e == GroupEnd(i)
         grp == SubSeq(inserted, i, e - 1)
         scratch == Scratch[Class(grp[1].from)]
         pm == SelectSeq(grp, LAMBDA m : m.from # m.to)
     IN /\ edits' = edits \o MoveEdits(grp[1].pos, grp[1].prio, Sequentialize(pm, scratch))
        /\ i' = e
  /\ UNCHANGED <<prog, inserted, bp_allocs, phase>>

(* Mutant: the cursor is not reset for the block-parameter loop. *)
MovesDoneNoReset ==
  /\ phase = "moves"
  /\ i > Len(inserted)
  /\ bp_allocs' = StableSortBy(bp_allocs, [k \in DOMAIN bp_allocs |-> <<bp_allocs[k][1], bp_allocs[k][2]>>])
  /\ phase' = "params"
  /\ UNCHANGED <<prog, inserted, edits, i>>

(* Mutant: blockparam_allocs are sorted by block only. *)
MovesDoneBlockOnly ==
  /\ phase = "moves"
  /\ i > Len(inserted)
  /\ bp_allocs' = StableSortBy(bp_allocs, [k \in DOMAIN bp_allocs |-> <<bp_allocs[k][1]>>])
  /\ phase' = "params"
  /\ i' = 1
  /\ UNCHANGED <<prog, inserted, edits>>

(* The loop over moves ends; blockparam_allocs are sorted by (block, idx). *)
MovesDone ==
  /\ phase = "moves"
  /\ i > Len(inserted)
  /\ bp_allocs' = StableSortBy(bp_allocs, [k \in DOMAIN bp_allocs |-> <<bp_allocs[k][1], bp_allocs[k][2]>>])
  /\ phase' = "params"
  /\ i' = 1
  /\ UNCHANGED <<prog, inserted, edits>>

(* One block's BlockParams edit at its entry, after both length asserts. *)
EmitBlockParams ==
  /\ phase = "params"
  /\ i <= Len(bp_allocs)
  /\ LET block == bp_allocs[i][1]
         e == CHOOSE e \in i + 1 .. Len(bp_allocs) + 1 :
                /\ \A j \in i .. e - 1 : bp_allocs[j][1] = block
                /\ e <= Len(bp_allocs) => bp_allocs[e][1] # block
         params == SubSeq(bp_allocs, i, e - 1)
     IN /\ Len(params) = prog.nparams[block]
        /\ edits' = Append(edits, [pos |-> prog.entry[block], prio |-> "BlockParam",
                                   kind |-> "BlockParams",
                                   vregs |-> [k \in DOMAIN params |-> params[k][3]],
                                   allocs |-> [k \in DOMAIN params |-> params[k][4]]])
        /\ i' = e
  /\ UNCHANGED <<prog, inserted, bp_allocs, phase>>

(* edits.sort_by_key(|&(pos, prio, _)| (pos, prio)) *)
SortEdits ==
  /\ phase = "params"
  /\ i > Len(bp_allocs)
  /\ edits' = StableSortBy(edits, [k \in DOMAIN edits |-> MoveKey(edits[k])])
  /\ phase' = "done"
  /\ UNCHANGED <<prog, inserted, bp_allocs, i>>

(* The function returned. *)
Terminating == phase = "done" /\ UNCHANGED vars

Next ==
  \/ SortInserted
  \/ ResolveGroup
  \/ MovesDone
  \/ EmitBlockParams
  \/ SortEdits
  \/ Terminating

Spec == Init /\ [][Next]_vars /\ WF_vars(Next)

-----------------------------------------------------------------------------
(* The locations the moves name, and the scratch registers. *)
Locs == {m.from : m \in ToSet(prog.moves)} \cup {m.to : m \in ToSet(prog.moves)}
        \cup Range(Scratch)

(* Executing moves one at a time on a register file val. *)
RECURSIVE Exec(_, _)
Exec(ms, val) ==
  IF ms = <<>> THEN val
  ELSE Exec(Tail(ms), [val EXCEPT ![Head(ms).to] = val[Head(ms).from]])

GroupKeys == {<<m.pos, m.prio>> : m \in ToSet(prog.moves)}

(* The Move edits of group k, in the order of the edit list. *)
SerialMoves(k) == SelectSeq(edits, LAMBDA e : e.kind = "Move" /\ <<e.pos, e.prio>> = k)

(* What the parallel move k leaves in location l. *)
ParallelValue(k, l) ==
  LET writers == {m \in ToSet(prog.moves) : <<m.pos, m.prio>> = k /\ m.to = l}
  IN IF writers = {} THEN l ELSE (CHOOSE m \in writers : TRUE).from

BlockParamEdits(b) ==
  {j \in DOMAIN edits : edits[j].kind = "BlockParams" /\ edits[j].pos = prog.entry[b]}

(* The (block, idx) pairs of block b's parameters, in index order. *)
ParamsInOrder(b) ==
  SetToSortSeq({p \in ToSet(prog.bpa) : p[1] = b}, LAMBDA p, q : p[2] < q[2])

-----------------------------------------------------------------------------
(* Type invariant: the cursor of each loop stays within one past the end   *)
(* of the vector it walks, and every edit is a Move or a BlockParams with a *)
(* priority of InsertMovePrio.                                             *)
TypeOK ==
  /\ phase \in {"sort", "moves", "params", "done"}
  /\ phase = "moves" => i \in 1 .. Len(inserted) + 1
  /\ phase = "params" => i \in 1 .. Len(bp_allocs) + 1
  /\ \A j \in DOMAIN edits :
       /\ edits[j].prio \in DOMAIN PrioRank
       /\ edits[j].kind \in {"Move", "BlockParams"}

(* resolve_inserted_moves serialises each (point, priority) group: running *)
(* the group's Move edits one after another, in the order they appear in   *)
(* the sorted edit list, leaves every non-scratch location holding what     *)
(* the parallel move puts there, and no Move edit appears at a point and    *)
(* priority where no move was inserted.                                     *)
EditsImplementMoves ==
  phase = "done" =>
    /\ \A k \in GroupKeys :
         LET val == Exec(SerialMoves(k), [l \in Locs |-> l])
         IN \A l \in Locs \ Range(Scratch) : val[l] = ParallelValue(k, l)
    /\ \A j \in DOMAIN edits :
         edits[j].kind = "Move" => <<edits[j].pos, edits[j].prio>> \in GroupKeys

(* The final edit list is sorted by (point, priority), holds no Move from a *)
(* location to itself, and has exactly one BlockParams edit at the entry of *)
(* each block with parameters, listing their allocations in index order.   *)
EditsWellFormed ==
  phase = "done" =>
    /\ \A j \in 1 .. Len(edits) - 1 :
         ~LexLess(MoveKey(edits[j + 1]), MoveKey(edits[j]))
    /\ \A j \in DOMAIN edits : edits[j].kind = "Move" => edits[j].from # edits[j].to
    /\ \A b \in DOMAIN prog.nparams :
         prog.nparams[b] > 0 =>
           \E j \in BlockParamEdits(b) :
             /\ BlockParamEdits(b) = {j}
             /\ edits[j].allocs = [k \in DOMAIN ParamsInOrder(b) |-> ParamsInOrder(b)[k][4]]

(* Every Move edit stays within one register class: the scratch register  *)
(* used to break a cycle belongs to the class of the moves in the cycle   *)
(* (spec section 5: "the class-appropriate scratch preg").                *)
EditClassesMatch ==
  \A j \in DOMAIN edits :
    edits[j].kind = "Move" => Class(edits[j].from) = Class(edits[j].to)

=============================================================================

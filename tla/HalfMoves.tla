----------------------------- MODULE HalfMoves -----------------------------
(***************************************************************************)
(* apply_allocations_and_insert_moves in ion/mod.rs, the part that turns  *)
(* allocated live ranges into moves.  One scan over every vreg's ranges   *)
(* (first_range, next_in_reg) inserts a move where a range abuts the      *)
(* previous one inside a block, records blockparam_allocs, sets the       *)
(* allocation of every def and use in the range, and emits half-moves:    *)
(* a Source for each block exit the range covers, towards a successor it  *)
(* does not cover (and for each matching blockparam_outs entry), and a    *)
(* Dest for each block entry it covers, from a predecessor it does not    *)
(* cover (and for each matching blockparam_ins entry).  The half-moves    *)
(* are sorted by their packed key; every Source is then joined with the   *)
(* Dests that follow it and the moves go at the tail of the source block  *)
(* or the head of the target block, or the allocator panics on a          *)
(* critical edge.                                                          *)
(*                                                                         *)
(* Every block has two instructions, 2b and 2b+1; program point 2i is     *)
(* Before(i) and 2i+1 is After(i) (ProgPoint::to_index).  The allocation  *)
(* of a range (get_alloc_for_range) is the range itself, <<vreg, k>>, so  *)
(* a move between two ranges is never confused with another one.          *)
(***************************************************************************)
EXTENDS Integers, Sequences, FiniteSets, SequencesExt, Functions, Bitwise

CONSTANTS
  Inputs,   \* possible programs, each with its live ranges and liveness
  W         \* width of one half-move key field (21 in the code)

VARIABLES
  prog,        \* [succs, def, arg, ranges, liveins, usepts, bpo, bpi]
  phase,       \* "scan", "match", "done" or "panic"
  vi, ri,      \* the vreg and the range (index in next_in_reg order) scanned
  half_moves,  \* Seq of [key, alloc]
  bpo_idx,     \* blockparam_out_idx
  bpi_idx,     \* blockparam_in_idx
  inserted,    \* inserted_moves: Seq of [pos, prio, from, to]
  bp_allocs,   \* blockparam_allocs: Seq of <<block, vreg, alloc>>
  op_allocs,   \* allocation of every def and use: [<<vreg, point>> -> alloc]
  mi           \* i of the matching loop

vars == <<prog, phase, vi, ri, half_moves, bpo_idx, bpi_idx, inserted,
          bp_allocs, op_allocs, mi>>

NoAlloc == <<>>

Blocks == DOMAIN prog.succs
NumBlocks == Cardinality(Blocks)
VRegs == DOMAIN prog.def
NumVRegs == Cardinality(VRegs)
Preds(b) == {p \in Blocks : b \in prog.succs[p]}
Entry(b) == 4 * b
Exit(b) == 4 * b + 3
InsnBlock(x) == x \div 4
IsStartOfBlock(x) == x = Entry(InsnBlock(x))
IsRet(b) == prog.succs[b] = {}
DefBlock(v) == prog.def[v].block
DefPoint(v) == IF prog.def[v].param THEN Entry(DefBlock(v)) ELSE Entry(DefBlock(v)) + 1
IsParam(v) == prog.def[v].param
Rng(v, k) == prog.ranges[v][k]
Covers(r, x) == r.from <= x /\ x < r.to

(* Lexicographic order on tuples, the order of Rust's tuple comparison. *)
RECURSIVE LexLess(_, _)
LexLess(a, b) == a # <<>> /\ (a[1] < b[1] \/ (a[1] = b[1] /\ LexLess(Tail(a), Tail(b))))

Source == 0
Dest == 1

(* Mutant: the fields packed without the gap for the kind bit. *)
half_move_key_narrow(from_block, to_block, to_vreg, kind) ==
  (from_block * 2^(2 * W)) | (to_block * 2^W) | (to_vreg * 2) | kind

half_move_key(from_block, to_block, to_vreg, kind) ==
  (from_block * 2^(2 * W + 1)) | (to_block * 2^(W + 1)) | (to_vreg * 2) | kind

hm_from_block(key) == shiftR(key, 2 * W + 1) & (2^W - 1)
hm_to_block(key) == shiftR(key, W + 1) & (2^W - 1)
hm_kind(key) == IF (key & 1) = 1 THEN Dest ELSE Source

HalfMove(f, t, v, kind, a) == [key |-> half_move_key(f, t, v, kind), alloc |-> a]

(* The inner loop over blockparam_outs at block b: entries are sorted by  *)
(* (from_vreg, from_block, to_block, to_vreg).                            *)
RECURSIVE BpoScan(_, _, _, _, _)
BpoScan(v, b, a, hm, idx) ==
  IF idx > Len(prog.bpo) \/ LexLess(<<v, b>>, SubSeq(prog.bpo[idx], 1, 2))
  THEN [hm |-> hm, idx |-> idx]
  ELSE LET e == prog.bpo[idx]
       IN BpoScan(v, b, a,
                  IF SubSeq(e, 1, 2) = <<v, b>>
                  THEN Append(hm, HalfMove(e[2], e[3], e[4], Source, a)) ELSE hm,
                  idx + 1)

(* Blocks whose exit range r covers: a Source towards every successor r  *)
(* does not cover where the vreg is live in, then the blockparam outs.   *)
RECURSIVE SourceScan(_, _, _, _, _)
SourceScan(v, k, b, hm, idx) ==
  LET r == Rng(v, k)
  IN IF b >= NumBlocks \/ r.to < Exit(b) + 1 THEN [hm |-> hm, idx |-> idx]
     ELSE LET outs == {HalfMove(b, s, v, Source, <<v, k>>) :
                         s \in {s \in prog.succs[b] :
                                  ~Covers(r, Entry(s)) /\ v \in prog.liveins[s]}}
              bp == BpoScan(v, b, <<v, k>>, hm \o SetToSeq(outs), idx)
          IN SourceScan(v, k, b + 1, bp.hm, bp.idx)

(* The inner loop over blockparam_ins at block b, sorted by              *)
(* (to_vreg, to_block, from_block).                                       *)
RECURSIVE BpiScan(_, _, _, _, _)
BpiScan(v, b, a, hm, idx) ==
  IF idx > Len(prog.bpi) \/ LexLess(<<v, b>>, SubSeq(prog.bpi[idx], 1, 2))
  THEN [hm |-> hm, idx |-> idx]
  ELSE LET e == prog.bpi[idx]
       IN BpiScan(v, b, a,
                  IF SubSeq(e, 1, 2) = <<v, b>>
                  THEN Append(hm, HalfMove(e[3], e[2], e[1], Dest, a)) ELSE hm,
                  idx + 1)

(* Mutant: the scan of block entries starts at the block of r.from even *)
(* when r starts after that block's entry.                                *)
DestStartNoAdvance(r) == InsnBlock(r.from)

(* The first block whose entry r covers. *)
DestStart(r) == IF Entry(InsnBlock(r.from)) < r.from THEN InsnBlock(r.from) + 1
                ELSE InsnBlock(r.from)

(* Blocks whose entry range r covers: the blockparam ins, then, unless   *)
(* the vreg is defined in the block or not live in, a Dest from every     *)
(* predecessor whose exit r does not cover.                               *)
RECURSIVE DestScan(_, _, _, _, _)
DestScan(v, k, b, hm, idx) ==
  LET r == Rng(v, k)
  IN IF b >= NumBlocks \/ Entry(b) >= r.to THEN [hm |-> hm, idx |-> idx]
     ELSE LET bp == BpiScan(v, b, <<v, k>>, hm, idx)
              ins == IF b = DefBlock(v) \/ v \notin prog.liveins[b] THEN {}
                     ELSE {HalfMove(p, b, v, Dest, <<v, k>>) :
                             p \in {p \in Preds(b) : ~Covers(r, Exit(p))}}
          IN DestScan(v, k, b + 1, bp.hm \o SetToSeq(ins), bp.idx)

(* The move from the previous range when it ends where range k starts,   *)
(* inside a block and not at the def.                                     *)
AbutMove(v, k) ==
  IF k > 1 /\ Rng(v, k - 1).to = Rng(v, k).from
     /\ ~IsStartOfBlock(Rng(v, k).from) /\ DefPoint(v) # Rng(v, k).from
  THEN <<[pos |-> Rng(v, k).from, prio |-> "Regular", from |-> <<v, k - 1>>,
          to |-> <<v, k>>]>>
  ELSE <<>>

(* Mutant: next_in_reg is followed one step past the last range. *)
LastRangeLate(v, k) == k = Len(prog.ranges[v]) + 1

(* next_in_reg of range k is invalid. *)
LastRange(v, k) == k = Len(prog.ranges[v])

Slots == {<<v, DefPoint(v)>> : v \in VRegs}
         \cup UNION {{<<v, u>> : u \in prog.usepts[v]} : v \in VRegs}

Init ==
  /\ prog \in Inputs
  /\ phase = "scan"
  /\ vi = 0
  /\ ri = 1
  /\ half_moves = <<>>
  /\ bpo_idx = 1
  /\ bpi_idx = 1
  /\ inserted = <<>>
  /\ bp_allocs = <<>>
  /\ op_allocs = [s \in Slots |-> NoAlloc]
  /\ mi = 1

(* One iteration of the loop over a vreg's ranges. *)
ScanRange ==
  /\ phase = "scan"
  /\ vi < NumVRegs
  /\ LET r == Rng(vi, ri)
         src == SourceScan(vi, ri, InsnBlock(r.from), half_moves, bpo_idx)
         dst == DestScan(vi, ri, DestStart(r), src.hm, bpi_idx)
     IN /\ inserted' = inserted \o AbutMove(vi, ri)
        /\ half_moves' = dst.hm
        /\ bpo_idx' = src.idx
        /\ bpi_idx' = dst.idx
        /\ bp_allocs' = IF IsParam(vi) /\ Covers(r, Entry(DefBlock(vi)))
                        THEN Append(bp_allocs, <<DefBlock(vi), vi, <<vi, ri>>>>)
                        ELSE bp_allocs
        /\ op_allocs' = [s \in Slots |-> IF s[1] = vi /\ Covers(r, s[2])
                                         THEN <<vi, ri>> ELSE op_allocs[s]]
        /\ IF ~LastRange(vi, ri)
           THEN vi' = vi /\ ri' = ri + 1
           ELSE vi' = vi + 1 /\ ri' = 1
  /\ UNCHANGED <<prog, phase, mi>>

(* half_moves.sort_by_key(|h| h.key) *)
SortHalfMoves ==
  /\ phase = "scan"
  /\ vi = NumVRegs
  /\ half_moves' = SortSeq(half_moves, LAMBDA x, y : x.key < y.key)
  /\ phase' = "match"
  /\ UNCHANGED <<prog, vi, ri, bpo_idx, bpi_idx, inserted, bp_allocs, op_allocs, mi>>

(* Indices, from i on, of the Sources in the sorted half-moves. *)
SourcesFrom(i) == {j \in i .. Len(half_moves) : hm_kind(half_moves[j].key) = Source}

(* last_dest: the end of the run of Dests after the Source at i. *)
DestEnd(i) ==
  LET dest_key == half_moves[i].key | 1
  IN CHOOSE e \in i + 1 .. Len(half_moves) + 1 :
       /\ \A j \in i + 1 .. e - 1 : half_moves[j].key = dest_key
       /\ e <= Len(half_moves) => half_moves[e].key # dest_key

FromOuts(f) == Cardinality(prog.succs[f]) + (IF IsRet(f) THEN 1 ELSE 0)
ToIns(t) == Cardinality(Preds(t)) + (IF t = 0 THEN 1 ELSE 0)

(* Mutant: the second test checks the source block instead of the target. *)
CriticalSwapped(f, t) == ~(ToIns(t) > 1 /\ FromOuts(f) <= 1) /\ ~(FromOuts(f) <= 1)

(* Neither placement applies: the else-branch that panics. *)
Critical(f, t) == ~(ToIns(t) > 1 /\ FromOuts(f) <= 1) /\ ~(ToIns(t) <= 1)

(* After the branch of f when t has several ways in, else before the     *)
(* first instruction of t.                                                *)
EdgePlacement(f, t) ==
  IF ToIns(t) > 1 /\ FromOuts(f) <= 1
  THEN [pos |-> Exit(f), prio |-> "OutEdgeMoves"]
  ELSE [pos |-> Entry(t), prio |-> "InEdgeMoves"]

(* One iteration of the matching loop: a Source and the Dests after it   *)
(* become moves on their edge.                                            *)
MatchSource ==
  /\ phase = "match"
  /\ SourcesFrom(mi) # {}
  /\ LET i == Min(SourcesFrom(mi))
         src == half_moves[i]
         f == hm_from_block(src.key)
         t == hm_to_block(src.key)
         e == DestEnd(i)
         at == EdgePlacement(f, t)
     IN /\ ~Critical(f, t)
        /\ inserted' = inserted \o
             [j \in 1 .. e - i - 1 |-> [pos |-> at.pos, prio |-> at.prio,
                                        from |-> src.alloc,
                                        to |-> half_moves[i + j].alloc]]
        /\ mi' = e
  /\ UNCHANGED <<prog, phase, vi, ri, half_moves, bpo_idx, bpi_idx, bp_allocs, op_allocs>>

(* The Source found is on a critical edge: panic. *)
CriticalEdgePanic ==
  /\ phase = "match"
  /\ SourcesFrom(mi) # {}
  /\ LET src == half_moves[Min(SourcesFrom(mi))]
     IN Critical(hm_from_block(src.key), hm_to_block(src.key))
  /\ phase' = "panic"
  /\ UNCHANGED <<prog, vi, ri, half_moves, bpo_idx, bpi_idx, inserted, bp_allocs, op_allocs, mi>>

(* No Source is left: the edge moves are all inserted. *)
MatchingDone ==
  /\ phase = "match"
  /\ SourcesFrom(mi) = {}
  /\ phase' = "done"
  /\ UNCHANGED <<prog, vi, ri, half_moves, bpo_idx, bpi_idx, inserted, bp_allocs, op_allocs, mi>>

(* The allocator returned or panicked. *)
Terminating == phase \in {"done", "panic"} /\ UNCHANGED vars

Next ==
  \/ ScanRange
  \/ SortHalfMoves
  \/ MatchSource
  \/ CriticalEdgePanic
  \/ MatchingDone
  \/ Terminating

Spec == Init /\ [][Next]_vars /\ WF_vars(Next)


-----------------------------------------------------------------------------
(***************************************************************************)
(* What the moves must be, stated from the ranges and the CFG alone.      *)
(***************************************************************************)
Allocs == UNION {{<<v, k>> : k \in DOMAIN prog.ranges[v]} : v \in VRegs}
Live(v, x) == \E k \in DOMAIN prog.ranges[v] : Covers(Rng(v, k), x)
RangeAt(v, x) == <<v, CHOOSE k \in DOMAIN prog.ranges[v] : Covers(Rng(v, k), x)>>
Edges == {e \in Blocks \X Blocks : e[2] \in prog.succs[e[1]]}
Params == {t \in VRegs : IsParam(t)}

(* Pairs <<range at the exit of p, range at the entry of s>> that must be *)
(* connected on edge p -> s: every vreg live into s and not defined in s, *)
(* and every block parameter of s with the argument p passes.             *)
EdgeTransfers(p, s) ==
  {m \in {<<RangeAt(v, Exit(p)), RangeAt(v, Entry(s))>> :
            v \in {v \in VRegs : v \in prog.liveins[s] /\ DefBlock(v) # s}}
         \cup {<<RangeAt(prog.arg[t], Exit(p)), RangeAt(t, Entry(s))>> :
                 t \in {t \in Params : DefBlock(t) = s}} :
     m[1] # m[2]}

(* Where moves of edge p -> s run on that edge only: after the branch of  *)
(* p when s can be entered another way, else at the head of s.            *)
EdgeSite(p, s) ==
  IF Cardinality(Preds(s)) + (IF s = 0 THEN 1 ELSE 0) > 1
  THEN [pos |-> Exit(p), prio |-> "OutEdgeMoves"]
  ELSE [pos |-> Entry(s), prio |-> "InEdgeMoves"]

(* Points inside a block, other than the def, where a vreg passes from    *)
(* one range to the next.                                                  *)
SplitPoints ==
  {vx \in VRegs \X (1 .. 4 * NumBlocks - 1) :
     /\ Live(vx[1], vx[2] - 1) /\ Live(vx[1], vx[2])
     /\ RangeAt(vx[1], vx[2] - 1) # RangeAt(vx[1], vx[2])
     /\ ~IsStartOfBlock(vx[2]) /\ vx[2] # DefPoint(vx[1])}

RequiredMoves ==
  UNION {{[pos |-> EdgeSite(e[1], e[2]).pos, prio |-> EdgeSite(e[1], e[2]).prio,
           from |-> m[1], to |-> m[2]] : m \in EdgeTransfers(e[1], e[2])} : e \in Edges}
  \cup {[pos |-> vx[2], prio |-> "Regular", from |-> RangeAt(vx[1], vx[2] - 1),
         to |-> RangeAt(vx[1], vx[2])] : vx \in SplitPoints}

(* A critical edge in the sense of the spec's glossary. *)
CriticalEdge(e) == Cardinality(prog.succs[e[1]]) > 1 /\ Cardinality(Preds(e[2])) > 1

-----------------------------------------------------------------------------
(* Every variable has its type; every half-move key decodes to blocks of  *)
(* the program, and the scan never runs past a vreg's last range.         *)
TypeOK ==
  /\ phase \in {"scan", "match", "done", "panic"}
  /\ vi \in 0 .. NumVRegs
  /\ vi < NumVRegs => ri \in DOMAIN prog.ranges[vi]
  /\ half_moves \in Seq([key : Nat, alloc : Allocs])
  /\ \A h \in ToSet(half_moves) :
       hm_from_block(h.key) \in Blocks /\ hm_to_block(h.key) \in Blocks
  /\ inserted \in Seq([pos : 0 .. 4 * NumBlocks - 1,
                       prio : {"Regular", "InEdgeMoves", "OutEdgeMoves"},
                       from : Allocs, to : Allocs])
  /\ bp_allocs \in Seq(Blocks \X VRegs \X Allocs)
  /\ op_allocs \in [Slots -> Allocs \cup {NoAlloc}]
  /\ mi \in 1 .. Len(half_moves) + 1

(* The moves apply_allocations_and_insert_moves inserts are exactly the   *)
(* ones the ranges call for (spec 8, invariant 3): never a move that is   *)
(* not needed or a move twice, and once it returns, every value crossing *)
(* an edge moved on that edge, every split inside a block bridged, every  *)
(* block parameter's allocation recorded and every def and use given the  *)
(* allocation of the range that holds it.  This covers the Source/Dest    *)
(* scans with their two cursors, the packed sort key and the matching.    *)
EditsExact ==
  /\ IsInjective(inserted)
  /\ ToSet(inserted) \subseteq RequiredMoves
  /\ phase = "done" =>
       /\ ToSet(inserted) = RequiredMoves
       /\ ToSet(bp_allocs) = {<<DefBlock(t), t, RangeAt(t, Entry(DefBlock(t)))>> : t \in Params}
       /\ \A s \in Slots : op_allocs[s] = RangeAt(s[1], s[2])

(* The allocator panics at move insertion exactly when a value must cross *)
(* a critical edge (spec 7 and boundary scenario 4), and returns normally *)
(* otherwise.                                                              *)
PanicIffCriticalTransfer ==
  /\ phase = "panic" => \E e \in Edges : CriticalEdge(e) /\ EdgeTransfers(e[1], e[2]) # {}
  /\ phase = "done" => \A e \in Edges : CriticalEdge(e) => EdgeTransfers(e[1], e[2]) = {}

====

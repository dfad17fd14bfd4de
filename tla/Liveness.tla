------------------------------ MODULE Liveness ------------------------------
(***************************************************************************)
(* compute_liveness of ion/mod.rs over a CFG, with add_liverange_to_vreg  *)
(* and distribute_liverange_uses.  The blocks are visited in postorder;   *)
(* each visit seeds the live set from the successors' live-ins, opens a   *)
(* whole-block range per live vreg, walks the instructions backwards      *)
(* (a def trims its vreg's current range and kills it, a use opens or     *)
(* extends [block entry, use + 1) and makes it live), handles the block   *)
(* parameters, and, when a predecessor has an earlier postorder index,    *)
(* adds one range over the whole postorder interval for every vreg live   *)
(* at the block's top.                                                     *)
(*                                                                         *)
(* Every block has two instructions: a body instruction 2b and the        *)
(* terminator 2b + 1, a branch when the block has successors.  Block b's  *)
(* points are 4b (its entry) to 4b + 3 (its exit).                        *)
(***************************************************************************)
EXTENDS Integers, Sequences, FiniteSets, SequencesExt

CONSTANTS
  VRegs,     \* 0 .. num_vregs - 1
  Progs      \* possible functions: [succs, postorder, params, insts]

VARIABLES
  prog,            \* the function
  lrs,             \* the range arena: Seq of [vreg, from, to, def, uses]
  first,           \* [VRegs -> Seq of arena indices]: each vreg's next_in_reg list
  vreg_ranges,     \* [VRegs -> arena index or 0]
  liveins,         \* [Blocks -> SUBSET VRegs]
  live,            \* the live set of the block being visited
  bp_outs,         \* blockparam_outs: Seq of <<from vreg, block, succ, param>>
  bp_ins,          \* blockparam_ins: Seq of <<param, block, pred>>
  i,               \* the postorder index of the block being visited
  k,               \* the instruction of the block still to visit: 2, 1, or 0
  pc               \* "seed", "insts", "end" or "done"

vars == <<prog, lrs, first, vreg_ranges, liveins, live, bp_outs, bp_ins, i, k, pc>>

Blocks == DOMAIN prog.succs
Before(x) == 2 * x
After(x) == 2 * x + 1
BlockEntry(b) == 4 * b
BlockExit(b) == 4 * b + 3
Preds(b) == {p \in Blocks : \E j \in DOMAIN prog.succs[p] : prog.succs[p][j] = b}
IsBranch(b) == prog.succs[b] # <<>>

(* cfginfo.postorder: a depth-first walk from the entry block taking the  *)
(* successors in order; a block is emitted once all its successors are.   *)
(* CFGInfo computes it once, before the pass; the function carries it.    *)
RECURSIVE DFS(_, _, _), DFSList(_, _, _)
DFSList(sc, bs, st) ==
  IF bs = <<>> THEN st
  ELSE DFSList(sc, Tail(bs), IF Head(bs) \in st.seen THEN st ELSE DFS(sc, Head(bs), st))

DFS(sc, b, st) ==
  LET r == DFSList(sc, sc[b], [st EXCEPT !.seen = @ \cup {b}])
  IN [r EXCEPT !.po = Append(@, b)]

PostorderOf(sc) == DFS(sc, 0, [seen |-> {}, po |-> <<>>]).po

Postorder == prog.postorder

PoIndex(b) == CHOOSE j \in DOMAIN Postorder : Postorder[j] = b
InPostorder(b) == \E j \in DOMAIN Postorder : Postorder[j] = b

-----------------------------------------------------------------------------
(* add_liverange_to_vreg, one existing range of the walk.  acc holds the  *)
(* arena, the new list (`kept`), the length of its prefix of lower bounds *)
(* (`after`), the range merged into (0: none) and whether the walk broke.  *)
(* The COALESCE_LIMIT of 100000 ranges is never reached by these inputs.  *)
DistributeUses(a, from, into) ==
  LET moved == {u \in a[from].uses : a[into].from <= u /\ u < a[into].to}
  IN [a EXCEPT ![from].uses = @ \ moved,
               ![into].uses = @ \cup moved,
               ![into].def = @ \/ a[from].def]

(* Mutant: a later overlapping range is unlinked without its uses being  *)
(* moved into the range merged into.                                      *)
AddStepNoDistribute(r, acc, e) ==
    LET a == acc.lrs  ex == a[e]
    IN IF acc.stop THEN [acc EXCEPT !.kept = Append(@, e)]
       ELSE IF r.from >= ex.to
       THEN [acc EXCEPT !.kept = Append(@, e), !.after = Len(acc.kept) + 1]
       ELSE IF r.to <= ex.from
       THEN [acc EXCEPT !.kept = Append(@, e), !.stop = TRUE]
       ELSE IF acc.merged = 0
       THEN [acc EXCEPT !.lrs[e].from = IF r.from < ex.from THEN r.from ELSE ex.from,
                        !.lrs[e].to = IF r.to > ex.to THEN r.to ELSE ex.to,
                        !.merged = e, !.kept = Append(@, e)]
       ELSE LET m == acc.merged
            IN [acc EXCEPT !.lrs[m].to = IF ex.to > a[m].to THEN ex.to ELSE a[m].to]

AddStep(r, acc, e) ==
    LET a == acc.lrs  ex == a[e]
    IN IF acc.stop THEN [acc EXCEPT !.kept = Append(@, e)]
       ELSE IF r.from >= ex.to
       THEN [acc EXCEPT !.kept = Append(@, e), !.after = Len(acc.kept) + 1]
       ELSE IF r.to <= ex.from
       THEN [acc EXCEPT !.kept = Append(@, e), !.stop = TRUE]
       ELSE IF acc.merged = 0
       THEN [acc EXCEPT !.lrs[e].from = IF r.from < ex.from THEN r.from ELSE ex.from,
                        !.lrs[e].to = IF r.to > ex.to THEN r.to ELSE ex.to,
                        !.merged = e, !.kept = Append(@, e)]
       ELSE LET m == acc.merged
                a2 == [a EXCEPT ![m].to = IF ex.to > a[m].to THEN ex.to ELSE a[m].to]
            IN [acc EXCEPT !.lrs = DistributeUses(a2, e, m)]

(* Mutant: the new range is linked at the head of the list, ahead of    *)
(* the ranges the walk passed as lying below it.                          *)
AddLiveRangeAtHead(a, lst, v, r) ==
  LET w == FoldLeft(LAMBDA acc, e : AddStep(r, acc, e), [lrs |-> a, kept |-> <<>>, after |-> 0,
                                 merged |-> 0, stop |-> FALSE], lst[v])
      n == Len(a) + 1
  IN IF w.merged # 0
     THEN [lrs |-> w.lrs, first |-> [lst EXCEPT ![v] = w.kept], lr |-> w.merged]
     ELSE [lrs |-> Append(a, [vreg |-> v, from |-> r.from, to |-> r.to,
                              def |-> FALSE, uses |-> {}]),
           first |-> [lst EXCEPT ![v] = <<n>> \o w.kept],
           lr |-> n]

(* Mutant: the new range's index is taken from the arena after the push. *)
AddLiveRangeIndexAfterPush(a, lst, v, r) ==
  LET w == FoldLeft(LAMBDA acc, e : AddStep(r, acc, e), [lrs |-> a, kept |-> <<>>, after |-> 0,
                                 merged |-> 0, stop |-> FALSE], lst[v])
      a2 == Append(a, [vreg |-> v, from |-> r.from, to |-> r.to, def |-> FALSE, uses |-> {}])
      n == Len(a2) + 1
  IN IF w.merged # 0
     THEN [lrs |-> w.lrs, first |-> [lst EXCEPT ![v] = w.kept], lr |-> w.merged]
     ELSE [lrs |-> a2,
           first |-> [lst EXCEPT ![v] = SubSeq(w.kept, 1, w.after) \o <<n>>
                                        \o SubSeq(w.kept, w.after + 1, Len(w.kept))],
           lr |-> n]

(* Returns the arena, vreg v's new list and the range holding r. *)
AddLiveRange(a, lst, v, r) ==
  LET w == FoldLeft(LAMBDA acc, e : AddStep(r, acc, e), [lrs |-> a, kept |-> <<>>, after |-> 0,
                                 merged |-> 0, stop |-> FALSE], lst[v])
      n == Len(a) + 1
  IN IF w.merged # 0
     THEN [lrs |-> w.lrs, first |-> [lst EXCEPT ![v] = w.kept], lr |-> w.merged]
     ELSE [lrs |-> Append(a, [vreg |-> v, from |-> r.from, to |-> r.to,
                              def |-> FALSE, uses |-> {}]),
           first |-> [lst EXCEPT ![v] = SubSeq(w.kept, 1, w.after) \o <<n>>
                                        \o SubSeq(w.kept, w.after + 1, Len(w.kept))],
           lr |-> n]

(* The same on the state record st = [lrs, first, vr, live, ...]; the    *)
(* range holding r is left in st.lr.                                       *)
AddTo(st, v, r) ==
  LET res == AddLiveRange(st.lrs, st.first, v, r)
  IN [st EXCEPT !.lrs = res.lrs, !.first = res.first, !.lr = res.lr]

(* One operand of instruction x of block b (the Process defs and uses    *)
(* loop).  A def trims the vreg's current range when it starts at the     *)
(* block entry; a use at a branch is moved to the block exit.             *)
OperandStep(b, x, st, o) ==
    LET v == o.vreg
    IN IF o.kind = "Def"
       THEN LET pos == IF o.pos \in {"Before", "Both"} THEN Before(x) ELSE After(x)
                s1 == IF st.vr[v] = 0 THEN AddTo(st, v, [from |-> pos, to |-> pos + 1])
                      ELSE [st EXCEPT !.lr = st.vr[v]]
            IN [s1 EXCEPT !.lrs[s1.lr].from = IF @ = BlockEntry(b) THEN pos ELSE @,
                          !.lrs[s1.lr].def = TRUE,
                          !.live = @ \ {v},
                          !.vr[v] = 0]
       ELSE LET pos0 == IF o.pos = "Before" THEN Before(x) ELSE After(x)
                pos == IF x = 2 * b + 1 /\ IsBranch(b) THEN BlockExit(b) ELSE pos0
                s1 == AddTo(st, v, [from |-> BlockEntry(b), to |-> pos + 1])
            IN [s1 EXCEPT !.vr[v] = s1.lr,
                          !.lrs[s1.lr].uses = @ \cup {pos},
                          !.live = @ \cup {v}]

State == [lrs |-> lrs, first |-> first, vr |-> vreg_ranges, live |-> live, lr |-> 0]

(* A fold of AddTo over the vregs of S in index order (BitVec::iter). *)
AddEach(st, S, r, setVR) ==
  FoldLeft(LAMBDA acc, v : LET s1 == AddTo(acc, v, r)
                           IN IF setVR THEN [s1 EXCEPT !.vr[v] = s1.lr] ELSE s1,
           st, SetToSortSeq(S, <))

(* The loop scan: the least postorder index reached through the preds of *)
(* the blocks from i down to the least index found so far.              *)
RECURSIVE MinPred(_, _)
MinPred(scan, mp) ==
  IF scan < mp THEN mp
  ELSE LET found == {PoIndex(p) : p \in {p \in Preds(Postorder[scan]) : InPostorder(p)}}
           mp2 == IF \E j \in found : j < mp THEN CHOOSE j \in found : \A l \in found : j <= l
                  ELSE mp
       IN IF scan = 1 THEN mp2 ELSE MinPred(scan - 1, mp2)

-----------------------------------------------------------------------------
(* Reference liveness over program points.  From a block's exit control *)
(* goes to its successors' entries, elsewhere to the next point.  A vreg *)
(* is defined at its def's point or, for a block parameter, at the block *)
(* entry; a use is read at Before or After its instruction, and a branch *)
(* argument at the block exit, where the value leaves along the edge.    *)
PointSuccs(p) ==
  LET b == p \div 4
  IN IF p = BlockExit(b) THEN {BlockEntry(prog.succs[b][j]) : j \in DOMAIN prog.succs[b]}
     ELSE {p + 1}

OpsOf(b, kk) == {prog.insts[b][kk][j] : j \in DOMAIN prog.insts[b][kk]}

OpPoint(b, kk, o) ==
  IF kk = 2 /\ IsBranch(b) /\ o.kind = "Use" THEN BlockExit(b)
  ELSE IF o.pos = "After" THEN After(2 * b + kk - 1) ELSE Before(2 * b + kk - 1)

OperandPoints(v, kind) ==
  UNION {{OpPoint(bk[1], bk[2], o) : o \in {o \in OpsOf(bk[1], bk[2]) : o.vreg = v /\ o.kind = kind}} :
           bk \in Blocks \X {1, 2}}

DefPoints(v) ==
  {BlockEntry(b) : b \in {b \in Blocks : \E j \in DOMAIN prog.params[b] : prog.params[b][j] = v}}
  \cup OperandPoints(v, "Def")

UsePoints(v) == OperandPoints(v, "Use")

(* The points reachable from R without entering a point of `avoid`: one *)
(* step per point of the function is enough to close it.                 *)
Reach(R, avoid) ==
  FoldLeft(LAMBDA acc, n : acc \cup (UNION {PointSuccs(q) : q \in acc} \ avoid),
           R, [n \in 1 .. 4 * Cardinality(Blocks) |-> n])

(* v is live at p: p is reached from v's def, and a use of v is reached *)
(* from p without passing the def again.                                 *)
LivePoints(v) ==
  LET D == DefPoints(v)
  IN {p \in Reach(D, D) : \E u \in UsePoints(v) : u \in Reach({p}, D)}

Linked(v) == {first[v][j] : j \in DOMAIN first[v]}
Covers(a, p) == lrs[a].from <= p /\ p < lrs[a].to

(* The function is in SSA form, as validate_ssa requires before the     *)
(* pass: one def per vreg, which no path from the entry avoids on its way *)
(* to a use, and no use at its def's own point.                           *)
SSA ==
  \A v \in VRegs :
    /\ Cardinality(DefPoints(v)) = 1
    /\ UsePoints(v) \cap (DefPoints(v) \cup Reach({BlockEntry(0)} \ DefPoints(v), DefPoints(v))) = {}

-----------------------------------------------------------------------------
Init ==
  /\ prog \in Progs
  /\ SSA
  /\ lrs = <<>>
  /\ first = [v \in VRegs |-> <<>>]
  /\ vreg_ranges = [v \in VRegs |-> 0]
  /\ liveins = [b \in Blocks |-> {}]
  /\ live = {}
  /\ bp_outs = <<>>
  /\ bp_ins = <<>>
  /\ i = 1
  /\ k = 0
  /\ pc = "seed"

(* One block's visit begins: live is the union of the successors' live- *)
(* ins, each live vreg gets [entry, exit + 1), and a branch records one   *)
(* blockparam_outs entry per parameter of each successor, taking the      *)
(* branch's operands in order.                                             *)
SeedBlock ==
  /\ pc = "seed"
  /\ i <= Len(Postorder)
  /\ LET b == Postorder[i]
         L == UNION {liveins[prog.succs[b][j]] : j \in DOMAIN prog.succs[b]}
         st == AddEach([State EXCEPT !.live = L], L,
                       [from |-> BlockEntry(b), to |-> BlockExit(b) + 1], TRUE)
         args == prog.insts[b][2]
         outs == FoldLeft(LAMBDA acc, s :
                            [n |-> acc.n + Len(prog.params[s]),
                             q |-> acc.q \o [j \in DOMAIN prog.params[s] |->
                                     <<args[acc.n + j].vreg, b, s, prog.params[s][j]>>]],
                          [n |-> 0, q |-> <<>>], prog.succs[b])
     IN /\ live' = L
        /\ lrs' = st.lrs
        /\ first' = st.first
        /\ vreg_ranges' = st.vr
        /\ bp_outs' = IF IsBranch(b) THEN bp_outs \o outs.q ELSE bp_outs
  /\ k' = 2
  /\ pc' = "insts"
  /\ UNCHANGED <<prog, liveins, bp_ins, i>>

(* One instruction, walking the block backwards: the terminator (k = 2),  *)
(* then the body instruction (k = 1); its operands in order.              *)
VisitInst ==
  /\ pc = "insts"
  /\ k >= 1
  /\ LET b == Postorder[i]
         x == 2 * b + k - 1
         st == FoldLeft(LAMBDA acc, o : OperandStep(b, x, acc, o), State, prog.insts[b][k])
     IN /\ lrs' = st.lrs
        /\ first' = st.first
        /\ vreg_ranges' = st.vr
        /\ live' = st.live
  /\ k' = k - 1
  /\ pc' = IF k = 1 THEN "end" ELSE "insts"
  /\ UNCHANGED <<prog, liveins, bp_outs, bp_ins, i>>

(* The block's end: its parameters are defined at the entry (a dead one  *)
(* gets [entry, entry + 1)) and recorded in blockparam_ins per pred; then *)
(* the loop scan, and for a backedge the loop range over the postorder    *)
(* interval min_pred .. i, from the least entry to the greatest exit.     *)
EndBlock ==
  /\ pc = "end"
  /\ LET b == Postorder[i]
         ps == prog.params[b]
         st == FoldLeft(LAMBDA acc, t :
                          IF t \in acc.live THEN [acc EXCEPT !.live = @ \ {t}]
                          ELSE AddTo(acc, t, [from |-> BlockEntry(b), to |-> BlockEntry(b) + 1]),
                        State, ps)
         mp == MinPred(i, i)
         loop == {Postorder[j] : j \in mp .. i}
         lbegin == CHOOSE e \in {BlockEntry(lb) : lb \in loop} : \A lb \in loop : e <= BlockEntry(lb)
         lend == CHOOSE e \in {BlockExit(lb) : lb \in loop} : \A lb \in loop : e >= BlockExit(lb)
         st2 == IF mp < i THEN AddEach(st, st.live, [from |-> lbegin, to |-> lend], FALSE) ELSE st
     IN /\ lrs' = st2.lrs
        /\ first' = st2.first
        /\ live' = st.live
        /\ bp_ins' = bp_ins \o FoldLeft(LAMBDA acc, t :
                                         acc \o [j \in 1 .. Cardinality(Preds(b)) |->
                                                   <<t, b, SetToSortSeq(Preds(b), <)[j]>>],
                                       <<>>, ps)
        /\ liveins' = [lb \in Blocks |->
                        IF lb = b THEN st.live
                        ELSE IF mp < i /\ lb \in loop THEN liveins[lb] \cup st.live
                        ELSE liveins[lb]]
  /\ i' = i + 1
  /\ pc' = IF i + 1 <= Len(Postorder) THEN "seed" ELSE "done"
  /\ UNCHANGED <<prog, vreg_ranges, bp_outs, k>>

(* compute_liveness goes on to the multi-fixed-reg cleanup. *)
Terminating == pc = "done" /\ UNCHANGED vars

Next == SeedBlock \/ VisitInst \/ EndBlock \/ Terminating

Spec == Init /\ [][Next]_vars /\ WF_vars(Next)

-----------------------------------------------------------------------------
(* Type invariant. *)
TypeOK ==
  /\ pc \in {"seed", "insts", "end", "done"}
  /\ \A a \in DOMAIN lrs : lrs[a].vreg \in VRegs /\ lrs[a].def \in BOOLEAN
  /\ \A v \in VRegs : vreg_ranges[v] \in 0 .. Len(lrs) /\ Linked(v) \subseteq DOMAIN lrs
  /\ live \subseteq VRegs

(* Spec 3, invariant 1: after any sequence of add_liverange_to_vreg      *)
(* calls (extensions, merges that unlink ranges, insertions), each       *)
(* vreg's next_in_reg list holds its own non-empty ranges sorted by from *)
(* and pairwise disjoint.                                                 *)
RangesSortedDisjoint ==
  \A v \in VRegs :
    /\ \A a \in Linked(v) : lrs[a].vreg = v /\ lrs[a].from < lrs[a].to
    /\ \A j \in 1 .. Len(first[v]) - 1 : lrs[first[v][j]].to <= lrs[first[v][j + 1]].from

(* Spec 3, invariant 5: every use recorded in any range, even one a      *)
(* merge has unlinked, is held by a linked range of its vreg that covers *)
(* it (distribute_liverange_uses moves them all); once the pass is over, *)
(* each vreg's linked ranges hold exactly the function's uses of it and  *)
(* the range marked with its def covers the def point.                   *)
OperandsInRanges ==
  /\ \A a \in DOMAIN lrs : \A u \in lrs[a].uses :
       \E l \in Linked(lrs[a].vreg) : u \in lrs[l].uses /\ Covers(l, u)
  /\ pc = "done" =>
       \A v \in VRegs :
         /\ UNION {lrs[l].uses : l \in Linked(v)} = UsePoints(v)
         /\ \A l \in Linked(v) : lrs[l].def => \A d \in DefPoints(v) : Covers(l, d)

(* Spec 4.1 and the comment at line 1170: the single pass with its loop *)
(* ranges is correct, possibly over-live: once compute_liveness is done, *)
(* every point at which a vreg is live is covered by one of its ranges.  *)
(* TLC finds it violated (README, section 5): the loop range of lines    *)
(* 1202-1219 stops short of the exit of the loop block laid out last.    *)
LivenessSound ==
  pc = "done" => \A v \in VRegs : \A p \in LivePoints(v) : \E l \in Linked(v) : Covers(l, p)

=============================================================================

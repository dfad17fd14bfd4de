------------------------------ MODULE HotCode ------------------------------
(***************************************************************************)
(* compute_hot_code in ion/mod.rs: one pass over the blocks in index      *)
(* order.  A block with a predecessor of index >= its own becomes the     *)
(* current header, with its highest such predecessor as the backedge.     *)
(* When the pass reaches the current backedge, the span from the header's *)
(* entry to the backedge's exit is a new live range inserted into the     *)
(* hot_code map, keyed by LiveRangeKey, under which overlapping keys are  *)
(* equal.  Every block has one instruction, so block b covers the points  *)
(* 2b and 2b+1 and its exit's next point is 2b+2.                         *)
(***************************************************************************)
EXTENDS Integers, FiniteSets

CONSTANTS
  NumBlocks,   \* func.blocks()
  PredSets     \* the possible block_preds functions

VARIABLES
  preds,       \* block_preds
  block,       \* the loop variable
  header,      \* -1 is Block::invalid()
  backedge,
  hot,         \* hot_code.btree: a set of [from, to, lr]
  nranges      \* ranges.len(): the index create_liverange returns next

vars == <<preds, block, header, backedge, hot, nranges>>

Blocks == 0 .. NumBlocks - 1
Invalid == -1

BlockEntry(b) == 2 * b
BlockExitNext(b) == 2 * b + 2

(* LiveRangeKey's Ord: two keys compare Equal when they overlap. *)
KeysEqual(a, b) == a.to > b.from /\ a.from < b.to

(* BTreeMap::insert: an equal key keeps its place and takes the new value. *)
MapInsert(map, e) ==
  IF \E old \in map : KeysEqual(old, e)
  THEN {IF KeysEqual(old, e) THEN [old EXCEPT !.lr = e.lr] ELSE old : old \in map}
  ELSE map \cup {e}

(* Mutant: a self-loop does not count as a backedge. *)
MaxBackedgeStrict(b) ==
  LET back == {p \in preds[b] : p > b}
  IN IF back = {} THEN Invalid ELSE CHOOSE p \in back : \A q \in back : q <= p

(* The highest predecessor of b with index >= b, or Invalid. *)
MaxBackedge(b) ==
  LET back == {p \in preds[b] : p >= b}
  IN IF back = {} THEN Invalid ELSE CHOOSE p \in back : \A q \in back : q <= p

Init ==
  /\ preds \in PredSets
  /\ block = 0
  /\ header = Invalid
  /\ backedge = Invalid
  /\ hot = {}
  /\ nranges = 0

(* Mutant: the span runs from the backedge's entry to the header's exit. *)
VisitBlockSwapped ==
  /\ block < NumBlocks
  /\ LET mb == MaxBackedge(block)
         h == IF mb # Invalid THEN block ELSE header
         be == IF mb # Invalid THEN mb ELSE backedge
     IN /\ header' = h
        /\ backedge' = be
        /\ IF block = be
           THEN /\ hot' = MapInsert(hot, [from |-> BlockEntry(be), to |-> BlockExitNext(h),
                                          lr |-> nranges])
                /\ nranges' = nranges + 1
           ELSE UNCHANGED <<hot, nranges>>
  /\ block' = block + 1
  /\ UNCHANGED preds

(* One iteration of the loop over blocks. *)
VisitBlock ==
  /\ block < NumBlocks
  /\ LET mb == MaxBackedge(block)
         h == IF mb # Invalid THEN block ELSE header
         be == IF mb # Invalid THEN mb ELSE backedge
     IN /\ header' = h
        /\ backedge' = be
        /\ IF block = be
           THEN /\ hot' = MapInsert(hot, [from |-> BlockEntry(h), to |-> BlockExitNext(be),
                                          lr |-> nranges])
                /\ nranges' = nranges + 1
           ELSE UNCHANGED <<hot, nranges>>
  /\ block' = block + 1
  /\ UNCHANGED preds

(* The pass is over; init goes on to merge_vreg_bundles. *)
Terminating == block = NumBlocks /\ UNCHANGED vars

Next == VisitBlock \/ Terminating

Spec == Init /\ [][Next]_vars /\ WF_vars(Next)

-----------------------------------------------------------------------------
(* h heads a loop by index: it has a predecessor numbered h or later. *)
IsHeader(h) == \E p \in preds[h] : p >= h

(* The loop of header h ends at its highest predecessor. *)
LoopEnd(h) == CHOOSE p \in preds[h] : \A q \in preds[h] : q <= p

(* The innermost loops by block index: a header h with its highest        *)
(* backedge b, such that no block of h+1 .. b is a header itself.         *)
InnerLoopSpans ==
  {[from |-> BlockEntry(h), to |-> BlockExitNext(LoopEnd(h))] :
     h \in {h \in Blocks : IsHeader(h) /\ \A k \in h + 1 .. LoopEnd(h) : ~IsHeader(k)}}

Spans(map) == {[from |-> e.from, to |-> e.to] : e \in map}

-----------------------------------------------------------------------------
(* Type invariant: every hot range is a non-empty span of program points  *)
(* of the function, and the ranges created so far are numbered 0, 1, ...  *)
TypeOK ==
  /\ block \in 0 .. NumBlocks
  /\ header \in Blocks \cup {Invalid}
  /\ backedge \in Blocks \cup {Invalid}
  /\ \A e \in hot : 0 <= e.from /\ e.from < e.to /\ e.to <= 2 * NumBlocks
                    /\ e.lr \in 0 .. nranges - 1
  /\ nranges \in 0 .. NumBlocks

(* Once the pass is over, hot_code holds exactly one range per innermost  *)
(* loop, from its header's entry to the exit of its highest backedge, and *)
(* no insert met an overlapping key (spec 4.2: inner loops are hot, outer *)
(* headers' spans are superseded).                                         *)
HotCodeIsInnerLoops ==
  block = NumBlocks =>
    /\ Spans(hot) = InnerLoopSpans
    /\ Cardinality(hot) = nranges
    /\ \A e, f \in hot : e # f => ~KeysEqual(e, f)

=============================================================================

---------------------------- MODULE MCHalfMoves ----------------------------
(***************************************************************************)
(* Programs for HalfMoves: two vregs over one of three CFGs (a diamond, a *)
(* loop, and a branch into a join, whose edge 0 -> 2 is critical), each   *)
(* block two instructions long.  v0 is defined by an instruction; v1 by   *)
(* an instruction or as a parameter of a non-entry block, taking v0 from  *)
(* every predecessor.  Each vreg has at most one further use.  Liveness   *)
(* is computed the way compute_liveness builds it (a use at Before of the *)
(* second instruction ends its range at After; a branch argument is live  *)
(* to the block exit; a def trims the range to start at the def; a dead   *)
(* def gets one point), and the live points are cut into ranges at block  *)
(* entries (add_liverange_to_vreg does not join touching ranges; a loop   *)
(* range or a merged bundle spans them) and at a split point inside a     *)
(* block.                                                                   *)
(***************************************************************************)
EXTENDS HalfMoves, TLC

MCVRegs == {0, 1}

MCDiamond == (0 :> {1, 2}) @@ (1 :> {3}) @@ (2 :> {3}) @@ (3 :> {})
MCLoop == (0 :> {1}) @@ (1 :> {2, 3}) @@ (2 :> {1}) @@ (3 :> {})
MCCriticalJoin == (0 :> {1, 2}) @@ (1 :> {2}) @@ (2 :> {})
MCCFGs == {MCDiamond, MCLoop, MCCriticalJoin}

MCPreds(cfg, b) == {p \in DOMAIN cfg : b \in cfg[p]}

MCDefs(cfg) ==
  {d \in [MCVRegs -> [block : DOMAIN cfg, param : BOOLEAN]] :
     ~d[0].param /\ (d[1].param => d[1].block # 0)}

(* v is passed by the branch ending block b to a parameter. *)
MCArgAt(cfg, d, v, b) ==
  \E t \in MCVRegs : d[t].param /\ v = 0 /\ t # v /\ b \in MCPreds(cfg, d[t].block)

RECURSIVE MCLiveIter(_, _, _, _, _, _)
MCLiveIter(cfg, d, u, v, X, n) ==
  IF n = 0 THEN X
  ELSE MCLiveIter(cfg, d, u, v,
         {b \in DOMAIN cfg \ {d[v].block} :
            b \in u[v] \/ MCArgAt(cfg, d, v, b) \/ cfg[b] \cap X # {}},
         n - 1)

MCLiveIn(cfg, d, u, v) == MCLiveIter(cfg, d, u, v, {}, Cardinality(DOMAIN cfg))

(* The points of block b where v is live; L is v's live-in set. *)
MCInterval(cfg, d, u, L, v, b) ==
  LET from == IF b = d[v].block
              THEN 4 * b + (IF d[v].param THEN 0 ELSE 1) ELSE 4 * b
      to == IF cfg[b] \cap L # {} \/ MCArgAt(cfg, d, v, b) THEN 4 * b + 4
            ELSE IF b \in u[v] THEN 4 * b + 3
            ELSE from + 1
  IN IF b = d[v].block \/ b \in L THEN from .. to - 1 ELSE {}

MCRanges(cfg, P, cut) ==
  LET starts == SetToSortSeq({x \in P : x - 1 \notin P \/ x \in cut}, <)
      End(x) == Min({y \in x + 1 .. 4 * Cardinality(DOMAIN cfg) :
                       y \notin P \/ y \in ToSet(starts)})
  IN [k \in DOMAIN starts |-> [from |-> starts[k], to |-> End(starts[k])]]

(* Cut sets: every block entry (one range per block, as liveness builds   *)
(* them), none (one range over touching blocks), or every block entry and *)
(* a split before the second instruction of one block.                    *)
MCCuts(cfg) ==
  LET E == {4 * b : b \in DOMAIN cfg \ {0}}
  IN {E, {}} \cup {E \cup {4 * b + 2} : b \in DOMAIN cfg}

MCUses(cfg) == {{}} \cup {{b} : b \in DOMAIN cfg}

(* A CFG, defs and uses, with each vreg's live-in blocks. *)
MCBases ==
  UNION {{[cfg |-> cfg, def |-> d, uses |-> u,
           live |-> [v \in MCVRegs |-> MCLiveIn(cfg, d, u, v)]] :
            d \in MCDefs(cfg), u \in [MCVRegs -> MCUses(cfg)]} : cfg \in MCCFGs}

(* Defs dominate uses: no vreg is live into the entry block. *)
MCValid(x) == \A v \in MCVRegs : 0 \notin x.live[v]

(* The program with live points and block-parameter lists; its ranges    *)
(* follow from a choice of cuts.                                          *)
MCShape(x) ==
  LET cfg == x.cfg  d == x.def  u == x.uses
      params == {t \in MCVRegs : d[t].param}
      pairs == {tp \in params \X DOMAIN cfg : tp[2] \in MCPreds(cfg, d[tp[1]].block)}
  IN [succs |-> cfg,
      def |-> d,
      arg |-> [t \in MCVRegs |-> 0],
      points |-> [v \in MCVRegs |->
                    UNION {MCInterval(cfg, d, u, x.live[v], v, b) : b \in DOMAIN cfg}],
      liveins |-> [b \in DOMAIN cfg |-> {v \in MCVRegs : b \in x.live[v]}],
      usepts |-> [v \in MCVRegs |-> {4 * b + 2 : b \in u[v]}
                                    \cup {4 * b + 3 : b \in {b \in DOMAIN cfg : MCArgAt(cfg, d, v, b)}}],
      bpo |-> SetToSortSeq({<<0, tp[2], d[tp[1]].block, tp[1]>> : tp \in pairs}, LexLess),
      bpi |-> SetToSortSeq({<<tp[1], d[tp[1]].block, tp[2]>> : tp \in pairs}, LexLess)]

MCProgram(sh, c) ==
  [succs |-> sh.succs, def |-> sh.def, arg |-> sh.arg, liveins |-> sh.liveins,
   usepts |-> sh.usepts, bpo |-> sh.bpo, bpi |-> sh.bpi,
   ranges |-> [v \in MCVRegs |-> MCRanges(sh.succs, sh.points[v], c[v])]]

MCInputs ==
  UNION {{MCProgram(sh, c) : c \in [MCVRegs -> MCCuts(sh.succs)]} :
           sh \in {MCShape(x) : x \in {x \in MCBases : MCValid(x)}}}

=============================================================================

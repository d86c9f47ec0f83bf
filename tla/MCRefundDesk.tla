----------------------------- MODULE MCRefundDesk -----------------------------
(* RefundDesk with one handler at a time, or two at once and fewer rows.    *)
EXTENDS RefundDesk, TLC

VARIABLE lanes  \* how many handlers may be under way

(* Below zero, a part and a whole. *)
SignedAmounts == {-1, 1, 2}

MCInit == DeskInit /\ lanes \in {1, 2}

(* Bound: how many rows are written, committed or not, while handlers race. *)
RacingRows == 3

MCNext ==
    /\ DeskNext
    /\ IF lanes = 1 THEN OneHandler' ELSE Cardinality(Written') <= RacingRows
    /\ UNCHANGED lanes

MCSpec == MCInit /\ [][MCNext]_<<allVars, lanes>>

Symmetry == Permutations(Sessions) \cup Permutations(RequestIds)

(* A row that says it closes a hold has a hold to close, whatever races;    *)
(* one handler at a time, no escrow goes below nought and no more is given  *)
(* back than was captured (entries.py:11, :349).                            *)
MoneyBounds == ClosingNeedsReserve /\ (lanes = 1 => EscrowNeverNegative /\ RefundsBounded)
==============================================================================

----------------------------- MODULE MCMoneyPath -----------------------------
(***************************************************************************)
(* MoneyPath on small instances: the symmetry of its handlers, and what    *)
(* the bounds must leave room for.                                         *)
(***************************************************************************)
EXTENDS MoneyPath, TLC

(* Every deadline of an order started by LastStart falls within the clock, *)
(* and no tap can still be running when its quote expires.                 *)
ASSUME BoundsAssumption ==
    /\ LastStart + PendingTTL <= MaxTime
    /\ LastStart + TapTTL + PayWindow <= MaxTime
    /\ TapTTL < PendingTTL
    /\ PayWindow <= LinkLife

HandlerSymmetry == Permutations(Starts) \cup Permutations(Taps)
HookSymmetry    == Permutations(Hooks) \cup Permutations(Events)
==============================================================================

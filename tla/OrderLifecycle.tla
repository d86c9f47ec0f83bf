---------------------------- MODULE OrderLifecycle ----------------------------
(***************************************************************************)
(* What the sidecar promises about one order, with nothing of how: the     *)
(* status the shop holds moves only along the legal transitions, an order  *)
(* is paid only by money that was captured, a hold on its money is taken   *)
(* once, while the order is confirmed, and settled exactly once, before    *)
(* the order ends.                                                         *)
(*                                                                         *)
(* Money: "none" before a hold, "held" while escrowed, then "captured" or  *)
(* "released" for good.                                                    *)
(***************************************************************************)
EXTENDS Lifecycle

VARIABLES status,  \* the status the Merchant holds, "absent" before the order exists
          money    \* where the order's money is

abstractVars == <<status, money>>

AbstractTypeOK ==
    /\ status \in Statuses \cup {"absent"}
    /\ money  \in {"none", "held", "captured", "released"}

AbstractInit == status = "absent" /\ money = "none"

Create == status = "absent" /\ status' = "pending" /\ UNCHANGED money

Confirm == CanTransition(status, "confirmed") /\ status' = "confirmed" /\ UNCHANGED money

(* An order ends unpaid only with nothing held and nothing captured. *)
EndUnpaid(to) ==
    /\ to \in {"cancelled", "expired", "failed"}
    /\ CanTransition(status, to)
    /\ money \in {"none", "released"}
    /\ status' = to
    /\ UNCHANGED money

Hold == money = "none" /\ status = "confirmed" /\ money' = "held" /\ UNCHANGED status

Capture == money = "held" /\ status = "confirmed" /\ money' = "captured" /\ UNCHANGED status

Release == money = "held" /\ status = "confirmed" /\ money' = "released" /\ UNCHANGED status

Pay == money = "captured" /\ CanTransition(status, "paid") /\ status' = "paid" /\ UNCHANGED money

AbstractNext ==
    \/ Create
    \/ Confirm
    \/ Hold \/ Capture \/ Release
    \/ Pay
    \/ \E to \in Statuses : EndUnpaid(to)

AbstractSpec == AbstractInit /\ [][AbstractNext]_abstractVars
===============================================================================

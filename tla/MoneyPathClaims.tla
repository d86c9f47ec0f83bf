--------------------------- MODULE MoneyPathClaims ---------------------------
(***************************************************************************)
(* What the comments and the documents of the repository say about the     *)
(* money path, stated over MoneyPath, where the code does something else.  *)
(* Each is checked alone, on the smallest instance in which it fails.      *)
(***************************************************************************)
EXTENDS MoneyPath

(* sweep_once never raises (sweeper.py, sweep_once's docstring): one wedged *)
(* order does not end the pass for every other one.                         *)
SweepNeverRaises == at[Sweeper] # "raised"

(* An expired order held nothing, or gave it back (lifecycle.py, on the     *)
(* pending deadline: nothing is reserved until the tap).                    *)
ExpiredHoldsNoStock == row.status = "expired" => shop.hold # "held"

(* A cancelled order never holds inventory nobody can buy (cancel's         *)
(* docstring).                                                              *)
CancelledHoldsNoStock == row.status = "cancelled" => shop.hold # "held"

(* Each RESERVE ends in exactly one CAPTURE or RELEASE (entries.py).        *)
HoldClosesOnce == ~({"CAPTURE", "RELEASE"} \subseteq ledger)

(* The Merchant serializes: of two writers racing for an order's status one *)
(* is refused (sweeper.py, module docstring), so every move is legal.       *)
StatusMovesAreLegal ==
    [][ \/ shop.status = "absent"
        \/ shop'.status = shop.status
        \/ CanTransition(shop.status, shop'.status) ]_shop

(* A webhook survives the sidecar's failures by being retried (deliver):    *)
(* once the event of a full payment is remembered and nobody is at work on  *)
(* it, a confirmed order has been captured.                                 *)
SeenIsProcessed ==
    /\ Events \subseteq seen
    /\ link.state = "full"
    /\ row.status = "confirmed" /\ row.link
    /\ \A h \in Handlers : ~InFlight(h)
    => "CAPTURE" \in ledger

(* A retry observes the first attempt's result (entries.py, _append): a     *)
(* webhook that is redelivered after its capture finishes the order.        *)
CaptureIsFinished == "CAPTURE" \in ledger ~> shop.status = "paid"

(* cancel abandons a checkout before any money has moved (its docstring).   *)
CancelIsPreMoney ==
    [][ "cancelled" \in shop'.replied \ shop.replied => link.state \notin {"full", "short"} ]_vars

(* cancelled covers pending and confirmed to cancelled (Specification.md,   *)
(* section 6): no other order is cancelled.                                 *)
CancelIsFromLive ==
    [][ "cancelled" \in shop'.replied \ shop.replied => shop.status \in Sweepable ]_vars

(* release returns stock on fail as on cancel and expire (Plan-Merchant-    *)
(* Site.md, M3): once nothing is at work on it, a failed order holds none.  *)
FailedReturnsStock ==
    shop.status = "failed" /\ (\A h \in Handlers : ~InFlight(h)) => shop.hold # "held"

(* The shop never oversells (Plan-Merchant-Site.md, M3): the goods of an    *)
(* order that is paid were not given back.                                  *)
PaidKeepsItsStock == row.status = "paid" => shop.hold # "released"

(* A second checkout on a paid cart returns the first order, already paid   *)
(* (agent_routes.py, _run_tool): a paid order does not go back to pending.  *)
PaidRowIsKept == [][row.status = "paid" => row'.status # "pending"]_vars
==============================================================================

------------------------------ MODULE Lifecycle ------------------------------
(***************************************************************************)
(* The order lifecycle of the sidecar, sidecar/gate/lifecycle.py: the      *)
(* statuses, the transitions the code calls legal, and the one deadline an *)
(* order has in each status.  Constant-level: no state, only operators.    *)
(*                                                                         *)
(* Time is a natural number of ticks.  NoTime stands for a missing         *)
(* timestamp (Python's None).                                              *)
(***************************************************************************)
EXTENDS Integers

CONSTANTS PendingTTL,  \* how long a quote stays valid (24 hours in the code)
          PayWindow,   \* how long a confirmed prepaid order waits for its money
          CodWindow    \* how long a cash order may be out for delivery

ASSUME LifecycleAssumption ==
    /\ PendingTTL \in Nat \ {0}
    /\ PayWindow  \in Nat \ {0}
    /\ CodWindow  \in Nat \ {0}

Statuses == {"pending", "confirmed", "paid", "completed", "refunded",
             "cancelled", "expired", "failed"}

SweepsQuotesOnly == {"pending"}  \* mutant: the payment window is never swept

(* The statuses a sweep may act on. *)
Sweepable == {"pending", "confirmed"}

(* The statuses a webhook may never move an order out of. *)
Terminal == {"paid", "failed", "cancelled", "expired", "refunded", "completed"}

(* The legal transitions, as pairs <<from, to>>. *)
Transitions ==
    ({"pending"}   \X {"confirmed", "cancelled", "expired"})
        \cup ({"confirmed"} \X {"paid", "cancelled", "expired", "failed"})
        \cup ({"paid"}      \X {"refunded", "completed"})
        \cup ({"completed"} \X {"refunded"})

CanTransition(from, to) == <<from, to>> \in Transitions

Methods == {"upi", "cod"}
NoTime  == -1
Times   == Nat \cup {NoTime}

Earlier(a, b) == IF a <= b THEN a ELSE b

(***************************************************************************)
(* next_deadline.  A confirmed row without a confirmed_at has no deadline  *)
(* to compute: the code raises, which is Unanswerable here.                *)
(***************************************************************************)
Unanswerable(row) == row.status = "confirmed" /\ row.confirmedAt = NoTime

DeadlineOf(row) ==
    CASE row.status = "pending" -> row.createdAt + PendingTTL
      [] row.status = "confirmed" /\ row.method = "cod" -> row.confirmedAt + CodWindow
      [] row.status = "confirmed" /\ row.method = "upi" /\ row.linkExpires = NoTime ->
             row.confirmedAt + PayWindow
      [] OTHER -> Earlier(row.confirmedAt + PayWindow, row.linkExpires)

(* Whether a sweep at time now acts on the row at all. *)
IsDue(row, now) ==
    /\ row.status \in Sweepable
    /\ ~Unanswerable(row)
    /\ now >= DeadlineOf(row)

(* A late parcel is only ever alerted on; nothing about it is changed. *)
AlertsOnly(row) == row.status = "confirmed" /\ row.method = "cod"

\* mutant: the two confirmed windows swapped
ReleasesCodStock(row) == row.status = "confirmed" /\ row.method = "cod"

(* Only a confirmed prepaid order gives stock back when it expires. *)
ReleasesStock(row) == row.status = "confirmed" /\ row.method = "upi"
==============================================================================

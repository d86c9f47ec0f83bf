------------------------------ MODULE RefundDesk ------------------------------
(***************************************************************************)
(* The refund queue and the Merchant's money actions, console/refunds.py   *)
(* and console/merchant_actions.py, over the Ledger they write.            *)
(*                                                                         *)
(* An agent may only ask; the Merchant refunds, declines, collects or      *)
(* rejects.  The queue's reads and writes are units of work of their own,  *)
(* the checkout's writes too.  The Merchant's handlers write the Ledger on *)
(* a session that `ledger_factory` hands out and that no code commits: it  *)
(* is modelled as the factory's owner may end it.  Where no factory is     *)
(* wired, refund and collect are answered "no ledger configured" and never *)
(* taken, and a reject writes nothing.                                     *)
(***************************************************************************)
EXTENDS Ledger

CONSTANTS RequestIds,  \* ids of refund_requests rows
          NoAsk,       \* no ask
          Listed       \* the orders the ActionContext carries

(* A refund's ref is made of its amount (see RefundCheck). *)
ASSUME DeskAssumption ==
    /\ NoAsk \notin RequestIds
    /\ Listed \subseteq Orders
    /\ Amounts \subseteq RefundIds

VARIABLES asks,  \* the refund_requests table, by request id
          desk,  \* the step each session's handler is at
          paid   \* the orders whose status at the shop is refundable

allVars == <<rows, flushed, writing, answer, asks, desk, paid>>

AskState == {"requested", "approved", "declined"}
Ask      == [order : Orders, state : AskState]

(* A handler between two awaits: where it is, the order it is about, the   *)
(* ask it found, the state it resolves to and the amount it read.          *)
Step == [at : {"idle", "ask", "existing", "refund", "find", "resolve", "release", "write",
               "charge", "commit"},
         order : Orders, ask : RequestIds \cup {NoAsk}, as : AskState, amount : Int]

Idle(s) == desk[s].at = "idle"
Free(s) == Idle(s) /\ writing[s] = NoEntry
Busy(s) == ~Idle(s) \/ flushed[s] # {}
OneHandler == \A s, t \in Sessions : Busy(s) /\ Busy(t) => s = t
GoTo(s, at) == desk' = [desk EXCEPT ![s].at = at]

(* A new handler starts: what it learnt so far, and nothing of the last.   *)
Enter(s, at, order, as, amount) ==
    /\ Free(s)
    /\ desk' = [desk EXCEPT ![s] = [at |-> at, order |-> order, ask |-> NoAsk,
                                    as |-> as, amount |-> amount]]

(* The handler is over, answered or refused. *)
Reply(s) == desk' = [desk EXCEPT ![s] = [at |-> "idle", order |-> desk[s].order, ask |-> NoAsk,
                                         as |-> "requested", amount |-> 0]]

Open(order) == {q \in DOMAIN asks : asks[q].order = order /\ asks[q].state = "requested"}

DeskInit ==
    /\ Init
    /\ asks = <<>>
    /\ desk \in [Sessions -> {[at |-> "idle", order |-> o, ask |-> NoAsk,
                               as |-> "requested", amount |-> 0] : o \in Orders}]
    /\ paid = {}

-----------------------------------------------------------------------------
(* The agent's request-refund. *)

\* mutant: the status is not looked at
AskReadAny(s, order) ==
    /\ Enter(s, "ask", order, "requested", 0)
    /\ UNCHANGED <<vars, asks, paid>>

(* orders_read: the status is read now and used after the await. *)
AskRead(s, order) ==
    /\ order \in paid
    /\ Enter(s, "ask", order, "requested", 0)
    /\ UNCHANGED <<vars, asks, paid>>

\* mutant: the index is not partial and unique, so every ask is a row
AskInsertAlways(s) ==
    /\ desk[s].at = "ask"
    /\ \E q \in RequestIds \ DOMAIN asks :
          /\ asks' = [r \in DOMAIN asks \cup {q} |->
                        IF r = q THEN [order |-> desk[s].order, state |-> "requested"] ELSE asks[r]]
    /\ Reply(s)
    /\ UNCHANGED <<vars, paid>>

(* The insert; the partial unique index refuses a second open ask. *)
AskInsert(s) ==
    /\ desk[s].at = "ask"
    /\ IF Open(desk[s].order) = {}
       THEN \E q \in RequestIds \ DOMAIN asks :
               /\ asks' = [r \in DOMAIN asks \cup {q} |->
                             IF r = q THEN [order |-> desk[s].order, state |-> "requested"]
                             ELSE asks[r]]
               /\ Reply(s)
       ELSE GoTo(s, "existing") /\ UNCHANGED asks
    /\ UNCHANGED <<vars, paid>>

(* open_for, in a unit of work of its own: the ask that was in the way, or  *)
(* nothing if it was resolved meanwhile, and then the handler raises.       *)
AskExisting(s) ==
    /\ desk[s].at = "existing"
    /\ Reply(s)
    /\ UNCHANGED <<vars, asks, paid>>

-----------------------------------------------------------------------------
(* The Merchant's actions. *)

\* mutant: the ask is closed first and the money moved after
RefundClosingFirst(s, order, amount) ==
    /\ amount > 0
    /\ amount <= Refundable(View(s), order)
    /\ Enter(s, "find", order, "approved", 0)
    /\ UNCHANGED <<vars, asks, paid>>

(* /agentic/refund.  The shop's page sends no refund_id, so the row's ref   *)
(* is made of the amount: `rfnd_<n>_<amount>`.                              *)
RefundCheck(s, order, amount) ==
    /\ Enter(s, "refund", order, "approved", 0)
    /\ Refund(s, order, amount, amount)
    /\ UNCHANGED <<asks, paid>>

(* The row, new or found by its key, is in the handler's session and not    *)
(* committed; then the queue, on a session of its own.                      *)
RefundWrite(s) ==
    /\ desk[s].at = "refund"
    /\ Insert(s)
    /\ GoTo(s, "find")
    /\ UNCHANGED <<asks, paid>>

(* /agentic/refund-decline. *)
Decline(s, order) ==
    /\ Enter(s, "find", order, "declined", 0)
    /\ UNCHANGED <<vars, asks, paid>>

(* resolve, first: find the open ask.  Without one a refund is done and a   *)
(* decline refused; neither changes anything.                               *)
ResolveFind(s) ==
    /\ desk[s].at = "find"
    /\ IF Open(desk[s].order) = {}
       THEN Reply(s)
       ELSE \E q \in Open(desk[s].order) :
               desk' = [desk EXCEPT ![s] = [@ EXCEPT !.at = "resolve", !.ask = q]]
    /\ UNCHANGED <<vars, asks, paid>>

\* mutant: the update asks only for the row, not that it is still open
ResolveBlindly(s) ==
    /\ desk[s].at = "resolve"
    /\ asks' = [asks EXCEPT ![desk[s].ask].state = desk[s].as]
    /\ Reply(s)
    /\ UNCHANGED <<vars, paid>>

(* resolve, then: the conditional update; nought rows is None. *)
ResolveUpdate(s) ==
    /\ desk[s].at = "resolve"
    /\ IF asks[desk[s].ask].state = "requested"
       THEN /\ asks' = [asks EXCEPT ![desk[s].ask].state = desk[s].as]
            /\ Reply(s)
       ELSE Reply(s) /\ UNCHANGED asks
    /\ UNCHANGED <<vars, paid>>

(* /agentic/collect: the total the context knows, or what the caller sent   *)
(* (the shop's page sends nothing, and that is 0).                          *)
Collect(s, order, amount) ==
    /\ Enter(s, "write", order, "requested", 0)
    /\ Capture(s, order, amount, TRUE)
    /\ UNCHANGED <<asks, paid>>

(* /agentic/reject: an order the context does not list is taken for         *)
(* pending.  With nothing held there is nothing to write.                   *)
RejectRead(s, order, amount) ==
    /\ order \in Listed => order \notin paid
    /\ Enter(s, "release", order, "requested", amount)
    /\ amount > 0 /\ amount = OpenHolds(View(s), order)
    /\ UNCHANGED <<vars, asks, paid>>

(* Ledger.release checks again what it is told to release, or refuses.      *)
RejectRelease(s) ==
    /\ desk[s].at = "release"
    /\ \/ Release(s, desk[s].order, desk[s].amount) /\ GoTo(s, "write")
       \/ /\ OpenHolds(View(s), desk[s].order) < desk[s].amount
          /\ Reply(s)
          /\ UNCHANGED vars
    /\ UNCHANGED <<asks, paid>>

-----------------------------------------------------------------------------
(* The insert that ends a collect or a reject: nothing here commits it. *)
WriteRow(s) ==
    /\ desk[s].at = "write"
    /\ Insert(s)
    /\ Reply(s)
    /\ UNCHANGED <<asks, paid>>

(* The factory's owner ends the unit of work its session is in. *)
UnitEnds(s) ==
    /\ Free(s) /\ flushed[s] # {}
    /\ Commit(s) \/ Rollback(s)
    /\ UNCHANGED <<asks, desk, paid>>

-----------------------------------------------------------------------------
(* The checkout's own writes, and what the shop makes of them. *)

(* In a session_scope: a session of its own, committed when it is left.     *)
CheckoutWrite(s, order, amount) ==
    /\ flushed[s] = {}
    /\ Enter(s, "charge", order, "requested", 0)
    /\ \/ Reserve(s, order, amount)
       \/ Capture(s, order, amount, FALSE)
       \/ Release(s, order, amount)
       \/ \E id \in ReversalIds : Reversal(s, order, amount, id)
    /\ UNCHANGED <<asks, paid>>

CheckoutInsert(s) ==
    /\ desk[s].at = "charge"
    /\ Insert(s)
    /\ GoTo(s, "commit")
    /\ UNCHANGED <<asks, paid>>

CheckoutCommit(s) ==
    /\ desk[s].at = "commit"
    /\ Commit(s)
    /\ Reply(s)
    /\ UNCHANGED <<asks, paid>>

(* Door 8 says paid, after the capture. *)
ShopPaid(order) ==
    /\ order \notin paid
    /\ \E e \in rows : e.order = order /\ e.kind = "CAPTURE"
    /\ paid' = paid \cup {order}
    /\ UNCHANGED <<vars, asks, desk>>

(* A handler fails, or dies with its process.  A session_scope is rolled    *)
(* back; what a Merchant's handler flushed stays with the session, whose    *)
(* owner ends it.                                                           *)
Die(s) ==
    /\ ~Idle(s)
    /\ Reply(s)
    /\ \/ desk[s].at \in {"charge", "commit"} /\ Rollback(s)
       \/ desk[s].at \in {"refund", "write"} /\ Abandon(s)
       \/ desk[s].at \notin {"charge", "commit", "refund", "write"} /\ UNCHANGED vars
    /\ UNCHANGED <<asks, paid>>

DeskNext ==
    \/ \E s \in Sessions :
          \/ \E order \in Orders :
                AskRead(s, order) \/ Decline(s, order)
          \/ \E order \in Orders, amount \in Amounts :
                \/ RefundCheck(s, order, amount)
                \/ Collect(s, order, amount)
                \/ RejectRead(s, order, amount)
                \/ CheckoutWrite(s, order, amount)
          \/ AskInsert(s) \/ AskExisting(s)
          \/ RefundWrite(s) \/ ResolveFind(s) \/ ResolveUpdate(s)
          \/ RejectRelease(s) \/ WriteRow(s) \/ UnitEnds(s)
          \/ CheckoutInsert(s) \/ CheckoutCommit(s) \/ Die(s)
    \/ \E order \in Orders : ShopPaid(order)

DeskSpec == DeskInit /\ [][DeskNext]_allVars

-----------------------------------------------------------------------------
(* Properties *)

(* Types: the Ledger's, a table of asks, and sessions that check an entry   *)
(* only inside a handler that is going to insert it.                        *)
DeskTypeOK ==
    /\ TypeOK
    /\ DOMAIN asks \subseteq RequestIds /\ \A q \in DOMAIN asks : asks[q] \in Ask
    /\ desk \in [Sessions -> Step]
    /\ \A s \in Sessions :
          /\ writing[s] # NoEntry <=> desk[s].at \in {"refund", "write", "charge"}
          /\ IF desk[s].at = "resolve" THEN desk[s].ask \in DOMAIN asks ELSE desk[s].ask = NoAsk
    /\ paid \subseteq Orders

(* However agents and consoles race, an order has one open ask at most: the *)
(* Merchant's queue cannot be filled with asks for one order.               *)
OneOpenAsk == \A order \in Orders : \A q, r \in Open(order) : q = r

(* The money comes before the answer: an ask is only ever approved by a     *)
(* handler whose session has the refund's row, written or found by its key. *)
ApprovedAfterRefund ==
    [][\A q \in DOMAIN asks :
          asks[q].state = "requested" /\ asks'[q].state = "approved" =>
             \E s \in Sessions :
                /\ desk[s].at = "resolve" /\ desk[s].ask = q
                /\ \E e \in View(s) : e.kind = "REFUND" /\ e.order = asks[q].order]_allVars

(* Expected and not so: an approved ask is about an order of which money    *)
(* was given back.  The approval is committed by itself, the refund's row   *)
(* with the session of the factory, or never.                               *)
ApprovedIsRefunded ==
    \A q \in DOMAIN asks : asks[q].state = "approved" =>
        \E e \in rows : e.kind = "REFUND" /\ e.order = asks[q].order

(* Nobody asks for money that never arrived. *)
AskHasMoney ==
    \A q \in DOMAIN asks : \E e \in rows : e.kind = "CAPTURE" /\ e.order = asks[q].order

(* One resolution: no second Merchant overwrites the first one's decision,  *)
(* and no ask is lost.                                                      *)
ResolvedStays ==
    [][\A q \in DOMAIN asks :
          /\ q \in DOMAIN asks'
          /\ asks[q].state # "requested" => asks'[q] = asks[q]]_allVars

(* Claimed: "the key carries the refund's own id so two partials both write" *)
(* (merchant_actions.py).  A refund that is answered while its own check     *)
(* found no such row has written one of its own.                             *)
PartialsBothWrite ==
    [][\A s \in Sessions : desk[s].at = "refund" /\ desk'[s].at = "find"
          => flushed'[s] # flushed[s]]_allVars
==============================================================================

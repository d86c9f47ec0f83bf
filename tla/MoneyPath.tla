------------------------------ MODULE MoneyPath ------------------------------
(***************************************************************************)
(* The money path of one order: checkout start, the Consumer's tap, the    *)
(* Provider's webhook, an agent's cancel and the expiry sweeper, running   *)
(* concurrently over the state they share (sidecar/checkout.py,            *)
(* sidecar/sweeper.py, sidecar/provider/routes.py).                        *)
(*                                                                         *)
(* Every coroutine is a handler with a step (at) and, once it has loaded   *)
(* the checkout row, a private copy of it (copy).  An action is what runs  *)
(* between two awaits: one door call, one Provider call or one database    *)
(* unit of work.  What a handler learnt before an await and acts on after  *)
(* it is therefore stale whenever another handler ran in between.          *)
(*                                                                         *)
(* Shared state: the checkout row and the tap tokens (sidecar database),   *)
(* the ledger rows of the order, the order at the shop behind the trait    *)
(* doors, the payment link at the Provider, the webhook dedupe set.        *)
(***************************************************************************)
EXTENDS Lifecycle, FiniteSets

CONSTANTS Starts,      \* start-checkout calls on one cart; each mints its own tap token
          Taps,        \* approvals the Consumer submits
          Hooks,       \* concurrent webhook requests, each reusable
          Cancels,     \* cancel-order calls
          Sweeper,     \* the background sweep loop
          Events,      \* webhook events of the order's link, by event id
          NoToken,     \* the blank tap token
          MethodsOffered, \* the payment methods the approve page offers
          TapTTL,      \* life of a tap token (5 minutes in the code)
          LinkLife,    \* life of a payment link (16 minutes in the code)
          LastStart,   \* bound: no checkout starts after this tick
          MaxTime,     \* bound: the clock stops here
          MaxInFlight, \* bound: handlers between their first and last step at once
          MaxCrashes,  \* bound: restarts of the sidecar process
          Faults       \* whether a call may fail under a handler

ASSUME MoneyPathAssumption ==
    /\ NoToken \notin Starts
    /\ Starts \cap (Taps \cup Hooks \cup Cancels \cup {Sweeper}) = {}
    /\ Taps \cap (Hooks \cup Cancels \cup {Sweeper}) = {}
    /\ Hooks \cap (Cancels \cup {Sweeper}) = {}
    /\ Sweeper \notin Cancels
    /\ MethodsOffered \subseteq Methods
    /\ TapTTL \in Nat /\ LinkLife \in Nat /\ LastStart \in Nat /\ MaxTime \in Nat
    /\ MaxCrashes \in Nat
    /\ Faults \in BOOLEAN

VARIABLES now,      \* the clock
          row,      \* the checkout row in the sidecar's database
          tokens,   \* the tap token each start minted
          shop,     \* the order at the Merchant
          ledger,   \* the kinds of ledger entry the order has
          link,     \* the payment link at the Provider
          emitted,  \* webhook events the Provider has sent at least once
          seen,     \* event ids the verifier remembers (process memory)
          at,       \* the step each handler is at
          copy,     \* the row each handler loaded
          crashes   \* restarts so far

vars == <<now, row, tokens, shop, ledger, link, emitted, seen, at, copy, crashes>>

Handlers == Starts \cup Taps \cup Hooks \cup Cancels \cup {Sweeper}
Closers  == Cancels \cup {Sweeper}

-----------------------------------------------------------------------------
(* State spaces *)

Rows == [status      : Statuses \cup {"absent"},
         method      : Methods,
         token       : Starts \cup {NoToken},
         link        : BOOLEAN,
         createdAt   : Times,
         confirmedAt : Times,
         linkExpires : Times]

NoRow == [status |-> "absent", method |-> "upi", token |-> NoToken, link |-> FALSE,
          createdAt |-> NoTime, confirmedAt |-> NoTime, linkExpires |-> NoTime]

(* replied: the statuses whose door 8 call the shop has answered; the reply *)
(* is cached by that call's idempotency key, one key per target status.     *)
Shops == [status    : Statuses \cup {"absent"},
          hold      : {"none", "refused", "held", "released"},
          committed : BOOLEAN,
          replied   : SUBSET Statuses]

Links == [state : {"none", "open", "dead", "full", "short"}, shown : BOOLEAN, until : Times]

TokenStates == [state : {"none", "live", "spent"}, expires : Times]

Kinds == {"RESERVE", "CAPTURE", "RELEASE"}

StartSteps == {"created", "issued"}
TapSteps   == {"loaded", "vetted", "spent", "reserved", "sealing", "confirmed",
               "holding", "held", "linked"}
HookSteps  == {"received", "checking", "paidFull", "notPaid", "capturing", "captured",
               "committed", "settled", "failHeld", "failRelease", "failing", "failSaved"}
CloseSteps == {"closing", "stockBack", "closeHeld", "closeRelease", "closed",
               "unlinking", "saving"}
SweepSteps == {"due", "resync", "recover", "recoverSave", "raised"}
Steps == {"idle", "done"} \cup StartSteps \cup TapSteps \cup HookSteps
             \cup CloseSteps \cup SweepSteps

InFlight(h) == at[h] \notin {"idle", "done", "raised"}

-----------------------------------------------------------------------------
(* Helpers *)

Goto(h, step) == at' = [at EXCEPT ![h] = step]

Rest(h) == IF h \in Hooks \cup {Sweeper} THEN "idle" ELSE "done"

Finish(h) ==
    /\ Goto(h, Rest(h))
    /\ copy' = [copy EXCEPT ![h] = NoRow]

(* An exception: the request ends, a webhook answers 500 or 200; only the   *)
(* sweeper's guarded expire comes back, to resync the row it was acting on. *)
Raise(h) ==
    IF h = Sweeper /\ at[h] \in CloseSteps
    THEN Goto(h, "recover") /\ UNCHANGED copy
    ELSE Finish(h)

Begin(h) ==
    /\ at[h] \in {"idle", "raised"}
    /\ Cardinality({g \in Handlers : InFlight(g)}) < MaxInFlight

\* mutant: the shop refuses an illegal move and nobody looks at its answer
SetStatusUnchecked(status) ==
    shop' = IF status \in shop.replied \/ ~CanTransition(shop.status, status)
            THEN shop
            ELSE [shop EXCEPT !.status = status, !.replied = @ \cup {status}]

(* Door 8 by way of set_status.  A key the shop has answered replays that  *)
(* answer, which names the status asked for; otherwise the UPDATE is       *)
(* unconditional, whatever status the order had.                           *)
SetStatus(status) ==
    shop' = IF status \in shop.replied
            THEN shop
            ELSE [shop EXCEPT !.status = status, !.replied = @ \cup {status}]

(* What position() says of this order's escrow: held and not closed. *)
OpenHold == "RESERVE" \in ledger /\ ledger \cap {"CAPTURE", "RELEASE"} = {}

(* A write whose key is taken returns the entry that is there. *)
Append(kind) == ledger' = ledger \cup {kind}

(* save: the whole row, whatever changed since the copy was loaded. *)
Save(r) == row' = r

Init ==
    /\ now = 0
    /\ row = NoRow
    /\ tokens = [s \in Starts |-> [state |-> "none", expires |-> NoTime]]
    /\ shop = [status |-> "absent", hold |-> "none", committed |-> FALSE, replied |-> {}]
    /\ ledger = {}
    /\ link = [state |-> "none", shown |-> FALSE, until |-> NoTime]
    /\ emitted = {}
    /\ seen = {}
    /\ at = [h \in Handlers |-> "idle"]
    /\ copy = [h \in Handlers |-> NoRow]
    /\ crashes = 0

-----------------------------------------------------------------------------
(* start: create the order, quote it, mint the token, save the row.        *)

\* mutant: the hold is taken when the order is created
StartCreateHolding(s) ==
    /\ Begin(s)
    /\ now <= LastStart
    /\ Goto(s, "created")
    /\ shop' = IF shop.status = "absent"
               THEN [shop EXCEPT !.status = "pending", !.hold = "held"] ELSE shop
    /\ UNCHANGED <<now, row, tokens, ledger, link, emitted, seen, copy, crashes>>

(* Door 7 is keyed on the cart: a second start gets the first order back. *)
StartCreate(s) ==
    /\ Begin(s)
    /\ now <= LastStart
    /\ Goto(s, "created")
    /\ shop' = IF shop.status = "absent" THEN [shop EXCEPT !.status = "pending"] ELSE shop
    /\ UNCHANGED <<now, row, tokens, ledger, link, emitted, seen, copy, crashes>>

StartIssue(s) ==
    /\ at[s] = "created"
    /\ Goto(s, "issued")
    /\ tokens' = [tokens EXCEPT ![s] = [state |-> "live", expires |-> now + TapTTL]]
    /\ UNCHANGED <<now, row, shop, ledger, link, emitted, seen, copy, crashes>>

(* A fresh Pending replaces the row of the order, if it had one. *)
StartSave(s) ==
    /\ at[s] = "issued"
    /\ Save([NoRow EXCEPT !.status = "pending", !.token = s, !.createdAt = now])
    /\ Finish(s)
    /\ UNCHANGED <<now, tokens, shop, ledger, link, emitted, seen, crashes>>

Start(s) == StartCreate(s) \/ StartIssue(s) \/ StartSave(s)

-----------------------------------------------------------------------------
(* tap: spend the token, run the Gate, hold stock, confirm, hold money,    *)
(* make the link, save the row with the link on it.                        *)

TapLoad(t) ==
    /\ Begin(t)
    /\ row.token # NoToken
    /\ \E m \in MethodsOffered : copy' = [copy EXCEPT ![t] = [row EXCEPT !.method = m]]
    /\ Goto(t, "loaded")
    /\ UNCHANGED <<now, row, tokens, shop, ledger, link, emitted, seen, crashes>>

(* spend_tap reads the token first ... *)
TapVet(t) ==
    LET token == tokens[copy[t].token]
    IN /\ at[t] = "loaded"
       /\ IF token.state = "live" /\ now <= token.expires
          THEN Goto(t, "vetted") /\ UNCHANGED copy
          ELSE Raise(t)
       /\ UNCHANGED <<now, row, tokens, shop, ledger, link, emitted, seen, crashes>>

\* mutant: the UPDATE drops its "and not spent"
TapSpendAgain(t) ==
    /\ at[t] = "vetted"
    /\ tokens' = [tokens EXCEPT ![copy[t].token].state = "spent"]
    /\ Goto(t, "spent")
    /\ UNCHANGED <<now, row, shop, ledger, link, emitted, seen, copy, crashes>>

(* ... then spends it where it is still unspent, and refuses if it was not. *)
TapSpend(t) ==
    LET token == copy[t].token
    IN /\ at[t] = "vetted"
       /\ IF tokens[token].state = "live"
          THEN /\ tokens' = [tokens EXCEPT ![token].state = "spent"]
               /\ Goto(t, "spent")
               /\ UNCHANGED copy
          ELSE Raise(t) /\ UNCHANGED tokens
       /\ UNCHANGED <<now, row, shop, ledger, link, emitted, seen, crashes>>

(* The Gate refuses. *)
TapRefuse(t) ==
    /\ at[t] = "spent"
    /\ Finish(t)
    /\ UNCHANGED <<now, row, tokens, shop, ledger, link, emitted, seen, crashes>>

(* The Gate passes and door 3 answers: held, or sold out.  Either answer   *)
(* is cached under the order's key and replayed to every later tap.        *)
TapReserve(t) ==
    /\ at[t] = "spent"
    /\ \E answer \in {"held", "refused"} :
          LET hold == IF shop.hold = "none" THEN answer ELSE shop.hold
          IN /\ shop' = [shop EXCEPT !.hold = hold]
             /\ IF hold = "refused"
                THEN Raise(t)
                ELSE Goto(t, "reserved") /\ UNCHANGED copy
    /\ UNCHANGED <<now, row, tokens, ledger, link, emitted, seen, crashes>>

TapConfirm(t) ==
    /\ at[t] = "reserved"
    /\ SetStatus("confirmed")
    /\ copy' = [copy EXCEPT ![t].status = "confirmed", ![t].confirmedAt = now]
    /\ Goto(t, IF copy[t].method = "cod" THEN "sealing" ELSE "confirmed")
    /\ UNCHANGED <<now, row, tokens, ledger, link, emitted, seen, crashes>>

(* Cash on delivery: no ledger entry and no link. *)
TapSaveCod(t) ==
    /\ at[t] = "sealing"
    /\ Save(copy[t])
    /\ Finish(t)
    /\ UNCHANGED <<now, tokens, shop, ledger, link, emitted, seen, crashes>>

\* mutant: the link is made before the money is held
TapLinkFirst(t) ==
    /\ at[t] = "confirmed"
    /\ Goto(t, "held")
    /\ UNCHANGED <<now, row, tokens, shop, ledger, link, emitted, seen, copy, crashes>>

(* Ledger.reserve refuses a second hold ... *)
TapHold(t) ==
    /\ at[t] = "confirmed"
    /\ IF OpenHold THEN Raise(t) ELSE Goto(t, "holding") /\ UNCHANGED copy
    /\ UNCHANGED <<now, row, tokens, shop, ledger, link, emitted, seen, crashes>>

(* ... and otherwise inserts the RESERVE. *)
TapReserveMoney(t) ==
    /\ at[t] = "holding"
    /\ Append("RESERVE")
    /\ Goto(t, "held")
    /\ UNCHANGED <<now, row, tokens, shop, link, emitted, seen, copy, crashes>>

\* mutant: the link id is left off the row
TapLinkUnrecorded(t) ==
    /\ at[t] = "held"
    /\ link' = IF link.state = "none"
               THEN [link EXCEPT !.state = "open", !.until = now + LinkLife]
               ELSE link
    /\ copy' = [copy EXCEPT ![t].linkExpires = link'.until]
    /\ Goto(t, "linked")
    /\ UNCHANGED <<now, row, tokens, shop, ledger, emitted, seen, crashes>>

(* make_link: the Provider refuses a second link for the order, and the    *)
(* adapter adopts the one that is there, whatever its state.               *)
TapLink(t) ==
    /\ at[t] = "held"
    /\ link' = IF link.state = "none"
               THEN [link EXCEPT !.state = "open", !.until = now + LinkLife]
               ELSE link
    /\ copy' = [copy EXCEPT ![t].link = TRUE, ![t].linkExpires = link'.until]
    /\ Goto(t, "linked")
    /\ UNCHANGED <<now, row, tokens, shop, ledger, emitted, seen, crashes>>

(* The row gets its link and the browser its pay page. *)
TapSave(t) ==
    /\ at[t] = "linked"
    /\ Save(copy[t])
    /\ link' = [link EXCEPT !.shown = TRUE]
    /\ Finish(t)
    /\ UNCHANGED <<now, tokens, shop, ledger, emitted, seen, crashes>>

Tap(t) ==
    \/ TapLoad(t) \/ TapVet(t) \/ TapSpend(t) \/ TapRefuse(t) \/ TapReserve(t)
    \/ TapConfirm(t) \/ TapSaveCod(t)
    \/ TapHold(t) \/ TapReserveMoney(t) \/ TapLink(t) \/ TapSave(t)

-----------------------------------------------------------------------------
(* The Provider and the Consumer, outside the sidecar.                     *)

(* The Consumer pays the link they were shown, in full or not. *)
Pay ==
    /\ link.state = "open" /\ link.shown
    /\ \E amount \in {"full", "short"} : link' = [link EXCEPT !.state = amount]
    /\ UNCHANGED <<now, row, tokens, shop, ledger, emitted, seen, at, copy, crashes>>

(* The link reaches the end of its own life. *)
LinkExpire ==
    /\ link.state = "open" /\ now >= link.until
    /\ link' = [link EXCEPT !.state = "dead"]
    /\ UNCHANGED <<now, row, tokens, shop, ledger, emitted, seen, at, copy, crashes>>

(* Any change of the link is an event; once sent it may be delivered again. *)
Emit(e) ==
    /\ link.state \in {"full", "short", "dead"}
    /\ e \notin emitted
    /\ emitted' = emitted \cup {e}
    /\ UNCHANGED <<now, row, tokens, shop, ledger, link, seen, at, copy, crashes>>

-----------------------------------------------------------------------------
(* deliver and complete: one webhook request.                              *)

(* The dedupe remembers the event before anything is done about it.  A     *)
(* duplicate, an unknown link and a terminal row are acknowledged here.    *)
HookReceive(h, e) ==
    /\ Begin(h)
    /\ e \in emitted \ seen
    /\ seen' = seen \cup {e}
    /\ at' = IF row.link /\ row.status \notin Terminal
             THEN [at EXCEPT ![h] = "received"]
             ELSE at
    /\ UNCHANGED <<now, row, tokens, shop, ledger, link, emitted, copy, crashes>>

(* complete looks the row up again, and does not look at its status again. *)
HookLoad(h) ==
    /\ at[h] = "received"
    /\ IF row.link
       THEN Goto(h, "checking") /\ copy' = [copy EXCEPT ![h] = row]
       ELSE Raise(h)
    /\ UNCHANGED <<now, row, tokens, shop, ledger, link, emitted, seen, crashes>>

\* mutant: any payment counts as payment in full
HookCheckAnyAmount(h) ==
    /\ at[h] = "checking"
    /\ Goto(h, IF link.state \in {"full", "short"} THEN "paidFull" ELSE "notPaid")
    /\ UNCHANGED <<now, row, tokens, shop, ledger, link, emitted, seen, copy, crashes>>

HookCheck(h) ==
    /\ at[h] = "checking"
    /\ Goto(h, IF link.state = "full" THEN "paidFull" ELSE "notPaid")
    /\ UNCHANGED <<now, row, tokens, shop, ledger, link, emitted, seen, copy, crashes>>

\* mutant: the refusal of Ledger.capture is swallowed
HookSettleAnyway(h) ==
    /\ at[h] = "paidFull"
    /\ Goto(h, IF OpenHold THEN "capturing" ELSE "captured")
    /\ UNCHANGED <<now, row, tokens, shop, ledger, link, emitted, seen, copy, crashes>>

(* settle, paid: Ledger.capture refuses where no hold is open ... *)
HookSettle(h) ==
    /\ at[h] = "paidFull"
    /\ IF OpenHold THEN Goto(h, "capturing") /\ UNCHANGED copy ELSE Raise(h)
    /\ UNCHANGED <<now, row, tokens, shop, ledger, link, emitted, seen, crashes>>

(* ... and otherwise inserts the CAPTURE. *)
HookCapture(h) ==
    /\ at[h] = "capturing"
    /\ Append("CAPTURE")
    /\ Goto(h, "captured")
    /\ UNCHANGED <<now, row, tokens, shop, link, emitted, seen, copy, crashes>>

(* Door 4 asks only whether a hold was ever taken. *)
HookCommit(h) ==
    /\ at[h] = "captured"
    /\ IF shop.hold \in {"held", "released"}
       THEN /\ shop' = [shop EXCEPT !.committed = TRUE]
            /\ Goto(h, "committed")
            /\ UNCHANGED copy
       ELSE Raise(h) /\ UNCHANGED shop
    /\ UNCHANGED <<now, row, tokens, ledger, link, emitted, seen, crashes>>

HookPaid(h) ==
    /\ at[h] = "committed"
    /\ SetStatus("paid")
    /\ copy' = [copy EXCEPT ![h].status = "paid"]
    /\ Goto(h, "settled")
    /\ UNCHANGED <<now, row, tokens, ledger, link, emitted, seen, crashes>>

(* The receipt is sealed and the row saved. *)
HookSave(h) ==
    /\ at[h] = "settled"
    /\ Save(copy[h])
    /\ Finish(h)
    /\ UNCHANGED <<now, tokens, shop, ledger, link, emitted, seen, crashes>>

\* mutant: a failed payment keeps its hold
HookFailUnreleased(h) ==
    /\ at[h] = "notPaid"
    /\ Goto(h, "failing")
    /\ UNCHANGED <<now, row, tokens, shop, ledger, link, emitted, seen, copy, crashes>>

(* settle, not paid: _release_if_held reads the position ... *)
HookFailRead(h) ==
    /\ at[h] = "notPaid"
    /\ Goto(h, IF OpenHold THEN "failHeld" ELSE "failing")
    /\ UNCHANGED <<now, row, tokens, shop, ledger, link, emitted, seen, copy, crashes>>

(* ... Ledger.release reads it once more and refuses if nothing is held ... *)
HookFailRecheck(h) ==
    /\ at[h] = "failHeld"
    /\ IF OpenHold THEN Goto(h, "failRelease") /\ UNCHANGED copy ELSE Raise(h)
    /\ UNCHANGED <<now, row, tokens, shop, ledger, link, emitted, seen, crashes>>

(* ... and otherwise inserts the RELEASE. *)
HookFailRelease(h) ==
    /\ at[h] = "failRelease"
    /\ Append("RELEASE")
    /\ Goto(h, "failing")
    /\ UNCHANGED <<now, row, tokens, shop, link, emitted, seen, copy, crashes>>

(* Here alone the row is saved before the shop is told. *)
HookFailSave(h) ==
    /\ at[h] = "failing"
    /\ copy' = [copy EXCEPT ![h].status = "failed"]
    /\ Save(copy'[h])
    /\ Goto(h, "failSaved")
    /\ UNCHANGED <<now, tokens, shop, ledger, link, emitted, seen, crashes>>

HookFailStatus(h) ==
    /\ at[h] = "failSaved"
    /\ SetStatus("failed")
    /\ Finish(h)
    /\ UNCHANGED <<now, row, tokens, ledger, link, emitted, seen, crashes>>

HookStep(h) ==
    \/ HookLoad(h) \/ HookCheck(h)
    \/ HookSettle(h) \/ HookCapture(h) \/ HookCommit(h) \/ HookPaid(h) \/ HookSave(h)
    \/ HookFailRead(h) \/ HookFailRecheck(h) \/ HookFailRelease(h)
    \/ HookFailSave(h) \/ HookFailStatus(h)

-----------------------------------------------------------------------------
(* Closing an order: what cancel and expire share.  Stock first, then the  *)
(* money's hold, then the status, then the link, then the row.             *)

(* Door 5 refuses where no hold was taken and replays a release. *)
CloseStock(h) ==
    /\ at[h] = "closing"
    /\ IF shop.hold \in {"held", "released"}
       THEN /\ shop' = [shop EXCEPT !.hold = "released"]
            /\ Goto(h, "stockBack")
            /\ UNCHANGED copy
       ELSE Raise(h) /\ UNCHANGED shop
    /\ UNCHANGED <<now, row, tokens, ledger, link, emitted, seen, crashes>>

CloseRead(h) ==
    /\ at[h] = "stockBack"
    /\ Goto(h, IF OpenHold THEN "closeHeld" ELSE "closed")
    /\ UNCHANGED <<now, row, tokens, shop, ledger, link, emitted, seen, copy, crashes>>

CloseRecheck(h) ==
    /\ at[h] = "closeHeld"
    /\ IF OpenHold THEN Goto(h, "closeRelease") /\ UNCHANGED copy ELSE Raise(h)
    /\ UNCHANGED <<now, row, tokens, shop, ledger, link, emitted, seen, crashes>>

CloseRelease(h) ==
    /\ at[h] = "closeRelease"
    /\ Append("RELEASE")
    /\ Goto(h, "closed")
    /\ UNCHANGED <<now, row, tokens, shop, link, emitted, seen, copy, crashes>>

\* mutant: the reason code passed for the status
ClosedAsReason(h) == IF h = Sweeper THEN "payment-window-elapsed" ELSE "cancelled"

ClosedAs(h) == IF h = Sweeper THEN "expired" ELSE "cancelled"

\* mutant: the copy keeps its old status
CloseStatusUnrecorded(h) ==
    /\ at[h] = "closed"
    /\ SetStatus(ClosedAs(h))
    /\ Goto(h, IF copy[h].link THEN "unlinking" ELSE "saving")
    /\ UNCHANGED <<now, row, tokens, ledger, link, emitted, seen, copy, crashes>>

CloseStatus(h) ==
    /\ at[h] = "closed"
    /\ SetStatus(ClosedAs(h))
    /\ copy' = [copy EXCEPT ![h].status = ClosedAs(h)]
    /\ Goto(h, IF copy[h].link THEN "unlinking" ELSE "saving")
    /\ UNCHANGED <<now, row, tokens, ledger, link, emitted, seen, crashes>>

(* A link that is paid or dead refuses, and that is not an error; where one *)
(* paid in part refuses, the call fails (CallFails).  Expiry also forgets   *)
(* the link; a cancelled row keeps its id.                                  *)
CloseLink(h) ==
    /\ at[h] = "unlinking"
    /\ link' = IF link.state = "open" THEN [link EXCEPT !.state = "dead"] ELSE link
    /\ copy' = [copy EXCEPT ![h].link = h # Sweeper]
    /\ Goto(h, "saving")
    /\ UNCHANGED <<now, row, tokens, shop, ledger, emitted, seen, crashes>>

(* The approve link dies with the order. *)
CloseSave(h) ==
    /\ at[h] = "saving"
    /\ Save([copy[h] EXCEPT !.token = NoToken])
    /\ Finish(h)
    /\ UNCHANGED <<now, tokens, shop, ledger, link, emitted, seen, crashes>>

(* The shop took the status and the reply was lost on the way back: the     *)
(* handler fails with its copy still saying the old status.                 *)
CloseStatusLost(h) ==
    /\ Faults
    /\ at[h] = "closed"
    /\ SetStatus(ClosedAs(h))
    /\ Raise(h)
    /\ UNCHANGED <<now, row, tokens, ledger, link, emitted, seen, crashes>>

Close(h) ==
    \/ CloseStock(h) \/ CloseRead(h) \/ CloseRecheck(h) \/ CloseRelease(h)
    \/ CloseStatus(h) \/ CloseStatusLost(h)
    \/ CloseLink(h) \/ CloseSave(h)

(* cancel: refused on a paid row, and only there. *)
CancelLoad(c) ==
    /\ Begin(c)
    /\ row.status \notin {"absent", "paid"}
    /\ copy' = [copy EXCEPT ![c] = row]
    /\ Goto(c, IF row.status = "confirmed" THEN "closing" ELSE "closed")
    /\ UNCHANGED <<now, row, tokens, shop, ledger, link, emitted, seen, crashes>>

-----------------------------------------------------------------------------
(* sweep_once, for this order.                                             *)

(* What the pass does next with a row, by its deadline. *)
SweepStep(r) ==
    CASE Unanswerable(r)                     -> "raised"
      [] ~IsDue(r, now) \/ AlertsOnly(r)     -> "idle"
      [] IsDue(r, now) /\ ReleasesStock(r)   -> "closing"
      [] OTHER                               -> "closed"

SweepTo(step, r) ==
    /\ Goto(Sweeper, step)
    /\ copy' = [copy EXCEPT ![Sweeper] = IF step \in {"raised", "idle"} THEN NoRow ELSE r]

(* The pass reads the live rows.  An unanswerable one ends the whole pass. *)
SweepStart ==
    /\ Begin(Sweeper)
    /\ Unanswerable(row) \/ IsDue(row, now)
    /\ SweepTo(IF Unanswerable(row) THEN "raised" ELSE "due", row)
    /\ UNCHANGED <<now, row, tokens, shop, ledger, link, emitted, seen, crashes>>

(* _resync reads the shop; where the copy agrees nothing is saved. *)
SweepResync ==
    /\ at[Sweeper] = "due"
    /\ IF shop.status = copy[Sweeper].status
       THEN SweepTo(SweepStep(copy[Sweeper]), copy[Sweeper])
       ELSE SweepTo("resync", [copy[Sweeper] EXCEPT !.status = shop.status])
    /\ UNCHANGED <<now, row, tokens, shop, ledger, link, emitted, seen, crashes>>

(* Otherwise the corrected copy is saved and its deadline asked for again. *)
SweepResave ==
    /\ at[Sweeper] = "resync"
    /\ Save(copy[Sweeper])
    /\ SweepTo(SweepStep(copy[Sweeper]), copy[Sweeper])
    /\ UNCHANGED <<now, tokens, shop, ledger, link, emitted, seen, crashes>>

(* After a failed expire the copy, as far as it got, is resynced again. *)
SweepRecover ==
    /\ at[Sweeper] = "recover"
    /\ IF shop.status = copy[Sweeper].status
       THEN SweepTo("idle", NoRow)
       ELSE SweepTo("recoverSave", [copy[Sweeper] EXCEPT !.status = shop.status])
    /\ UNCHANGED <<now, row, tokens, shop, ledger, link, emitted, seen, crashes>>

SweepRecoverSave ==
    /\ at[Sweeper] = "recoverSave"
    /\ Save(copy[Sweeper])
    /\ SweepTo("idle", NoRow)
    /\ UNCHANGED <<now, tokens, shop, ledger, link, emitted, seen, crashes>>

Sweep == SweepStart \/ SweepResync \/ SweepResave \/ SweepRecover \/ SweepRecoverSave

-----------------------------------------------------------------------------
(* Failures and time *)

(* A call fails under a handler: before it took effect, or after, which is *)
(* the same as failing at the start of the next one.                       *)
CallFails(h) ==
    /\ Faults
    /\ InFlight(h)
    /\ Raise(h)
    /\ UNCHANGED <<now, row, tokens, shop, ledger, link, emitted, seen, crashes>>

(* The process dies: every coroutine and the dedupe set with it. *)
Crash ==
    /\ crashes < MaxCrashes
    /\ crashes' = crashes + 1
    /\ at' = [h \in Handlers |-> IF InFlight(h) THEN Rest(h) ELSE at[h]]
    /\ copy' = [h \in Handlers |-> NoRow]
    /\ seen' = {}
    /\ UNCHANGED <<now, row, tokens, shop, ledger, link, emitted>>

(* Every call has a timeout of seconds and a tick is minutes, so no handler *)
(* is in flight across a tick.                                              *)
Tick ==
    /\ now < MaxTime
    /\ \A h \in Handlers : ~InFlight(h)
    /\ now' = now + 1
    /\ UNCHANGED <<row, tokens, shop, ledger, link, emitted, seen, at, copy, crashes>>

Next ==
    \/ \E s \in Starts : Start(s)
    \/ \E t \in Taps : Tap(t)
    \/ \E h \in Hooks : HookStep(h) \/ \E e \in Events : HookReceive(h, e)
    \/ \E c \in Cancels : CancelLoad(c)
    \/ \E h \in Closers : Close(h)
    \/ Sweep
    \/ \E h \in Handlers : CallFails(h)
    \/ Pay \/ LinkExpire
    \/ \E e \in Events : Emit(e)
    \/ Crash \/ Tick

Spec == Init /\ [][Next]_vars

-----------------------------------------------------------------------------
(* Fairness: the event loop runs every coroutine that can go on, calls     *)
(* return or time out, the sweep loop and the clock do not stop, and the   *)
(* Provider delivers what it has to say.                                   *)
FairSpec ==
    /\ Spec
    /\ SF_vars(Tick)
    /\ WF_vars(Sweep)
    /\ \A s \in Starts : WF_vars(StartIssue(s) \/ StartSave(s))
    /\ \A t \in Taps : WF_vars(Tap(t) /\ at[t] # "idle")
    /\ \A h \in Hooks : WF_vars(HookStep(h))
    /\ \A h \in Closers : WF_vars(Close(h))
    /\ \A e \in Events : WF_vars(Emit(e)) /\ SF_vars(\E h \in Hooks : HookReceive(h, e))

-----------------------------------------------------------------------------
(* Properties *)

(* Types of every variable. *)
TypeOK ==
    /\ now \in Nat
    /\ row \in Rows
    /\ tokens \in [Starts -> TokenStates]
    /\ shop \in Shops
    /\ ledger \subseteq Kinds
    /\ link \in Links
    /\ emitted \subseteq Events
    /\ seen \subseteq Events
    /\ at \in [Handlers -> Steps]
    /\ copy \in [Handlers -> Rows]
    /\ crashes \in Nat

(* An order nobody paid for is never called paid: wherever it says paid,   *)
(* at the shop or on the row, the ledger has the CAPTURE.                  *)
PaidIsCaptured ==
    "paid" \in shop.replied \/ row.status = "paid" => "CAPTURE" \in ledger

(* A CAPTURE is only ever written over money the Provider holds in full.   *)
CaptureIsBacked == "CAPTURE" \in ledger => link.state = "full"

(* The row never claims a status the shop did not take, except failed,     *)
(* which complete saves first.                                             *)
RowFollowsShop ==
    row.status \in {"absent", "pending", "failed"} \cup shop.replied

(* Neither stock nor money is held for an order no human tapped.           *)
HoldImpliesTap ==
    /\ shop.hold # "none" => \E s \in Starts : tokens[s].state = "spent"
    /\ ledger # {} => shop.hold \in {"held", "released"}

(* A pay link exists only once the ledger holds the money it asks for.     *)
NoLinkWithoutHold == link.state # "none" => "RESERVE" \in ledger

(* A tap token lets one approval through: no two taps are past the spend   *)
(* of the same token.                                                      *)
PastSpend == {"spent", "reserved", "sealing", "confirmed", "holding", "held", "linked"}

OneTapPerToken ==
    \A t, u \in Taps :
        /\ at[t] \in PastSpend
        /\ at[u] \in PastSpend
        /\ copy[t].token = copy[u].token
        => t = u

(* An order that expired or was cancelled holds neither stock nor money.   *)
ClosedOrderHoldsNothing ==
    row.status \in {"expired", "cancelled"} => shop.hold # "held" /\ ~OpenHold

(* A link its payer has seen leads the callback back to the row for as     *)
(* long as the order is live: no stale save takes it off.                  *)
ShownLinkIsFindable == link.shown /\ row.status \notin Terminal => row.link

(* A row that reached a terminal status never comes back to life.          *)
TerminalRowStays == [][row.status \in Terminal => row'.status \in Terminal]_vars

(* Every RESERVE is eventually closed.                                     *)
EveryHoldCloses == "RESERVE" \in ledger ~> ledger \cap {"CAPTURE", "RELEASE"} # {}

(* Stock held for a prepaid order is eventually given back or sold, unless *)
(* the payment failed.                                                     *)
HeldStockIsSettled ==
    shop.hold = "held" ~>
        shop.hold = "released" \/ shop.committed \/ shop.status = "failed"

(* Both ends of a hold: no order, however it is left, keeps money reserved  *)
(* or goods off the shelf for ever (entries.py:11, sweeper.py:94).          *)
HoldsEnd == EveryHoldCloses /\ HeldStockIsSettled

-----------------------------------------------------------------------------
(* Refinement: the order as OrderLifecycle sees it.                        *)

(* Where the order's money is, from its ledger entries. *)
MoneyOf ==
    CASE "CAPTURE" \in ledger -> "captured"
      [] "RELEASE" \in ledger /\ "CAPTURE" \notin ledger -> "released"
      [] ledger = {"RESERVE"} -> "held"
      [] OTHER -> "none"

Abstract == INSTANCE OrderLifecycle WITH status <- shop.status, money <- MoneyOf

(* Run one handler at a time, without failures and cancels, the code keeps *)
(* the promise of OrderLifecycle.                                          *)
KeepsLifecycle == Abstract!AbstractSpec
==============================================================================

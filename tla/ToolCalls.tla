------------------------------ MODULE ToolCalls ------------------------------
(***************************************************************************)
(* An agent's tool calls (protocols/agent_routes.py, tools.py), the basket  *)
(* the sidecar keeps for each agent (basket.py) and the answers kept by     *)
(* idempotency key (idempotency.py).                                        *)
(*                                                                         *)
(* A call looks its key up, loads the basket whole, runs the tool on that   *)
(* copy, writes the copy back whole (or drops the row, when the basket      *)
(* became an order), stores its answer and replies.  Each is a transaction  *)
(* of its own: other calls of the same agent run in between.  The tools     *)
(* about an order that is there (place-order, cancel-order, request-refund) *)
(* load no basket, but are stored under their key like the others.  The     *)
(* read tools (search, read-item, order-status) keep and change nothing and *)
(* are left out.                                                            *)
(***************************************************************************)
EXTENDS Integers, FiniteSets, FiniteSetsExt, Functions

CONSTANTS Agents, Skus, Places, Keys, Workers,
          GoodCodes, BadCodes, \* discount codes the shop knows, and does not
          Stock,               \* door 2's answer: [Skus -> Nat]
          MaxCarts,            \* bound: cart ids handed out
          None

ASSUME CallsAssumption ==
    /\ IsFiniteSet(Skus) /\ Stock \in [Skus -> Nat] /\ MaxCarts \in Nat
    /\ None \notin Skus \cup Places \cup Keys \cup GoodCodes \cup BadCodes
    /\ GoodCodes \cap BadCodes = {}

VARIABLES calm,      \* one call at a time, every door answers, nobody dies
          carts,     \* how many cart ids have been made
          row,       \* the baskets table
          keys,      \* the idempotency_keys table
          orders,    \* the Merchant's orders: the lines of each, by cart
          checkouts, \* the checkouts table, by cart
          call,      \* the call each worker is at
          told,      \* answers that went out under a key, while calm
          reused     \* carts a protocol checkout named after they were handed out

vars == <<calm, carts, row, keys, orders, checkouts, call, told, reused>>

Lines     == Skus \X (Skus \cup {None})   \* (sku, parent)
NoLines   == [l \in Lines |-> 0]
BasketTools == {"add-line", "remove-line", "clear-basket", "set-destination", "set-contact",
                "choose-fulfillment", "apply-public-code", "start-checkout"}
OrderTools  == {"place-order", "cancel-order", "request-refund"}
KeyedAsks == {"add-line"} \X Skus \X (Skus \cup {None})
             \cup {"remove-line"} \X Skus \X {None}
             \cup {"clear-basket", "set-contact", "start-checkout", "place-order"} \X {None} \X {None}
             \cup {"cancel-order", "request-refund"} \X (1..MaxCarts) \X {None}
             \cup {"set-destination"} \X (Places \cup {None}) \X {None}
             \cup {"choose-fulfillment"} \X {"offered", "another", None} \X {None}
             \cup {"apply-public-code"} \X (GoodCodes \cup BadCodes) \X {None}
(* A protocol checkout (UCP, ACP, AP2) carries no key.                      *)
Asks == KeyedAsks \cup {"checkout"} \X Skus \X Places

(* An option stands for the offer it was picked from: the delivery the shop *)
(* priced for these lines to this place.                                    *)
Offer(b)    == <<b.lines, b.dest>>
Fresh(n)    == [cart |-> n, lines |-> NoLines, dest |-> None, contact |-> FALSE,
                option |-> None, code |-> None]
Unchosen(b) == [b EXCEPT !.option = None]
Quotable(b) == b.lines # NoLines /\ b.dest # None /\ b.option # None

NoRow == Fresh(0)
Quiet == [agent |-> None, key |-> None, ask |-> <<None, None, None>>, at |-> "idle",
          basket |-> NoRow, named |-> 0, ok |-> FALSE]

Idle(w)    == call[w].at = "idle"
Of(w)      == <<call[w].agent, call[w].key>>
Tool(w)    == call[w].ask[1]
Arg(w)     == call[w].ask[2]
B(w)       == call[w].basket
Runs(w, t) == call[w].at = "run" /\ Tool(w) = t

(* What is answered: the basket, or the order it is about.                  *)
Answer(w) == IF Tool(w) \in OrderTools THEN call[w].named ELSE B(w)

Init ==
    /\ calm \in BOOLEAN /\ carts = 0
    /\ row = [a \in Agents |-> NoRow]
    /\ keys = <<>> /\ orders = <<>> /\ checkouts = <<>>
    /\ call = [w \in Workers |-> Quiet]
    /\ told = [k \in Agents \X Keys |-> {}]
    /\ reused = {}

-----------------------------------------------------------------------------
(* Around the tool. *)

Tell(ak, what) == told' = IF calm /\ ak[2] # None THEN [told EXCEPT ![ak] = @ \cup {what}] ELSE told
Free(w) == call' = [call EXCEPT ![w] = Quiet]

(* A tool that needs no basket starts at once.                              *)
Taken(a, key, ask) ==
    [Quiet EXCEPT !.agent = a, !.key = key, !.ask = ask,
                  !.at = IF ask[1] \in OrderTools THEN "run" ELSE "load"]

\* mutant: the stored answer is given whatever was asked
ReplayAnything(w, a, key, ask) ==
    IF <<a, key>> \in DOMAIN keys
    THEN Tell(<<a, key>>, <<ask, keys[<<a, key>>].answer>>) /\ UNCHANGED call
    ELSE /\ call' = [call EXCEPT ![w] = Taken(a, key, ask)]
         /\ UNCHANGED told

(* A known key with the question it answered gets the first answer, with    *)
(* another question a conflict; an unknown key runs.                        *)
Replay(w, a, key, ask) ==
    IF <<a, key>> \in DOMAIN keys
    THEN /\ IF keys[<<a, key>>].ask = ask
            THEN Tell(<<a, key>>, <<ask, keys[<<a, key>>].answer>>)
            ELSE UNCHANGED told
         /\ UNCHANGED call
    ELSE /\ call' = [call EXCEPT ![w] = Taken(a, key, ask)]
         /\ UNCHANGED told

(* A call comes in. *)
Arrive(w, a, key, ask) ==
    /\ Idle(w)
    /\ calm => \A u \in Workers : Idle(u)
    /\ ask[1] = "checkout" => key = None
    /\ Replay(w, a, key, ask)
    /\ UNCHANGED <<calm, carts, row, keys, orders, checkouts, reused>>

NeedsCart(w) == row[call[w].agent] = NoRow
Loaded(w)    == IF NeedsCart(w) THEN Fresh(carts + 1) ELSE row[call[w].agent]

(* for_agent: the row, or a basket with a cart id of its own.               *)
Load(w) ==
    /\ call[w].at = "load" /\ Tool(w) \in BasketTools
    /\ NeedsCart(w) => carts < MaxCarts
    /\ carts' = IF NeedsCart(w) THEN carts + 1 ELSE carts
    /\ call' = [call EXCEPT ![w].basket = Loaded(w), ![w].at = "run"]
    /\ UNCHANGED <<calm, row, keys, orders, checkouts, told, reused>>

(* The lines a protocol checkout sends, with the delivery it picked.        *)
Sent(w, cart) ==
    LET b == [Fresh(cart) EXCEPT !.lines[<<Arg(w), None>>] = 1, !.dest = call[w].ask[3]]
    IN  [b EXCEPT !.option = Offer(b)]

(* _start_from: the cart id is the caller's, be it new or that of a basket  *)
(* or of a checkout there is, and a new one when the caller sends none.     *)
Receive(w) ==
    /\ call[w].at = "load" /\ Tool(w) = "checkout"
    /\ \E cart \in 1..MaxCarts :
         /\ cart <= carts + 1
         /\ carts' = IF cart <= carts THEN carts ELSE cart
         /\ reused' = IF cart <= carts THEN reused \cup {cart} ELSE reused
         /\ call' = [call EXCEPT ![w].basket = Sent(w, cart), ![w].at = "order"]
    /\ UNCHANGED <<calm, row, keys, orders, checkouts, told>>

(* save: the whole row, also when the tool refused. *)
Save(w) ==
    /\ call[w].at = "save"
    /\ row' = [row EXCEPT ![call[w].agent] = B(w)]
    /\ call' = IF call[w].ok THEN [call EXCEPT ![w].at = "remember"]
                             ELSE [call EXCEPT ![w] = Quiet]
    /\ UNCHANGED <<calm, carts, keys, orders, checkouts, told, reused>>

\* mutant: the basket that became an order is kept
ClearKeeps(w) ==
    /\ call[w].at = "clear"
    /\ row' = [row EXCEPT ![call[w].agent] = B(w)]
    /\ call' = [call EXCEPT ![w].at = "remember"]
    /\ UNCHANGED <<calm, carts, keys, orders, checkouts, told, reused>>

(* clear: the basket has become an order, the agent starts a fresh one. *)
Clear(w) ==
    /\ call[w].at = "clear"
    /\ row' = [row EXCEPT ![call[w].agent] = NoRow]
    /\ call' = [call EXCEPT ![w].at = "remember"]
    /\ UNCHANGED <<calm, carts, keys, orders, checkouts, told, reused>>

\* mutant: the answer is written over the one that is there
RememberOver(w) ==
    /\ call[w].at = "remember"
    /\ keys' = [k \in DOMAIN keys \cup ({Of(w)} \ (Agents \X {None})) |->
                  IF k = Of(w) THEN [ask |-> call[w].ask, answer |-> Answer(w)] ELSE keys[k]]
    /\ Tell(Of(w), <<call[w].ask, Answer(w)>>)
    /\ Free(w)
    /\ UNCHANGED <<calm, carts, row, orders, checkouts, reused>>

\* mutant: a call without a key is kept as one with the key ""
RememberKeyless(w) ==
    /\ call[w].at = "remember"
    /\ keys' = [k \in DOMAIN keys \cup {Of(w)} |->
                  IF k \in DOMAIN keys THEN keys[k] ELSE [ask |-> call[w].ask, answer |-> Answer(w)]]
    /\ Tell(Of(w), <<call[w].ask, Answer(w)>>)
    /\ Free(w)
    /\ UNCHANGED <<calm, carts, row, orders, checkouts, reused>>

(* remember: an insert.  A second worker with the same key finds the row    *)
(* there, and its caller gets an error although the tool has run.           *)
Remember(w) ==
    /\ call[w].at = "remember"
    /\ IF Of(w) \in DOMAIN keys
       THEN UNCHANGED <<keys, told>>
       ELSE /\ keys' = [k \in DOMAIN keys \cup ({Of(w)} \ (Agents \X {None})) |->
                          IF k = Of(w) THEN [ask |-> call[w].ask, answer |-> Answer(w)] ELSE keys[k]]
            /\ Tell(Of(w), <<call[w].ask, Answer(w)>>)
    /\ Free(w)
    /\ UNCHANGED <<calm, carts, row, orders, checkouts, reused>>

Die(w) ==
    /\ ~calm /\ ~Idle(w)
    /\ Free(w)
    /\ UNCHANGED <<calm, carts, row, keys, orders, checkouts, told, reused>>

-----------------------------------------------------------------------------
(* The tools that edit the basket.  Each ends at "save"; a door that        *)
(* refuses or does not answer ends it with whatever was edited by then.     *)

Ends(w, b, ok) ==
    /\ call' = [call EXCEPT ![w].basket = b, ![w].ok = ok, ![w].at = "save"]
    /\ UNCHANGED <<calm, carts, row, keys, orders, checkouts, told, reused>>

(* summary: a quotable basket is priced by door 9, which may refuse. *)
Summed(w, b) == \E ok \in BOOLEAN : (ok \/ Quotable(b)) /\ Ends(w, b, ok)

LinesOf(sku) == {l \in Lines : l[1] = sku}
Held(b, sku) == SumFunctionOnSet(b.lines, LinesOf(sku))

\* mutant: the lines of the sku under another parent are not counted
EnoughOfLine(b, sku, parent) == Stock[sku] >= b.lines[sku, parent] + 1

Enough(b, sku, parent) == Stock[sku] >= Held(b, sku) + 1

\* mutant: the chosen delivery is kept
AddedChosen(b, l) == [b EXCEPT !.lines[l] = @ + 1]

Added(b, l) == Unchosen([b EXCEPT !.lines[l] = @ + 1])

AddLine(w) ==
    /\ Runs(w, "add-line")
    /\ LET l == <<Arg(w), call[w].ask[3]>>
       IN \/ Ends(w, B(w), FALSE)
          \/ Enough(B(w), l[1], l[2]) /\ Ends(w, Added(B(w), l), TRUE)

(* The line goes, and every add-on that hangs off it. *)
RemoveLine(w) ==
    /\ Runs(w, "remove-line")
    /\ LET gone == {l \in Lines : Arg(w) \in {l[1], l[2]}}
       IN IF \A l \in gone : B(w).lines[l] = 0
          THEN Ends(w, B(w), FALSE)
          ELSE Ends(w, Unchosen([B(w) EXCEPT !.lines =
                      [l \in Lines |-> IF l \in gone THEN 0 ELSE B(w).lines[l]]]), TRUE)

(* The cart id rotates with the basket. *)
ClearBasket(w) ==
    /\ Runs(w, "clear-basket")
    /\ carts < MaxCarts
    /\ carts' = carts + 1
    /\ call' = [call EXCEPT ![w].basket = Fresh(carts + 1), ![w].ok = TRUE, ![w].at = "save"]
    /\ UNCHANGED <<calm, row, keys, orders, checkouts, told, reused>>

SetDestination(w) ==
    /\ Runs(w, "set-destination")
    /\ IF Arg(w) = None THEN Ends(w, B(w), FALSE)
                        ELSE Ends(w, Unchosen([B(w) EXCEPT !.dest = Arg(w)]), TRUE)

SetContact(w) ==
    /\ Runs(w, "set-contact")
    /\ \/ Ends(w, B(w), FALSE)
       \/ Summed(w, [B(w) EXCEPT !.contact = TRUE])

(* No id is a question, not a choice. *)
ChooseFulfillment(w) ==
    /\ Runs(w, "choose-fulfillment")
    /\ \/ Ends(w, B(w), FALSE)
       \/ /\ B(w).lines # NoLines /\ B(w).dest # None
          /\ \/ Arg(w) = None /\ Ends(w, B(w), TRUE)
             \/ Arg(w) = "offered" /\ Summed(w, [B(w) EXCEPT !.option = Offer(B(w))])

\* mutant: the code that was there before is not put back
CodeLeft(w) == [B(w) EXCEPT !.code = Arg(w)]

(* What the basket holds once the shop refused the code. *)
CodeRefused(w) == B(w)

(* A shop that does not answer is no refusal, and the code stays. *)
ApplyPublicCode(w) ==
    /\ Runs(w, "apply-public-code")
    /\ LET tried == [B(w) EXCEPT !.code = Arg(w)]
       IN \/ ~Quotable(B(w)) /\ Ends(w, B(w), FALSE)
          \/ Quotable(B(w)) /\ Ends(w, CodeRefused(w), FALSE)
          \/ Quotable(B(w)) /\ Arg(w) \in GoodCodes /\ Ends(w, tried, TRUE)
          \/ Quotable(B(w)) /\ ~calm /\ Ends(w, tried, FALSE)

-----------------------------------------------------------------------------
(* The tools that make a checkout. *)

StartCheckout(w) ==
    /\ Runs(w, "start-checkout")
    /\ IF Quotable(B(w)) /\ B(w).contact
       THEN /\ call' = [call EXCEPT ![w].at = "order"]
            /\ UNCHANGED <<calm, carts, row, keys, orders, checkouts, told, reused>>
       ELSE Ends(w, B(w), FALSE)

(* How a start ends that the shop refused or did not answer. *)
StartFails(w) ==
    IF Tool(w) = "checkout"
    THEN Free(w) /\ UNCHANGED <<calm, carts, row, keys, orders, checkouts, told, reused>>
    ELSE Ends(w, B(w), FALSE)

(* Door 7 answers a cart it knows with the order it made for it. *)
OrdersCreate(w) ==
    /\ call[w].at = "order"
    /\ \/ StartFails(w)
       \/ /\ orders' = [c \in DOMAIN orders \cup {B(w).cart} |->
                          IF c \in DOMAIN orders THEN orders[c] ELSE B(w).lines]
          /\ call' = [call EXCEPT ![w].at = "quote"]
          /\ UNCHANGED <<calm, carts, row, keys, checkouts, told, reused>>

(* A checkout has its place among the others by when it was started.        *)
Latest == Max({0} \cup {checkouts[c].nth : c \in DOMAIN checkouts})

(* Door 9, with the code this time; then the row, over any that is there. *)
QuoteAndSave(w) ==
    /\ call[w].at = "quote"
    /\ \/ StartFails(w)
       \/ /\ B(w).code \notin BadCodes
          /\ checkouts' = [c \in DOMAIN checkouts \cup {B(w).cart} |->
                             IF c = B(w).cart
                             THEN [agent |-> call[w].agent, lines |-> B(w).lines, dest |-> B(w).dest,
                                   option |-> B(w).option, code |-> B(w).code,
                                   nth |-> Latest + 1, status |-> "pending"]
                             ELSE checkouts[c]]
          /\ call' = [call EXCEPT ![w].ok = TRUE,
                                  ![w].at = IF Tool(w) = "checkout" THEN "remember" ELSE "clear"]
          /\ UNCHANGED <<calm, carts, row, keys, orders, told, reused>>

-----------------------------------------------------------------------------
(* The tools about an order that is there: no basket, but a key. *)

Names(w, c) == call' = [call EXCEPT ![w].named = c, ![w].ok = TRUE, ![w].at = "remember"]
Refused(w)    == Free(w) /\ UNCHANGED checkouts
Settle(c)     == checkouts' = [checkouts EXCEPT ![c].status = "settled"]

Waiting(a) == {c \in DOMAIN checkouts : checkouts[c].agent = a /\ checkouts[c].status = "pending"}

(* place-order names the newest pending checkout of this agent, and makes   *)
(* nothing: the Consumer approves it elsewhere.                             *)
PlaceOrder(w) ==
    /\ Runs(w, "place-order")
    /\ LET mine == Waiting(call[w].agent)
       IN IF mine = {}
          THEN Refused(w)
          ELSE \E c \in mine :
                 /\ \A d \in mine : checkouts[d].nth <= checkouts[c].nth
                 /\ Names(w, c) /\ UNCHANGED checkouts
    /\ UNCHANGED <<calm, carts, row, keys, orders, told, reused>>

(* cancel: of any order there is.  It is refused when that is paid or a     *)
(* door refuses; its steps are MoneyPath's.                                 *)
CancelOrder(w) ==
    /\ Runs(w, "cancel-order")
    /\ \/ Refused(w)
       \/ Arg(w) \in DOMAIN checkouts /\ Settle(Arg(w)) /\ Names(w, Arg(w))
    /\ UNCHANGED <<calm, carts, row, keys, orders, told, reused>>

(* An ask for the Merchant's queue (RefundDesk), about an order the shop    *)
(* knows; it is refused when the shop or the queue refuses.                 *)
RequestRefund(w) ==
    /\ Runs(w, "request-refund")
    /\ \/ Refused(w)
       \/ Arg(w) \in DOMAIN orders /\ Names(w, Arg(w)) /\ UNCHANGED checkouts
    /\ UNCHANGED <<calm, carts, row, keys, orders, told, reused>>

(* The Consumer approves or the sweep closes: the money path, in another    *)
(* module.                                                                  *)
Settled(c) ==
    /\ c \in DOMAIN checkouts /\ checkouts[c].status = "pending"
    /\ Settle(c)
    /\ UNCHANGED <<calm, carts, row, keys, orders, call, told, reused>>

Next ==
    \/ \E w \in Workers, a \in Agents, key \in Keys \cup {None}, ask \in Asks : Arrive(w, a, key, ask)
    \/ \E w \in Workers :
         \/ Load(w) \/ Receive(w) \/ Save(w) \/ Clear(w) \/ Remember(w) \/ Die(w)
         \/ AddLine(w) \/ RemoveLine(w) \/ ClearBasket(w) \/ SetDestination(w) \/ SetContact(w)
         \/ ChooseFulfillment(w) \/ ApplyPublicCode(w)
         \/ StartCheckout(w) \/ OrdersCreate(w) \/ QuoteAndSave(w)
         \/ PlaceOrder(w) \/ CancelOrder(w) \/ RequestRefund(w)
    \/ \E c \in 1..MaxCarts : Settled(c)

Spec == Init /\ [][Next]_vars

-----------------------------------------------------------------------------
(* Properties. *)

Options == [Lines -> Nat] \X Places \cup {None}
Baskets == [cart : 0..MaxCarts, lines : [Lines -> Nat], dest : Places \cup {None},
            contact : BOOLEAN, option : Options, code : GoodCodes \cup BadCodes \cup {None}]

(* Baskets, stored answers, orders and checkouts are what the code writes   *)
(* (basket.py:27, idempotency.py:45, checkout_store.py:45), and a cart id   *)
(* in use is one that was handed out.                                       *)
TypeOK ==
    /\ calm \in BOOLEAN /\ carts \in 0..MaxCarts
    /\ row \in [Agents -> Baskets]
    /\ DOMAIN keys \subseteq Agents \X Keys
    /\ \A k \in DOMAIN keys : /\ keys[k].ask \in KeyedAsks
                             /\ IF keys[k].ask[1] \in OrderTools THEN keys[k].answer \in 1..carts
                                                                 ELSE keys[k].answer \in Baskets
    /\ reused \subseteq 1..carts
    /\ DOMAIN checkouts \subseteq DOMAIN orders /\ DOMAIN orders \subseteq 1..carts
    /\ \A c \in DOMAIN orders : orders[c] \in [Lines -> Nat]
    /\ \A c \in DOMAIN checkouts : checkouts[c].status \in {"pending", "settled"}
    /\ \A w \in Workers : B(w) \in Baskets /\ B(w).cart <= carts
    /\ \A a \in Agents : row[a].cart <= carts

(* basket.py:88 _unchoose_fulfillment: a delivery option in a basket or in  *)
(* a checkout was offered for exactly its lines and its destination.        *)
OptionFits(b) == b.option # None => b.option = Offer(b)
OptionFitsBasket ==
    /\ \A a \in Agents : OptionFits(row[a])
    /\ \A c \in DOMAIN checkouts : OptionFits(checkouts[c])

(* tools.py:218: no basket ever holds more of a sku than the shop said it   *)
(* has, however its lines are spread over parents.                          *)
QtyWithinStock == \A a \in Agents, s \in Skus : Held(row[a], s) <= Stock[s]

(* tools.py:399: while the shop answers, a basket's code is one it took.    *)
CodeWasTaken == calm => \A a \in Agents : row[a].code \notin BadCodes

(* Whatever calls edited it in whatever order, what a basket holds can be   *)
(* ordered: the delivery is for these lines, the shop has them, and it      *)
(* knows the code.                                                          *)
BasketStandsUp == OptionFitsBasket /\ QtyWithinStock /\ CodeWasTaken

(* agent_routes.py:412 and :433: under one key an agent is told one answer, *)
(* to one question, as often as it asks (calls that do not overlap).        *)
OneAnswerPerKey == \A k \in Agents \X Keys : Cardinality(told[k]) <= 1

(* idempotency.py:139: the answer kept under a key is never replaced, also  *)
(* when two deliveries of a call overlap.                                   *)
FirstAnswerStays ==
    [][\A k \in DOMAIN keys : k \in DOMAIN keys' /\ keys'[k] = keys[k]]_vars

(* agent_routes.py:462: until a protocol checkout names its cart, a         *)
(* checkout is never started over: no later call of the agent replaces what *)
(* the Consumer was asked to approve.                                       *)
CheckoutStands ==
    [][calm => \A c \in DOMAIN checkouts \ reused :
         [checkouts'[c] EXCEPT !.status = "pending"] = [checkouts[c] EXCEPT !.status = "pending"]
         /\ (checkouts[c].status = "settled" => checkouts'[c].status = "settled")]_vars

(* What was done is not undone or done over. *)
WhatWasDoneStands == FirstAnswerStays /\ CheckoutStands

(* agent_routes.py:463: door 7 keys on the cart, "so a second checkout      *)
(* built on the same cart would idempotently return the FIRST order"; the   *)
(* order the shop holds has the lines the Consumer is asked to approve,     *)
(* where no protocol checkout named the cart of another.                    *)
OrderHasItsLines == \A c \in DOMAIN checkouts \ reused : calm => orders[c] = checkouts[c].lines
=============================================================================

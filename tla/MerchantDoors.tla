---------------------------- MODULE MerchantDoors ----------------------------
(***************************************************************************)
(* The Merchant's side of the trait: doors 3 to 8 as the demo site          *)
(* (lib/trait/doors.ts), the WooCommerce plugin and the conformance fake    *)
(* implement them, behind the idempotency cache all three keep.             *)
(*                                                                         *)
(* A request looks its key up, runs the door, stores the reply and replies: *)
(* statements of their own, between which other requests run and a worker   *)
(* may die.  A transaction is one step, except that a door which reads the  *)
(* code's uses inside it keeps its stock rows locked up to its commit.      *)
(* The fake runs a request without a pause.                                 *)
(***************************************************************************)
EXTENDS Integers, FiniteSets, Functions

CONSTANTS Orders, Carts, Skus, Threads,
          Basket,      \* what a cart holds: [Carts -> [Skus -> Nat]]
          CodeCarts,   \* the carts that bring the discount code
          MaxUses,     \* the code's max_uses
          Targets,     \* the statuses door 8 is asked for
          Counts,      \* what a recount may find, and what there is first
          NoCart, NoKey

ASSUME DoorsAssumption ==
    /\ Basket \in [Carts -> [Skus -> Nat]] /\ CodeCarts \subseteq Carts
    /\ MaxUses \in Nat /\ Counts \subseteq Nat
    /\ NoCart \notin Carts /\ IsFiniteSet(Orders)
    /\ Targets \subseteq {"pending", "confirmed", "paid", "completed", "refunded", "cancelled",
                          "expired", "failed"}

VARIABLES impl,    \* "site", "woo" or "fake"
          scene,   \* one request at a time, many, or many beside a stock-taking
          stock,   \* available, by sku
          counted, \* the sum of admin-adjust and restock moves, by sku
          book,    \* what stock_moves or the holds table says of an order
          code,    \* code_reservations, by order
          uses,    \* discount_codes.uses_count, the coupon's usage count
          cartOf,  \* the orders table: an order's cart
          status,  \* and its status
          cache,   \* the idempotency table
          call,    \* the request each worker is at
          replies  \* the answers that went out, by key, while they come one by one

shop == <<stock, counted, book, code, uses, cartOf, status>>
vars == <<impl, scene, shop, cache, call, replies>>

CodeDoors == {"reserve", "commit", "release", "restock"}
Keys == CodeDoors \X Orders \X {"-"}
        \cup {"orders.create"} \X Carts \X {"-"}
        \cup {"orders.set-status"} \X Orders \X Targets
Refusals == {"sold-out", "code-invalid", "no-hold", "not-found", "destination-unserviceable"}
Answers  == {"ok"} \cup Refusals \cup Orders \cup Targets \cup {"pending"}

Rows == [taken : Nat, sold : Nat, given : Nat]
NoRows == [taken |-> 0, sold |-> 0, given |-> 0]
Quiet  == [key |-> NoKey, at |-> "idle", saw |-> 0, answer |-> "ok"]

(* Requests come one at a time and no worker dies. *)
Calm == scene = "serial"

Idle(t)  == call[t].at = "idle"
Of(t)    == call[t].key[2]
Goods(o) == IF cartOf[o] = NoCart THEN [k \in Skus |-> 0] ELSE Basket[cartOf[o]]
Coded(o) == cartOf[o] \in CodeCarts

Init ==
    /\ impl \in {"site", "woo", "fake"} /\ scene \in {"serial", "racing", "counting"}
    /\ impl = "fake" => Calm
    /\ scene = "counting" => impl = "site"
    /\ stock \in [Skus -> Counts] /\ counted = stock
    /\ book = [o \in Orders |-> NoRows]
    /\ code = [o \in Orders |-> "none"] /\ uses = 0
    /\ cartOf = [o \in Orders |-> NoCart] /\ status = [o \in Orders |-> "absent"]
    /\ cache = <<>> /\ replies = [k \in Keys |-> {}]
    /\ call = [t \in Threads |-> Quiet]

-----------------------------------------------------------------------------
(* Around the door. *)

Goto(t, at, saw) == call' = [call EXCEPT ![t].at = at, ![t].saw = saw]
Answer(t, a) == call' = [call EXCEPT ![t].at = "remember", ![t].answer = a]
Sent(key, a) == replies' = IF Calm THEN [replies EXCEPT ![key] = @ \cup {a}] ELSE replies
Running(t, who, door) == call[t].at = "run" /\ impl = who /\ call[t].key[1] = door

\* mutant: door 7 is not among the mutating doors
ArriveUncached(t, key) ==
    /\ Idle(t)
    /\ Calm => \A u \in Threads : Idle(u)
    /\ key[1] \in {"reserve", "restock"} => cartOf[key[2]] # NoCart
    /\ IF key \in DOMAIN cache /\ key[1] # "orders.create"
       THEN /\ Sent(key, cache[key])
            /\ UNCHANGED call
       ELSE /\ call' = [call EXCEPT ![t] = [Quiet EXCEPT !.key = key, !.at = "run"]]
            /\ UNCHANGED replies
    /\ UNCHANGED <<impl, scene, shop, cache>>

(* What callers ask: a reserve or a restock is of an order door 7 made, the *)
(* other doors are asked of any order id.                                   *)
Arrive(t, key) ==
    /\ Idle(t)
    /\ Calm => \A u \in Threads : Idle(u)
    /\ key[1] \in {"reserve", "restock"} => cartOf[key[2]] # NoCart
    /\ IF key \in DOMAIN cache
       THEN /\ Sent(key, cache[key])
            /\ UNCHANGED call
       ELSE /\ call' = [call EXCEPT ![t] = [Quiet EXCEPT !.key = key, !.at = "run"]]
            /\ UNCHANGED replies
    /\ UNCHANGED <<impl, scene, shop, cache>>

\* mutant: a refusal is not cached, so the next attempt may be luckier
RememberSuccess(t) ==
    /\ call[t].at = "remember"
    /\ cache' = [k \in DOMAIN cache \cup {k \in {call[t].key} : call[t].answer \notin Refusals} |->
                   IF k \in DOMAIN cache THEN cache[k] ELSE call[t].answer]
    /\ Sent(call[t].key, call[t].answer)
    /\ call' = [call EXCEPT ![t] = Quiet]
    /\ UNCHANGED <<impl, scene, shop>>

(* The first writer's answer is stored, refusals too; the caller gets the   *)
(* answer of its own run.                                                   *)
Remember(t) ==
    /\ call[t].at = "remember"
    /\ cache' = [k \in DOMAIN cache \cup {call[t].key} |->
                   IF k \in DOMAIN cache THEN cache[k] ELSE call[t].answer]
    /\ Sent(call[t].key, call[t].answer)
    /\ call' = [call EXCEPT ![t] = Quiet]
    /\ UNCHANGED <<impl, scene, shop>>

(* A worker dies, or the reply is lost with it; an open transaction is      *)
(* rolled back.                                                             *)
Die(t) ==
    /\ ~Calm /\ ~Idle(t)
    /\ call' = [call EXCEPT ![t] = Quiet]
    /\ UNCHANGED <<impl, scene, shop, cache, replies>>

-----------------------------------------------------------------------------
(* Taking and giving back, for all three. *)

(* An open transaction that has taken stock keeps those rows locked.        *)
Unlocked(o) ==
    \A u \in Threads : call[u].at = "code" =>
        \A k \in Skus : Goods(o)[k] = 0 \/ Goods(Of(u))[k] = 0
\* mutant: one line is in stock, so the basket is
EnoughOfOne(o) == \E k \in Skus : stock[k] >= Goods(o)[k]
Enough(o) == \A k \in Skus : stock[k] >= Goods(o)[k]
Less(o)    == stock' = [k \in Skus |-> stock[k] - Goods(o)[k]]
More(o, n) == stock' = [k \in Skus |-> stock[k] + n * Goods(o)[k]]
Book(o, field, n) == book' = [book EXCEPT ![o][field] = @ + n]
ComesBack(o) ==
    /\ stock' = [k \in Skus |-> stock[k] + Goods(o)[k]]
    /\ counted' = [k \in Skus |-> counted[k] + Goods(o)[k]]

-----------------------------------------------------------------------------
(* The demo site. *)

SiteReserve(t) ==
    LET o == Of(t) IN
    /\ Running(t, "site", "reserve") /\ Unlocked(o)
    /\ \/ ~Enough(o) /\ Answer(t, "sold-out") /\ UNCHANGED shop
       \/ Enough(o) /\ Coded(o) /\ Goto(t, "code", uses) /\ UNCHANGED shop
       \/ /\ Enough(o) /\ ~Coded(o)
          /\ Less(o) /\ Book(o, "taken", 1)
          /\ Answer(t, "ok")
          /\ UNCHANGED <<counted, code, uses, cartOf, status>>
    /\ UNCHANGED <<impl, scene, cache, replies>>

\* mutant: no unique-where-held index
SiteHoldCodeAgain(t) ==
    LET o == Of(t) IN
    /\ call[t].at = "code" /\ impl = "site"
    /\ IF call[t].saw >= MaxUses
       THEN Answer(t, "code-invalid") /\ UNCHANGED shop
       ELSE /\ Less(o) /\ Book(o, "taken", 1)
            /\ code' = [code EXCEPT ![o] = "held"] /\ uses' = uses + 1
            /\ Answer(t, "ok")
            /\ UNCHANGED <<counted, cartOf, status>>
    /\ UNCHANGED <<impl, scene, cache, replies>>

(* The unique-where-held index and the primary key refuse the insert, and   *)
(* the refusal rolls the taken stock back.                                  *)
SiteHoldCode(t) ==
    LET o == Of(t) IN
    /\ call[t].at = "code" /\ impl = "site"
    /\ IF call[t].saw >= MaxUses \/ code[o] # "none" \/ \E p \in Orders : code[p] = "held"
       THEN Answer(t, "code-invalid") /\ UNCHANGED shop
       ELSE /\ Less(o) /\ Book(o, "taken", 1)
            /\ code' = [code EXCEPT ![o] = "held"] /\ uses' = uses + 1
            /\ Answer(t, "ok")
            /\ UNCHANGED <<counted, cartOf, status>>
    /\ UNCHANGED <<impl, scene, cache, replies>>

(* Any hold there ever was will do: a released one is not looked for.       *)
SiteCommit(t) ==
    LET o == Of(t) IN
    /\ Running(t, "site", "commit")
    /\ IF book[o].taken = 0
       THEN Answer(t, "no-hold") /\ UNCHANGED code
       ELSE /\ code' = [code EXCEPT ![o] = IF @ = "held" THEN "consumed" ELSE @]
            /\ Answer(t, "ok")
    /\ UNCHANGED <<impl, scene, stock, counted, book, uses, cartOf, status, cache, replies>>

(* The order's reserve moves, then whether it was released already: both    *)
(* before the transaction that gives back.                                  *)
SiteReleaseRead(t) ==
    LET o == Of(t) IN
    /\ Running(t, "site", "release")
    /\ CASE book[o].taken = 0 -> Answer(t, "no-hold")
         [] book[o].taken > 0 /\ book[o].given > 0 -> Answer(t, "ok")
         [] OTHER -> Goto(t, "give", book[o].taken)
    /\ UNCHANGED <<impl, scene, shop, cache, replies>>

SiteReleaseGive(t) ==
    LET o == Of(t) IN
    /\ call[t].at = "give" /\ impl = "site" /\ Unlocked(o)
    /\ More(o, call[t].saw) /\ Book(o, "given", call[t].saw)
    /\ IF code[o] = "held"
       THEN code' = [code EXCEPT ![o] = "released"] /\ uses' = IF uses > 0 THEN uses - 1 ELSE 0
       ELSE UNCHANGED <<code, uses>>
    /\ Answer(t, "ok")
    /\ UNCHANGED <<impl, scene, counted, cartOf, status, cache, replies>>

SiteRestock(t) ==
    LET o == Of(t) IN
    /\ Running(t, "site", "restock") /\ Unlocked(o)
    /\ ComesBack(o)
    /\ Answer(t, "ok")
    /\ UNCHANGED <<impl, scene, book, code, uses, cartOf, status, cache, replies>>

-----------------------------------------------------------------------------
(* The WooCommerce plugin: one row per hold, whose state moves. *)

WooReserve(t) ==
    LET o == Of(t) IN
    /\ Running(t, "woo", "reserve") /\ Unlocked(o)
    /\ \/ ~Enough(o) /\ Answer(t, "sold-out") /\ UNCHANGED shop
       \/ Enough(o) /\ Coded(o) /\ Goto(t, "code", uses) /\ UNCHANGED shop
       \/ /\ Enough(o) /\ ~Coded(o)
          /\ Less(o) /\ Book(o, "taken", 1)
          /\ Answer(t, "ok")
          /\ UNCHANGED <<counted, code, uses, cartOf, status>>
    /\ UNCHANGED <<impl, scene, cache, replies>>

\* mutant: the usage limit is not looked at
WooHoldCodeUnlimited(t) ==
    LET o == Of(t) IN
    /\ call[t].at = "code" /\ impl = "woo" /\ call[t].key[1] = "reserve"
    /\ Less(o) /\ Book(o, "taken", 1)
    /\ code' = [code EXCEPT ![o] = "held"] /\ uses' = call[t].saw + 1
    /\ Answer(t, "ok")
    /\ UNCHANGED <<impl, scene, counted, cartOf, status, cache, replies>>

(* hold_code: the usage count is read and written back one higher.          *)
WooHoldCode(t) ==
    LET o == Of(t) IN
    /\ call[t].at = "code" /\ impl = "woo" /\ call[t].key[1] = "reserve"
    /\ IF MaxUses > 0 /\ call[t].saw >= MaxUses
       THEN Answer(t, "code-invalid") /\ UNCHANGED shop
       ELSE /\ Less(o) /\ Book(o, "taken", 1)
            /\ code' = [code EXCEPT ![o] = "held"] /\ uses' = call[t].saw + 1
            /\ Answer(t, "ok")
            /\ UNCHANGED <<counted, cartOf, status>>
    /\ UNCHANGED <<impl, scene, cache, replies>>

WooCommitRead(t) ==
    LET o == Of(t) IN
    /\ Running(t, "woo", "commit")
    /\ CASE book[o].taken > 0 -> Goto(t, "sell", 0)
         [] book[o].taken = 0 /\ book[o].sold > 0 -> Answer(t, "ok")
         [] OTHER -> Answer(t, "no-hold")
    /\ UNCHANGED <<impl, scene, shop, cache, replies>>

(* Whatever is held by now is committed, be it nothing.                     *)
WooCommitWrite(t) ==
    LET o == Of(t) IN
    /\ call[t].at = "sell"
    /\ book' = [book EXCEPT ![o].sold = @ + book[o].taken, ![o].taken = 0]
    /\ code' = [code EXCEPT ![o] = IF @ = "held" THEN "consumed" ELSE @]
    /\ Answer(t, "ok")
    /\ UNCHANGED <<impl, scene, stock, counted, uses, cartOf, status, cache, replies>>

\* mutant: committed rows are given back too
WooReleaseReadAll(t) ==
    LET o == Of(t) IN
    /\ Running(t, "woo", "release")
    /\ CASE book[o].taken + book[o].sold > 0 -> Goto(t, "give", book[o].taken + book[o].sold)
         [] book[o].given > 0 -> Answer(t, "ok")
         [] OTHER -> Answer(t, "no-hold")
    /\ UNCHANGED <<impl, scene, shop, cache, replies>>

WooReleaseRead(t) ==
    LET o == Of(t) IN
    /\ Running(t, "woo", "release")
    /\ CASE book[o].taken > 0 -> Goto(t, "give", book[o].taken)
         [] book[o].taken = 0 /\ book[o].given > 0 -> Answer(t, "ok")
         [] OTHER -> Answer(t, "no-hold")
    /\ UNCHANGED <<impl, scene, shop, cache, replies>>

(* The rows read before are added up; the rows held now change state; every *)
(* coupon row of the order, in whatever state, gives one use back (the read *)
(* and the write of the coupon are taken as one here).                      *)
WooReleaseGive(t) ==
    LET o == Of(t)
        coupons == book[o].taken + book[o].sold + book[o].given IN
    /\ call[t].at = "give" /\ impl = "woo" /\ Unlocked(o)
    /\ More(o, call[t].saw)
    /\ book' = [book EXCEPT ![o].given = @ + book[o].taken, ![o].taken = 0]
    /\ IF code[o] # "none"
       THEN /\ code' = [code EXCEPT ![o] = IF @ = "held" THEN "released" ELSE @]
            /\ uses' = IF uses > coupons THEN uses - coupons ELSE 0
       ELSE UNCHANGED <<code, uses>>
    /\ Answer(t, "ok")
    /\ UNCHANGED <<impl, scene, counted, cartOf, status, cache, replies>>

WooRestock(t) ==
    LET o == Of(t) IN
    /\ Running(t, "woo", "restock") /\ Unlocked(o)
    /\ ComesBack(o)
    /\ Answer(t, "ok")
    /\ UNCHANGED <<impl, scene, book, code, uses, cartOf, status, cache, replies>>

-----------------------------------------------------------------------------
(* The conformance fake: a hold is a dict entry, popped when it closes.     *)

FakeReserve(t) ==
    LET o == Of(t) IN
    /\ Running(t, "fake", "reserve")
    /\ \/ ~Enough(o) /\ Answer(t, "sold-out") /\ UNCHANGED shop
       \/ Enough(o) /\ Coded(o) /\ uses >= MaxUses /\ Answer(t, "code-invalid") /\ UNCHANGED shop
       \/ /\ Enough(o) /\ (Coded(o) => uses < MaxUses)
          /\ Less(o)
          /\ book' = [book EXCEPT ![o].taken = 1]
          /\ IF Coded(o)
             THEN code' = [code EXCEPT ![o] = "held"] /\ uses' = uses + 1
             ELSE UNCHANGED <<code, uses>>
          /\ Answer(t, "ok")
          /\ UNCHANGED <<counted, cartOf, status>>
    /\ UNCHANGED <<impl, scene, cache, replies>>

(* held_codes keeps its entry. *)
FakeCommit(t) ==
    LET o == Of(t) IN
    /\ Running(t, "fake", "commit")
    /\ IF book[o].taken = 0
       THEN Answer(t, "no-hold") /\ UNCHANGED book
       ELSE Answer(t, "ok") /\ book' = [book EXCEPT ![o].taken = 0]
    /\ UNCHANGED <<impl, scene, stock, counted, code, uses, cartOf, status, cache, replies>>

FakeRelease(t) ==
    LET o == Of(t) IN
    /\ Running(t, "fake", "release")
    /\ IF book[o].taken = 0
       THEN Answer(t, "no-hold") /\ UNCHANGED <<stock, book, code, uses>>
       ELSE /\ More(o, 1) /\ book' = [book EXCEPT ![o].taken = 0]
            /\ code' = [code EXCEPT ![o] = "none"]
            /\ uses' = IF code[o] = "held" THEN uses - 1 ELSE uses
            /\ Answer(t, "ok")
    /\ UNCHANGED <<impl, scene, counted, cartOf, status, cache, replies>>

FakeRestock(t) ==
    /\ Running(t, "fake", "restock")
    /\ ComesBack(Of(t))
    /\ Answer(t, "ok")
    /\ UNCHANGED <<impl, scene, book, code, uses, cartOf, status, cache, replies>>

-----------------------------------------------------------------------------
(* Doors 7 and 8. *)

(* The order is priced before it is written, and the quote may refuse.      *)
Create(t) ==
    /\ call[t].at = "run" /\ call[t].key[1] = "orders.create"
    /\ \/ Answer(t, "destination-unserviceable") /\ UNCHANGED shop
       \/ \E o \in Orders :
             /\ cartOf[o] = NoCart
             /\ cartOf' = [cartOf EXCEPT ![o] = Of(t)]
             /\ status' = [status EXCEPT ![o] = "pending"]
             /\ Answer(t, o)
             /\ UNCHANGED <<stock, counted, book, code, uses>>
    /\ UNCHANGED <<impl, scene, cache, replies>>

\* mutant: WooCommerce's own status is all that is asked
TraitStatusWoo(wc, stored) ==
    CASE wc = "on-hold" -> "confirmed" [] wc = "processing" -> "paid" [] OTHER -> wc

ToWC(s) ==
    CASE s = "confirmed" -> "on-hold" [] s = "paid" -> "processing"
      [] s = "expired" -> "cancelled" [] OTHER -> s

(* WooCommerce has one status for cancelled and expired; the meta value     *)
(* tells them apart.                                                        *)
TraitStatus(wc, stored) ==
    CASE wc = "cancelled" /\ stored = "expired" -> "expired"
      [] wc = "on-hold" -> "confirmed" [] wc = "processing" -> "paid" [] OTHER -> wc

(* Unconditional: any status to any status. *)
SetStatus(t) ==
    LET o == Of(t)  to == call[t].key[3] IN
    /\ call[t].at = "run" /\ call[t].key[1] = "orders.set-status"
    /\ IF cartOf[o] = NoCart
       THEN Answer(t, "not-found") /\ UNCHANGED status
       ELSE /\ status' = [status EXCEPT ![o] = IF impl = "woo" THEN TraitStatus(ToWC(to), to) ELSE to]
            /\ Goto(t, "read", 0)
    /\ UNCHANGED <<impl, scene, stock, counted, book, code, uses, cartOf, cache, replies>>

(* ordersRead: the reply is what the order says by now. *)
ReadBack(t) ==
    /\ call[t].at = "read"
    /\ Answer(t, status[Of(t)])
    /\ UNCHANGED <<impl, scene, shop, cache, replies>>

-----------------------------------------------------------------------------
(* The Merchant's catalogue page of the site. *)

(* The count on the shelf is read before the transaction.                   *)
RecountRead(t, k, n) ==
    /\ impl = "site" /\ scene # "racing" /\ Idle(t)
    /\ Calm => \A u \in Threads : Idle(u)
    /\ call' = [call EXCEPT ![t] = [Quiet EXCEPT !.key = <<"recount", k, n>>, !.at = "recount",
                                               !.saw = stock[k]]]
    /\ UNCHANGED <<impl, scene, shop, cache, replies>>

(* The count is set, and the move is the difference to what was read.       *)
RecountWrite(t) ==
    LET k == Of(t)  n == call[t].key[3] IN
    /\ call[t].at = "recount"
    /\ \A u \in Threads : call[u].at = "code" => Goods(Of(u))[k] = 0
    /\ stock' = [stock EXCEPT ![k] = n]
    /\ counted' = [counted EXCEPT ![k] = @ + n - call[t].saw]
    /\ call' = [call EXCEPT ![t] = Quiet]
    /\ UNCHANGED <<impl, scene, book, code, uses, cartOf, status, cache, replies>>

Next ==
    \E t \in Threads :
       \/ \E key \in Keys : Arrive(t, key)
       \/ Remember(t) \/ Die(t)
       \/ SiteReserve(t) \/ SiteHoldCode(t) \/ SiteCommit(t)
       \/ SiteReleaseRead(t) \/ SiteReleaseGive(t) \/ SiteRestock(t)
       \/ WooReserve(t) \/ WooHoldCode(t) \/ WooCommitRead(t) \/ WooCommitWrite(t)
       \/ WooReleaseRead(t) \/ WooReleaseGive(t) \/ WooRestock(t)
       \/ FakeReserve(t) \/ FakeCommit(t) \/ FakeRelease(t) \/ FakeRestock(t)
       \/ Create(t) \/ SetStatus(t) \/ ReadBack(t)
       \/ \E k \in Skus, n \in Counts : RecountRead(t, k, n)
       \/ RecountWrite(t)

Spec == Init /\ [][Next]_vars

-----------------------------------------------------------------------------
(* Properties *)

Steps == {"idle", "run", "code", "give", "sell", "read", "remember", "recount"}

(* Types; and the shelf never goes below nought, whatever races: stock is   *)
(* taken by compare-and-set.                                                *)
TypeOK ==
    /\ stock \in [Skus -> Nat] /\ counted \in [Skus -> Int]
    /\ book \in [Orders -> Rows] /\ uses \in Nat
    /\ code \in [Orders -> {"none", "held", "consumed", "released"}]
    /\ cartOf \in [Orders -> Carts \cup {NoCart}]
    /\ status \in [Orders -> Targets \cup {"absent", "pending"}]
    /\ DOMAIN cache \subseteq Keys /\ \A k \in DOMAIN cache : cache[k] \in Answers
    /\ replies \in [Keys -> SUBSET Answers]
    /\ \A t \in Threads :
          /\ call[t].at \in Steps /\ call[t].saw \in Nat /\ call[t].answer \in Answers
          /\ ~Idle(t) => call[t].key \in Keys \cup {"recount"} \X Skus \X Counts

(* What has left the shelf for an order, by its rows. *)
Out(o) == IF impl = "woo" THEN book[o].taken + book[o].sold ELSE book[o].taken - book[o].given

(* What has left the shelf of an item, by the rows of all orders.           *)
Missing(k) == SumFunction([o \in Orders |-> Out(o) * Goods(o)[k]])

(* Every item is accounted for: what is on the shelf and what the rows say  *)
(* has left it are what was counted in.  At the site also when requests     *)
(* race, whatever runs twice; a stock-taking that races loses track.        *)
BooksExplainStock ==
    (impl = "site" /\ scene = "racing") \/ (impl # "fake" /\ Calm) =>
        \A k \in Skus : stock[k] = counted[k] - Missing(k)

(* One request at a time, a key has one answer, refusals included: stock    *)
(* that came back does not turn a refused reserve into a hold, and a cart   *)
(* does not become a second order.  Door 8's is the status it was asked     *)
(* for, also where the shop has one word for two of them.                   *)
OneTrueAnswer ==
    Calm => /\ \A key \in Keys : Cardinality(replies[key]) <= 1
            /\ \A o \in Orders, to \in Targets :
                   replies[<<"orders.set-status", o, to>>] \subseteq {to, "not-found"}

(* However they race, two carts never hold the site's code at once, and its *)
(* uses are the orders that hold it or have spent it; one request at a      *)
(* time, no shop lets a code be used more often than it may be (to the      *)
(* plugin a limit of nought is none).                                       *)
CodeIsRationed ==
    /\ impl = "site" =>
         /\ \A o, p \in Orders : code[o] = "held" /\ code[p] = "held" => o = p
         /\ uses = Cardinality({o \in Orders : code[o] \in {"held", "consumed"}})
    /\ Calm /\ (impl = "woo" => MaxUses > 0) => uses <= MaxUses

(* The hold as the contract knows it.  The site keeps no trace of a commit, *)
(* the plugin's rows move from state to state.                              *)
HoldOf(o) ==
    LET open == IF impl = "woo" THEN book[o].taken ELSE book[o].taken - book[o].given
        as == CASE open > 0 -> "held" [] open = 0 /\ book[o].sold > 0 -> "sold"
                [] open = 0 /\ book[o].sold = 0 /\ book[o].given > 0 -> "back" [] OTHER -> "none"
    IN  [as |-> as, goods |-> [k \in Skus |-> IF as = "held" THEN Goods(o)[k] ELSE 0]]

TheShelf == INSTANCE Shelf WITH hold <- [o \in Orders |-> HoldOf(o)]

(* One request at a time, site and plugin keep the promise of Shelf.        *)
KeepsShelf ==
    [][Calm /\ impl # "fake" =>
         TheShelf!ShelfNext \/ UNCHANGED <<stock, counted, [o \in Orders |-> HoldOf(o)]>>]_vars
=============================================================================

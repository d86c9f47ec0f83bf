----------------------------- MODULE QuoteGate -----------------------------
(***************************************************************************)
(* What a basket costs and who may charge it: door 9's arithmetic           *)
(* (merchant-site pricing.ts, the plugin's class-openstore-pricing.php and  *)
(* the fake share it), the Gate's twelve checks over the quote that was     *)
(* shown and the one the shop gives now (gate/decide.py), the Transcript    *)
(* (gate/transcript.py) and settlement (gate/settle.py).                    *)
(*                                                                         *)
(* Between the quote a Consumer is shown and the tap, and between any two   *)
(* calls, the Merchant may edit prices, shipping and codes, and the Policy. *)
(* Amounts are paise; items are numbers, in the order of their SKUs.        *)
(***************************************************************************)
EXTENDS Integers, Sequences, FiniteSets, FiniteSetsExt, Functions

CONSTANTS Goods, Services, Addons, \* items by what their tags say: sets of numbers
          RateOf,                  \* gst_rate_bp of an item
          GroupOf,                 \* its Product Group
          Shops,     \* what the Merchant may set: prices, shipping, whom it serves, a code,
                     \* the tax flag, recalls
          Policies,  \* what the Merchant may allow
          SeedPolicy,\* the Policy a process starts with
          Carts,     \* what is asked for: lines, a destination at home or not, a code or not
          MaxEdits,  \* bound: edits of the Merchant
          None

Items == Goods \cup Services \cup Addons
(* A tax rate in basis points, up to the whole of the price.                *)
Rates == 0..10000
Kinds == {"upi-pin", "passkey", "intent-upi", "intent-passkey"}

ASSUME QuoteAssumption ==
    /\ Items \subseteq Nat /\ RateOf \in [Items -> Rates] /\ DOMAIN GroupOf = Items
    /\ \A s \in Shops : /\ s.price \in [Items -> Nat] /\ s.ship \in Nat
                        /\ s.code \in [percent : BOOLEAN, amount : Nat \ {0}] \cup {None} /\ s.away \in BOOLEAN
                        /\ s.inclusive \in BOOLEAN
                        /\ s.recalled \subseteq Items
    /\ \A p \in Policies : /\ p.cap \in Nat /\ p.count \in Nat /\ p.qty \in Nat
                           /\ p.window \in BOOLEAN
                           /\ p.kinds \subseteq Kinds /\ p.methods \subseteq {"upi", "cod"}
    /\ SeedPolicy \in Policies /\ None \notin Policies /\ MaxEdits \in Nat
    /\ \A c \in Carts :
         /\ c.home \in BOOLEAN /\ c.code \in BOOLEAN
         /\ c.lines \in Seq([sku : Items, qty : Nat \ {0}, parent : Items \cup {None}])

VARIABLES shop, policy, edits,
          cart,     \* the checkout's lines
          pinned,   \* the quote it was shown
          bound,    \* what its cart hash covers
          kind,     \* the Authority the tap terminates in
          facts,    \* the catalogue as the tap read it
          held,     \* the Policy the Gate was given
          fresh,    \* door 9's answer to the Gate
          at,       \* the checkout's next step, then its outcome
          checks,   \* the Transcript's check results: "pass", "deferred" or the reason code
          captured, \* what settle or collect captured
          lived     \* history: the Policies that were live since the tap

merchant == <<shop, policy, edits>>
checkout == <<cart, pinned, bound>>
tap      == <<kind, facts, held, fresh, checks>>
vars     == <<merchant, checkout, tap, at, captured, lived>>

-----------------------------------------------------------------------------
(* Door 9. *)

\* mutant: each share is rounded for itself
ApportionRounded(amount, w) ==
    LET W == SumFunction(w) IN
    [s \in DOMAIN w |-> IF W = 0 THEN 0 ELSE (2 * amount * w[s] + W) \div (2 * W)]

(* Largest remainder: floors, then a paisa each to the largest fractional   *)
(* parts, ties by SKU.                                                      *)
Apportion(amount, w) ==
    LET W     == SumFunction(w)
        floor == [s \in DOMAIN w |-> (amount * w[s]) \div W]
        rem   == [s \in DOMAIN w |-> (amount * w[s]) % W]
        left  == amount - SumFunction(floor)
        ahead(s) == {t \in DOMAIN w : rem[t] > rem[s] \/ (rem[t] = rem[s] /\ t < s)}
    IN  IF W = 0 THEN [s \in DOMAIN w |-> 0]
        ELSE [s \in DOMAIN w |-> floor[s] + IF Cardinality(ahead(s)) < left THEN 1 ELSE 0]

(* The tax inside an inclusive amount, half up.                             *)
ExtractTax(inclusive, rate) ==
    IF rate = 0 THEN 0
    ELSE (inclusive * rate * 2 + 10000 + rate) \div (2 * (10000 + rate))

(* CGST and SGST: SGST takes the odd paisa.                                 *)
Split(tax) == [CGST |-> tax \div 2, SGST |-> tax - tax \div 2]

(* Add-ons fold into the line they name, and need one; of two lines with    *)
(* one SKU the later is quoted.                                             *)
Parents(lines) == {lines[i].sku : i \in {j \in DOMAIN lines : lines[j].sku \notin Addons}}
AddonsOf(lines, s) == {i \in DOMAIN lines : lines[i].sku \in Addons /\ lines[i].parent = s}
Foldable(lines) ==
    \A i \in DOMAIN lines : lines[i].sku \in Addons => lines[i].parent \in Parents(lines)

\* mutant: of two add-ons on one line only the later is folded
FoldLast(lines, price) ==
    [s \in Parents(lines) |->
       LET own == {i \in DOMAIN lines : lines[i].sku = s}
           qty == lines[Max(own)].qty
           on  == AddonsOf(lines, s)
           add == IF on = {} THEN 0 ELSE lines[Max(on)].qty * price[lines[Max(on)].sku]
       IN  [qty |-> qty, unit |-> price[s], addons |-> add, total |-> price[s] * qty + add]]

Fold(lines, price) ==
    [s \in Parents(lines) |->
       LET own == {i \in DOMAIN lines : lines[i].sku = s}
           qty == lines[Max(own)].qty
           add == SumFunction([i \in AddonsOf(lines, s) |-> lines[i].qty * price[lines[i].sku]])
       IN  [qty |-> qty, unit |-> price[s], addons |-> add, total |-> price[s] * qty + add]]

\* mutant: tax that is inside the prices is added to them again
TotalTaxed(subtotal, ship, discount, tax) == subtotal + ship - discount + tax

(* Tax is reported and never added.                                         *)
TotalOf(subtotal, ship, discount, tax) == subtotal + ship - discount

(* Supplied at home: a service anywhere, goods that stay in the state.      *)
AtHome(s, home) == s \in Services \/ home

(* What a code takes off: an amount, or a coupon's percentage of one of     *)
(* each item, however many are bought.                                      *)
Discount(s, c) ==
    IF ~c.code THEN 0
    ELSE IF s.code.percent
    THEN (s.code.amount * SumFunctionOnSet(s.price, {c.lines[i].sku : i \in DOMAIN c.lines})) \div 100
    ELSE s.code.amount

(* Each line's tax goes to the two halves at home, whole to IGST elsewhere. *)
TaxLines(tax, home) ==
    LET here == {k \in DOMAIN tax : AtHome(k, home)}
    IN  [CGST |-> SumFunction([k \in here |-> Split(tax[k]).CGST]),
         SGST |-> SumFunction([k \in here |-> Split(tax[k]).SGST]),
         IGST |-> SumFunctionOnSet(tax, DOMAIN tax \ here)]

Quote(s, c) ==
    LET lines    == Fold(c.lines, s.price)
        skus     == DOMAIN lines
        weights  == [k \in skus |-> lines[k].total]
        subtotal == SumFunction(weights)
        discount == Discount(s, c)
        off      == Apportion(discount, weights)
        freight  == Apportion(s.ship, weights)
        tax      == [k \in skus |-> ExtractTax(weights[k] - off[k] + freight[k], RateOf[k])]
    IN  [lines |-> lines, subtotal |-> subtotal, discount |-> discount, ship |-> s.ship,
         off |-> off, freight |-> freight, lineTax |-> tax, tax |-> TaxLines(tax, c.home),
         total |-> TotalOf(subtotal, s.ship, discount, SumFunction(tax)),
         inclusive |-> s.inclusive]

(* A zone of the shop covers the place. *)
Served(s, c) == c.home \/ s.away

(* A code the shop has, and that takes something off. *)
Redeemable(s, c) == c.code => s.code # None /\ Discount(s, c) > 0

(* The client parses a quote with no amount below nought.                   *)
Parses(q) ==
    q.subtotal \in Nat /\ q.total \in Nat /\ \A t \in {"CGST", "SGST", "IGST"} : q.tax[t] \in Nat

\* mutant: the client takes any amounts
QuotableAnyTotal(s, c) == Served(s, c) /\ Redeemable(s, c) /\ Foldable(c.lines)

(* A quote the shop gives, every add-on with its line, and that parses.     *)
Quotable(s, c) ==
    /\ Served(s, c) /\ Redeemable(s, c)
    /\ Foldable(c.lines) /\ Parses(Quote(s, c))

-----------------------------------------------------------------------------
(* The Gate. *)

(* What an Authority that binds the cart is taken over.                     *)
CartHash(c, q, price) ==
    [attested |-> [i \in DOMAIN c.lines |-> price[c.lines[i].sku]], quote |-> q]

BindsCart  == {"passkey", "intent-passkey"}
MethodOf(k) == IF k \in {"intent-upi", "intent-passkey"} THEN "cod" ELSE "upi"

AuthorityCheck ==
    IF kind \notin held.kinds THEN "authority-kind-not-enabled"
    ELSE IF kind = "upi-pin" THEN "deferred"
    ELSE IF kind \in BindsCart /\ bound # CartHash(cart, pinned, facts.price)
         THEN "authority-stale" ELSE "pass"

WithinQty(lines, max) ==
    LET groups == {GroupOf[lines[i].sku] : i \in DOMAIN lines}
    IN  \A g \in groups :
          SumFunction([i \in {j \in DOMAIN lines : GroupOf[lines[j].sku] = g} |-> lines[i].qty]) <= max

(* Check 5 counts product groups, not lines.                                *)
WithinCount(lines, max) == Cardinality({GroupOf[lines[i].sku] : i \in DOMAIN lines}) <= max

(* Check 10: the Merchant's own sums, added again, and each line against    *)
(* the price the catalogue attests.                                         *)
Consistent(q) ==
    LET skus == DOMAIN q.lines
        tax  == q.tax.CGST + q.tax.SGST + q.tax.IGST
    IN  /\ SumFunction([k \in skus |-> q.lines[k].total]) = q.subtotal
        /\ \A k \in skus : q.lines[k].qty * q.lines[k].unit + q.lines[k].addons = q.lines[k].total
        /\ q.subtotal + q.ship - q.discount = q.total
        /\ q.inclusive => tax <= q.total
        /\ \A k \in skus : facts.price[k] = q.lines[k].unit

\* mutant: a quote is fresh while its total is
FreshTotal(q) == q.total = pinned.total

(* Check 11: the bytes the shop answers now are the bytes that were pinned. *)
IsFresh(q) == q = pinned

Verdict(ok, code) == IF ok THEN "pass" ELSE code

(* The twelve checks in their order, were all of them run.                  *)
Outcomes(q) ==
    LET lines == cart.lines IN
    << AuthorityCheck, "pass", "pass",
       Verdict(held.window, "window-closed"),
       Verdict(WithinCount(lines, held.count), "count-exceeded"),
       Verdict(WithinQty(lines, held.qty), "qty-exceeded"),
       Verdict(\A i \in DOMAIN lines : lines[i].sku \notin facts.recalled, "blocked-item"),
       "pass",
       Verdict(pinned.total <= held.cap, "cap-exceeded"),
       Verdict(Consistent(pinned), "quote-inconsistent"),
       Verdict(IsFresh(q), "price-changed"),
       Verdict(MethodOf(kind) \in held.methods, "method-not-supported") >>

Clean == {"pass", "deferred"}

(* The Gate stops at the first failure.                                     *)
Record(outcomes) ==
    LET bad == {i \in DOMAIN outcomes : outcomes[i] \notin Clean}
    IN  IF bad = {} THEN outcomes ELSE SubSeq(outcomes, 1, Min(bad))

Permits(record) == record[Len(record)] \in Clean

\* mutant: the Policy the process was built with
PolicyAtBoot(p) == SeedPolicy

(* current_policy(): the one live Policy, read when it is needed.           *)
CurrentPolicy(p) == p

-----------------------------------------------------------------------------
(* Door 9 answers a new checkout, or refuses it.                            *)
StartQuote ==
    /\ at = "start"
    /\ \/ /\ Quotable(shop, cart)
          /\ pinned' = Quote(shop, cart) /\ at' = "attest"
       \/ /\ ~Quotable(shop, cart)
          /\ at' = "unquoted" /\ UNCHANGED pinned
    /\ UNCHANGED <<merchant, cart, bound, tap, captured, lived>>

(* The catalogue is read again, and the cart hash is taken over its prices. *)
StartAttest ==
    /\ at = "attest"
    /\ bound' = CartHash(cart, pinned, shop.price) /\ at' = "shown"
    /\ UNCHANGED <<merchant, cart, pinned, tap, captured, lived>>

(* The Consumer taps: the method and a passkey, or none, fix the kind.      *)
Tap(k) ==
    /\ at = "shown" /\ kind' = k /\ at' = "facts" /\ lived' = {policy}
    /\ UNCHANGED <<merchant, checkout, facts, held, fresh, checks, captured>>

FactsOf(s) == [price |-> s.price, recalled |-> s.recalled]

(* The catalogue answers the tap, and a Gate is built with the live Policy. *)
TapFacts ==
    /\ at = "facts"
    /\ facts' = FactsOf(shop)
    /\ held' = CurrentPolicy(policy) /\ at' = "gate"
    /\ UNCHANGED <<merchant, checkout, kind, fresh, checks, captured, lived>>

(* Door 9 answers the Gate, and it decides. A shop that refuses to quote    *)
(* now ends the tap with its own refusal, the token spent.                  *)
Decide ==
    /\ at = "gate"
    /\ \/ /\ Quotable(shop, cart)
          /\ fresh' = Quote(shop, cart)
          /\ checks' = Record(Outcomes(fresh'))
          /\ at' = IF Permits(checks') THEN "permitted" ELSE "refused"
       \/ /\ ~Quotable(shop, cart)
          /\ at' = "unquoted" /\ UNCHANGED <<fresh, checks>>
    /\ UNCHANGED <<merchant, checkout, kind, facts, held, captured, lived>>

Resolved(record) == [i \in DOMAIN record |-> IF record[i] = "deferred" THEN "pass" ELSE record[i]]
Complete(record) == \A i \in DOMAIN record : record[i] # "deferred"

\* mutant: any money that moved is the right money
ReconcilesAny(amount) == TRUE

(* The one check after payment.                                             *)
Reconciles(amount) == amount = pinned.total

(* The Provider's record: a failure or another amount fails the order;      *)
(* otherwise the Authority that came with the money resolves what deferred, *)
(* and the amount is captured.                                              *)
Settle(amount, succeeded) ==
    /\ at = "permitted" /\ MethodOf(kind) = "upi"
    /\ \/ /\ ~succeeded \/ ~Reconciles(amount)
          /\ at' = "failed" /\ UNCHANGED <<checks, captured>>
       \/ /\ succeeded /\ Reconciles(amount)
          /\ checks' = Resolved(checks) /\ Complete(checks')
          /\ at' = "paid" /\ captured' = amount
    /\ UNCHANGED <<merchant, checkout, kind, facts, held, fresh, lived>>

(* Cash at the door: nothing is checked again.                              *)
Collect ==
    /\ at = "permitted" /\ MethodOf(kind) = "cod" /\ Complete(checks)
    /\ at' = "paid" /\ captured' = pinned.total
    /\ UNCHANGED <<merchant, checkout, tap, lived>>

(* The Merchant edits the shop, or the Policy, at any time.                 *)
ShopEdit(s) ==
    /\ edits < MaxEdits /\ s # shop
    /\ shop' = s /\ edits' = edits + 1
    /\ UNCHANGED <<policy, checkout, tap, at, captured, lived>>

PolicyEdit(p) ==
    /\ edits < MaxEdits /\ p # policy
    /\ policy' = p /\ edits' = edits + 1
    /\ lived' = IF at \in {"facts", "gate"} THEN lived \cup {p} ELSE lived
    /\ UNCHANGED <<shop, checkout, tap, at, captured>>

Init ==
    /\ shop \in Shops /\ policy \in Policies /\ edits = 0
    /\ cart \in Carts /\ pinned = None /\ bound = None
    /\ kind = None /\ facts = None /\ held = None /\ fresh = None
    /\ at = "start" /\ checks = <<>> /\ captured = None
    /\ lived = {}

Next ==
    \/ StartQuote \/ StartAttest
    \/ \E k \in Kinds : Tap(k)
    \/ TapFacts \/ Decide \/ Collect
    \/ at = "permitted" /\ \E d \in {0, 1}, ok \in BOOLEAN : Settle(pinned.total + d, ok)
    \/ \E s \in Shops : ShopEdit(s)
    \/ \E p \in Policies : PolicyEdit(p)

Spec == Init /\ [][Next]_vars

-----------------------------------------------------------------------------
(* Properties. *)

(* Every value the checkout holds has its type, and no amount the Consumer  *)
(* is shown is negative (models.py's ge=0 on a Quote's total).              *)
TypeOK ==
    /\ shop \in Shops /\ policy \in Policies /\ edits \in 0..MaxEdits
    /\ cart \in Carts /\ kind \in Kinds \cup {None}
    /\ pinned # None => Parses(pinned)
    /\ held \in Policies \cup {None}
    /\ at \in {"start", "unquoted", "attest", "shown", "facts", "gate", "refused", "permitted",
               "failed", "paid"}
    /\ Len(checks) <= 12
    /\ captured \in Nat \cup {None}

(* The shares of a discount and of the shipping add up to the amount that   *)
(* was split, and the two halves of an intra-state tax to the tax: not a    *)
(* paisa is lost (pricing.ts apportion, splitCgstSgst).                     *)
SharesAddUp ==
    pinned # None /\ pinned.subtotal > 0 =>
      /\ SumFunction(pinned.off) = pinned.discount
      /\ SumFunction(pinned.freight) = pinned.ship
      /\ pinned.tax.CGST + pinned.tax.SGST + pinned.tax.IGST = SumFunction(pinned.lineTax)

(* The quote charges what was asked for: every line and every add-on at     *)
(* the price of the day, when no SKU is asked for twice (buildQuote).       *)
QuoteCoversCart ==
    at = "attest" /\ edits = 0
      /\ (\A i, j \in DOMAIN cart.lines :
            cart.lines[i].sku = cart.lines[j].sku /\ cart.lines[i].sku \notin Addons => i = j)
    => pinned.subtotal =
         SumFunction([i \in DOMAIN cart.lines |-> cart.lines[i].qty * shop.price[cart.lines[i].sku]])

(* A quote is the sum of its parts, and its parts are what was asked for.   *)
QuoteAddsUp == SharesAddUp /\ QuoteCoversCart

(* Where the Merchant edits nothing, the Gate never finds the shop's        *)
(* arithmetic wrong, the quote stale or the Authority stale: those codes    *)
(* are for a quote that did move (decide.py, checks 1, 10 and 11).          *)
HonestQuotePasses ==
    edits = 0 /\ checks # <<>> =>
      checks[Len(checks)] \notin {"quote-inconsistent", "price-changed", "authority-stale"}

(* The shop's arithmetic and the Gate's second opinion of it agree, to the  *)
(* paisa, on every basket.                                                  *)
QuoteIsSound == QuoteAddsUp /\ HonestQuotePasses

(* What the tap decided on is what the Consumer was shown: the shop gave    *)
(* the same quote again, each line at the price its catalogue attests, and  *)
(* an Authority that binds the cart was taken over those prices.            *)
ApprovedPriceStood ==
    at \in {"permitted", "failed", "paid"} =>
      /\ fresh = pinned
      /\ \A k \in DOMAIN pinned.lines : facts.price[k] = fresh.lines[k].unit
      /\ kind \in BindsCart => bound = CartHash(cart, fresh, facts.price)

(* A Policy edit takes effect with no restart: what the Gate permits is     *)
(* within a Policy that was live after the tap (gate/policy.py's one live   *)
(* Policy; the Gate keeps the one it was built with while door 9 answers).  *)
PermitWithinPolicy ==
    at \in {"permitted", "failed", "paid"} =>
      \E p \in lived : /\ p.window /\ kind \in p.kinds /\ MethodOf(kind) \in p.methods
                       /\ pinned.total <= p.cap /\ WithinQty(cart.lines, p.qty)
                       /\ WithinCount(cart.lines, p.count)

(* Money is captured once, at the amount that was shown, and only when      *)
(* nothing is deferred; a payment that failed leaves the Authority it was   *)
(* to bring unresolved (settle, collect).                                   *)
CapturedIsApproved ==
    /\ at = "paid" => captured = pinned.total /\ Complete(checks) /\ Len(checks) = 12
    /\ at # "paid" => captured = None
    /\ at = "failed" /\ kind = "upi-pin" => checks[1] = "deferred"

(* From the page to the capture, one amount: the Consumer is charged what   *)
(* was shown, at prices that stood when the tap was decided.                *)
ChargedIsApproved == ApprovedPriceStood /\ CapturedIsApproved
=============================================================================

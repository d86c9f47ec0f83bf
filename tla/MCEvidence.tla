----------------------------- MODULE MCEvidence -----------------------------
(* Receipts of one purchase of the small shop of MCQuoteGate.              *)
EXTENDS Evidence, TLC

MCGoods    == {1, 2}
MCServices == {3}
MCAddons   == {4, 5}
MCRateOf   == <<1800, 500, 1800, 1200, 0>>
MCGroupOf  == <<"a", "a", "b", "c", "c">>

Set(prices, ship, code, inclusive, recalled) ==
    [price |-> prices, ship |-> ship, code |-> code, inclusive |-> inclusive,
     recalled |-> recalled, away |-> code # None]
Off(n)  == [percent |-> FALSE, amount |-> n]
Rate(n) == [percent |-> TRUE, amount |-> n]
PricesA == <<70, 31, 55, 9, 4>>
PricesB == <<75, 31, 55, 10, 4>>
\* two prices that move against each other
PricesC == <<69, 32, 55, 9, 4>>

MCShops == {Set(PricesA, 8, Off(20), TRUE, {}), Set(PricesB, 8, Off(20), TRUE, {}),
            Set(PricesC, 8, Off(20), TRUE, {}), Set(PricesA, 9, Rate(15), TRUE, {}),
            Set(PricesA, 8, Off(500), FALSE, {}), Set(PricesA, 8, Off(20), TRUE, {2}),
            Set(PricesA, 8, None, TRUE, {})}

Limit(cap, count, qty, window, kinds, methods) ==
    [cap |-> cap, count |-> count, qty |-> qty, window |-> window, kinds |-> kinds,
     methods |-> methods]
MCSeed == Limit(250, 3, 3, TRUE, Kinds, {"upi", "cod"})
MCPolicies == {MCSeed, Limit(150, 2, 2, TRUE, Kinds, {"upi", "cod"}),
               Limit(250, 3, 3, TRUE, {"upi-pin", "intent-upi"}, {"upi"}),
               Limit(250, 3, 3, FALSE, Kinds, {"upi", "cod"})}

Line(s, q, p) == [sku |-> s, qty |-> q, parent |-> p]
Ask(lines, home, code) == [lines |-> lines, home |-> home, code |-> code]
MCCarts == {Ask(<<Line(1, 1, None), Line(2, 1, None)>>, TRUE, TRUE),
            Ask(<<Line(1, 1, None), Line(4, 1, 1), Line(5, 2, 1), Line(3, 1, None)>>, FALSE, TRUE),
            Ask(<<Line(2, 2, None), Line(1, 2, None)>>, TRUE, FALSE),
            Ask(<<Line(2, 1, None), Line(2, 2, None)>>, TRUE, FALSE),
            Ask(<<Line(1, 1, None), Line(4, 1, 2)>>, FALSE, FALSE),
            Ask(<<Line(1, 1, None), Line(2, 1, None), Line(3, 1, None)>>, FALSE, TRUE),
            Ask(<<Line(2, 1, None)>>, TRUE, TRUE)}

\* the code takes 20 off; the prices may move while the order is paid and sealed
MCFollowed == {<<Ask(<<Line(2, 1, None)>>, TRUE, TRUE), Set(PricesA, 8, Off(20), TRUE, {}), MCSeed>>}
MCKids == {"k1", "k2"}
=============================================================================

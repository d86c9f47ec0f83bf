---------------------------- MODULE CallsProofs ----------------------------
(***************************************************************************)
(* What an agent's calls leave behind, for any agents, workers, keys, skus  *)
(* and baskets: one answer under a key, a checkout that stands, a basket    *)
(* whose delivery is for its lines and whose code the shop took.            *)
(***************************************************************************)
EXTENDS ToolCalls, SumProofs, TLAPS

Ats == {"idle", "load", "run", "save", "order", "quote", "clear", "remember"}

IsBasket(b) == DOMAIN b = {"cart", "lines", "dest", "contact", "option", "code"}

Forms ==
    /\ calm \in BOOLEAN /\ carts \in Nat
    /\ DOMAIN row = Agents /\ DOMAIN call = Workers /\ DOMAIN told = Agents \X Keys
    /\ \A a \in Agents : IsBasket(row[a])
    /\ \A w \in Workers :
         /\ DOMAIN call[w] = {"agent", "key", "ask", "at", "basket", "named", "ok"}
         /\ call[w].at \in Ats /\ IsBasket(B(w))
         /\ call[w].at # "idle" => call[w].agent \in Agents /\ call[w].key \in Keys \cup {None}

(* What was told under a key is what is kept under it.                      *)
Answers ==
    \A k \in Agents \X Keys :
      told[k] \subseteq IF k \in DOMAIN keys THEN {<<keys[k].ask, keys[k].answer>>} ELSE {}

(* A delivery is for its lines, and a code was taken, also in the copies of *)
(* the calls under way.                                                     *)
Sound(b) == OptionFits(b) /\ (calm => b.code \notin BadCodes)
Fits ==
    /\ \A a \in Agents : Sound(row[a])
    /\ \A w \in Workers : Sound(B(w))
    /\ \A c \in DOMAIN checkouts : OptionFits(checkouts[c])

(* A call that has a basket of its own in hand.                             *)
Working(w) ==
    \/ call[w].at \in {"save", "order", "quote", "clear"}
    \/ call[w].at = "run" /\ Tool(w) \in BasketTools

(* Cart ids: a basket has one that was handed out; one call at a time, no   *)
(* two baskets share one, and of those no protocol checkout named, none in  *)
(* use has become a checkout.                                               *)
Unshared == DOMAIN checkouts \ reused
Alone ==
    /\ \A w, v \in Workers : call[w].at # "idle" /\ call[v].at # "idle" => w = v
    /\ \A a, b \in Agents : row[a].cart = row[b].cart => a = b \/ row[a].cart = 0
    /\ \A a \in Agents : row[a].cart \in Unshared =>
         \E w \in Workers : call[w].at = "clear" /\ call[w].agent = a
    /\ \A w \in Workers : Working(w) =>
         /\ call[w].at # "clear" => B(w).cart \notin Unshared
         /\ Tool(w) = "checkout" =>
              /\ call[w].at \in {"order", "quote"}
              /\ B(w).cart \in reused \/ \A a \in Agents : row[a].cart # B(w).cart
         /\ Tool(w) # "checkout" =>
              \A a \in Agents : row[a].cart = B(w).cart => a = call[w].agent
Carts ==
    /\ DOMAIN checkouts \subseteq 1..carts
    /\ \A a \in Agents : row[a] = NoRow \/ row[a].cart \in 1..carts
    /\ \A w \in Workers : Working(w) => B(w).cart \in 1..carts
    /\ calm => Alone

CallsInv == Forms /\ Answers /\ Fits /\ Carts

LEMMA NothingHeld == NoRow.cart = 0 /\ NoRow.option = None /\ NoRow.code = None /\ IsBasket(NoRow)
BY DEF NoRow, Fresh, IsBasket

LEMMA QuietCall ==
    /\ Quiet.at = "idle" /\ Quiet.basket = NoRow
    /\ DOMAIN Quiet = {"agent", "key", "ask", "at", "basket", "named", "ok"}
BY DEF Quiet

LEMMA InitCalls == Init => CallsInv
<1> SUFFICES ASSUME Init PROVE CallsInv
  OBVIOUS
<1> USE NothingHeld, QuietCall, CallsAssumption
<1>1. Forms
  BY DEF Init, Forms, B, Ats
<1>2. Answers
  BY DEF Init, Answers
<1>3. Fits
  BY DEF Init, Fits, Sound, OptionFits, B
<1>4. Carts
  BY DEF Init, Carts, Alone, Unshared, Working
<1> QED
  BY <1>1, <1>2, <1>3, <1>4 DEF CallsInv

-----------------------------------------------------------------------------
(* What a call does to itself. *)

(* A call is over, and nothing else is written.                             *)
LEMMA FreeKeeps ==
    ASSUME CallsInv, NEW w \in Workers, Free(w), UNCHANGED <<calm, carts, row, checkouts, reused>>,
           calm => call[w].at # "clear",
           DOMAIN told' = Agents \X Keys, Answers'
    PROVE  CallsInv'
<1> USE NothingHeld, QuietCall
<1>1. /\ \A v \in Workers \ {w} : call'[v] = call[v]
      /\ call'[w] = Quiet /\ DOMAIN call' = Workers
  BY DEF Free, CallsInv, Forms
<1>2. Forms'
  BY <1>1 DEF CallsInv, Forms, B, Ats
<1>3. Fits'
  BY <1>1, CallsAssumption DEF CallsInv, Fits, Sound, OptionFits, B
<1>4. Carts'
  BY <1>1 DEF CallsInv, Carts, Alone, Unshared, Working, B, Tool
<1> QED
  BY <1>2, <1>3, <1>4 DEF CallsInv

(* A call ends with a basket to save: its own cart, and a sound one.        *)
LEMMA EndsKeeps ==
    ASSUME CallsInv, NEW w \in Workers, NEW b, NEW ok, Ends(w, b, ok),
           Working(w), call[w].at # "clear", Tool(w) # "checkout",
           IsBasket(b), Sound(b), b.cart = B(w).cart
    PROVE  CallsInv'
<1>1. /\ \A v \in Workers \ {w} : call'[v] = call[v]
      /\ call'[w].basket = b /\ call'[w].at = "save" /\ DOMAIN call'[w] = DOMAIN call[w]
      /\ call'[w].agent = call[w].agent /\ call'[w].key = call[w].key /\ call'[w].ask = call[w].ask
      /\ DOMAIN call' = Workers
  <2>1. DOMAIN call = Workers /\ DOMAIN call[w] = {"agent", "key", "ask", "at", "basket", "named", "ok"}
    BY DEF CallsInv, Forms
  <2>2. call' = [call EXCEPT ![w] =
                   [[[call[w] EXCEPT !.basket = b] EXCEPT !.ok = ok] EXCEPT !.at = "save"]]
    BY <2>1 DEF Ends
  <2> QED
    BY <2>1, <2>2
<1>2. UNCHANGED <<calm, carts, row, keys, checkouts, told, reused>> /\ call[w].at # "idle"
  BY DEF Ends, Working
<1>3. Forms'
  BY <1>1, <1>2 DEF CallsInv, Forms, B, Ats
<1>4. Answers'
  BY <1>2 DEF CallsInv, Answers
<1>5. Fits'
  BY <1>1, <1>2 DEF CallsInv, Fits, Sound, OptionFits, B
<1>6. Carts'
  <2>1. Working(w)' /\ B(w)'.cart = B(w).cart /\ Tool(w)' = Tool(w)
    BY <1>1 DEF Working, B, Tool
  <2>2. \A v \in Workers \ {w} : (Working(v)' <=> Working(v)) /\ B(v)' = B(v) /\ Tool(v)' = Tool(v)
    BY <1>1 DEF Working, B, Tool
  <2> QED
    BY <1>1, <1>2, <2>1, <2>2 DEF CallsInv, Carts, Alone, Unshared
<1> QED
  BY <1>3, <1>4, <1>5, <1>6 DEF CallsInv

-----------------------------------------------------------------------------
(* The tools that edit the basket. *)

LEMMA AddLineKeeps == ASSUME CallsInv, NEW w \in Workers, AddLine(w) PROVE CallsInv'
<1> DEFINE b == B(w)
           l == <<Arg(w), call[w].ask[3]>>
<1>1. Working(w) /\ call[w].at # "clear" /\ Tool(w) # "checkout"
  BY DEF AddLine, Runs, Working, BasketTools
<1>2. IsBasket(b) /\ Sound(b)
  BY DEF CallsInv, Forms, Fits
<1>3. IsBasket(Added(b, l)) /\ Sound(Added(b, l)) /\ Added(b, l).cart = b.cart
  BY <1>2 DEF Added, Unchosen, IsBasket, Sound, OptionFits
<1>4. Ends(w, b, FALSE) \/ Ends(w, Added(b, l), TRUE)
  BY DEF AddLine
<1> QED
  BY <1>1, <1>2, <1>3, <1>4, EndsKeeps

LEMMA RemoveLineKeeps == ASSUME CallsInv, NEW w \in Workers, RemoveLine(w) PROVE CallsInv'
<1> DEFINE b == B(w)
           Without(lines) == Unchosen([b EXCEPT !.lines = lines])
<1>1. Working(w) /\ call[w].at # "clear" /\ Tool(w) # "checkout"
  BY DEF RemoveLine, Runs, Working, BasketTools
<1>2. IsBasket(b) /\ Sound(b)
  BY DEF CallsInv, Forms, Fits
<1>3. ASSUME NEW lines
      PROVE  IsBasket(Without(lines)) /\ Sound(Without(lines)) /\ Without(lines).cart = b.cart
  BY <1>2 DEF Unchosen, IsBasket, Sound, OptionFits
<1>4. Ends(w, b, FALSE) \/ \E lines : Ends(w, Without(lines), TRUE)
  BY DEF RemoveLine
<1> QED
  BY <1>1, <1>2, <1>3, <1>4, EndsKeeps

LEMMA SetDestinationKeeps == ASSUME CallsInv, NEW w \in Workers, SetDestination(w) PROVE CallsInv'
<1> DEFINE b == B(w)
           c == Unchosen([b EXCEPT !.dest = Arg(w)])
<1>1. Working(w) /\ call[w].at # "clear" /\ Tool(w) # "checkout"
  BY DEF SetDestination, Runs, Working, BasketTools
<1>2. IsBasket(b) /\ Sound(b)
  BY DEF CallsInv, Forms, Fits
<1>3. IsBasket(c) /\ Sound(c) /\ c.cart = b.cart
  BY <1>2 DEF Unchosen, IsBasket, Sound, OptionFits
<1>4. Ends(w, b, FALSE) \/ Ends(w, c, TRUE)
  BY DEF SetDestination
<1> QED
  BY <1>1, <1>2, <1>3, <1>4, EndsKeeps

LEMMA SetContactKeeps == ASSUME CallsInv, NEW w \in Workers, SetContact(w) PROVE CallsInv'
<1> DEFINE b == B(w)
           c == [b EXCEPT !.contact = TRUE]
<1>1. Working(w) /\ call[w].at # "clear" /\ Tool(w) # "checkout"
  BY DEF SetContact, Runs, Working, BasketTools
<1>2. IsBasket(b) /\ Sound(b)
  BY DEF CallsInv, Forms, Fits
<1>3. IsBasket(c) /\ Sound(c) /\ c.cart = b.cart
  BY <1>2 DEF IsBasket, Sound, OptionFits, Offer
<1>4. Ends(w, b, FALSE) \/ \E ok \in BOOLEAN : Ends(w, c, ok)
  BY DEF SetContact, Summed
<1> QED
  BY <1>1, <1>2, <1>3, <1>4, EndsKeeps

LEMMA ChooseFulfillmentKeeps ==
    ASSUME CallsInv, NEW w \in Workers, ChooseFulfillment(w) PROVE CallsInv'
<1> DEFINE b == B(w)
           c == [b EXCEPT !.option = Offer(b)]
<1>1. Working(w) /\ call[w].at # "clear" /\ Tool(w) # "checkout"
  BY DEF ChooseFulfillment, Runs, Working, BasketTools
<1>2. IsBasket(b) /\ Sound(b)
  BY DEF CallsInv, Forms, Fits
<1>3. IsBasket(c) /\ Sound(c) /\ c.cart = b.cart
  BY <1>2 DEF IsBasket, Sound, OptionFits, Offer
<1>4. Ends(w, b, FALSE) \/ Ends(w, b, TRUE) \/ \E ok \in BOOLEAN : Ends(w, c, ok)
  BY DEF ChooseFulfillment, Summed
<1> QED
  BY <1>1, <1>2, <1>3, <1>4, EndsKeeps

(* A code that is no good stays only where the shop did not answer.         *)
LEMMA ApplyPublicCodeKeeps ==
    ASSUME CallsInv, NEW w \in Workers, ApplyPublicCode(w) PROVE CallsInv'
<1> DEFINE b == B(w)
           c == [b EXCEPT !.code = Arg(w)]
<1>1. Working(w) /\ call[w].at # "clear" /\ Tool(w) # "checkout"
  BY DEF ApplyPublicCode, Runs, Working, BasketTools
<1>2. IsBasket(b) /\ Sound(b)
  BY DEF CallsInv, Forms, Fits
<1>3. /\ IsBasket(c) /\ c.cart = b.cart
      /\ Arg(w) \in GoodCodes \/ ~calm => Sound(c)
  BY <1>2, CallsAssumption DEF IsBasket, Sound, OptionFits, Offer
<1>4. \/ Ends(w, b, FALSE)
      \/ (Arg(w) \in GoodCodes \/ ~calm) /\ \E ok \in BOOLEAN : Ends(w, c, ok)
  BY DEF ApplyPublicCode, CodeRefused
<1> QED
  BY <1>1, <1>2, <1>3, <1>4, EndsKeeps

(* The basket is a new one, with a cart of its own.                         *)
LEMMA ClearBasketKeeps == ASSUME CallsInv, NEW w \in Workers, ClearBasket(w) PROVE CallsInv'
<1> DEFINE b == Fresh(carts + 1)
<1>1. Working(w) /\ call[w].at # "clear" /\ call[w].at # "idle" /\ Tool(w) = "clear-basket"
  BY DEF ClearBasket, Runs, Working, BasketTools
<1>2. IsBasket(b) /\ Sound(b) /\ b.cart = carts + 1
  BY CallsAssumption DEF Fresh, IsBasket, Sound, OptionFits
<1> HIDE DEF b
<1>3. DOMAIN call = Workers /\ DOMAIN call[w] = {"agent", "key", "ask", "at", "basket", "named", "ok"}
  BY DEF CallsInv, Forms
<1>4. call' = [call EXCEPT ![w] =
                 [[[call[w] EXCEPT !.basket = b] EXCEPT !.ok = TRUE] EXCEPT !.at = "save"]]
  BY <1>3 DEF ClearBasket, b
<1>5. /\ \A v \in Workers \ {w} : call'[v] = call[v]
      /\ call'[w].basket = b /\ call'[w].at = "save" /\ DOMAIN call'[w] = DOMAIN call[w]
      /\ call'[w].agent = call[w].agent /\ call'[w].key = call[w].key /\ call'[w].ask = call[w].ask
      /\ DOMAIN call' = Workers
  BY <1>3, <1>4
<1>6. carts' = carts + 1 /\ UNCHANGED <<calm, row, keys, checkouts, told, reused>>
  BY DEF ClearBasket
<1>7. Forms'
  BY <1>1, <1>2, <1>5, <1>6 DEF CallsInv, Forms, B, Ats
<1>8. Answers'
  BY <1>6 DEF CallsInv, Answers
<1>9. Fits'
  BY <1>2, <1>5, <1>6 DEF CallsInv, Fits, Sound, OptionFits, B
<1>10. Carts'
  <2>1. Working(w)' /\ B(w)'.cart = carts + 1 /\ Tool(w)' = Tool(w)
    BY <1>2, <1>5 DEF Working, B, Tool
  <2>2. \A v \in Workers \ {w} : (Working(v)' <=> Working(v)) /\ B(v)' = B(v) /\ Tool(v)' = Tool(v)
    BY <1>5 DEF Working, B, Tool
  <2>3. /\ carts + 1 \notin DOMAIN checkouts /\ \A a \in Agents : row[a].cart # carts + 1
        /\ 1..carts \subseteq 1..(carts + 1) /\ carts + 1 \in 1..(carts + 1)
    BY NothingHeld DEF CallsInv, Carts, Alone, Unshared, Forms
  <2>4. /\ DOMAIN checkouts' \subseteq 1..carts'
        /\ \A a \in Agents : row'[a] = NoRow \/ row'[a].cart \in 1..carts'
        /\ \A v \in Workers : Working(v)' => B(v)'.cart \in 1..carts'
    BY <1>6, <2>1, <2>2, <2>3 DEF CallsInv, Carts, Alone, Unshared
  <2> QED
    BY <1>1, <1>5, <1>6, <2>1, <2>2, <2>3, <2>4 DEF CallsInv, Carts, Alone, Unshared
<1> QED
  BY <1>7, <1>8, <1>9, <1>10 DEF CallsInv

-----------------------------------------------------------------------------
(* Around the tool. *)

(* A call comes in, on its own where calls do not overlap.                  *)
LEMMA ArriveKeeps ==
    ASSUME CallsInv, NEW w \in Workers, NEW a \in Agents, NEW key \in Keys \cup {None}, NEW ask,
           Arrive(w, a, key, ask)
    PROVE  CallsInv'
<1> DEFINE c == Taken(a, key, ask)
<1>1. /\ call[w].at = "idle" /\ (calm => \A v \in Workers : call[v].at = "idle")
      /\ UNCHANGED <<calm, carts, row, keys, orders, checkouts, reused>>
  BY DEF Arrive, Idle
<1>2. CASE UNCHANGED call
  <2>1. told' = told \/ /\ <<a, key>> \in DOMAIN keys /\ key # None
                        /\ told' = [told EXCEPT ![<<a, key>>] =
                                      @ \cup {<<keys[<<a, key>>].ask, keys[<<a, key>>].answer>>}]
    BY <1>2, QuietCall, <1>1 DEF Arrive, Replay, Tell, CallsInv, Forms
  <2>2. DOMAIN told' = Agents \X Keys /\ Answers'
    BY <1>1, <2>1 DEF CallsInv, Forms, Answers
  <2>3. Forms'
    BY <1>1, <1>2, <2>2 DEF CallsInv, Forms, B
  <2>4. Fits'
    BY <1>1, <1>2 DEF CallsInv, Fits, Sound, OptionFits, B
  <2>5. Carts'
    BY <1>1, <1>2 DEF CallsInv, Carts, Alone, Unshared, Working, B, Tool
  <2> QED
    BY <2>2, <2>3, <2>4, <2>5 DEF CallsInv
<1>3. CASE call' = [call EXCEPT ![w] = c] /\ UNCHANGED told
  <2>1. /\ c.agent = a /\ c.key = key /\ c.ask = ask /\ c.at \in {"load", "run"}
        /\ c.at = "run" => ask[1] \in OrderTools
        /\ c.basket = NoRow
        /\ DOMAIN c = {"agent", "key", "ask", "at", "basket", "named", "ok"}
    BY QuietCall DEF Taken
  <2> HIDE DEF c
  <2>2. /\ \A v \in Workers \ {w} : call'[v] = call[v]
        /\ call'[w] = c /\ DOMAIN call' = Workers
    BY <1>3 DEF CallsInv, Forms
  <2>3. Forms'
    BY <1>1, <1>3, <2>1, <2>2, NothingHeld DEF CallsInv, Forms, B, Ats
  <2>4. Answers'
    BY <1>1, <1>3 DEF CallsInv, Answers
  <2>5. Fits'
    BY <1>1, <2>1, <2>2, NothingHeld, CallsAssumption
    DEF CallsInv, Fits, Sound, OptionFits, B
  <2>6. Carts'
    <3>1. ~Working(w)'
      BY <2>1, <2>2 DEF Working, Tool, BasketTools, OrderTools
    <3>2. \A v \in Workers \ {w} : (Working(v)' <=> Working(v)) /\ B(v)' = B(v) /\ Tool(v)' = Tool(v)
      BY <2>2 DEF Working, B, Tool
    <3> QED
      BY <1>1, <2>1, <2>2, <3>1, <3>2 DEF CallsInv, Carts, Alone, Unshared
  <2> QED
    BY <2>3, <2>4, <2>5, <2>6 DEF CallsInv
<1> QED
  BY <1>2, <1>3 DEF Arrive, Replay

(* A call goes on with the basket it loaded or was sent.                    *)
LEMMA HoldsKeeps ==
    ASSUME CallsInv, NEW w \in Workers, NEW b, NEW x \in {"run", "order"}, call[w].at = "load",
           call' = [call EXCEPT ![w].basket = b, ![w].at = x],
           x = "run" <=> Tool(w) # "checkout",
           IsBasket(b), Sound(b), carts' \in Nat, carts <= carts', reused \subseteq reused',
           UNCHANGED <<calm, row, keys, checkouts, told>>,
           b.cart \in 1..carts',
           calm => /\ b.cart \notin Unshared'
                   /\ IF x = "order"
                      THEN b.cart \in reused' \/ \A d \in Agents : row[d].cart # b.cart
                      ELSE \A d \in Agents : row[d].cart = b.cart => d = call[w].agent
    PROVE  CallsInv'
<1>1. DOMAIN call = Workers /\ DOMAIN call[w] = {"agent", "key", "ask", "at", "basket", "named", "ok"}
  BY DEF CallsInv, Forms
<1>2. call' = [call EXCEPT ![w] = [[call[w] EXCEPT !.basket = b] EXCEPT !.at = x]]
  BY <1>1
<1>3. /\ \A v \in Workers \ {w} : call'[v] = call[v]
      /\ call'[w].basket = b /\ call'[w].at = x /\ DOMAIN call'[w] = DOMAIN call[w]
      /\ call'[w].agent = call[w].agent /\ call'[w].key = call[w].key /\ call'[w].ask = call[w].ask
      /\ DOMAIN call' = Workers
  BY <1>1, <1>2
<1>4. Forms'
  BY <1>3 DEF CallsInv, Forms, B, Ats
<1>5. Answers'
  BY DEF CallsInv, Answers
<1>6. Fits'
  BY <1>3 DEF CallsInv, Fits, Sound, OptionFits, B
<1>7. Carts'
  <2>1. B(w)' = b /\ Tool(w)' = Tool(w)
    BY <1>3 DEF B, Tool
  <2>2. \A v \in Workers \ {w} : (Working(v)' <=> Working(v)) /\ B(v)' = B(v) /\ Tool(v)' = Tool(v)
    BY <1>3 DEF Working, B, Tool
  <2>3. /\ carts \in Nat /\ 1..carts \subseteq 1..carts'
        /\ Unshared' \subseteq Unshared
    BY DEF CallsInv, Forms, Unshared
  <2>4. /\ DOMAIN checkouts' \subseteq 1..carts'
        /\ \A d \in Agents : row'[d] = NoRow \/ row'[d].cart \in 1..carts'
        /\ \A v \in Workers : Working(v)' => B(v)'.cart \in 1..carts'
    BY <2>1, <2>2, <2>3 DEF CallsInv, Carts
  <2>5. ASSUME calm PROVE Alone'
    <3>1. \A v \in Workers \ {w} : call[v].at = "idle"
      BY <2>5 DEF CallsInv, Carts, Alone
    <3>2. /\ \A v, u \in Workers : call'[v].at # "idle" /\ call'[u].at # "idle" => v = u
          /\ \A v \in Workers \ {w} : ~Working(v)'
      BY <1>3, <2>2, <3>1 DEF Working
    <3>3. \A d, e \in Agents : row'[d].cart = row'[e].cart => d = e \/ row'[d].cart = 0
      BY <2>5 DEF CallsInv, Carts, Alone
    <3>4. \A d \in Agents : row'[d].cart \notin Unshared'
      BY <2>3, <2>5, <3>1 DEF CallsInv, Carts, Alone
    <3>5. Working(w)' =>
            /\ B(w)'.cart \notin Unshared'
            /\ Tool(w)' = "checkout" =>
                 /\ call'[w].at \in {"order", "quote"}
                 /\ B(w)'.cart \in reused' \/ \A d \in Agents : row'[d].cart # B(w)'.cart
            /\ Tool(w)' # "checkout" =>
                 \A d \in Agents : row'[d].cart = B(w)'.cart => d = call'[w].agent
      BY <1>3, <2>1, <2>5
    <3> QED
      BY <3>2, <3>3, <3>4, <3>5 DEF Alone
  <2> QED
    BY <2>4, <2>5 DEF Carts
<1> QED
  BY <1>4, <1>5, <1>6, <1>7 DEF CallsInv

LEMMA FreshSound ==
    ASSUME NEW n PROVE IsBasket(Fresh(n)) /\ Sound(Fresh(n)) /\ Fresh(n).cart = n
BY CallsAssumption DEF Fresh, IsBasket, Sound, OptionFits

(* A cart id that was not handed out is nobody's.                           *)
LEMMA NewCart ==
    ASSUME CallsInv
    PROVE  /\ carts \in Nat /\ carts + 1 \notin DOMAIN checkouts
           /\ \A d \in Agents : row[d].cart # carts + 1
BY NothingHeld DEF CallsInv, Carts, Forms

LEMMA LoadKeeps == ASSUME CallsInv, NEW w \in Workers, Load(w) PROVE CallsInv'
<1> DEFINE b == Loaded(w)
           a == call[w].agent
<1>1. /\ call[w].at = "load" /\ a \in Agents /\ Tool(w) # "checkout"
      /\ call' = [call EXCEPT ![w].basket = b, ![w].at = "run"]
      /\ carts' = (IF NeedsCart(w) THEN carts + 1 ELSE carts)
      /\ UNCHANGED <<calm, row, keys, checkouts, told, reused>>
  BY DEF Load, CallsInv, Forms, BasketTools
<1>2. carts \in Nat /\ carts' \in Nat /\ carts <= carts'
  BY <1>1, NewCart
<1>3. Unshared' = Unshared
  BY <1>1 DEF Unshared
<1>4. CASE NeedsCart(w)
  <2>1. b = Fresh(carts + 1) /\ carts' = carts + 1
    BY <1>1, <1>4 DEF Loaded
  <2>2. IsBasket(b) /\ Sound(b) /\ b.cart = carts + 1
    BY <2>1, FreshSound
  <2>3. b.cart \notin Unshared' /\ \A d \in Agents : row[d].cart # b.cart
    BY <1>3, <2>2, NewCart DEF Unshared
  <2>4. b.cart \in 1..carts'
    BY <1>2, <2>1, <2>2
  <2> HIDE DEF b
  <2> QED
    BY <1>1, <1>2, <2>2, <2>3, <2>4, HoldsKeeps
<1>5. CASE ~NeedsCart(w)
  <2>1. b = row[a] /\ row[a] # NoRow /\ carts' = carts
    BY <1>1, <1>5 DEF Loaded, NeedsCart
  <2>2. IsBasket(b) /\ Sound(b) /\ b.cart \in 1..carts'
    BY <1>1, <2>1 DEF CallsInv, Forms, Fits, Carts
  <2>3. calm => /\ b.cart \notin Unshared
                /\ \A d \in Agents : row[d].cart = b.cart => d = a
    <3>1. b.cart # 0
      BY <1>2, <2>1, <2>2
    <3>2. calm => \A v \in Workers : call[v].at # "clear"
      BY <1>1 DEF CallsInv, Carts, Alone
    <3> QED
      BY <1>1, <2>1, <3>1, <3>2 DEF CallsInv, Carts, Alone
  <2> HIDE DEF b
  <2> QED
    BY <1>1, <1>2, <1>3, <2>2, <2>3, HoldsKeeps
<1> QED
  BY <1>4, <1>5

(* A protocol checkout shares its cart only with what it names.             *)
LEMMA ReceiveKeeps == ASSUME CallsInv, NEW w \in Workers, Receive(w) PROVE CallsInv'
<1>1. PICK cart \in 1..MaxCarts :
        /\ cart <= carts + 1
        /\ carts' = (IF cart <= carts THEN carts ELSE cart)
        /\ reused' = (IF cart <= carts THEN reused \cup {cart} ELSE reused)
        /\ call' = [call EXCEPT ![w].basket = Sent(w, cart), ![w].at = "order"]
  BY DEF Receive
<1> DEFINE b == Sent(w, cart)
<1>2. /\ call[w].at = "load" /\ Tool(w) = "checkout"
      /\ UNCHANGED <<calm, row, keys, checkouts, told>>
  BY DEF Receive
<1>3. carts \in Nat /\ cart \in Nat /\ carts' \in Nat /\ carts <= carts' /\ cart \in 1..carts'
  BY <1>1, NewCart, CallsAssumption
<1>4. IsBasket(b) /\ Sound(b) /\ b.cart = cart
  <2>1. IsBasket(Fresh(cart)) /\ Fresh(cart).cart = cart /\ Fresh(cart).code = None
    BY DEF Fresh, IsBasket
  <2> QED
    BY <2>1, CallsAssumption DEF Sent, IsBasket, Sound, OptionFits, Offer
<1>5. cart \in reused' \/ (cart \notin DOMAIN checkouts /\ \A d \in Agents : row[d].cart # cart)
  <2>1. CASE cart <= carts
    BY <1>1, <2>1
  <2>2. CASE ~(cart <= carts)
    <3>1. cart = carts + 1
      BY <1>1, <1>3, <2>2
    <3> QED
      BY <3>1, NewCart
  <2> QED
    BY <2>1, <2>2
<1>6. reused \subseteq reused' /\ cart \notin Unshared'
  BY <1>1, <1>2, <1>5 DEF Unshared
<1>7. call' = [call EXCEPT ![w].basket = b, ![w].at = "order"]
  BY <1>1
<1> HIDE DEF b
<1> QED
  BY <1>2, <1>3, <1>4, <1>5, <1>6, <1>7, HoldsKeeps

(* A call goes to another step and touches no table that counts here.       *)
LEMMA OnKeeps ==
    ASSUME CallsInv, NEW w \in Workers, NEW x \in {"order", "quote"},
           call' = [call EXCEPT ![w].at = x], Working(w), call[w].at # "clear",
           UNCHANGED <<calm, carts, row, keys, checkouts, told, reused>>
    PROVE  CallsInv'
<1>1. DOMAIN call = Workers /\ DOMAIN call[w] = {"agent", "key", "ask", "at", "basket", "named", "ok"}
  BY DEF CallsInv, Forms
<1>2. /\ \A v \in Workers \ {w} : call'[v] = call[v]
      /\ call'[w].basket = B(w) /\ call'[w].at = x /\ DOMAIN call'[w] = DOMAIN call[w]
      /\ call'[w].agent = call[w].agent /\ call'[w].key = call[w].key /\ call'[w].ask = call[w].ask
      /\ DOMAIN call' = Workers /\ call[w].at # "idle"
  BY <1>1 DEF B, Working
<1>3. Forms'
  BY <1>2 DEF CallsInv, Forms, B, Ats
<1>4. Answers'
  BY DEF CallsInv, Answers
<1>5. Fits'
  BY <1>2 DEF CallsInv, Fits, Sound, OptionFits, B
<1>6. Carts'
  <2>1. Working(w)' /\ B(w)' = B(w) /\ Tool(w)' = Tool(w)
    BY <1>2 DEF Working, B, Tool
  <2>2. \A v \in Workers \ {w} : (Working(v)' <=> Working(v)) /\ B(v)' = B(v) /\ Tool(v)' = Tool(v)
    BY <1>2 DEF Working, B, Tool
  <2> QED
    BY <1>2, <2>1, <2>2 DEF CallsInv, Carts, Alone, Unshared
<1> QED
  BY <1>3, <1>4, <1>5, <1>6 DEF CallsInv

LEMMA OrderKeeps ==
    ASSUME CallsInv, NEW w \in Workers, StartCheckout(w) \/ OrdersCreate(w) PROVE CallsInv'
<1>1. DOMAIN told = Agents \X Keys /\ Answers /\ IsBasket(B(w)) /\ Sound(B(w))
  BY DEF CallsInv, Forms, Fits
<1>2. ASSUME StartFails(w), Working(w), call[w].at # "clear" PROVE CallsInv'
  <2>1. CASE Free(w) /\ UNCHANGED <<calm, carts, row, keys, orders, checkouts, told, reused>>
    <3>1. DOMAIN told' = Agents \X Keys /\ Answers'
      BY <1>1, <2>1 DEF Answers
    <3> QED
      BY <1>2, <2>1, <3>1, FreeKeeps
  <2>2. CASE Tool(w) # "checkout" /\ Ends(w, B(w), FALSE)
    BY <1>1, <1>2, <2>2, EndsKeeps
  <2> QED
    BY <1>2, <2>1, <2>2 DEF StartFails
<1>3. CASE StartCheckout(w)
  <2>1. Working(w) /\ call[w].at # "clear" /\ Tool(w) # "checkout"
    BY <1>3 DEF StartCheckout, Runs, Working, BasketTools
  <2>2. CASE Ends(w, B(w), FALSE)
    BY <1>1, <2>1, <2>2, EndsKeeps
  <2>3. CASE /\ call' = [call EXCEPT ![w].at = "order"]
             /\ UNCHANGED <<calm, carts, row, keys, orders, checkouts, told, reused>>
    BY <2>1, <2>3, OnKeeps
  <2> QED
    BY <1>3, <2>2, <2>3 DEF StartCheckout
<1>4. CASE OrdersCreate(w)
  <2>1. Working(w) /\ call[w].at # "clear"
    BY <1>4 DEF OrdersCreate, Working
  <2>2. CASE /\ call' = [call EXCEPT ![w].at = "quote"]
             /\ UNCHANGED <<calm, carts, row, keys, checkouts, told, reused>>
    BY <2>1, <2>2, OnKeeps
  <2> QED
    BY <1>2, <1>4, <2>1, <2>2 DEF OrdersCreate
<1> QED
  BY <1>3, <1>4

(* The row of a checkout: over another only where calls overlap.            *)
LEMMA QuoteAndSaveKeeps == ASSUME CallsInv, NEW w \in Workers, QuoteAndSave(w) PROVE CallsInv'
<1> DEFINE x == IF Tool(w) = "checkout" THEN "remember" ELSE "clear"
           r == [agent |-> call[w].agent, lines |-> B(w).lines, dest |-> B(w).dest,
                 option |-> B(w).option, code |-> B(w).code,
                 nth |-> Latest + 1, status |-> "pending"]
<1>0. /\ call[w].at = "quote" /\ Working(w) /\ DOMAIN told = Agents \X Keys /\ Answers
      /\ IsBasket(B(w)) /\ Sound(B(w)) /\ call[w].agent \in Agents
  BY DEF QuoteAndSave, Working, CallsInv, Forms, Fits
<1>1. CASE StartFails(w)
  <2>1. CASE Free(w) /\ UNCHANGED <<calm, carts, row, keys, orders, checkouts, told, reused>>
    <3>1. DOMAIN told' = Agents \X Keys /\ Answers'
      BY <1>0, <2>1 DEF Answers
    <3> QED
      BY <1>0, <2>1, <3>1, FreeKeeps
  <2>2. CASE Tool(w) # "checkout" /\ Ends(w, B(w), FALSE)
    BY <1>0, <2>2, EndsKeeps
  <2> QED
    BY <1>1, <2>1, <2>2 DEF StartFails
<1>2. CASE /\ checkouts' = [c \in DOMAIN checkouts \cup {B(w).cart} |->
                              IF c = B(w).cart THEN r ELSE checkouts[c]]
           /\ call' = [call EXCEPT ![w].ok = TRUE, ![w].at = x]
           /\ UNCHANGED <<calm, carts, row, keys, orders, told, reused>>
  <2>1. r.lines = B(w).lines /\ r.dest = B(w).dest /\ r.option = B(w).option
    OBVIOUS
  <2>2. DOMAIN call = Workers /\ DOMAIN call[w] = {"agent", "key", "ask", "at", "basket", "named", "ok"}
    BY DEF CallsInv, Forms
  <2>3. call' = [call EXCEPT ![w] = [[call[w] EXCEPT !.ok = TRUE] EXCEPT !.at = x]]
    BY <1>2, <2>2
  <2>4. x \in {"remember", "clear"} /\ (x = "clear" <=> Tool(w) # "checkout")
    OBVIOUS
  <2> HIDE DEF r, x
  <2>5. /\ \A v \in Workers \ {w} : call'[v] = call[v]
        /\ call'[w].basket = B(w) /\ call'[w].at = x /\ DOMAIN call'[w] = DOMAIN call[w]
        /\ call'[w].agent = call[w].agent /\ call'[w].key = call[w].key
        /\ call'[w].ask = call[w].ask /\ DOMAIN call' = Workers
    BY <2>2, <2>3 DEF B
  <2>6. Forms'
    BY <1>0, <1>2, <2>4, <2>5 DEF CallsInv, Forms, B, Ats
  <2>7. Answers'
    BY <1>2 DEF CallsInv, Answers
  <2>8. Fits'
    <3>1. OptionFits(r)
      BY <1>0, <2>1 DEF OptionFits, Sound, Offer
    <3> QED
      BY <1>2, <2>5, <3>1 DEF CallsInv, Fits, Sound, OptionFits, B
  <2>9. Carts'
    <3>1. /\ (Working(w)' <=> x = "clear") /\ (x = "clear" <=> call'[w].at = "clear")
          /\ B(w)' = B(w) /\ Tool(w)' = Tool(w)
      BY <2>4, <2>5 DEF Working, B, Tool
    <3>2. \A v \in Workers \ {w} : (Working(v)' <=> Working(v)) /\ B(v)' = B(v) /\ Tool(v)' = Tool(v)
      BY <2>5 DEF Working, B, Tool
    <3>3. DOMAIN checkouts' = DOMAIN checkouts \cup {B(w).cart} /\ B(w).cart \in 1..carts
      BY <1>0, <1>2 DEF CallsInv, Carts, Alone, Unshared
    <3>4. calm => /\ \A v \in Workers \ {w} : call[v].at = "idle"
                  /\ \A a \in Agents : row[a].cart \notin Unshared
                  /\ \A a \in Agents : row[a].cart = B(w).cart =>
                       \/ B(w).cart \in reused
                       \/ a = call[w].agent /\ Tool(w) # "checkout"
                  /\ Tool(w) # "checkout" =>
                       \A a \in Agents : row[a].cart = B(w).cart => a = call[w].agent
      BY <1>0 DEF CallsInv, Carts, Alone
    <3>5. /\ \A v \in Workers \ {w} : call[v].at = "idle" => ~Working(v)
          /\ Unshared' = Unshared \cup ({B(w).cart} \ reused)
      BY <1>2, <3>3 DEF Working, Unshared
    <3>6. calm => \A a \in Agents : row'[a].cart \in Unshared' =>
                    call'[w].at = "clear" /\ call'[w].agent = a
      BY <1>2, <2>4, <2>5, <3>4, <3>5
    <3>7. calm => \A v \in Workers : Working(v)' =>
              /\ call'[v].at = "clear" /\ Tool(v)' # "checkout"
              /\ \A a \in Agents : row'[a].cart = B(v)'.cart => a = call'[v].agent
      BY <1>2, <2>4, <2>5, <3>1, <3>2, <3>4, <3>5
    <3>8. /\ DOMAIN checkouts' \subseteq 1..carts'
          /\ \A a \in Agents : row'[a] = NoRow \/ row'[a].cart \in 1..carts'
          /\ \A v \in Workers : Working(v)' => B(v)'.cart \in 1..carts'
      BY <1>2, <3>1, <3>2, <3>3 DEF CallsInv, Carts, Alone, Unshared
    <3>9. calm => \A v, u \in Workers : call'[v].at # "idle" /\ call'[u].at # "idle" => v = u
      BY <2>5, <3>4
    <3>10. calm => \A a, b \in Agents : row'[a].cart = row'[b].cart => a = b \/ row'[a].cart = 0
      BY <1>2 DEF CallsInv, Carts, Alone, Unshared
    <3> QED
      BY <1>2, <3>6, <3>7, <3>8, <3>9, <3>10 DEF Carts, Alone, Unshared
  <2> QED
    BY <2>6, <2>7, <2>8, <2>9 DEF CallsInv
<1> QED
  BY <1>1, <1>2 DEF QuoteAndSave

(* The copy goes to the table.                                              *)
LEMMA SaveKeeps == ASSUME CallsInv, NEW w \in Workers, Save(w) PROVE CallsInv'
<1> DEFINE a == call[w].agent
<1>1. /\ call[w].at = "save" /\ a \in Agents /\ IsBasket(B(w)) /\ Sound(B(w)) /\ Working(w)
      /\ row' = [row EXCEPT ![a] = B(w)]
      /\ UNCHANGED <<calm, carts, keys, checkouts, told, reused>>
  BY DEF Save, CallsInv, Forms, Fits, Working
<1>2. DOMAIN call = Workers /\ DOMAIN call[w] = {"agent", "key", "ask", "at", "basket", "named", "ok"}
  BY DEF CallsInv, Forms
<1>3. /\ \A v \in Workers \ {w} : call'[v] = call[v]
      /\ call'[w].at \in {"remember", "idle"} /\ DOMAIN call' = Workers
      /\ DOMAIN call'[w] = DOMAIN call[w]
      /\ call'[w].basket = B(w) \/ call'[w].basket = NoRow
      /\ call'[w].at # "idle" => call'[w].agent = a /\ call'[w].key = call[w].key
  <2>1. CASE call' = [call EXCEPT ![w].at = "remember"]
    <3>1. call' = [call EXCEPT ![w] = [call[w] EXCEPT !.at = "remember"]]
      BY <2>1
    <3> QED
      BY <1>2, <3>1 DEF B
  <2>2. CASE call' = [call EXCEPT ![w] = Quiet]
    BY <1>2, <2>2, QuietCall
  <2> QED
    BY <2>1, <2>2 DEF Save
<1>4. Forms'
  BY <1>1, <1>3, NothingHeld DEF CallsInv, Forms, B, Ats
<1>5. Answers'
  BY <1>1 DEF CallsInv, Answers
<1>6. Fits'
  BY <1>1, <1>3, NothingHeld, CallsAssumption DEF CallsInv, Forms, Fits, Sound, OptionFits, B
<1>7. Carts'
  <2>1. ~Working(w)'
    BY <1>3 DEF Working
  <2>2. \A v \in Workers \ {w} : (Working(v)' <=> Working(v)) /\ B(v)' = B(v) /\ Tool(v)' = Tool(v)
    BY <1>3 DEF Working, B, Tool
  <2>3. calm => /\ \A v \in Workers \ {w} : call[v].at = "idle" /\ ~Working(v)
                /\ B(w).cart \notin Unshared
                /\ \A d \in Agents : row[d].cart = B(w).cart => d = a
                /\ \A d \in Agents : row[d].cart \notin Unshared
    BY <1>1 DEF CallsInv, Carts, Alone, Unshared, Working
  <2>4. \A d \in Agents : row'[d] = IF d = a THEN B(w) ELSE row[d]
    BY <1>1 DEF CallsInv, Forms
  <2>5. calm => /\ \A d \in Agents : row'[d].cart \notin Unshared
                /\ \A d, e \in Agents : row'[d].cart = row'[e].cart => d = e \/ row'[d].cart = 0
                /\ \A v \in Workers : ~Working(v)'
                /\ \A v, u \in Workers : call'[v].at # "idle" /\ call'[u].at # "idle" => v = u
    <3>1. calm => \A v \in Workers : ~Working(v)'
      BY <2>1, <2>2, <2>3
    <3>2. calm => \A v, u \in Workers : call'[v].at # "idle" /\ call'[u].at # "idle" => v = u
      BY <1>3, <2>3
    <3> QED
      BY <2>3, <2>4, <3>1, <3>2 DEF CallsInv, Carts, Alone, Unshared
  <2>6. /\ DOMAIN checkouts' \subseteq 1..carts'
        /\ \A d \in Agents : row'[d] = NoRow \/ row'[d].cart \in 1..carts'
        /\ \A v \in Workers : Working(v)' => B(v)'.cart \in 1..carts'
    BY <1>1, <2>1, <2>2, <2>4 DEF CallsInv, Carts, Alone, Unshared
  <2> QED
    BY <1>1, <2>5, <2>6 DEF Carts, Alone, Unshared
<1> QED
  BY <1>4, <1>5, <1>6, <1>7 DEF CallsInv

(* The row goes: what became a checkout is no basket any more.              *)
LEMMA ClearKeepsAll == ASSUME CallsInv, NEW w \in Workers, Clear(w) PROVE CallsInv'
<1> DEFINE a == call[w].agent
<1>1. /\ call[w].at = "clear" /\ a \in Agents /\ Working(w)
      /\ row' = [row EXCEPT ![a] = NoRow]
      /\ UNCHANGED <<calm, carts, keys, checkouts, told, reused>>
  BY DEF Clear, CallsInv, Forms, Working
<1>2. DOMAIN call = Workers /\ DOMAIN call[w] = {"agent", "key", "ask", "at", "basket", "named", "ok"}
  BY DEF CallsInv, Forms
<1>3. /\ \A v \in Workers \ {w} : call'[v] = call[v]
      /\ call'[w].at = "remember" /\ DOMAIN call' = Workers
      /\ DOMAIN call'[w] = DOMAIN call[w] /\ call'[w].basket = B(w)
      /\ call'[w].agent = a /\ call'[w].key = call[w].key
  <2>1. call' = [call EXCEPT ![w] = [call[w] EXCEPT !.at = "remember"]]
    BY DEF Clear
  <2> QED
    BY <1>2, <2>1 DEF B
<1>4. Forms'
  BY <1>1, <1>3, NothingHeld DEF CallsInv, Forms, B, Ats
<1>5. Answers'
  BY <1>1 DEF CallsInv, Answers
<1>6. Fits'
  BY <1>1, <1>3, NothingHeld, CallsAssumption DEF CallsInv, Forms, Fits, Sound, OptionFits, B
<1>7. Carts'
  <2>1. ~Working(w)'
    BY <1>3 DEF Working
  <2>2. \A v \in Workers \ {w} : (Working(v)' <=> Working(v)) /\ B(v)' = B(v) /\ Tool(v)' = Tool(v)
    BY <1>3 DEF Working, B, Tool
  <2>3. calm => /\ \A v \in Workers \ {w} : call[v].at = "idle" /\ ~Working(v)
                /\ \A d \in Agents : row[d].cart \in Unshared => d = a
    BY <1>1 DEF CallsInv, Carts, Alone, Unshared, Working
  <2>4. /\ \A d \in Agents : row'[d] = IF d = a THEN NoRow ELSE row[d]
        /\ 0 \notin Unshared
    BY <1>1 DEF CallsInv, Forms, Carts, Unshared
  <2>5. calm => /\ \A d \in Agents : row'[d].cart \notin Unshared
                /\ \A d, e \in Agents : row'[d].cart = row'[e].cart => d = e \/ row'[d].cart = 0
                /\ \A v \in Workers : ~Working(v)'
                /\ \A v, u \in Workers : call'[v].at # "idle" /\ call'[u].at # "idle" => v = u
    <3>1. calm => \A v \in Workers : ~Working(v)'
      BY <2>1, <2>2, <2>3
    <3>2. calm => \A v, u \in Workers : call'[v].at # "idle" /\ call'[u].at # "idle" => v = u
      BY <1>3, <2>3
    <3> QED
      BY <2>3, <2>4, <3>1, <3>2, NothingHeld DEF CallsInv, Carts, Alone, Unshared
  <2>6. /\ DOMAIN checkouts' \subseteq 1..carts'
        /\ \A d \in Agents : row'[d] = NoRow \/ row'[d].cart \in 1..carts'
        /\ \A v \in Workers : Working(v)' => B(v)'.cart \in 1..carts'
    BY <1>1, <2>1, <2>2, <2>4 DEF CallsInv, Carts, Alone, Unshared
  <2> QED
    BY <1>1, <2>5, <2>6 DEF Carts, Alone, Unshared
<1> QED
  BY <1>4, <1>5, <1>6, <1>7 DEF CallsInv

(* The first answer under a key is kept, and is the one that is told.       *)
LEMMA RememberKeeps == ASSUME CallsInv, NEW w \in Workers, Remember(w) PROVE CallsInv'
<1>1. /\ call[w].at = "remember" /\ Free(w) /\ DOMAIN told = Agents \X Keys
      /\ call[w].agent \in Agents /\ call[w].key \in Keys \cup {None}
      /\ UNCHANGED <<calm, carts, row, checkouts, reused>>
  BY DEF Remember, CallsInv, Forms
<1>2. DOMAIN told' = Agents \X Keys /\ Answers'
  <2>1. CASE UNCHANGED <<keys, told>>
    BY <1>1, <2>1 DEF CallsInv, Answers
  <2>2. CASE Of(w) \notin DOMAIN keys /\ ~UNCHANGED <<keys, told>>
    <3>1. /\ keys' = [k \in DOMAIN keys \cup ({Of(w)} \ (Agents \X {None})) |->
                        IF k = Of(w) THEN [ask |-> call[w].ask, answer |-> Answer(w)] ELSE keys[k]]
          /\ Tell(Of(w), <<call[w].ask, Answer(w)>>)
      BY <2>2 DEF Remember
    <3>2. CASE call[w].key = None
      <4>1. told' = told
        BY <3>1, <3>2 DEF Tell, Of
      <4>2. \A k \in DOMAIN keys : k \in DOMAIN keys' /\ keys'[k] = keys[k]
        BY <2>2, <3>1
      <4> QED
        BY <1>1, <3>2, <4>1, <4>2, CallsAssumption DEF CallsInv, Answers
    <3>3. CASE call[w].key # None
      <4>1. Of(w) \in Agents \X Keys /\ Of(w) \notin Agents \X {None}
        BY <1>1, <3>3 DEF Of
      <4>2. /\ \A k \in DOMAIN keys : k \in DOMAIN keys' /\ keys'[k] = keys[k]
            /\ Of(w) \in DOMAIN keys' /\ keys'[Of(w)].ask = call[w].ask /\ keys'[Of(w)].answer = Answer(w)
        BY <2>2, <3>1, <4>1
      <4>3. told[Of(w)] = {}
        BY <2>2, <4>1 DEF CallsInv, Answers
      <4>4. \/ told' = told
            \/ told' = [told EXCEPT ![Of(w)] = @ \cup {<<call[w].ask, Answer(w)>>}]
        BY <3>1 DEF Tell
      <4> QED
        BY <1>1, <2>2, <4>1, <4>2, <4>3, <4>4 DEF CallsInv, Answers
    <3> QED
      BY <3>2, <3>3
  <2> QED
    BY <2>1, <2>2 DEF Remember
<1> QED
  BY <1>1, <1>2, FreeKeeps

LEMMA DieKeeps == ASSUME CallsInv, NEW w \in Workers, Die(w) PROVE CallsInv'
<1>1. DOMAIN told' = Agents \X Keys /\ Answers'
  BY DEF Die, CallsInv, Forms, Answers
<1> QED
  BY <1>1, FreeKeeps DEF Die

LEMMA SettleKeeps ==
    ASSUME CallsInv, NEW c, Settle(c), UNCHANGED <<calm, carts, row, keys, call, told, reused>>
    PROVE  CallsInv'
<1>2. /\ DOMAIN checkouts' = DOMAIN checkouts
      /\ \A d \in DOMAIN checkouts : /\ checkouts'[d].option = checkouts[d].option
                                     /\ checkouts'[d].lines = checkouts[d].lines
                                     /\ checkouts'[d].dest = checkouts[d].dest
  BY DEF Settle
<1>3. Forms'
  BY DEF CallsInv, Forms, B
<1>4. Answers'
  BY DEF CallsInv, Answers
<1>5. Fits'
  BY <1>2 DEF CallsInv, Fits, Sound, OptionFits, Offer, B
<1>6. Carts'
  BY <1>2 DEF CallsInv, Carts, Alone, Unshared, Working, B, Tool
<1> QED
  BY <1>3, <1>4, <1>5, <1>6 DEF CallsInv

(* A tool about an order answers with its name or refuses, and a            *)
(* cancellation settles it.                                                 *)
LEMMA NamesKeeps ==
    ASSUME CallsInv, NEW w \in Workers, call[w].at = "run", Tool(w) \in OrderTools,
           UNCHANGED <<calm, carts, row, keys, told, reused>>, NEW c,
           Names(w, c), checkouts' = checkouts \/ Settle(c)
    PROVE  CallsInv'
<1>1. DOMAIN call = Workers /\ DOMAIN call[w] = {"agent", "key", "ask", "at", "basket", "named", "ok"}
  BY DEF CallsInv, Forms
<1>2. call' = [call EXCEPT ![w] =
                 [[[call[w] EXCEPT !.named = c] EXCEPT !.ok = TRUE] EXCEPT !.at = "remember"]]
  BY <1>1 DEF Names
<1>3. /\ \A v \in Workers \ {w} : call'[v] = call[v]
      /\ call'[w].basket = B(w) /\ call'[w].at = "remember" /\ DOMAIN call'[w] = DOMAIN call[w]
      /\ call'[w].agent = call[w].agent /\ call'[w].key = call[w].key /\ call'[w].ask = call[w].ask
      /\ DOMAIN call' = Workers
  BY <1>1, <1>2 DEF B
<1>4. /\ DOMAIN checkouts' = DOMAIN checkouts
      /\ \A d \in DOMAIN checkouts : /\ checkouts'[d].option = checkouts[d].option
                                     /\ checkouts'[d].lines = checkouts[d].lines
                                     /\ checkouts'[d].dest = checkouts[d].dest
  <2>1. CASE checkouts' = checkouts
    BY <2>1
  <2>2. CASE Settle(c)
    BY <2>2 DEF Settle
  <2> QED
    BY <2>1, <2>2
<1>5. Forms'
  BY <1>3 DEF CallsInv, Forms, B, Ats
<1>6. Answers'
  BY DEF CallsInv, Answers
<1>7. Fits'
  BY <1>3, <1>4 DEF CallsInv, Fits, Sound, OptionFits, Offer, B
<1>8. Carts'
  <2>1. ~Working(w)'
    BY <1>3 DEF Working
  <2>2. \A v \in Workers \ {w} : (Working(v)' <=> Working(v)) /\ B(v)' = B(v) /\ Tool(v)' = Tool(v)
    BY <1>3 DEF Working, B, Tool
  <2> QED
    BY <1>3, <1>4, <2>1, <2>2 DEF CallsInv, Carts, Alone, Unshared
<1> QED
  BY <1>5, <1>6, <1>7, <1>8 DEF CallsInv

LEMMA OrderToolKeeps ==
    ASSUME CallsInv, NEW w \in Workers, PlaceOrder(w) \/ CancelOrder(w) \/ RequestRefund(w)
    PROVE  CallsInv'
<1>1. /\ call[w].at = "run" /\ Tool(w) \in OrderTools
      /\ UNCHANGED <<calm, carts, row, keys, told, reused>>
  BY DEF PlaceOrder, CancelOrder, RequestRefund, Runs, OrderTools
<1>2. \/ Refused(w)
      \/ \E c : Names(w, c) /\ (checkouts' = checkouts \/ Settle(c))
  BY DEF PlaceOrder, CancelOrder, RequestRefund
<1>3. CASE Refused(w)
  <2>1. DOMAIN told' = Agents \X Keys /\ Answers'
    BY <1>1 DEF CallsInv, Forms, Answers
  <2> QED
    BY <1>1, <1>3, <2>1, FreeKeeps DEF Refused
<1> QED
  BY <1>1, <1>2, <1>3, NamesKeeps

-----------------------------------------------------------------------------
(* All of them. *)

LEMMA StepKeeps == CallsInv /\ [Next]_vars => CallsInv'
<1> SUFFICES ASSUME CallsInv, [Next]_vars PROVE CallsInv'
  OBVIOUS
<1>1. CASE UNCHANGED vars
  BY <1>1 DEF vars, CallsInv, Forms, Answers, Fits, Sound, OptionFits, Carts, Alone, Unshared,
              Working, B, Tool
<1>2. ASSUME NEW w \in Workers, NEW a \in Agents, NEW key \in Keys \cup {None}, NEW ask \in Asks,
             Arrive(w, a, key, ask)
      PROVE  CallsInv'
  BY <1>2, ArriveKeeps
<1>3. ASSUME NEW w \in Workers,
             Load(w) \/ Receive(w) \/ Save(w) \/ Clear(w) \/ Remember(w) \/ Die(w) \/ ClearBasket(w)
      PROVE  CallsInv'
  BY <1>3, LoadKeeps, ReceiveKeeps, SaveKeeps, ClearKeepsAll, RememberKeeps, DieKeeps, ClearBasketKeeps
<1>4. ASSUME NEW w \in Workers,
             \/ AddLine(w) \/ RemoveLine(w) \/ SetDestination(w) \/ SetContact(w)
             \/ ChooseFulfillment(w) \/ ApplyPublicCode(w)
      PROVE  CallsInv'
  BY <1>4, AddLineKeeps, RemoveLineKeeps, SetDestinationKeeps, SetContactKeeps,
     ChooseFulfillmentKeeps, ApplyPublicCodeKeeps
<1>5. ASSUME NEW w \in Workers,
             \/ StartCheckout(w) \/ OrdersCreate(w) \/ QuoteAndSave(w)
             \/ PlaceOrder(w) \/ CancelOrder(w) \/ RequestRefund(w)
      PROVE  CallsInv'
  BY <1>5, OrderKeeps, QuoteAndSaveKeeps, OrderToolKeeps
<1>6. ASSUME NEW c \in 1..MaxCarts, Settled(c) PROVE CallsInv'
  BY <1>6, SettleKeeps DEF Settled
<1> QED
  BY <1>1, <1>2, <1>3, <1>4, <1>5, <1>6 DEF Next

LEMMA CallsInvariant == Spec => []CallsInv
BY InitCalls, StepKeeps, PTL DEF Spec

(* Under one key an agent is told one answer, to one question, as often as  *)
(* it asks, where calls do not overlap (agent_routes.py:412, :433).         *)
THEOREM OneAnswer == Spec => []OneAnswerPerKey
<1>1. CallsInv => OneAnswerPerKey
  <2> SUFFICES ASSUME CallsInv, NEW k \in Agents \X Keys PROVE Cardinality(told[k]) <= 1
    BY DEF OneAnswerPerKey
  <2>1. PICK x : told[k] = {} \/ told[k] = {x}
    <3>1. told[k] \subseteq {} \/ told[k] \subseteq {<<keys[k].ask, keys[k].answer>>}
      BY DEF CallsInv, Answers
    <3> QED
      BY <3>1
  <2> QED
    <3>1. CASE told[k] = {}
      BY <3>1, FS_EmptySet
    <3>2. CASE told[k] = {x}
      <4>1. Cardinality({x}) = 1
        BY FS_Singleton
      <4> QED
        BY <3>2, <4>1
    <3> QED
      BY <2>1, <3>1, <3>2
<1> QED
  BY <1>1, CallsInvariant, PTL

-----------------------------------------------------------------------------
(* How many of a sku a basket holds. *)

LEMMA LinesFinite ==
    ASSUME NEW s
    PROVE  IsFiniteSet(LinesOf(s)) /\ LinesOf(s) \subseteq Lines
<1>1. IsFiniteSet(Skus \cup {None})
  BY CallsAssumption, FS_AddElement
<1>2. IsFiniteSet(Lines)
  BY <1>1, CallsAssumption, FS_Product DEF Lines
<1> QED
  BY <1>2, FS_Subset DEF LinesOf

(* A basket holds no more of any sku than the shop said it has.            *)
InStock(b) == \A s \in Skus : Held(b, s) <= Stock[s]

(* Nothing in a basket is always there to sell; less of it, if all was.    *)
LEMMA NothingInStock == ASSUME NEW b, b.lines = NoLines PROVE InStock(b)
<1> SUFFICES ASSUME NEW s \in Skus PROVE Held(b, s) <= Stock[s]
  BY DEF InStock
<1>1. \A l \in LinesOf(s) : b.lines[l] = 0
  BY LinesFinite DEF NoLines
<1>2. Held(b, s) = 0
  BY <1>1, LinesFinite, SumZero DEF Held
<1> QED
  BY <1>2, CallsAssumption

LEMMA LessInStock ==
    ASSUME NEW b, NEW c, b.lines \in [Lines -> Nat], c.lines \in [Lines -> Nat],
           \A l \in Lines : c.lines[l] <= b.lines[l], InStock(b)
    PROVE  InStock(c)
<1> SUFFICES ASSUME NEW s \in Skus PROVE Held(c, s) <= Stock[s]
  BY DEF InStock
<1> DEFINE f == b.lines
           h == c.lines
<1>1. \A l \in LinesOf(s) : f[l] \in Int /\ h[l] \in Int /\ h[l] <= f[l]
  BY LinesFinite
<1> HIDE DEF f, h
<1>2. SumFunctionOnSet(h, LinesOf(s)) <= SumFunctionOnSet(f, LinesOf(s))
  BY <1>1, LinesFinite, SumLess
<1>3. SumFunctionOnSet(h, LinesOf(s)) \in Int /\ SumFunctionOnSet(f, LinesOf(s)) \in Int
  BY <1>1, LinesFinite, SumInt
<1>4. Held(c, s) <= Held(b, s) /\ Held(c, s) \in Int /\ Held(b, s) \in Int
  BY <1>2, <1>3 DEF Held, f, h
<1> QED
  BY <1>4, CallsAssumption DEF InStock

(* One more of one line, where the shop has one more of its sku than all   *)
(* lines of it together hold.                                              *)
LEMMA AddedInStock ==
    ASSUME NEW b, NEW c, NEW l \in Lines, b.lines \in [Lines -> Nat],
           c.lines = [b.lines EXCEPT ![l] = @ + 1], InStock(b), Enough(b, l[1], l[2])
    PROVE  InStock(c)
<1> SUFFICES ASSUME NEW s \in Skus PROVE Held(c, s) <= Stock[s]
  BY DEF InStock
<1> DEFINE f == b.lines
           h == c.lines
<1>1. /\ \A m \in LinesOf(s) : f[m] \in Int /\ h[m] \in Int
      /\ \A m \in LinesOf(s) : m # l => f[m] = h[m]
      /\ h[l] = f[l] + 1 /\ f[l] \in Int
  BY LinesFinite
<1> HIDE DEF f, h
<1>2. Held(b, s) = SumFunctionOnSet(f, LinesOf(s)) /\ Held(c, s) = SumFunctionOnSet(h, LinesOf(s))
  BY DEF Held, f, h
<1>3. Held(b, s) \in Int /\ Held(c, s) \in Int
  BY <1>1, <1>2, LinesFinite, SumInt
<1>4. CASE l[1] = s
  <2>1. l \in LinesOf(s)
    BY <1>4 DEF LinesOf
  <2>2. SumFunctionOnSet(h, LinesOf(s)) = SumFunctionOnSet(f, LinesOf(s)) + h[l] - f[l]
    <3>1. IsFiniteSet(LinesOf(s))
      BY LinesFinite
    <3> QED
      BY <1>1, <2>1, <3>1, SumChanged
  <2>4. Held(c, s) = Held(b, s) + h[l] - f[l]
    BY <1>2, <2>2
  <2>3. Stock[s] >= Held(b, s) + 1
    BY <1>4 DEF Enough
  <2> QED
    BY <1>1, <1>3, <2>3, <2>4, CallsAssumption
<1>5. CASE l[1] # s
  <2>1. \A m \in LinesOf(s) : f[m] \in Int /\ f[m] = h[m]
    BY <1>1, <1>5 DEF LinesOf
  <2>2. Held(c, s) = Held(b, s)
    BY <1>2, <2>1, LinesFinite, SumSame
  <2> QED
    BY <2>2 DEF InStock
<1> QED
  BY <1>4, <1>5

-----------------------------------------------------------------------------
(* What the tables and the calls hold.  Only a protocol checkout brings     *)
(* lines that no tool compared with the stock, and it never saves a basket. *)

CallRight(w) ==
    /\ B(w) \in Baskets /\ B(w).cart <= carts
    /\ call[w].at # "idle" => /\ call[w].ask \in Asks
                              /\ call[w].key # None => call[w].ask \in KeyedAsks
    /\ call[w].at = "quote" => B(w).cart \in DOMAIN orders
    /\ call[w].at = "remember" /\ Tool(w) \in OrderTools => call[w].named \in 1..carts
    /\ call[w].at \in {"save", "order", "quote", "clear"} => Tool(w) \notin OrderTools
    /\ call[w].at \in {"save", "run"} => Tool(w) # "checkout"
    /\ Tool(w) # "checkout" => InStock(B(w))

TablesRight ==
    /\ DOMAIN keys \subseteq Agents \X Keys
    /\ \A k \in DOMAIN keys : /\ keys[k].ask \in KeyedAsks
                             /\ IF keys[k].ask[1] \in OrderTools THEN keys[k].answer \in 1..carts
                                                                 ELSE keys[k].answer \in Baskets
    /\ DOMAIN checkouts \subseteq DOMAIN orders /\ DOMAIN orders \subseteq 1..carts
    /\ \A c \in DOMAIN orders : orders[c] \in [Lines -> Nat]
    /\ \A c \in DOMAIN checkouts : /\ "status" \in DOMAIN checkouts[c]
                                  /\ checkouts[c].status \in {"pending", "settled"}

BasketInv ==
    /\ carts \in 0..MaxCarts
    /\ row \in [Agents -> Baskets]
    /\ \A a \in Agents : row[a].cart <= carts /\ InStock(row[a])
    /\ \A w \in Workers : CallRight(w)
    /\ reused \subseteq 1..carts
    /\ TablesRight

LEMMA FreshRight ==
    ASSUME NEW n \in 0..MaxCarts
    PROVE  Fresh(n) \in Baskets /\ Fresh(n).cart = n /\ InStock(Fresh(n))
<1>1. Fresh(n) \in Baskets /\ Fresh(n).lines = NoLines /\ Fresh(n).cart = n
  BY DEF Fresh, Baskets, NoLines, Options
<1> QED
  BY <1>1, NothingInStock

LEMMA NoRowRight == NoRow \in Baskets /\ NoRow.cart = 0 /\ InStock(NoRow)
<1>1. 0 \in 0..MaxCarts
  BY CallsAssumption
<1> QED
  BY <1>1, FreshRight DEF NoRow

LEMMA OthersRight ==
    ASSUME BasketInv, NEW w \in Workers, \A v \in Workers \ {w} : call'[v] = call[v],
           carts' \in Nat, carts <= carts', DOMAIN orders \subseteq DOMAIN orders', CallRight(w)'
    PROVE  (\A v \in Workers : CallRight(v))'
<1> SUFFICES ASSUME NEW v \in Workers, v # w PROVE CallRight(v)'
  OBVIOUS
<1>1. CallRight(v) /\ call'[v] = call[v] /\ carts \in Nat
  BY CallsAssumption DEF BasketInv
<1>2. B(v).cart \in Nat
  BY <1>1 DEF CallRight, Baskets
<1> QED
  BY <1>1, <1>2 DEF CallRight, B, Tool

LEMMA TablesStay ==
    ASSUME TablesRight, carts \in Nat, carts' \in Nat, carts <= carts',
           UNCHANGED <<keys, orders, checkouts>>
    PROVE  TablesRight'
<1>1. 1..carts \subseteq 1..carts'
  OBVIOUS
<1> QED
  BY <1>1 DEF TablesRight

(* A call that is over. *)
LEMMA FreeRight ==
    ASSUME BasketInv, CallsInv, NEW w \in Workers, Free(w), UNCHANGED <<carts, row, reused>>,
           DOMAIN orders \subseteq DOMAIN orders', TablesRight'
    PROVE  BasketInv'
<1>1. call'[w] = Quiet /\ \A v \in Workers \ {w} : call'[v] = call[v]
  BY DEF Free, CallsInv, Forms
<1>2. carts \in Nat
  BY CallsAssumption DEF BasketInv
<1>3. CallRight(w)'
  BY <1>1, <1>2, NoRowRight, QuietCall DEF CallRight, B, Tool
<1>4. (\A v \in Workers : CallRight(v))'
  BY <1>1, <1>2, <1>3, OthersRight
<1> QED
  BY <1>4 DEF BasketInv

(* A call that goes on with a basket. *)
LEMMA OnRight ==
    ASSUME BasketInv, CallsInv, NEW w \in Workers, NEW b \in Baskets, NEW at, at \in Ats, NEW ok,
           call' = [call EXCEPT ![w].basket = b, ![w].ok = ok, ![w].at = at],
           call[w].at # "idle", carts' \in 0..MaxCarts, carts <= carts', UNCHANGED row,
           reused' \subseteq 1..carts', Tool(w) \notin OrderTools,
           DOMAIN orders \subseteq DOMAIN orders', TablesRight',
           b.cart <= carts', at = "quote" => b.cart \in DOMAIN orders',
           at \in {"save", "run"} => Tool(w) # "checkout",
           Tool(w) # "checkout" => InStock(b)
    PROVE  BasketInv'
<1>1. DOMAIN call = Workers /\ DOMAIN call[w] = {"agent", "key", "ask", "at", "basket", "named", "ok"}
  BY DEF CallsInv, Forms
<1>2. call' = [call EXCEPT ![w] =
                 [[[call[w] EXCEPT !.basket = b] EXCEPT !.ok = ok] EXCEPT !.at = at]]
  BY <1>1
<1>3. /\ \A v \in Workers \ {w} : call'[v] = call[v]
      /\ call'[w].basket = b /\ call'[w].at = at
      /\ call'[w].key = call[w].key /\ call'[w].ask = call[w].ask
  BY <1>1, <1>2
<1>4. carts' \in Nat /\ carts \in Nat
  BY CallsAssumption DEF BasketInv
<1>5. CallRight(w)
  BY DEF BasketInv
<1>6. CallRight(w)'
  BY <1>3, <1>5 DEF CallRight, B, Tool
<1>7. (\A v \in Workers : CallRight(v))'
  BY <1>3, <1>4, <1>6, OthersRight
<1>8. \A a \in Agents : row[a].cart <= carts'
  BY <1>4 DEF BasketInv, Baskets
<1> QED
  BY <1>7, <1>8 DEF BasketInv

LEMMA EndsRight ==
    ASSUME BasketInv, CallsInv, NEW w \in Workers, NEW b \in Baskets, NEW ok, Ends(w, b, ok),
           call[w].at # "idle", Tool(w) # "checkout", Tool(w) \notin OrderTools,
           b.cart <= carts, InStock(b)
    PROVE  BasketInv'
<1>0. /\ UNCHANGED <<carts, row, keys, orders, checkouts, reused>> /\ carts \in 0..MaxCarts
      /\ reused' \subseteq 1..carts'
  BY DEF BasketInv, Ends
<1>1. TablesRight' /\ carts' \in 0..MaxCarts /\ carts <= carts'
  BY <1>0, TablesStay, CallsAssumption DEF BasketInv
<1> DEFINE at == "save"
<1>2. call' = [call EXCEPT ![w].basket = b, ![w].ok = ok, ![w].at = at]
  BY DEF Ends
<1>3. at \in Ats /\ at # "quote"
  BY DEF Ats
<1> HIDE DEF at
<1>4. b.cart <= carts' /\ DOMAIN orders \subseteq DOMAIN orders' /\ UNCHANGED row
  BY <1>0
<1> QED
  BY <1>0, <1>1, <1>2, <1>3, <1>4, OnRight

-----------------------------------------------------------------------------
(* Each step. *)

(* What a tool is called with. *)
LEMMA AskTypes ==
    ASSUME NEW w, call[w].ask \in Asks
    PROVE  /\ Tool(w) = "add-line" => <<Arg(w), call[w].ask[3]>> \in Lines
           /\ Tool(w) = "set-destination" => Arg(w) \in Places \cup {None}
           /\ Tool(w) = "apply-public-code" => Arg(w) \in GoodCodes \cup BadCodes
           /\ Tool(w) = "checkout" => Arg(w) \in Skus /\ call[w].ask[3] \in Places
           /\ Tool(w) \in BasketTools \cup OrderTools \cup {"checkout"}
BY DEF Asks, KeyedAsks, Tool, Arg, Lines, BasketTools, OrderTools

LEMMA EditRight ==
    ASSUME BasketInv, CallsInv, NEW w \in Workers,
           \/ AddLine(w) \/ RemoveLine(w) \/ SetDestination(w) \/ SetContact(w)
           \/ ChooseFulfillment(w) \/ ApplyPublicCode(w)
    PROVE  BasketInv'
<1> DEFINE b == B(w)
<1>1. /\ call[w].at = "run"
      /\ Tool(w) \in {"add-line", "remove-line", "set-destination", "set-contact",
                      "choose-fulfillment", "apply-public-code"}
  BY DEF AddLine, RemoveLine, SetDestination, SetContact, ChooseFulfillment, ApplyPublicCode, Runs
<1>2. /\ b \in Baskets /\ b.cart <= carts /\ InStock(b) /\ call[w].ask \in Asks
      /\ Tool(w) # "checkout" /\ Tool(w) \notin OrderTools /\ call[w].at # "idle"
  BY <1>1 DEF BasketInv, CallRight, OrderTools
<1>3. ASSUME NEW c \in Baskets, c.cart = b.cart, InStock(c), \E ok : Ends(w, c, ok)
      PROVE  BasketInv'
  BY <1>2, <1>3, EndsRight
<1>4. ASSUME \E ok : Ends(w, b, ok) PROVE BasketInv'
  BY <1>2, <1>3, <1>4
<1>5. ASSUME NEW c \in Baskets, c.cart = b.cart, c.lines = b.lines, \E ok : Ends(w, c, ok)
      PROVE  BasketInv'
  <2>1. InStock(c)
    BY <1>2, <1>5 DEF InStock, Held
  <2> QED
    BY <1>3, <1>5, <2>1
<1>6. CASE AddLine(w)
  <2> DEFINE l == <<Arg(w), call[w].ask[3]>>
             c == Added(b, l)
  <2>1. Tool(w) = "add-line" /\ l \in Lines
    BY <1>2, <1>6, AskTypes DEF AddLine, Runs
  <2>2. b.lines \in [Lines -> Nat]
    BY <1>2 DEF Baskets
  <2>3. c \in Baskets /\ c.cart = b.cart /\ c.lines = [b.lines EXCEPT ![l] = @ + 1]
    <3> DEFINE m == [b.lines EXCEPT ![l] = @ + 1]
    <3>1. m \in [Lines -> Nat]
      BY <2>1, <2>2
    <3>2. c = [[b EXCEPT !.lines = m] EXCEPT !.option = None]
      BY <1>2 DEF Added, Unchosen, Baskets
    <3> HIDE DEF m, c
    <3>3. c \in Baskets /\ c.cart = b.cart /\ c.lines = m
      BY <1>2, <3>1, <3>2 DEF Baskets, Options
    <3> QED
      BY <3>3 DEF m
  <2>4. CASE Ends(w, b, FALSE)
    BY <1>4, <2>4
  <2>5. CASE Enough(b, l[1], l[2]) /\ Ends(w, c, TRUE)
    <3>1. InStock(c)
      <4> HIDE DEF l, c, b
      <4> QED
        BY <1>2, <2>1, <2>2, <2>3, <2>5, AddedInStock
    <3> QED
      BY <1>3, <2>3, <2>5, <3>1
  <2> QED
    BY <1>6, <2>4, <2>5 DEF AddLine
<1>7. CASE RemoveLine(w)
  <2> DEFINE gone == {l \in Lines : Arg(w) \in {l[1], l[2]}}
             m == [l \in Lines |-> IF l \in gone THEN 0 ELSE b.lines[l]]
             c == Unchosen([b EXCEPT !.lines = m])
  <2>1. b.lines \in [Lines -> Nat]
    BY <1>2 DEF Baskets
  <2>2. m \in [Lines -> Nat] /\ \A l \in Lines : m[l] <= b.lines[l]
    BY <2>1
  <2>3. Ends(w, b, FALSE) \/ Ends(w, c, TRUE)
    BY <1>7 DEF RemoveLine
  <2> HIDE DEF m
  <2>4. c \in Baskets /\ c.cart = b.cart /\ c.lines = m
    BY <1>2, <2>2 DEF Unchosen, Baskets, Options
  <2> HIDE DEF c
  <2>5. InStock(c)
    BY <1>2, <2>1, <2>2, <2>4, LessInStock
  <2> QED
    BY <1>3, <1>4, <2>3, <2>4, <2>5
<1>8. CASE SetDestination(w)
  <2> DEFINE c == Unchosen([b EXCEPT !.dest = Arg(w)])
  <2>1. Arg(w) \in Places \cup {None}
    BY <1>2, <1>8, AskTypes DEF SetDestination, Runs
  <2>2. c \in Baskets /\ c.cart = b.cart /\ c.lines = b.lines
    BY <1>2, <2>1 DEF Unchosen, Baskets, Options
  <2> QED
    BY <1>4, <1>5, <1>8, <2>2 DEF SetDestination
<1>9. CASE SetContact(w)
  <2> DEFINE c == [b EXCEPT !.contact = TRUE]
  <2>1. c \in Baskets /\ c.cart = b.cart /\ c.lines = b.lines
    BY <1>2 DEF Baskets
  <2> QED
    BY <1>4, <1>5, <1>9, <2>1 DEF SetContact, Summed
<1>10. CASE ChooseFulfillment(w)
  <2> DEFINE c == [b EXCEPT !.option = Offer(b)]
  <2>1. \/ \E ok : Ends(w, b, ok)
        \/ b.dest # None /\ \E ok : Ends(w, c, ok)
    BY <1>10 DEF ChooseFulfillment, Summed
  <2>2. ASSUME b.dest # None
        PROVE  c \in Baskets /\ c.cart = b.cart /\ c.lines = b.lines
    BY <1>2, <2>2 DEF Baskets, Offer, Options
  <2> QED
    BY <1>4, <1>5, <2>1, <2>2
<1>11. CASE ApplyPublicCode(w)
  <2> DEFINE c == [b EXCEPT !.code = Arg(w)]
  <2>1. Arg(w) \in GoodCodes \cup BadCodes
    BY <1>2, <1>11, AskTypes DEF ApplyPublicCode, Runs
  <2>2. c \in Baskets /\ c.cart = b.cart /\ c.lines = b.lines
    BY <1>2, <2>1 DEF Baskets
  <2> QED
    BY <1>4, <1>5, <1>11, <2>2 DEF ApplyPublicCode, CodeRefused
<1> QED
  BY <1>6, <1>7, <1>8, <1>9, <1>10, <1>11

LEMMA ClearBasketRight ==
    ASSUME BasketInv, CallsInv, NEW w \in Workers, ClearBasket(w) PROVE BasketInv'
<1>1. /\ call[w].at # "idle" /\ Tool(w) = "clear-basket" /\ carts + 1 \in 0..MaxCarts
      /\ carts' = carts + 1 /\ carts <= carts' /\ carts \in Nat /\ carts + 1 <= carts'
      /\ UNCHANGED <<row, keys, orders, checkouts, reused>> /\ Tool(w) \notin OrderTools
      /\ reused' \subseteq 1..carts'
  BY CallsAssumption DEF ClearBasket, Runs, BasketInv, OrderTools
<1> DEFINE b == Fresh(carts + 1)
<1>2. b \in Baskets /\ b.cart <= carts' /\ InStock(b)
  BY <1>1, FreshRight
<1>3. TablesRight'
  BY <1>1, TablesStay DEF BasketInv
<1> DEFINE at == "save"
           ok == TRUE
<1>4. at \in Ats /\ at # "quote" /\ Tool(w) # "checkout" /\ DOMAIN orders \subseteq DOMAIN orders'
  BY <1>1 DEF Ats
<1>5. call' = [call EXCEPT ![w].basket = b, ![w].ok = ok, ![w].at = at]
  BY DEF ClearBasket
<1>6. carts' \in 0..MaxCarts
  BY <1>1
<1> HIDE DEF b, at, ok
<1> QED
  BY <1>1, <1>2, <1>3, <1>4, <1>5, <1>6, OnRight

LEMMA ArriveRight ==
    ASSUME BasketInv, CallsInv, NEW w \in Workers, NEW a \in Agents, NEW key \in Keys \cup {None},
           NEW ask \in Asks, Arrive(w, a, key, ask)
    PROVE  BasketInv'
<1> DEFINE c == Taken(a, key, ask)
<1>1. UNCHANGED <<carts, row, keys, orders, checkouts, reused>> /\ carts \in Nat /\ TablesRight'
  BY TablesStay, CallsAssumption DEF Arrive, BasketInv
<1>2. CASE UNCHANGED call
  BY <1>1, <1>2 DEF BasketInv, CallRight, B, Tool
<1>3. CASE call' = [call EXCEPT ![w] = c]
  <2>1. /\ c.key = key /\ c.ask = ask /\ c.at \in {"load", "run"} /\ c.basket = NoRow
        /\ c.at = "run" => ask[1] \in OrderTools
    BY QuietCall DEF Taken
  <2> HIDE DEF c
  <2>2. call'[w] = c /\ \A v \in Workers \ {w} : call'[v] = call[v]
    BY <1>3 DEF CallsInv, Forms
  <2>3. key # None => ask \in KeyedAsks
    BY DEF Arrive, Asks
  <2>4. CallRight(w)'
    BY <1>1, <2>1, <2>2, <2>3, NoRowRight DEF CallRight, B, Tool, OrderTools
  <2>5. (\A v \in Workers : CallRight(v))'
    BY <1>1, <2>2, <2>4, OthersRight
  <2> QED
    BY <1>1, <2>5 DEF BasketInv
<1> QED
  BY <1>2, <1>3 DEF Arrive, Replay

(* A call goes on with the basket it loaded or was sent.                    *)
LEMMA HoldsRight ==
    ASSUME BasketInv, CallsInv, NEW w \in Workers, NEW b \in Baskets, NEW at \in {"run", "order"},
           call' = [call EXCEPT ![w].basket = b, ![w].at = at],
           call[w].at # "idle", carts' \in 0..MaxCarts, carts <= carts',
           UNCHANGED <<row, keys, orders, checkouts>>,
           reused' \subseteq 1..carts', Tool(w) \notin OrderTools, b.cart <= carts',
           at = "run" => Tool(w) # "checkout", Tool(w) # "checkout" => InStock(b)
    PROVE  BasketInv'
<1>1. DOMAIN call = Workers /\ DOMAIN call[w] = {"agent", "key", "ask", "at", "basket", "named", "ok"}
  BY DEF CallsInv, Forms
<1>2. call' = [call EXCEPT ![w] = [[call[w] EXCEPT !.basket = b] EXCEPT !.at = at]]
  BY <1>1
<1>3. [[call[w] EXCEPT !.basket = b] EXCEPT !.at = at]
        = [[[call[w] EXCEPT !.basket = b] EXCEPT !.ok = call[w].ok] EXCEPT !.at = at]
  BY <1>1
<1>4. call' = [call EXCEPT ![w].basket = b, ![w].ok = call[w].ok, ![w].at = at]
  BY <1>1, <1>2, <1>3
<1>5. TablesRight' /\ at \in Ats
  BY TablesStay, CallsAssumption DEF BasketInv, Ats
<1> QED
  BY <1>4, <1>5, OnRight

LEMMA LoadRight == ASSUME BasketInv, CallsInv, NEW w \in Workers, Load(w) PROVE BasketInv'
<1> DEFINE b == Loaded(w)
<1>1. /\ call[w].at = "load" /\ call[w].agent \in Agents
      /\ Tool(w) # "checkout" /\ Tool(w) \notin OrderTools
      /\ call' = [call EXCEPT ![w].basket = b, ![w].at = "run"]
      /\ UNCHANGED <<row, keys, orders, checkouts, reused>>
      /\ carts \in Nat /\ carts' \in 0..MaxCarts /\ carts <= carts'
      /\ NeedsCart(w) => carts + 1 \in 0..MaxCarts /\ carts' = carts + 1
  BY CallsAssumption DEF Load, CallsInv, Forms, BasketInv, BasketTools, OrderTools
<1>2. reused' \subseteq 1..carts'
  BY <1>1 DEF BasketInv
<1>3. b \in Baskets /\ b.cart <= carts' /\ InStock(b)
  <2>1. CASE NeedsCart(w)
    <3>1. b = Fresh(carts + 1) /\ carts + 1 \in 0..MaxCarts /\ carts' = carts + 1
      BY <1>1, <2>1 DEF Loaded
    <3>2. carts + 1 <= carts'
      BY <1>1, <3>1
    <3> QED
      BY <3>1, <3>2, FreshRight
  <2>2. CASE ~NeedsCart(w)
    <3>1. b = row[call[w].agent]
      BY <2>2 DEF Loaded
    <3>2. b \in Baskets /\ b.cart <= carts /\ InStock(b)
      BY <1>1, <3>1 DEF BasketInv
    <3>3. b.cart \in Nat
      BY <3>2 DEF Baskets
    <3>4. b.cart <= carts'
      <4> HIDE DEF b
      <4> QED
        BY <1>1, <3>2, <3>3
    <3> QED
      BY <3>2, <3>4
  <2> QED
    BY <2>1, <2>2
<1> HIDE DEF b
<1> QED
  BY <1>1, <1>2, <1>3, HoldsRight

LEMMA ReceiveRight == ASSUME BasketInv, CallsInv, NEW w \in Workers, Receive(w) PROVE BasketInv'
<1>1. PICK cart \in 1..MaxCarts :
        /\ cart <= carts + 1
        /\ carts' = (IF cart <= carts THEN carts ELSE cart)
        /\ reused' = (IF cart <= carts THEN reused \cup {cart} ELSE reused)
        /\ call' = [call EXCEPT ![w].basket = Sent(w, cart), ![w].at = "order"]
  BY DEF Receive
<1> DEFINE f == Fresh(cart)
           g == [f EXCEPT !.lines[<<Arg(w), None>>] = 1, !.dest = call[w].ask[3]]
           b == [g EXCEPT !.option = Offer(g)]
<1>2. /\ call[w].at = "load" /\ Tool(w) = "checkout" /\ Tool(w) \notin OrderTools
      /\ call[w].ask \in Asks /\ UNCHANGED <<row, keys, orders, checkouts>>
  BY DEF Receive, OrderTools, BasketInv, CallRight
<1>3. /\ carts \in Nat /\ cart \in 0..MaxCarts /\ carts' \in 0..MaxCarts /\ carts <= carts'
      /\ cart \in 1..carts'
  BY <1>1, CallsAssumption DEF BasketInv
<1>4. reused' \subseteq 1..carts'
  BY <1>1, <1>3 DEF BasketInv
<1>5. Arg(w) \in Skus /\ call[w].ask[3] \in Places /\ <<Arg(w), None>> \in Lines
  BY <1>2, AskTypes DEF Lines
<1>6. f \in Baskets /\ f.cart = cart
  BY <1>3, FreshRight
<1> HIDE DEF f
<1>7. g \in Baskets /\ g.cart = cart /\ g.dest \in Places
  <2>1. g = [[f EXCEPT !.lines = [f.lines EXCEPT ![<<Arg(w), None>>] = 1]]
               EXCEPT !.dest = call[w].ask[3]]
    BY <1>6 DEF Baskets
  <2>2. [f.lines EXCEPT ![<<Arg(w), None>>] = 1] \in [Lines -> Nat]
    BY <1>5, <1>6 DEF Baskets
  <2> QED
    BY <1>5, <1>6, <2>1, <2>2 DEF Baskets
<1>8. call' = [call EXCEPT ![w].basket = b, ![w].at = "order"]
  BY <1>1 DEF Sent, f
<1> HIDE DEF g
<1>9. b \in Baskets /\ b.cart = cart
  BY <1>7 DEF Baskets, Offer, Options
<1>10. b.cart <= carts'
  BY <1>3, <1>9
<1> HIDE DEF b
<1> QED
  BY <1>2, <1>3, <1>4, <1>8, <1>9, <1>10, HoldsRight

LEMMA SaveRight == ASSUME BasketInv, CallsInv, NEW w \in Workers, Save(w) \/ Clear(w) PROVE BasketInv'
<1> DEFINE a == call[w].agent
<1>1. /\ call[w].at \in {"save", "clear"} /\ a \in Agents /\ carts \in Nat
      /\ UNCHANGED <<carts, keys, orders, checkouts, reused>> /\ TablesRight'
  BY TablesStay, CallsAssumption DEF Save, Clear, CallsInv, Forms, BasketInv
<1>2. CallRight(w) /\ B(w) \in Baskets /\ B(w).cart <= carts
  BY DEF BasketInv, CallRight
<1>3. PICK b \in {B(w), NoRow} : row' = [row EXCEPT ![a] = b] /\ InStock(b)
  BY <1>1, <1>2, NoRowRight DEF Save, Clear, CallRight
<1>4. b \in Baskets /\ b.cart <= carts
  <2>1. 0 <= carts
    BY <1>1
  <2> QED
    BY <1>2, <2>1, NoRowRight
<1>5. row' \in [Agents -> Baskets] /\ \A d \in Agents : row'[d].cart <= carts /\ InStock(row'[d])
  BY <1>1, <1>3, <1>4 DEF BasketInv
<1>6. DOMAIN call = Workers /\ DOMAIN call[w] = {"agent", "key", "ask", "at", "basket", "named", "ok"}
  BY DEF CallsInv, Forms
<1>7. CASE call' = [call EXCEPT ![w].at = "remember"]
  <2>1. call' = [call EXCEPT ![w] = [call[w] EXCEPT !.at = "remember"]]
    BY <1>7
  <2>2. /\ \A v \in Workers \ {w} : call'[v] = call[v]
        /\ call'[w].at = "remember" /\ call'[w].basket = call[w].basket
        /\ call'[w].ask = call[w].ask /\ call'[w].key = call[w].key
    BY <1>6, <2>1
  <2>3. CallRight(w)'
    BY <1>1, <1>2, <2>2 DEF CallRight, B, Tool
  <2>4. (\A v \in Workers : CallRight(v))'
    BY <1>1, <2>2, <2>3, OthersRight
  <2> QED
    BY <1>1, <1>5, <2>4 DEF BasketInv
<1>8. CASE call' = [call EXCEPT ![w] = Quiet]
  <2>1. call'[w] = Quiet /\ \A v \in Workers \ {w} : call'[v] = call[v]
    BY <1>6, <1>8
  <2>2. CallRight(w)'
    BY <1>1, <2>1, NoRowRight, QuietCall DEF CallRight, B, Tool
  <2>3. (\A v \in Workers : CallRight(v))'
    BY <1>1, <2>1, <2>2, OthersRight
  <2> QED
    BY <1>1, <1>5, <2>3 DEF BasketInv
<1> QED
  BY <1>7, <1>8 DEF Save, Clear

LEMMA RememberRight == ASSUME BasketInv, CallsInv, NEW w \in Workers, Remember(w) PROVE BasketInv'
<1>1. /\ call[w].at = "remember" /\ Free(w) /\ UNCHANGED <<carts, row, orders, checkouts, reused>>
      /\ call[w].agent \in Agents /\ call[w].key \in Keys \cup {None}
  BY DEF Remember, CallsInv, Forms
<1>2. /\ call[w].key # None => call[w].ask \in KeyedAsks
      /\ IF call[w].ask[1] \in OrderTools THEN Answer(w) \in 1..carts ELSE Answer(w) \in Baskets
  BY <1>1 DEF BasketInv, CallRight, Answer, Tool
<1>3. TablesRight'
  <2>1. CASE keys' = keys
    BY <1>1, <2>1 DEF BasketInv, TablesRight
  <2>2. CASE keys' # keys
    <3>1. keys' = [k \in DOMAIN keys \cup ({Of(w)} \ (Agents \X {None})) |->
                     IF k = Of(w) THEN [ask |-> call[w].ask, answer |-> Answer(w)] ELSE keys[k]]
      BY <2>2 DEF Remember
    <3>2. ASSUME NEW k \in DOMAIN keys'
          PROVE  /\ k \in Agents \X Keys /\ keys'[k].ask \in KeyedAsks
                 /\ IF keys'[k].ask[1] \in OrderTools THEN keys'[k].answer \in 1..carts
                                                      ELSE keys'[k].answer \in Baskets
      <4>1. CASE k \in DOMAIN keys /\ k # Of(w)
        BY <3>1, <4>1 DEF BasketInv, TablesRight
      <4>2. CASE k = Of(w)
        <5>1. k \in Agents \X Keys /\ call[w].key # None
          <6>1. Of(w) \notin DOMAIN keys
            BY <2>2 DEF Remember
          <6>2. Of(w) \notin Agents \X {None} /\ Of(w) = <<call[w].agent, call[w].key>>
            BY <3>1, <3>2, <4>2, <6>1 DEF Of
          <6> QED
            BY <1>1, <4>2, <6>2
        <5>2. keys'[k] = [ask |-> call[w].ask, answer |-> Answer(w)]
          BY <3>1, <3>2, <4>2
        <5> QED
          BY <1>2, <5>1, <5>2
      <4> QED
        BY <3>1, <3>2, <4>1, <4>2
    <3> QED
      BY <1>1, <3>2 DEF BasketInv, TablesRight
  <2> QED
    BY <2>1, <2>2
<1> QED
  BY <1>1, <1>3, FreeRight

LEMMA StartFailsRight ==
    ASSUME BasketInv, CallsInv, NEW w \in Workers, call[w].at # "idle", Tool(w) \notin OrderTools, StartFails(w)
    PROVE  BasketInv'
<1>1. B(w) \in Baskets /\ B(w).cart <= carts /\ (Tool(w) # "checkout" => InStock(B(w)))
  BY DEF BasketInv, CallRight
<1>2. CASE Tool(w) = "checkout"
  <2>1. Free(w) /\ UNCHANGED <<carts, row, keys, orders, checkouts, reused>>
    BY <1>2 DEF StartFails
  <2>2. TablesRight'
    BY <2>1 DEF BasketInv, TablesRight
  <2> QED
    BY <2>1, <2>2, FreeRight
<1>3. CASE Tool(w) # "checkout"
  BY <1>1, <1>3, EndsRight DEF StartFails
<1> QED
  BY <1>2, <1>3

(* A step of a call that keeps its basket. *)
LEMMA StepRight ==
    ASSUME BasketInv, CallsInv, NEW w \in Workers, NEW at \in {"order", "quote", "clear", "remember"},
           NEW ok, call' = [call EXCEPT ![w].ok = ok, ![w].at = at], call[w].at # "idle",
           UNCHANGED <<carts, row, reused>>, DOMAIN orders \subseteq DOMAIN orders', TablesRight',
           Tool(w) \notin OrderTools, at = "quote" => B(w).cart \in DOMAIN orders'
    PROVE  BasketInv'
<1>1. DOMAIN call = Workers /\ DOMAIN call[w] = {"agent", "key", "ask", "at", "basket", "named", "ok"}
  BY DEF CallsInv, Forms
<1>2. call' = [call EXCEPT ![w] = [[call[w] EXCEPT !.ok = ok] EXCEPT !.at = at]]
  BY <1>1
<1>3. /\ \A v \in Workers \ {w} : call'[v] = call[v]
      /\ call'[w].basket = call[w].basket /\ call'[w].at = at
      /\ call'[w].key = call[w].key /\ call'[w].ask = call[w].ask
  BY <1>1, <1>2
<1>4. carts \in Nat /\ carts' \in Nat /\ carts <= carts' /\ CallRight(w)
  BY CallsAssumption DEF BasketInv
<1>5. CallRight(w)'
  BY <1>3, <1>4 DEF CallRight, B, Tool
<1>6. (\A v \in Workers : CallRight(v))'
  BY <1>3, <1>4, <1>5, OthersRight
<1> QED
  BY <1>6 DEF BasketInv

LEMMA StartRight ==
    ASSUME BasketInv, CallsInv, NEW w \in Workers,
           StartCheckout(w) \/ OrdersCreate(w) \/ QuoteAndSave(w)
    PROVE  BasketInv'
<1>0. /\ DOMAIN call = Workers /\ DOMAIN call[w] = {"agent", "key", "ask", "at", "basket", "named", "ok"}
      /\ B(w) \in Baskets /\ B(w).cart <= carts /\ (Tool(w) # "checkout" => InStock(B(w)))
      /\ Tool(w) \notin OrderTools
  BY DEF CallsInv, Forms, BasketInv, CallRight, StartCheckout, OrdersCreate, QuoteAndSave, Runs,
         OrderTools
<1>m. ASSUME NEW at, call' = [call EXCEPT ![w].at = at]
      PROVE  call' = [call EXCEPT ![w].ok = call[w].ok, ![w].at = at]
  <2>1. call' = [call EXCEPT ![w] = [call[w] EXCEPT !.at = at]]
    BY <1>m
  <2>2. [call[w] EXCEPT !.at = at] = [[call[w] EXCEPT !.ok = call[w].ok] EXCEPT !.at = at]
    BY <1>0
  <2> QED
    BY <1>0, <2>1, <2>2
<1>1. CASE StartCheckout(w)
  <2>1. call[w].at # "idle" /\ Tool(w) # "checkout"
    BY <1>1 DEF StartCheckout, Runs
  <2>2. CASE Ends(w, B(w), FALSE)
    BY <1>0, <2>1, <2>2, EndsRight
  <2>3. CASE /\ call' = [call EXCEPT ![w].at = "order"]
             /\ UNCHANGED <<calm, carts, row, keys, orders, checkouts, told, reused>>
    <3>1. TablesRight'
      BY <2>3 DEF BasketInv, TablesRight
    <3> QED
      BY <1>0, <1>m, <2>1, <2>3, <3>1, StepRight
  <2> QED
    BY <1>1, <2>2, <2>3 DEF StartCheckout
<1>2. CASE OrdersCreate(w)
  <2>1. call[w].at = "order"
    BY <1>2 DEF OrdersCreate
  <2>2. CASE StartFails(w)
    BY <1>0, <2>1, <2>2, StartFailsRight
  <2>3. CASE /\ orders' = [c \in DOMAIN orders \cup {B(w).cart} |->
                             IF c \in DOMAIN orders THEN orders[c] ELSE B(w).lines]
             /\ call' = [call EXCEPT ![w].at = "quote"]
             /\ UNCHANGED <<calm, carts, row, keys, checkouts, told, reused>>
    <3>1. B(w).cart \in 1..carts
      BY <2>1 DEF CallsInv, Carts, Alone, Unshared, Working
    <3>2. B(w).lines \in [Lines -> Nat]
      BY <1>0 DEF Baskets
    <3>3. DOMAIN orders' = DOMAIN orders \cup {B(w).cart}
      BY <2>3
    <3>4. TablesRight'
      BY <2>3, <3>1, <3>2, <3>3 DEF BasketInv, TablesRight
    <3> QED
      BY <1>0, <1>m, <2>1, <2>3, <3>3, <3>4, StepRight
  <2> QED
    BY <1>2, <2>2, <2>3 DEF OrdersCreate
<1>3. CASE QuoteAndSave(w)
  <2>1. call[w].at = "quote" /\ B(w).cart \in DOMAIN orders
    BY <1>3 DEF QuoteAndSave, BasketInv, CallRight
  <2>2. CASE StartFails(w)
    BY <1>0, <2>1, <2>2, StartFailsRight
  <2>3. CASE ~StartFails(w)
    <3> DEFINE at == IF Tool(w) = "checkout" THEN "remember" ELSE "clear"
               new == [agent |-> call[w].agent, lines |-> B(w).lines, dest |-> B(w).dest,
                       option |-> B(w).option, code |-> B(w).code,
                       nth |-> Latest + 1, status |-> "pending"]
    <3>1. /\ checkouts' = [c \in DOMAIN checkouts \cup {B(w).cart} |->
                             IF c = B(w).cart THEN new ELSE checkouts[c]]
          /\ call' = [call EXCEPT ![w].ok = TRUE, ![w].at = at]
          /\ UNCHANGED <<calm, carts, row, keys, orders, told, reused>>
      BY <1>3, <2>3 DEF QuoteAndSave
    <3>2. "status" \in DOMAIN new /\ new.status = "pending"
      OBVIOUS
    <3> HIDE DEF new
    <3>3. TablesRight'
      BY <2>1, <3>1, <3>2 DEF BasketInv, TablesRight
    <3>4. at \in {"order", "quote", "clear", "remember"} /\ at # "quote"
      OBVIOUS
    <3> HIDE DEF at
    <3> QED
      BY <1>0, <2>1, <3>1, <3>3, <3>4, StepRight
  <2> QED
    BY <2>2, <2>3
<1> QED
  BY <1>1, <1>2, <1>3

LEMMA SettleRight ==
    ASSUME TablesRight, NEW c \in DOMAIN checkouts, Settle(c), UNCHANGED <<carts, keys, orders>>
    PROVE  TablesRight'
<1>1. checkouts' = [checkouts EXCEPT ![c] = [checkouts[c] EXCEPT !.status = "settled"]]
  BY DEF Settle
<1>2. "status" \in DOMAIN checkouts'[c] /\ checkouts'[c].status = "settled"
  BY <1>1 DEF TablesRight
<1>3. \A d \in DOMAIN checkouts' : d # c => checkouts'[d] = checkouts[d]
  BY <1>1
<1> QED
  BY <1>1, <1>2, <1>3 DEF TablesRight

LEMMA OrderToolRight ==
    ASSUME BasketInv, CallsInv, NEW w \in Workers,
           PlaceOrder(w) \/ CancelOrder(w) \/ RequestRefund(w)
    PROVE  BasketInv'
<1>1. /\ call[w].at = "run" /\ Tool(w) \in OrderTools /\ Tool(w) # "checkout"
      /\ UNCHANGED <<carts, row, keys, orders, reused>>
      /\ DOMAIN orders \subseteq 1..carts /\ DOMAIN checkouts \subseteq 1..carts
  BY DEF PlaceOrder, CancelOrder, RequestRefund, Runs, OrderTools, BasketInv, TablesRight
<1>2. \/ Refused(w)
      \/ \E c \in 1..carts :
           Names(w, c) /\ (checkouts' = checkouts \/ (c \in DOMAIN checkouts /\ Settle(c)))
  BY <1>1 DEF PlaceOrder, CancelOrder, RequestRefund, Waiting
<1>3. CASE Refused(w)
  <2>1. TablesRight'
    BY <1>1, <1>3 DEF Refused, BasketInv, TablesRight
  <2> QED
    BY <1>1, <1>3, <2>1, FreeRight DEF Refused
<1>4. ASSUME NEW c \in 1..carts, Names(w, c),
             checkouts' = checkouts \/ (c \in DOMAIN checkouts /\ Settle(c))
      PROVE  BasketInv'
  <2>1. TablesRight'
    <3>1. CASE checkouts' = checkouts
      BY <1>1, <3>1 DEF BasketInv, TablesRight
    <3>2. CASE c \in DOMAIN checkouts /\ Settle(c)
      BY <1>1, <3>2, SettleRight DEF BasketInv
    <3> QED
      BY <1>4, <3>1, <3>2
  <2>2. DOMAIN call = Workers /\ DOMAIN call[w] = {"agent", "key", "ask", "at", "basket", "named", "ok"}
    BY DEF CallsInv, Forms
  <2>3. call' = [call EXCEPT ![w] =
                   [[[call[w] EXCEPT !.named = c] EXCEPT !.ok = TRUE] EXCEPT !.at = "remember"]]
    BY <1>4, <2>2 DEF Names
  <2>4. /\ \A v \in Workers \ {w} : call'[v] = call[v]
        /\ call'[w].basket = call[w].basket /\ call'[w].at = "remember" /\ call'[w].named = c
        /\ call'[w].key = call[w].key /\ call'[w].ask = call[w].ask
    BY <2>2, <2>3
  <2>5. carts \in Nat /\ CallRight(w)
    BY CallsAssumption DEF BasketInv
  <2>6. CallRight(w)'
    BY <1>1, <2>4, <2>5 DEF CallRight, B, Tool
  <2>7. (\A v \in Workers : CallRight(v))'
    BY <1>1, <2>4, <2>5, <2>6, OthersRight
  <2> QED
    BY <1>1, <2>1, <2>7 DEF BasketInv
<1> QED
  BY <1>2, <1>3, <1>4

LEMMA BasketStepRight == BasketInv /\ CallsInv /\ [Next]_vars => BasketInv'
<1> SUFFICES ASSUME BasketInv, CallsInv, [Next]_vars PROVE BasketInv'
  OBVIOUS
<1>1. CASE UNCHANGED vars
  BY <1>1 DEF vars, BasketInv, CallRight, TablesRight, B, Tool
<1>2. ASSUME NEW w \in Workers, Die(w) PROVE BasketInv'
  <2>1. TablesRight'
    BY <1>2 DEF Die, BasketInv, TablesRight
  <2> QED
    BY <1>2, <2>1, FreeRight DEF Die
<1>3. ASSUME NEW c \in 1..MaxCarts, Settled(c) PROVE BasketInv'
  <2>1. TablesRight' /\ UNCHANGED <<carts, row, call, orders, reused>>
    BY <1>3, SettleRight DEF Settled, BasketInv
  <2> QED
    BY <2>1 DEF BasketInv, CallRight, B, Tool
<1> QED
  BY <1>1, <1>2, <1>3, ArriveRight, LoadRight, ReceiveRight, SaveRight, RememberRight,
     EditRight, ClearBasketRight, StartRight, OrderToolRight DEF Next

LEMMA BasketInvariant == Spec => []BasketInv
<1>1. Init => BasketInv
  <2> SUFFICES ASSUME Init PROVE BasketInv
    OBVIOUS
  <2>1. ASSUME NEW w \in Workers PROVE CallRight(w)
    <3>1. call[w] = Quiet /\ carts = 0
      BY DEF Init
    <3> QED
      BY <3>1, NoRowRight, QuietCall DEF CallRight, B, Tool
  <2>2. \A a \in Agents : row[a] = NoRow
    BY DEF Init
  <2>3. TablesRight
    BY DEF Init, TablesRight
  <2> QED
    BY <2>1, <2>2, <2>3, NoRowRight, CallsAssumption DEF Init, BasketInv
<1> QED
  BY <1>1, BasketStepRight, CallsInvariant, PTL DEF Spec

(* Baskets, answers, orders and checkouts are what the code writes, and a  *)
(* cart id in use is one that was handed out (basket.py:27).               *)
THEOREM CallTypes == Spec => []TypeOK
<1>1. BasketInv /\ CallsInv => TypeOK
  BY DEF BasketInv, CallsInv, Forms, CallRight, TablesRight, TypeOK
<1> QED
  BY <1>1, BasketInvariant, CallsInvariant, PTL

(* Whatever calls edited it, overlapping or not, what a basket holds can be *)
(* ordered: the delivery is for these lines (basket.py:88), the shop has    *)
(* all of every sku however it is spread over parents (tools.py:218), and   *)
(* where the shop answers it knows the code (tools.py:399).                 *)
THEOREM BasketsStand == Spec => []BasketStandsUp
<1>1. BasketInv /\ CallsInv => BasketStandsUp
  BY DEF BasketInv, CallsInv, Fits, Sound, InStock, BasketStandsUp, OptionFitsBasket,
         QtyWithinStock, CodeWasTaken
<1> QED
  BY <1>1, BasketInvariant, CallsInvariant, PTL

-----------------------------------------------------------------------------
(* What a step may never do. *)

(* The tables of answers and of checkouts are each written by one step.     *)
LEMMA WhoWrites ==
    ASSUME [Next]_vars
    PROVE  /\ keys' = keys \/ \E w \in Workers : Remember(w)
           /\ \/ checkouts' = checkouts
              \/ \E w \in Workers : QuoteAndSave(w)
              \/ \E d \in DOMAIN checkouts : Settle(d)
<1>1. CASE UNCHANGED vars
  BY <1>1 DEF vars
<1>2. ASSUME NEW w \in Workers, NEW a, NEW key, NEW ask, Arrive(w, a, key, ask)
      PROVE  UNCHANGED <<keys, checkouts>>
  BY <1>2 DEF Arrive
<1>3. ASSUME NEW w \in Workers, Load(w) \/ Receive(w) \/ Save(w) \/ Clear(w) \/ Die(w)
      PROVE  UNCHANGED <<keys, checkouts>>
  BY <1>3 DEF Load, Receive, Save, Clear, Die
<1>4. ASSUME NEW w \in Workers,
             AddLine(w) \/ RemoveLine(w) \/ ClearBasket(w) \/ SetDestination(w)
      PROVE  UNCHANGED <<keys, checkouts>>
  BY <1>4 DEF AddLine, RemoveLine, ClearBasket, SetDestination, Ends
<1>5. ASSUME NEW w \in Workers, SetContact(w) \/ ChooseFulfillment(w) \/ ApplyPublicCode(w)
      PROVE  UNCHANGED <<keys, checkouts>>
  BY <1>5 DEF SetContact, ChooseFulfillment, ApplyPublicCode, Ends, Summed
<1>6. ASSUME NEW w \in Workers, StartCheckout(w) \/ OrdersCreate(w)
      PROVE  UNCHANGED <<keys, checkouts>>
  BY <1>6 DEF StartCheckout, OrdersCreate, StartFails, Ends
<1>7. ASSUME NEW w \in Workers, QuoteAndSave(w) PROVE keys' = keys
  BY <1>7 DEF QuoteAndSave, StartFails, Ends
<1>8. ASSUME NEW w \in Workers, Remember(w) PROVE checkouts' = checkouts
  BY <1>8 DEF Remember
<1>9. ASSUME NEW c, Settled(c)
      PROVE  keys' = keys /\ \E d \in DOMAIN checkouts : Settle(d)
  BY <1>9 DEF Settled
<1>10. ASSUME NEW w \in Workers, PlaceOrder(w) \/ CancelOrder(w) \/ RequestRefund(w)
       PROVE  /\ keys' = keys
              /\ checkouts' = checkouts \/ \E d \in DOMAIN checkouts : Settle(d)
  BY <1>10 DEF PlaceOrder, CancelOrder, RequestRefund, Refused
<1> QED
  BY <1>1, <1>2, <1>3, <1>4, <1>5, <1>6, <1>7, <1>8, <1>9, <1>10 DEF Next

LEMMA AnswerKept ==
    ASSUME CallsInv, [Next]_vars, NEW k \in DOMAIN keys
    PROVE  k \in DOMAIN keys' /\ keys'[k] = keys[k]
<1>1. keys' = keys \/ \E w \in Workers : Remember(w)
  BY WhoWrites
<1>2. ASSUME NEW w \in Workers, Remember(w) PROVE k \in DOMAIN keys' /\ keys'[k] = keys[k]
  BY <1>2 DEF Remember
<1> QED
  BY <1>1, <1>2

LEMMA CheckoutKept ==
    ASSUME CallsInv, BasketInv, [Next]_vars, calm, NEW c \in DOMAIN checkouts \ reused
    PROVE  /\ [checkouts'[c] EXCEPT !.status = "pending"] = [checkouts[c] EXCEPT !.status = "pending"]
           /\ checkouts[c].status = "settled" => checkouts'[c].status = "settled"
<1>1. \/ checkouts' = checkouts
      \/ \E w \in Workers : QuoteAndSave(w)
      \/ \E d \in DOMAIN checkouts : Settle(d)
  BY WhoWrites
<1>2. ASSUME NEW w \in Workers, QuoteAndSave(w)
      PROVE  checkouts'[c] = checkouts[c]
  <2>1. B(w).cart \notin DOMAIN checkouts \ reused
    BY <1>2 DEF QuoteAndSave, CallsInv, Carts, Alone, Unshared, Working
  <2> QED
    BY <1>2, <2>1 DEF QuoteAndSave, StartFails, Ends
<1>3. ASSUME NEW d \in DOMAIN checkouts, Settle(d)
      PROVE  /\ [checkouts'[c] EXCEPT !.status = "pending"]
                  = [checkouts[c] EXCEPT !.status = "pending"]
             /\ checkouts[c].status = "settled" => checkouts'[c].status = "settled"
  <2>1. checkouts' = [checkouts EXCEPT ![d] = [checkouts[d] EXCEPT !.status = "settled"]]
    BY <1>3 DEF Settle
  <2>2. CASE c # d
    BY <2>1, <2>2
  <2>3. CASE c = d
    <3>1. "status" \in DOMAIN checkouts[c]
      BY DEF BasketInv, TablesRight
    <3> QED
      BY <2>1, <2>3, <3>1
  <2> QED
    BY <2>2, <2>3
<1> QED
  BY <1>1, <1>2, <1>3

(* No delivery of a call replaces the answer that is kept under its key     *)
(* (idempotency.py:139), and where calls do not overlap none starts over    *)
(* what the Consumer was asked to approve (agent_routes.py:462), unless a   *)
(* protocol checkout names its cart.                                        *)
THEOREM DoneStands == Spec => WhatWasDoneStands
<1>1. CallsInv /\ [Next]_vars =>
        [\A k \in DOMAIN keys : k \in DOMAIN keys' /\ keys'[k] = keys[k]]_vars
  BY AnswerKept
<1>2. CallsInv /\ BasketInv /\ [Next]_vars =>
        [calm => \A c \in DOMAIN checkouts \ reused :
           [checkouts'[c] EXCEPT !.status = "pending"] = [checkouts[c] EXCEPT !.status = "pending"]
           /\ (checkouts[c].status = "settled" => checkouts'[c].status = "settled")]_vars
  BY CheckoutKept
<1> QED
  BY <1>1, <1>2, CallsInvariant, BasketInvariant, PTL
  DEF Spec, WhatWasDoneStands, FirstAnswerStays, CheckoutStands
=============================================================================

----------------------------- MODULE DoorsProofs -----------------------------
(***************************************************************************)
(* What the Merchant's doors keep, for any orders, carts, goods, workers    *)
(* and recounts: the shelf never goes below nought, a discount code is      *)
(* rationed, a key has one true answer, and one request at a time the site  *)
(* and the plugin implement Shelf.                                          *)
(***************************************************************************)
EXTENDS MerchantDoors, SumProofs, TLAPS

-----------------------------------------------------------------------------
(* Types, workers and locks: whatever the scene. *)

RecountKeys == {"recount"} \X Skus \X Counts
Calls == [key : Keys \cup RecountKeys \cup {NoKey}, at : Steps, saw : Nat, answer : Answers]

Types ==
    /\ impl \in {"site", "woo", "fake"} /\ scene \in {"serial", "racing", "counting"}
    /\ impl = "fake" => Calm
    /\ stock \in [Skus -> Nat] /\ counted \in [Skus -> Int]
    /\ book \in [Orders -> Rows] /\ uses \in Int /\ (impl # "fake" => uses \in Nat)
    /\ code \in [Orders -> {"none", "held", "consumed", "released"}]
    /\ cartOf \in [Orders -> Carts \cup {NoCart}]
    /\ status \in [Orders -> Targets \cup {"absent", "pending"}]
    /\ \A o \in Orders : cartOf[o] # NoCart => status[o] # "absent"
    /\ DOMAIN cache \subseteq Keys /\ \A k \in DOMAIN cache : cache[k] \in Answers
    /\ replies \in [Keys -> SUBSET Answers]
    /\ call \in [Threads -> Calls]

(* What a worker is doing is what its request is for; one that has looked   *)
(* the code up has its goods on the shelf.                                  *)
StepRight(t) ==
    /\ ~Idle(t) /\ call[t].at # "recount" => call[t].key \in Keys
    /\ call[t].at = "recount" => impl = "site" /\ call[t].key \in RecountKeys
    /\ call[t].at = "code" => /\ impl \in {"site", "woo"} /\ call[t].key[1] = "reserve"
                              /\ Coded(Of(t)) /\ Enough(Of(t))
    /\ call[t].at = "give" => impl \in {"site", "woo"} /\ call[t].key[1] = "release"
    /\ call[t].at = "sell" => impl = "woo" /\ call[t].key[1] = "commit"
    /\ call[t].at = "read" => call[t].key[1] = "orders.set-status" /\ cartOf[Of(t)] # NoCart

Apart(o, p) == \A k \in Skus : Goods(o)[k] = 0 \/ Goods(p)[k] = 0
Locks ==
    \A t, u \in Threads :
        t # u /\ call[t].at = "code" /\ call[u].at = "code" => Apart(Of(t), Of(u))

DoorsInv == Types /\ (\A t \in Threads : StepRight(t)) /\ Locks

LEMMA KeyKinds ==
    ASSUME NEW key \in Keys
    PROVE  /\ key[1] \in CodeDoors => key[2] \in Orders
           /\ key[1] = "orders.create" => key[2] \in Carts
           /\ key[1] = "orders.set-status" => key[2] \in Orders /\ key[3] \in Targets
           /\ key = <<key[1], key[2], key[3]>>
           /\ key[1] \in CodeDoors => key[3] = "-"
           /\ key[1] \in CodeDoors \cup {"orders.create", "orders.set-status"}
BY DEF Keys, CodeDoors

LEMMA GoodsNat == ASSUME Types, NEW o \in Orders PROVE Goods(o) \in [Skus -> Nat]
BY DoorsAssumption DEF Types, Goods

(* A step of one worker that leaves the others as they are, undoes no order *)
(* and takes nothing another has locked.                                    *)
Frame(t) ==
    /\ UNCHANGED <<impl, scene>>
    /\ \A u \in Threads : u # t => call'[u] = call[u]
    /\ \A o \in Orders : cartOf[o] # NoCart => cartOf'[o] = cartOf[o]
    /\ \A u \in Threads : u # t /\ call[u].at = "code" =>
          \A k \in Skus : Goods(Of(u))[k] = 0 \/ stock'[k] >= stock[k]
    /\ call'[t].at = "code" => /\ Unlocked(Of(t)) /\ call'[t].key = call[t].key
                               /\ UNCHANGED <<cartOf, stock>>

LEMMA FrameKeeps ==
    ASSUME DoorsInv, NEW t \in Threads, Frame(t), Types', StepRight(t)'
    PROVE  DoorsInv'
<1>1. ASSUME NEW u \in Threads, u # t, call[u].at = "code"
      PROVE  /\ Of(u) \in Orders /\ cartOf[Of(u)] # NoCart
             /\ Of(u)' = Of(u) /\ Goods(Of(u))' = Goods(Of(u))
  <2>1. call[u].key \in Keys /\ call[u].key[1] = "reserve" /\ Coded(Of(u))
    BY <1>1 DEF DoorsInv, StepRight, Idle
  <2>2. Of(u) \in Orders
    BY <2>1, KeyKinds DEF Of, CodeDoors
  <2>3. cartOf[Of(u)] # NoCart
    BY <2>1, DoorsAssumption DEF Coded
  <2> QED
    BY <1>1, <2>2, <2>3 DEF Frame, Of, Goods
<1>2. ASSUME NEW u \in Threads, u # t
      PROVE  StepRight(u)'
  <2>1. call'[u] = call[u] /\ impl' = impl
    BY <1>2 DEF Frame
  <2>2. CASE call[u].at = "code"
    <3>1. cartOf'[Of(u)] = cartOf[Of(u)]
      BY <1>1, <1>2, <2>2 DEF Frame
    <3>2. Goods(Of(u)) \in [Skus -> Nat]
      BY <1>1, <1>2, <2>2, GoodsNat DEF DoorsInv
    <3>3. Enough(Of(u))
      BY <2>2 DEF DoorsInv, StepRight
    <3>4. stock \in [Skus -> Nat] /\ stock' \in [Skus -> Nat]
      BY DEF DoorsInv, Types
    <3>5. Enough(Of(u))'
      BY <1>1, <1>2, <2>2, <3>2, <3>3, <3>4 DEF Enough, Frame
    <3> QED
      BY <1>1, <1>2, <2>1, <2>2, <3>1, <3>5 DEF DoorsInv, StepRight, Idle, Of, Coded
  <2>3. CASE call[u].at # "code"
    <3>1. CASE call[u].at = "read"
      <4>1. call[u].key \in Keys /\ call[u].key[1] = "orders.set-status" /\ cartOf[Of(u)] # NoCart
        BY <3>1 DEF DoorsInv, StepRight, Idle
      <4>2. cartOf'[Of(u)] = cartOf[Of(u)]
        BY <4>1, KeyKinds DEF Of, Frame
      <4> QED
        BY <2>1, <3>1, <4>1, <4>2 DEF DoorsInv, StepRight, Idle, Of
    <3>2. CASE call[u].at # "read"
      BY <2>1, <2>3, <3>2 DEF DoorsInv, StepRight, Idle, Of
    <3> QED
      BY <3>1, <3>2
  <2> QED
    BY <2>2, <2>3
<1>3. Locks'
  <2>1. ASSUME NEW u \in Threads, u # t, call[u].at = "code", call'[t].at = "code"
        PROVE  Apart(Of(t), Of(u))'
    <3>1. Goods(Of(u))' = Goods(Of(u))
      BY <1>1, <2>1
    <3>2. Goods(Of(t))' = Goods(Of(t))
      BY <2>1 DEF Frame, Goods, Of
    <3>3. Apart(Of(t), Of(u))
      BY <2>1 DEF Frame, Unlocked, Apart
    <3> QED
      BY <3>1, <3>2, <3>3 DEF Apart
  <2>2. ASSUME NEW u \in Threads, NEW w \in Threads, u # w, u # t, w # t,
               call[u].at = "code", call[w].at = "code"
        PROVE  Apart(Of(u), Of(w))'
    <3>1. Goods(Of(u))' = Goods(Of(u)) /\ Goods(Of(w))' = Goods(Of(w))
      BY <1>1, <2>2
    <3> QED
      BY <2>2, <3>1 DEF DoorsInv, Locks, Apart
  <2>3. ASSUME NEW u \in Threads, u # t, call'[u].at = "code" PROVE call[u].at = "code"
    BY <2>3 DEF Frame
  <2>4. \A o, p : Apart(o, p)' => Apart(p, o)'
    BY DEF Apart
  <2> QED
    BY <2>1, <2>2, <2>3, <2>4 DEF Locks
<1> QED
  BY <1>2, <1>3 DEF DoorsInv

(* What a step makes of its worker. *)
LEMMA AnswerStep ==
    ASSUME DoorsInv, NEW t \in Threads, ~Idle(t), call[t].at # "recount", NEW a \in Answers,
           Answer(t, a)
    PROVE  /\ call' \in [Threads -> Calls] /\ \A u \in Threads : u # t => call'[u] = call[u]
           /\ call'[t].at = "remember" /\ call'[t].key = call[t].key /\ call'[t].answer = a
           /\ StepRight(t)'
<1>1. call[t].key \in Keys /\ call[t] \in Calls
  BY DEF DoorsInv, Types, StepRight
<1>2. call \in [Threads -> Calls]
  BY DEF DoorsInv, Types
<1> DEFINE c == [call[t] EXCEPT !.at = "remember", !.answer = a]
<1>3. c \in Calls /\ c.at = "remember" /\ c.key = call[t].key /\ c.answer = a
  BY <1>1 DEF Calls, Steps
<1>4. call' = [call EXCEPT ![t] = c]
  BY <1>2 DEF Answer
<1> HIDE DEF c
<1>5. /\ call' \in [Threads -> Calls] /\ \A u \in Threads : u # t => call'[u] = call[u]
      /\ call'[t].at = "remember" /\ call'[t].key = call[t].key /\ call'[t].answer = a
  BY <1>2, <1>3, <1>4
<1> QED
  BY <1>1, <1>5 DEF StepRight, Idle

LEMMA GotoStep ==
    ASSUME DoorsInv, NEW t \in Threads, NEW at \in Steps, NEW saw \in Nat, Goto(t, at, saw)
    PROVE  /\ call' \in [Threads -> Calls] /\ \A u \in Threads : u # t => call'[u] = call[u]
           /\ call'[t].at = at /\ call'[t].saw = saw /\ call'[t].key = call[t].key
<1>1. call \in [Threads -> Calls]
  BY DEF DoorsInv, Types
<1> DEFINE c == [call[t] EXCEPT !.at = at, !.saw = saw]
<1>2. c \in Calls /\ c.at = at /\ c.saw = saw /\ c.key = call[t].key
  BY <1>1 DEF Calls
<1>3. call' = [call EXCEPT ![t] = c]
  BY <1>1 DEF Goto
<1> HIDE DEF c
<1> QED
  BY <1>1, <1>2, <1>3

LEMMA QuietStep ==
    ASSUME DoorsInv, NEW t \in Threads, call' = [call EXCEPT ![t] = Quiet]
    PROVE  /\ call' \in [Threads -> Calls] /\ \A u \in Threads : u # t => call'[u] = call[u]
           /\ call'[t] = Quiet /\ StepRight(t)'
<1>1. Quiet \in Calls
  BY DEF Quiet, Calls, Steps, Answers
<1>2. /\ call' \in [Threads -> Calls] /\ \A u \in Threads : u # t => call'[u] = call[u]
      /\ call'[t] = Quiet
  BY <1>1 DEF DoorsInv, Types
<1> QED
  BY <1>2 DEF StepRight, Idle, Quiet

(* A step that leaves the shop alone. *)
LEMMA ShopStays ==
    ASSUME DoorsInv, NEW t \in Threads, UNCHANGED <<impl, scene, shop>>,
           call' \in [Threads -> Calls], \A u \in Threads : u # t => call'[u] = call[u],
           replies' \in [Keys -> SUBSET Answers],
           DOMAIN cache' \subseteq Keys, \A k \in DOMAIN cache' : cache'[k] \in Answers,
           StepRight(t)',
           call'[t].at = "code" => Unlocked(Of(t)) /\ call'[t].key = call[t].key
    PROVE  DoorsInv'
<1>1. Types'
  BY DEF DoorsInv, Types, shop, Calm
<1>2. Frame(t)
  <2>1. \A k \in Skus : stock'[k] >= stock[k]
    BY DEF shop, DoorsInv, Types
  <2> QED
    BY <2>1 DEF Frame, shop
<1> QED
  BY <1>1, <1>2, FrameKeeps

(* A request comes, is remembered, or dies with its worker. *)
LEMMA RequestKeeps ==
    ASSUME DoorsInv, NEW t \in Threads,
           (\E key \in Keys : Arrive(t, key)) \/ Remember(t) \/ Die(t)
    PROVE  DoorsInv'
<1>1. ASSUME NEW key \in Keys, NEW a \in Answers, Sent(key, a)
      PROVE  replies' \in [Keys -> SUBSET Answers]
  BY <1>1 DEF Sent, DoorsInv, Types
<1>2. ASSUME NEW key \in Keys, Arrive(t, key) PROVE DoorsInv'
  <2>1. CASE key \in DOMAIN cache
    <3>1. UNCHANGED <<impl, scene, shop, cache, call>> /\ Sent(key, cache[key])
      BY <1>2, <2>1 DEF Arrive
    <3>2. replies' \in [Keys -> SUBSET Answers]
      BY <1>1, <2>1, <3>1 DEF DoorsInv, Types
    <3>3. StepRight(t)' /\ call'[t].at # "code"
      BY <1>2, <3>1 DEF Arrive, StepRight, Idle
    <3> QED
      BY <3>1, <3>2, <3>3, ShopStays DEF DoorsInv, Types
  <2>2. CASE key \notin DOMAIN cache
    <3>1. /\ UNCHANGED <<impl, scene, shop, cache, replies>>
          /\ call' = [call EXCEPT ![t] = [key |-> key, at |-> "run", saw |-> 0, answer |-> "ok"]]
      BY <1>2, <2>2 DEF Arrive, Quiet
    <3>2. [key |-> key, at |-> "run", saw |-> 0, answer |-> "ok"] \in Calls
      BY DEF Calls, Steps, Answers
    <3>3. /\ call' \in [Threads -> Calls] /\ \A u \in Threads : u # t => call'[u] = call[u]
          /\ call'[t].at = "run" /\ call'[t].key = key
      BY <3>1, <3>2 DEF DoorsInv, Types
    <3>4. StepRight(t)'
      BY <3>3 DEF StepRight, Idle
    <3> QED
      BY <3>1, <3>3, <3>4, ShopStays DEF DoorsInv, Types
  <2> QED
    BY <2>1, <2>2
<1>3. CASE Remember(t)
  <2>1. call[t].key \in Keys /\ call[t].answer \in Answers
    BY <1>3 DEF Remember, DoorsInv, Types, StepRight, Idle, Calls
  <2>2. /\ DOMAIN cache' \subseteq Keys /\ \A k \in DOMAIN cache' : cache'[k] \in Answers
    BY <1>3, <2>1 DEF Remember, DoorsInv, Types
  <2>3. replies' \in [Keys -> SUBSET Answers]
    BY <1>1, <1>3, <2>1 DEF Remember
  <2>4. UNCHANGED <<impl, scene, shop>> /\ call' = [call EXCEPT ![t] = Quiet]
    BY <1>3 DEF Remember
  <2> QED
    BY <2>2, <2>3, <2>4, QuietStep, ShopStays DEF Quiet
<1>4. CASE Die(t)
  <2>1. UNCHANGED <<impl, scene, shop, cache, replies>> /\ call' = [call EXCEPT ![t] = Quiet]
    BY <1>4 DEF Die
  <2> QED
    BY <2>1, QuietStep, ShopStays DEF Quiet, DoorsInv, Types
<1> QED
  BY <1>2, <1>3, <1>4

CodeStates == {"none", "held", "consumed", "released"}

(* A step that moves goods and books, and takes nothing that is locked.     *)
LEMMA ShopMoves ==
    ASSUME DoorsInv, NEW t \in Threads, UNCHANGED <<impl, scene, cartOf, status, cache, replies>>,
           stock' \in [Skus -> Nat], counted' \in [Skus -> Int], book' \in [Orders -> Rows],
           code' \in [Orders -> CodeStates], uses' \in Int, impl # "fake" => uses' \in Nat,
           call' \in [Threads -> Calls], \A u \in Threads : u # t => call'[u] = call[u],
           call'[t].at # "code", StepRight(t)',
           \A u \in Threads : u # t /\ call[u].at = "code" =>
              \A k \in Skus : Goods(Of(u))[k] = 0 \/ stock'[k] >= stock[k]
    PROVE  DoorsInv'
<1>1. Types'
  BY DEF DoorsInv, Types, Calm, CodeStates
<1>2. Frame(t)
  BY DEF Frame
<1> QED
  BY <1>1, <1>2, FrameKeeps

LEMMA RunningKey ==
    ASSUME DoorsInv, NEW t \in Threads, NEW who, NEW door \in CodeDoors, Running(t, who, door)
    PROVE  /\ ~Idle(t) /\ call[t].at = "run" /\ call[t].key \in Keys /\ impl = who
           /\ call[t].key[1] = door /\ Of(t) \in Orders
<1>1. /\ ~Idle(t) /\ call[t].at = "run" /\ call[t].key \in Keys /\ impl = who
      /\ call[t].key[1] = door
  BY DEF Running, DoorsInv, StepRight, Idle
<1> QED
  BY <1>1, KeyKinds DEF Of

(* Goods are taken, while they are on the shelf and nobody else has them    *)
(* locked.                                                                  *)
LEMMA TakeKeeps ==
    ASSUME DoorsInv, NEW t \in Threads, ~Idle(t), call[t].at # "recount", Of(t) \in Orders,
           Enough(Of(t)), Less(Of(t)), Answer(t, "ok"),
           UNCHANGED <<impl, scene, counted, cartOf, status, cache, replies>>,
           book' \in [Orders -> Rows], code' \in [Orders -> CodeStates], uses' \in Int,
           impl # "fake" => uses' \in Nat,
           \A u \in Threads : u # t /\ call[u].at = "code" => Apart(Of(t), Of(u))
    PROVE  DoorsInv'
<1> DEFINE o == Of(t)
<1>1. Goods(o) \in [Skus -> Nat] /\ stock \in [Skus -> Nat] /\ counted \in [Skus -> Int]
  BY GoodsNat DEF DoorsInv, Types
<1>2. stock' \in [Skus -> Nat] /\ \A k \in Skus : Goods(o)[k] = 0 => stock'[k] = stock[k]
  BY <1>1 DEF Less, Enough
<1>3. \A u \in Threads : u # t /\ call[u].at = "code" =>
         \A k \in Skus : Goods(Of(u))[k] = 0 \/ stock'[k] >= stock[k]
  BY <1>1, <1>2 DEF Apart
<1>4. "ok" \in Answers
  BY DEF Answers
<1> QED
  BY <1>1, <1>2, <1>3, <1>4, AnswerStep, ShopMoves

(* A door answers and leaves the shop alone. *)
LEMMA JustAnswers ==
    ASSUME DoorsInv, NEW t \in Threads, ~Idle(t), call[t].at # "recount",
           NEW a \in Answers, Answer(t, a), UNCHANGED <<impl, scene, shop, cache, replies>>
    PROVE  DoorsInv'
BY AnswerStep, ShopStays DEF DoorsInv, Types

LEMMA BookTyped ==
    ASSUME DoorsInv, NEW o \in Orders, NEW field \in {"taken", "given"}, NEW n \in Nat,
           Book(o, field, n)
    PROVE  book' \in [Orders -> Rows]
BY DEF Book, DoorsInv, Types, Rows

(* The site and the plugin take goods alike; with a code they lock them     *)
(* first.                                                                   *)
LEMMA ReserveKeeps ==
    ASSUME DoorsInv, NEW t \in Threads, SiteReserve(t) \/ WooReserve(t)
    PROVE  DoorsInv'
<1> DEFINE o == Of(t)
<1>1. /\ Running(t, "site", "reserve") \/ Running(t, "woo", "reserve")
      /\ Unlocked(o)
      /\ \/ Answer(t, "sold-out") /\ UNCHANGED shop
         \/ Enough(o) /\ Coded(o) /\ Goto(t, "code", uses) /\ UNCHANGED shop
         \/ /\ Enough(o) /\ Less(o) /\ Book(o, "taken", 1) /\ Answer(t, "ok")
            /\ UNCHANGED <<counted, code, uses, cartOf, status>>
      /\ UNCHANGED <<impl, scene, cache, replies>>
  BY DEF SiteReserve, WooReserve
<1>2. /\ ~Idle(t) /\ call[t].at = "run" /\ call[t].key \in Keys /\ impl \in {"site", "woo"}
      /\ call[t].key[1] = "reserve" /\ o \in Orders
  BY <1>1, RunningKey DEF CodeDoors
<1>3. CASE Answer(t, "sold-out") /\ UNCHANGED shop
  BY <1>1, <1>2, <1>3, JustAnswers DEF Answers, Refusals
<1>4. CASE Enough(o) /\ Coded(o) /\ Goto(t, "code", uses) /\ UNCHANGED shop
  <2>1. uses \in Nat
    BY <1>2 DEF DoorsInv, Types
  <2>2. /\ call' \in [Threads -> Calls] /\ \A u \in Threads : u # t => call'[u] = call[u]
        /\ call'[t].at = "code" /\ call'[t].key = call[t].key
    BY <1>4, <2>1, GotoStep DEF Steps
  <2>3. StepRight(t)'
    BY <1>1, <1>2, <1>4, <2>2 DEF StepRight, Idle, Of, Coded, Enough, Goods, shop
  <2> QED
    BY <1>1, <1>4, <2>2, <2>3, ShopStays DEF DoorsInv, Types
<1>5. CASE /\ Enough(o) /\ Less(o) /\ Book(o, "taken", 1) /\ Answer(t, "ok")
           /\ UNCHANGED <<counted, code, uses, cartOf, status>>
  <2>1. book' \in [Orders -> Rows]
    BY <1>2, <1>5, BookTyped
  <2>2. \A u \in Threads : u # t /\ call[u].at = "code" => Apart(o, Of(u))
    BY <1>1 DEF Unlocked, Apart
  <2> QED
    BY <1>1, <1>2, <1>5, <2>1, <2>2, TakeKeeps DEF DoorsInv, Types, CodeStates
<1> QED
  BY <1>1, <1>3, <1>4, <1>5

LEMMA HoldCodeKeeps ==
    ASSUME DoorsInv, NEW t \in Threads, SiteHoldCode(t) \/ WooHoldCode(t)
    PROVE  DoorsInv'
<1> DEFINE o == Of(t)
<1>1. /\ call[t].at = "code"
      /\ \/ Answer(t, "code-invalid") /\ UNCHANGED shop
         \/ /\ Less(o) /\ Book(o, "taken", 1) /\ Answer(t, "ok")
            /\ code' = [code EXCEPT ![o] = "held"] /\ uses' \in {uses + 1, call[t].saw + 1}
            /\ UNCHANGED <<counted, cartOf, status>>
      /\ UNCHANGED <<impl, scene, cache, replies>>
  BY DEF SiteHoldCode, WooHoldCode
<1>2. /\ ~Idle(t) /\ call[t].key \in Keys /\ call[t].key[1] = "reserve" /\ Enough(o)
      /\ impl # "fake" /\ call[t].saw \in Nat
  BY <1>1 DEF DoorsInv, Types, StepRight, Idle, Calls
<1>3. o \in Orders
  BY <1>2, KeyKinds DEF Of, CodeDoors
<1>4. CASE Answer(t, "code-invalid") /\ UNCHANGED shop
  BY <1>1, <1>2, <1>4, JustAnswers DEF Answers, Refusals
<1>5. CASE /\ Less(o) /\ Book(o, "taken", 1) /\ Answer(t, "ok")
           /\ code' = [code EXCEPT ![o] = "held"] /\ uses' \in {uses + 1, call[t].saw + 1}
           /\ UNCHANGED <<counted, cartOf, status>>
  <2>1. book' \in [Orders -> Rows] /\ code' \in [Orders -> CodeStates] /\ uses' \in Nat
    BY <1>2, <1>3, <1>5, BookTyped DEF DoorsInv, Types, CodeStates
  <2>2. \A u \in Threads : u # t /\ call[u].at = "code" => Apart(o, Of(u))
    BY <1>1 DEF DoorsInv, Locks
  <2> QED
    BY <1>1, <1>2, <1>3, <1>5, <2>1, <2>2, TakeKeeps DEF DoorsInv, Types
<1> QED
  BY <1>1, <1>4, <1>5

LEMMA FakeReserveKeeps ==
    ASSUME DoorsInv, NEW t \in Threads, FakeReserve(t)
    PROVE  DoorsInv'
<1> DEFINE o == Of(t)
<1>1. /\ ~Idle(t) /\ call[t].at = "run" /\ call[t].key \in Keys /\ impl = "fake" /\ o \in Orders
  BY RunningKey DEF FakeReserve, CodeDoors
<1>2. CASE UNCHANGED shop
  BY <1>1, <1>2, JustAnswers DEF FakeReserve, Answers, Refusals
<1>3. CASE /\ Enough(o) /\ Less(o) /\ book' = [book EXCEPT ![o].taken = 1] /\ Answer(t, "ok")
           /\ \/ code' = [code EXCEPT ![o] = "held"] /\ uses' = uses + 1
              \/ UNCHANGED <<code, uses>>
           /\ UNCHANGED <<impl, scene, counted, cartOf, status, cache, replies>>
  <2>1. book' \in [Orders -> Rows]
    <3>1. book \in [Orders -> Rows]
      BY DEF DoorsInv, Types
    <3> QED
      BY <1>3, <3>1 DEF Rows
  <2>2. code' \in [Orders -> CodeStates] /\ uses' \in Int
    <3>1. code \in [Orders -> CodeStates] /\ uses \in Int
      BY DEF DoorsInv, Types, CodeStates
    <3> QED
      BY <1>3, <3>1 DEF CodeStates
  <2>3. \A u \in Threads : call[u].at # "code"
    BY <1>1 DEF DoorsInv, StepRight
  <2> QED
    BY <1>1, <1>3, <2>1, <2>2, <2>3, TakeKeeps
<1> QED
  BY <1>2, <1>3 DEF FakeReserve

(* Goods come back: the shelf only gains.                                   *)
LEMMA GainKeeps ==
    ASSUME DoorsInv, NEW t \in Threads, ~Idle(t), call[t].at # "recount",
           NEW a \in Answers, Answer(t, a),
           stock' \in [Skus -> Nat], \A k \in Skus : stock'[k] >= stock[k],
           counted' \in [Skus -> Int], book' \in [Orders -> Rows],
           code' \in [Orders -> CodeStates], uses' \in Int, impl # "fake" => uses' \in Nat,
           UNCHANGED <<impl, scene, cartOf, status, cache, replies>>
    PROVE  DoorsInv'
BY AnswerStep, ShopMoves

LEMMA MoreTyped ==
    ASSUME DoorsInv, NEW o \in Orders, NEW n \in Nat, More(o, n)
    PROVE  stock' \in [Skus -> Nat] /\ \A k \in Skus : stock'[k] >= stock[k]
<1>1. stock \in [Skus -> Nat] /\ Goods(o) \in [Skus -> Nat]
  BY GoodsNat DEF DoorsInv, Types
<1>2. \A k \in Skus : n * Goods(o)[k] \in Nat
  <2>1. \A a, b \in Nat : a * b \in Nat
    OBVIOUS
  <2> QED
    BY <1>1, <2>1
<1> QED
  BY <1>1, <1>2 DEF More

LEMMA CommitKeeps ==
    ASSUME DoorsInv, NEW t \in Threads,
           SiteCommit(t) \/ WooCommitWrite(t) \/ FakeCommit(t)
    PROVE  DoorsInv'
<1> DEFINE o == Of(t)
<1>1. /\ ~Idle(t) /\ call[t].at # "recount" /\ o \in Orders
      /\ UNCHANGED <<impl, scene, stock, counted, uses, cartOf, status, cache, replies>>
  <2>1. CASE SiteCommit(t)
    BY <2>1, RunningKey DEF SiteCommit, CodeDoors
  <2>2. CASE FakeCommit(t)
    BY <2>2, RunningKey DEF FakeCommit, CodeDoors
  <2>3. CASE WooCommitWrite(t)
    <3>1. call[t].at = "sell" /\ call[t].key \in Keys /\ call[t].key[1] = "commit"
      BY <2>3 DEF WooCommitWrite, DoorsInv, StepRight, Idle
    <3> QED
      BY <2>3, <3>1, KeyKinds DEF WooCommitWrite, Idle, Of, CodeDoors
  <2> QED
    BY <2>1, <2>2, <2>3
<1>2. PICK a \in Answers : Answer(t, a)
  BY DEF SiteCommit, WooCommitWrite, FakeCommit, Answers, Refusals
<1>3. book' \in [Orders -> Rows]
  <2>1. book \in [Orders -> Rows] /\ book[o].sold + book[o].taken \in Nat
    BY <1>1 DEF DoorsInv, Types, Rows
  <2>2. \/ UNCHANGED book
        \/ book' = [book EXCEPT ![o].taken = 0]
        \/ book' = [book EXCEPT ![o].sold = book[o].sold + book[o].taken, ![o].taken = 0]
    BY <2>1 DEF SiteCommit, WooCommitWrite, FakeCommit
  <2> QED
    BY <2>1, <2>2 DEF Rows
<1>4. code' \in [Orders -> CodeStates]
  <2>1. code \in [Orders -> CodeStates]
    BY DEF DoorsInv, Types, CodeStates
  <2>2. \/ UNCHANGED code
        \/ code' = [code EXCEPT ![o] = IF @ = "held" THEN "consumed" ELSE @]
    BY DEF SiteCommit, WooCommitWrite, FakeCommit
  <2> QED
    BY <2>1, <2>2 DEF CodeStates
<1> QED
  BY <1>1, <1>2, <1>3, <1>4, GainKeeps DEF DoorsInv, Types

LEMMA ReadKeeps ==
    ASSUME DoorsInv, NEW t \in Threads,
           SiteReleaseRead(t) \/ WooReleaseRead(t) \/ WooCommitRead(t)
    PROVE  DoorsInv'
<1> DEFINE o == Of(t)
<1>1. /\ ~Idle(t) /\ call[t].at = "run" /\ o \in Orders
      /\ call[t].key \in Keys
      /\ UNCHANGED <<impl, scene, shop, cache, replies>>
      /\ \/ impl \in {"site", "woo"} /\ call[t].key[1] = "release"
         \/ impl = "woo" /\ call[t].key[1] = "commit"
  BY RunningKey DEF SiteReleaseRead, WooReleaseRead, WooCommitRead, CodeDoors
<1>2. \/ \E a \in Answers : Answer(t, a)
      \/ call[t].key[1] = "release" /\ Goto(t, "give", book[o].taken)
      \/ call[t].key[1] = "commit" /\ Goto(t, "sell", 0)
  BY DEF SiteReleaseRead, WooReleaseRead, WooCommitRead, Running, Answers, Refusals
<1>3. CASE \E a \in Answers : Answer(t, a)
  BY <1>1, <1>3, JustAnswers
<1>4. CASE call[t].key[1] = "release" /\ Goto(t, "give", book[o].taken)
  <2>1. book[o].taken \in Nat
    BY <1>1 DEF DoorsInv, Types, Rows
  <2>2. /\ call' \in [Threads -> Calls] /\ \A u \in Threads : u # t => call'[u] = call[u]
        /\ call'[t].at = "give" /\ call'[t].key = call[t].key
    BY <1>4, <2>1, GotoStep DEF Steps
  <2>3. StepRight(t)'
    BY <1>1, <1>4, <2>2 DEF StepRight, Idle
  <2> QED
    BY <1>1, <2>2, <2>3, ShopStays DEF DoorsInv, Types
<1>5. CASE call[t].key[1] = "commit" /\ Goto(t, "sell", 0)
  <2>1. /\ call' \in [Threads -> Calls] /\ \A u \in Threads : u # t => call'[u] = call[u]
        /\ call'[t].at = "sell" /\ call'[t].key = call[t].key
    BY <1>5, GotoStep DEF Steps
  <2>2. StepRight(t)'
    BY <1>1, <1>5, <2>1 DEF StepRight, Idle
  <2> QED
    BY <1>1, <2>1, <2>2, ShopStays DEF DoorsInv, Types
<1> QED
  BY <1>2, <1>3, <1>4, <1>5

LEMMA GiveKeeps ==
    ASSUME DoorsInv, NEW t \in Threads, SiteReleaseGive(t) \/ WooReleaseGive(t)
    PROVE  DoorsInv'
<1> DEFINE o == Of(t)
<1>1. /\ call[t].at = "give" /\ impl \in {"site", "woo"} /\ More(o, call[t].saw)
      /\ Answer(t, "ok") /\ UNCHANGED <<impl, scene, counted, cartOf, status, cache, replies>>
  BY DEF SiteReleaseGive, WooReleaseGive
<1>2. /\ ~Idle(t) /\ call[t].saw \in Nat /\ call[t].key \in Keys /\ call[t].key[1] = "release"
  BY <1>1 DEF DoorsInv, Types, StepRight, Idle, Calls
<1>3. o \in Orders
  BY <1>2, KeyKinds DEF Of, CodeDoors
<1>4. stock' \in [Skus -> Nat] /\ \A k \in Skus : stock'[k] >= stock[k]
  BY <1>1, <1>2, <1>3, MoreTyped
<1>5. book' \in [Orders -> Rows]
  <2>1. /\ book \in [Orders -> Rows]
        /\ book[o].given + call[t].saw \in Nat /\ book[o].given + book[o].taken \in Nat
    BY <1>2, <1>3 DEF DoorsInv, Types, Rows
  <2>2. \/ book' = [book EXCEPT ![o].given = book[o].given + call[t].saw]
        \/ book' = [book EXCEPT ![o].given = book[o].given + book[o].taken, ![o].taken = 0]
    BY <2>1 DEF SiteReleaseGive, WooReleaseGive, Book
  <2> QED
    BY <2>1, <2>2 DEF Rows
<1>6. code' \in [Orders -> CodeStates] /\ uses' \in Nat
  <2>1. code \in [Orders -> CodeStates] /\ uses \in Nat /\ book[o] \in Rows
    BY <1>1, <1>3 DEF DoorsInv, Types, CodeStates
  <2>2. book[o].taken + book[o].sold + book[o].given \in Nat
    BY <2>1 DEF Rows
  <2>3. CASE SiteReleaseGive(t)
    BY <2>1, <2>3 DEF SiteReleaseGive, CodeStates
  <2>4. CASE WooReleaseGive(t)
    BY <2>1, <2>2, <2>4 DEF WooReleaseGive, CodeStates
  <2> QED
    BY <2>3, <2>4
<1> QED
  BY <1>1, <1>2, <1>4, <1>5, <1>6, GainKeeps DEF DoorsInv, Types, Answers

LEMMA RestockKeeps ==
    ASSUME DoorsInv, NEW t \in Threads, SiteRestock(t) \/ WooRestock(t) \/ FakeRestock(t)
    PROVE  DoorsInv'
<1> DEFINE o == Of(t)
<1>1. /\ ~Idle(t) /\ call[t].at # "recount" /\ o \in Orders /\ ComesBack(o) /\ Answer(t, "ok")
      /\ UNCHANGED <<impl, scene, book, code, uses, cartOf, status, cache, replies>>
  BY RunningKey DEF SiteRestock, WooRestock, FakeRestock, CodeDoors
<1>2. /\ stock' \in [Skus -> Nat] /\ \A k \in Skus : stock'[k] >= stock[k]
      /\ counted' \in [Skus -> Int]
  BY <1>1, GoodsNat DEF ComesBack, DoorsInv, Types
<1> QED
  BY <1>1, <1>2, GainKeeps DEF DoorsInv, Types, Answers, CodeStates

LEMMA FakeReleaseKeeps ==
    ASSUME DoorsInv, NEW t \in Threads, FakeRelease(t)
    PROVE  DoorsInv'
<1> DEFINE o == Of(t)
<1>1. /\ ~Idle(t) /\ call[t].at = "run" /\ call[t].key \in Keys /\ impl = "fake" /\ o \in Orders
  BY RunningKey DEF FakeRelease, CodeDoors
<1>2. CASE book[o].taken = 0
  BY <1>1, <1>2, JustAnswers DEF FakeRelease, Answers, Refusals, shop
<1>3. CASE book[o].taken # 0
  <2>1. stock' \in [Skus -> Nat] /\ \A k \in Skus : stock'[k] >= stock[k]
    BY <1>1, <1>3, MoreTyped DEF FakeRelease
  <2>2. book' \in [Orders -> Rows]
    <3>1. book \in [Orders -> Rows] /\ book' = [book EXCEPT ![o].taken = 0]
      BY <1>3 DEF DoorsInv, Types, FakeRelease
    <3> QED
      BY <3>1 DEF Rows
  <2>3. code' \in [Orders -> CodeStates] /\ uses' \in Int
    BY <1>3 DEF FakeRelease, DoorsInv, Types, CodeStates
  <2> QED
    BY <1>1, <1>3, <2>1, <2>2, <2>3, GainKeeps DEF FakeRelease, DoorsInv, Types, Answers
<1> QED
  BY <1>2, <1>3

(* Doors 7 and 8. *)
LEMMA CreateKeeps ==
    ASSUME DoorsInv, NEW t \in Threads, Create(t)
    PROVE  DoorsInv'
<1>1. /\ ~Idle(t) /\ call[t].at = "run" /\ call[t].key \in Keys
      /\ call[t].key[1] = "orders.create" /\ Of(t) \in Carts
      /\ UNCHANGED <<impl, scene, cache, replies>>
  <2>1. call[t].key \in Keys
    BY DEF Create, DoorsInv, StepRight, Idle
  <2> QED
    BY <2>1, KeyKinds DEF Create, Idle, Of
<1>2. CASE Answer(t, "destination-unserviceable") /\ UNCHANGED shop
  BY <1>1, <1>2, JustAnswers DEF Answers, Refusals
<1>3. ASSUME NEW o \in Orders, cartOf[o] = NoCart, Answer(t, o),
             cartOf' = [cartOf EXCEPT ![o] = Of(t)], status' = [status EXCEPT ![o] = "pending"],
             UNCHANGED <<stock, counted, book, code, uses>>
      PROVE  DoorsInv'
  <2>1. /\ call' \in [Threads -> Calls] /\ \A u \in Threads : u # t => call'[u] = call[u]
        /\ call'[t].at = "remember" /\ StepRight(t)'
    BY <1>1, <1>3, AnswerStep DEF Answers
  <2>2. Types'
    BY <1>1, <1>3, <2>1 DEF DoorsInv, Types, Calm
  <2>3. Frame(t)
    <3>1. \A k \in Skus : stock'[k] >= stock[k]
      BY <1>3 DEF DoorsInv, Types
    <3>2. \A p \in Orders : cartOf[p] # NoCart => cartOf'[p] = cartOf[p]
      BY <1>3 DEF DoorsInv, Types
    <3> QED
      BY <1>1, <2>1, <3>1, <3>2 DEF Frame
  <2> QED
    BY <2>1, <2>2, <2>3, FrameKeeps
<1> QED
  BY <1>1, <1>2, <1>3 DEF Create

(* The woo shop says what it was told: no status is lost on the way there   *)
(* and back.                                                                *)
LEMMA RoundTrip ==
    ASSUME NEW to \in Targets
    PROVE  TraitStatus(ToWC(to), to) = to
BY DoorsAssumption DEF TraitStatus, ToWC

LEMMA SetStatusSets ==
    ASSUME DoorsInv, NEW t \in Threads, SetStatus(t)
    PROVE  /\ ~Idle(t) /\ call[t].at = "run" /\ call[t].key \in Keys
           /\ call[t].key[1] = "orders.set-status" /\ Of(t) \in Orders /\ call[t].key[3] \in Targets
           /\ UNCHANGED <<impl, scene, stock, counted, book, code, uses, cartOf, cache, replies>>
           /\ \/ cartOf[Of(t)] = NoCart /\ Answer(t, "not-found") /\ UNCHANGED status
              \/ /\ cartOf[Of(t)] # NoCart /\ Goto(t, "read", 0)
                 /\ status' = [status EXCEPT ![Of(t)] = call[t].key[3]]
<1>1. call[t].key \in Keys /\ ~Idle(t) /\ call[t].at = "run" /\ call[t].key[1] = "orders.set-status"
  BY DEF SetStatus, DoorsInv, StepRight, Idle
<1>2. Of(t) \in Orders /\ call[t].key[3] \in Targets
  BY <1>1, KeyKinds DEF Of
<1> QED
  BY <1>1, <1>2, RoundTrip DEF SetStatus

LEMMA SetStatusKeeps ==
    ASSUME DoorsInv, NEW t \in Threads, SetStatus(t)
    PROVE  DoorsInv'
<1> DEFINE o == Of(t)
           to == call[t].key[3]
<1>1. /\ ~Idle(t) /\ call[t].at = "run" /\ call[t].key \in Keys
      /\ call[t].key[1] = "orders.set-status" /\ o \in Orders /\ to \in Targets
      /\ UNCHANGED <<impl, scene, stock, counted, book, code, uses, cartOf, cache, replies>>
      /\ \/ Answer(t, "not-found") /\ UNCHANGED status
         \/ /\ cartOf[o] # NoCart /\ Goto(t, "read", 0)
            /\ status' = [status EXCEPT ![o] = to]
  BY SetStatusSets
<1>2. CASE Answer(t, "not-found") /\ UNCHANGED status
  BY <1>1, <1>2, JustAnswers DEF Answers, Refusals, shop
<1>3. CASE /\ cartOf[o] # NoCart /\ Goto(t, "read", 0) /\ status' = [status EXCEPT ![o] = to]
  <2>1. /\ call' \in [Threads -> Calls] /\ \A u \in Threads : u # t => call'[u] = call[u]
        /\ call'[t].at = "read" /\ call'[t].key = call[t].key
    BY <1>3, GotoStep DEF Steps
  <2>2. to # "absent"
    BY <1>1, DoorsAssumption
  <2>3. Types'
    BY <1>1, <1>3, <2>1, <2>2 DEF DoorsInv, Types, Calm
  <2>4. StepRight(t)'
    BY <1>1, <1>3, <2>1 DEF StepRight, Idle, Of
  <2>5. Frame(t)
    <3>1. \A k \in Skus : stock'[k] >= stock[k]
      BY <1>1 DEF DoorsInv, Types
    <3> QED
      BY <1>1, <2>1, <3>1 DEF Frame
  <2> QED
    BY <2>3, <2>4, <2>5, FrameKeeps
<1> QED
  BY <1>1, <1>2, <1>3

LEMMA ReadBackKeeps ==
    ASSUME DoorsInv, NEW t \in Threads, ReadBack(t)
    PROVE  DoorsInv'
<1>1. /\ ~Idle(t) /\ call[t].key \in Keys /\ call[t].key[1] = "orders.set-status"
      /\ cartOf[Of(t)] # NoCart /\ call[t].at # "recount"
  BY DEF ReadBack, DoorsInv, StepRight, Idle
<1>2. Of(t) \in Orders
  BY <1>1, KeyKinds DEF Of
<1>3. status[Of(t)] \in Answers
  BY <1>1, <1>2 DEF DoorsInv, Types, Answers
<1> QED
  BY <1>1, <1>3, JustAnswers DEF ReadBack

(* A stock-taking. *)
LEMMA RecountReadKeeps ==
    ASSUME DoorsInv, NEW t \in Threads, NEW k \in Skus, NEW n \in Counts, RecountRead(t, k, n)
    PROVE  DoorsInv'
<1> DEFINE key == <<"recount", k, n>>
           c == [Quiet EXCEPT !.key = key, !.at = "recount", !.saw = stock[k]]
<1>1. Quiet \in Calls /\ stock[k] \in Nat /\ key \in RecountKeys
  BY DEF Quiet, Calls, RecountKeys, Steps, Answers, DoorsInv, Types
<1>2. /\ call' = [call EXCEPT ![t] = c] /\ impl = "site"
      /\ UNCHANGED <<impl, scene, shop, cache, replies>>
  BY DEF RecountRead
<1> HIDE DEF key
<1>3. c \in Calls /\ c.key = key /\ c.at = "recount"
  BY <1>1 DEF Calls, Steps
<1> HIDE DEF c
<1>4. /\ call' \in [Threads -> Calls] /\ \A u \in Threads : u # t => call'[u] = call[u]
      /\ call'[t] = c
  BY <1>2, <1>3 DEF DoorsInv, Types
<1>5. StepRight(t)'
  BY <1>1, <1>2, <1>3, <1>4 DEF StepRight, Idle
<1> QED
  BY <1>2, <1>3, <1>4, <1>5, ShopStays DEF DoorsInv, Types

LEMMA RecountWriteKeeps ==
    ASSUME DoorsInv, NEW t \in Threads, RecountWrite(t)
    PROVE  DoorsInv'
<1> DEFINE k == Of(t)
           n == call[t].key[3]
<1>1. /\ call[t].at = "recount" /\ call[t].key \in RecountKeys /\ call[t].saw \in Nat
      /\ stock' = [stock EXCEPT ![k] = n]
      /\ counted' = [counted EXCEPT ![k] = @ + n - call[t].saw]
      /\ UNCHANGED <<impl, scene, book, code, uses, cartOf, status, cache, replies>>
  BY DEF RecountWrite, DoorsInv, Types, StepRight, Calls
<1>2. k \in Skus /\ n \in Nat
  BY <1>1, DoorsAssumption DEF RecountKeys, Of
<1>3. stock' \in [Skus -> Nat] /\ counted' \in [Skus -> Int]
  BY <1>1, <1>2 DEF DoorsInv, Types
<1>4. \A u \in Threads : u # t /\ call[u].at = "code" =>
         \A i \in Skus : Goods(Of(u))[i] = 0 \/ stock'[i] >= stock[i]
  BY <1>1, <1>2 DEF RecountWrite, DoorsInv, Types
<1> QED
  <2>1. /\ call' \in [Threads -> Calls] /\ \A u \in Threads : u # t => call'[u] = call[u]
        /\ call'[t].at # "code" /\ StepRight(t)'
    BY QuietStep DEF RecountWrite, Quiet
  <2>2. /\ book' \in [Orders -> Rows] /\ code' \in [Orders -> CodeStates]
        /\ uses' \in Int /\ (impl # "fake" => uses' \in Nat)
    BY <1>1 DEF DoorsInv, Types, CodeStates
  <2> QED
    BY <1>1, <1>3, <1>4, <2>1, <2>2, ShopMoves

LEMMA DoorsInitially == ASSUME Init PROVE DoorsInv
<1>1. stock \in [Skus -> Nat] /\ counted \in [Skus -> Int]
  <2>1. stock \in [Skus -> Counts] /\ counted = stock
    BY DEF Init
  <2>2. \A k \in Skus : stock[k] \in Nat
    BY <2>1, DoorsAssumption
  <2> QED
    BY <2>1, <2>2
<1>2. Quiet \in Calls
  BY DEF Quiet, Calls, Steps, Answers
<1>3. Types
  BY <1>1, <1>2 DEF Init, Types, NoRows, Rows
<1> QED
  BY <1>3 DEF Init, DoorsInv, StepRight, Idle, Locks, Quiet

LEMMA DoorsStep == DoorsInv /\ [Next]_vars => DoorsInv'
<1> SUFFICES ASSUME DoorsInv, [Next]_vars PROVE DoorsInv'
  OBVIOUS
<1>1. CASE UNCHANGED vars
  BY <1>1 DEF vars, shop, DoorsInv, Types, StepRight, Locks, Apart, Goods, Of, Idle, Coded, Enough, Calm
<1>2. ASSUME NEW t \in Threads,
             \/ \E key \in Keys : Arrive(t, key)
             \/ Remember(t) \/ Die(t)
      PROVE  DoorsInv'
  BY <1>2, RequestKeeps
<1>3. ASSUME NEW t \in Threads,
             \/ SiteReserve(t) \/ SiteHoldCode(t) \/ SiteCommit(t)
             \/ SiteReleaseRead(t) \/ SiteReleaseGive(t) \/ SiteRestock(t)
      PROVE  DoorsInv'
  BY <1>3, ReserveKeeps, HoldCodeKeeps, CommitKeeps, ReadKeeps, GiveKeeps, RestockKeeps
<1>4. ASSUME NEW t \in Threads,
             \/ WooReserve(t) \/ WooHoldCode(t) \/ WooCommitRead(t) \/ WooCommitWrite(t)
             \/ WooReleaseRead(t) \/ WooReleaseGive(t) \/ WooRestock(t)
      PROVE  DoorsInv'
  BY <1>4, ReserveKeeps, HoldCodeKeeps, CommitKeeps, ReadKeeps, GiveKeeps, RestockKeeps
<1>5. ASSUME NEW t \in Threads,
             FakeReserve(t) \/ FakeCommit(t) \/ FakeRelease(t) \/ FakeRestock(t)
      PROVE  DoorsInv'
  BY <1>5, FakeReserveKeeps, CommitKeeps, FakeReleaseKeeps, RestockKeeps
<1>6. ASSUME NEW t \in Threads, Create(t) \/ SetStatus(t) \/ ReadBack(t)
      PROVE  DoorsInv'
  BY <1>6, CreateKeeps, SetStatusKeeps, ReadBackKeeps
<1>7. ASSUME NEW t \in Threads,
             (\E k \in Skus, n \in Counts : RecountRead(t, k, n)) \/ RecountWrite(t)
      PROVE  DoorsInv'
  BY <1>7, RecountReadKeeps, RecountWriteKeeps
<1> QED
  BY <1>1, <1>2, <1>3, <1>4, <1>5, <1>6, <1>7 DEF Next

-----------------------------------------------------------------------------
(* The site's ration: the index lets one order hold the code, and the count *)
(* follows the rows, in every scene.                                        *)

Spent == {o \in Orders : code[o] \in {"held", "consumed"}}
SiteRation ==
    impl = "site" => /\ \A o, p \in Orders : code[o] = "held" /\ code[p] = "held" => o = p
                     /\ uses = Cardinality(Spent)

-----------------------------------------------------------------------------
(* One request at a time.                                                   *)

ReserveOf(o) == <<"reserve", o, "-">>
Saying(key, a) == key[1] = "orders.set-status" => a \in {key[3], "not-found"}
Begun(o) ==
    \/ ReserveOf(o) \in DOMAIN cache
    \/ \E t \in Threads : call[t].at = "remember" /\ call[t].key = ReserveOf(o)

Alone == \A t, u \in Threads : ~Idle(t) /\ ~Idle(u) => t = u

(* The answers: a key that is being worked on has none yet, and what door 8 *)
(* says is what it was told.                                                *)
Answering ==
    /\ \A t \in Threads : ~Idle(t) => call[t].key \notin DOMAIN cache
    /\ \A key \in Keys : replies[key] \subseteq IF key \in DOMAIN cache THEN {cache[key]} ELSE {}
    /\ \A key \in DOMAIN cache : Saying(key, cache[key])
    /\ \A t \in Threads : /\ call[t].at = "remember" => Saying(call[t].key, call[t].answer)
                          /\ call[t].at = "read" => status[Of(t)] = call[t].key[3]

(* The rows: a reserve runs once for an order, so its goods are taken once. *)
RowsRight(o) ==
    /\ Begun(o) \/ (book[o] = NoRows /\ code[o] = "none")
    /\ book[o] # NoRows => cartOf[o] # NoCart
    /\ impl = "site" => book[o].sold = 0 /\ book[o].given <= book[o].taken /\ book[o].taken <= 1
    /\ impl = "woo" => book[o].taken + book[o].sold + book[o].given <= 1

(* What a worker has read is still so. *)
SeenRight(t) ==
    /\ ~Idle(t) /\ call[t].key[1] = "reserve" => cartOf[Of(t)] # NoCart
    /\ call[t].at = "code" => call[t].saw = uses
    /\ call[t].at = "give" => /\ call[t].saw = 1 /\ book[Of(t)].taken = 1
                              /\ book[Of(t)].given = 0 /\ book[Of(t)].sold = 0
    /\ call[t].at = "sell" => book[Of(t)].taken = 1 /\ book[Of(t)].given = 0 /\ book[Of(t)].sold = 0
    /\ call[t].at = "recount" => call[t].saw = stock[Of(t)]

Ration ==
    /\ (impl = "woo" => MaxUses > 0) => uses <= MaxUses
    /\ impl = "fake" => uses = Cardinality({o \in Orders : code[o] = "held"})

Serial ==
    Calm => /\ Alone /\ Answering
            /\ \A o \in Orders : RowsRight(o)
            /\ \A t \in Threads : SeenRight(t)
            /\ Ration

FullInv == DoorsInv /\ SiteRation /\ Serial
LEMMA SerialInitially == ASSUME Init PROVE SiteRation /\ Serial
<1>1. \A t \in Threads : Idle(t)
  BY DEF Init, Idle, Quiet
<1>2. \A o \in Orders : book[o] = NoRows /\ code[o] = "none"
  BY DEF Init
<1>3. {o \in Orders : code[o] = "held"} = {} /\ Spent = {}
  BY <1>2 DEF Spent
<1>4. uses = 0 /\ Cardinality({}) = 0 /\ MaxUses \in Nat
  BY FS_EmptySet, DoorsAssumption DEF Init
<1>5. SiteRation /\ Ration
  BY <1>2, <1>3, <1>4 DEF SiteRation, Ration
<1>6. \A o \in Orders : RowsRight(o)
  BY <1>2 DEF RowsRight, NoRows
<1>7. Answering
  BY <1>1 DEF Init, Answering, Idle
<1> QED
  BY <1>1, <1>5, <1>6, <1>7 DEF Serial, Alone, SeenRight, Idle

(* The code's count. *)
LEMMA SpentFinite == IsFiniteSet(Spent) /\ \A S \in SUBSET Orders : IsFiniteSet(S)
BY FS_Subset, DoorsAssumption DEF Spent

LEMMA CountUp ==
    ASSUME NEW S \in SUBSET Orders, NEW o \in Orders, o \notin S
    PROVE  Cardinality(S \cup {o}) = Cardinality(S) + 1
BY SpentFinite, FS_AddElement

LEMMA CountDown ==
    ASSUME NEW S \in SUBSET Orders, NEW o \in S
    PROVE  /\ Cardinality(S \ {o}) = Cardinality(S) - 1
           /\ Cardinality(S) \in Nat /\ Cardinality(S) > 0
<1>1. /\ IsFiniteSet(S) /\ Cardinality(S) \in Nat /\ IsFiniteSet(S \ {o})
      /\ Cardinality(S \ {o}) \in Nat
  BY SpentFinite, FS_CardinalityType
<1>2. Cardinality(S \ {o}) = Cardinality(S) - 1
  BY <1>1, FS_RemoveElement
<1> QED
  BY <1>1, <1>2

LEMMA ShopOfOneKind == ASSUME [Next]_vars PROVE impl' = impl /\ scene' = scene
<1>1. CASE UNCHANGED vars
  BY <1>1 DEF vars
<1>2. ASSUME NEW t \in Threads, Remember(t) \/ Die(t) \/ \E key \in Keys : Arrive(t, key)
      PROVE  impl' = impl /\ scene' = scene
  BY <1>2 DEF Remember, Die, Arrive
<1>3. ASSUME NEW t \in Threads,
             \/ SiteReserve(t) \/ SiteHoldCode(t) \/ SiteCommit(t)
             \/ SiteReleaseRead(t) \/ SiteReleaseGive(t) \/ SiteRestock(t)
      PROVE  impl' = impl /\ scene' = scene
  BY <1>3 DEF SiteReserve, SiteHoldCode, SiteCommit, SiteReleaseRead, SiteReleaseGive, SiteRestock
<1>4. ASSUME NEW t \in Threads,
             \/ WooReserve(t) \/ WooHoldCode(t) \/ WooCommitRead(t) \/ WooCommitWrite(t)
             \/ WooReleaseRead(t) \/ WooReleaseGive(t) \/ WooRestock(t)
      PROVE  impl' = impl /\ scene' = scene
  BY <1>4 DEF WooReserve, WooHoldCode, WooCommitRead, WooCommitWrite, WooReleaseRead,
              WooReleaseGive, WooRestock
<1>5. ASSUME NEW t \in Threads,
             FakeReserve(t) \/ FakeCommit(t) \/ FakeRelease(t) \/ FakeRestock(t)
      PROVE  impl' = impl /\ scene' = scene
  BY <1>5 DEF FakeReserve, FakeCommit, FakeRelease, FakeRestock
<1>6. ASSUME NEW t \in Threads,
             \/ Create(t) \/ SetStatus(t) \/ ReadBack(t) \/ RecountWrite(t)
             \/ \E k \in Skus, n \in Counts : RecountRead(t, k, n)
      PROVE  impl' = impl /\ scene' = scene
  BY <1>6 DEF Create, SetStatus, ReadBack, RecountRead, RecountWrite
<1> QED
  BY <1>1, <1>2, <1>3, <1>4, <1>5, <1>6 DEF Next

LEMMA RationStep == ASSUME DoorsInv, SiteRation, [Next]_vars PROVE SiteRation'
<1> SUFFICES ASSUME impl = "site", impl' = "site" PROVE SiteRation'
  <2>1. impl' = impl
    BY ShopOfOneKind
  <2> QED
    BY <2>1 DEF SiteRation
<1>1. code \in [Orders -> CodeStates] /\ uses \in Nat
  BY DEF DoorsInv, Types, CodeStates
<1>2. CASE UNCHANGED <<code, uses>>
  BY <1>2 DEF SiteRation, Spent
<1>3. ASSUME NEW t \in Threads, SiteHoldCode(t), ~UNCHANGED <<code, uses>> PROVE SiteRation'
  <2> DEFINE o == Of(t)
  <2>1. /\ code[o] = "none" /\ \A p \in Orders : code[p] # "held"
        /\ code' = [code EXCEPT ![o] = "held"] /\ uses' = uses + 1
    BY <1>3 DEF SiteHoldCode, shop
  <2>2. o \in Orders
    <3>1. call[t].key \in Keys /\ call[t].key[1] = "reserve"
      BY <1>3 DEF SiteHoldCode, DoorsInv, StepRight, Idle
    <3> QED
      BY <3>1, KeyKinds DEF Of, CodeDoors
  <2>3. Spent' = Spent \cup {o} /\ o \notin Spent /\ Spent \in SUBSET Orders
    BY <1>1, <2>1, <2>2 DEF Spent
  <2>4. uses' = Cardinality(Spent')
    BY <2>1, <2>2, <2>3, CountUp DEF SiteRation
  <2> QED
    BY <1>1, <2>1, <2>2, <2>4 DEF SiteRation
<1>4. ASSUME NEW t \in Threads, SiteCommit(t) PROVE SiteRation'
  <2> DEFINE o == Of(t)
  <2>1. /\ uses' = uses
        /\ \/ code' = code
           \/ code' = [code EXCEPT ![o] = IF @ = "held" THEN "consumed" ELSE @]
    BY <1>4 DEF SiteCommit
  <2>2. Spent' = Spent /\ \A p \in Orders : code'[p] = "held" => code[p] = "held"
    BY <1>1, <2>1 DEF Spent
  <2> QED
    BY <2>1, <2>2 DEF SiteRation
<1>5. ASSUME NEW t \in Threads, SiteReleaseGive(t), ~UNCHANGED <<code, uses>> PROVE SiteRation'
  <2> DEFINE o == Of(t)
  <2>1. /\ code[o] = "held" /\ code' = [code EXCEPT ![o] = "released"]
        /\ uses' = IF uses > 0 THEN uses - 1 ELSE 0
    BY <1>5 DEF SiteReleaseGive
  <2>2. o \in Orders
    <3>1. call[t].key \in Keys /\ call[t].key[1] = "release"
      BY <1>5 DEF SiteReleaseGive, DoorsInv, StepRight, Idle
    <3> QED
      BY <3>1, KeyKinds DEF Of, CodeDoors
  <2>3. Spent' = Spent \ {o} /\ o \in Spent /\ Spent \in SUBSET Orders
    BY <1>1, <2>1, <2>2 DEF Spent
  <2>4. uses' = Cardinality(Spent')
    BY <2>1, <2>3, CountDown DEF SiteRation
  <2> QED
    BY <1>1, <2>1, <2>2, <2>4 DEF SiteRation
<1>6. ASSUME NEW t \in Threads,
             WooCommitWrite(t) \/ (\E k \in Skus, n \in Counts : RecountRead(t, k, n))
               \/ RecountWrite(t)
      PROVE  SiteRation'
  BY <1>2, <1>6 DEF WooCommitWrite, RecountRead, RecountWrite, shop, DoorsInv, StepRight
<1>7. ASSUME NEW t \in Threads,
             \/ Remember(t) \/ Die(t) \/ Create(t) \/ SetStatus(t) \/ ReadBack(t)
             \/ \E key \in Keys : Arrive(t, key)
      PROVE  UNCHANGED <<code, uses>>
  BY <1>7 DEF Remember, Die, Arrive, Create, SetStatus, ReadBack, shop
<1>8. ASSUME NEW t \in Threads, SiteReserve(t) \/ SiteReleaseRead(t) \/ SiteRestock(t)
      PROVE  UNCHANGED <<code, uses>>
  BY <1>8 DEF SiteReserve, SiteReleaseRead, SiteRestock, shop
<1>9. ASSUME NEW t \in Threads,
             \/ WooReserve(t) \/ WooHoldCode(t) \/ WooCommitRead(t) \/ WooReleaseRead(t)
             \/ WooReleaseGive(t) \/ WooRestock(t)
      PROVE  FALSE
  BY <1>9 DEF WooReserve, WooHoldCode, WooCommitRead, WooReleaseRead, WooReleaseGive, WooRestock,
              Running, DoorsInv, StepRight
<1>10. ASSUME NEW t \in Threads,
              FakeReserve(t) \/ FakeCommit(t) \/ FakeRelease(t) \/ FakeRestock(t)
       PROVE  FALSE
  BY <1>10 DEF FakeReserve, FakeCommit, FakeRelease, FakeRestock, Running
<1> QED
  BY <1>2, <1>3, <1>4, <1>5, <1>6, <1>7, <1>8, <1>9, <1>10 DEF Next, vars, shop

(* A door's own step, one request at a time: what is left to show is about  *)
(* the orders it touches and about what its worker now knows.               *)
LEMMA DoorStep ==
    ASSUME DoorsInv, Serial, Calm, NEW t \in Threads,
           ~Idle(t), call[t].at # "remember", UNCHANGED <<impl, scene, cache, replies>>,
           \A u \in Threads : u # t => call'[u] = call[u],
           call'[t].key = call[t].key, call'[t].at # "idle",
           call'[t].at = "remember" => Saying(call[t].key, call'[t].answer),
           call'[t].at = "read" => status'[Of(t)] = call[t].key[3],
           \A p \in Orders : \/ RowsRight(p)'
                             \/ /\ book'[p] = book[p] /\ code'[p] = code[p]
                                /\ (cartOf[p] # NoCart => cartOf'[p] = cartOf[p]),
           SeenRight(t)', Ration'
    PROVE  Serial'
<1>1. \A u \in Threads : u # t => Idle(u) /\ Idle(u)'
  BY DEF Serial, Alone, Idle
<1>2. Alone'
  BY <1>1 DEF Alone
<1>3. Answering'
  BY <1>1 DEF Serial, Answering, Idle, Of, Saying
<1>4. \A p \in Orders : Begun(p) => Begun(p)'
  BY DEF Begun
<1>5. \A p \in Orders : RowsRight(p)'
  BY <1>4 DEF Serial, RowsRight
<1>6. \A u \in Threads : SeenRight(u)'
  BY <1>1 DEF SeenRight, Idle
<1> QED
  BY <1>2, <1>3, <1>5, <1>6 DEF Serial

(* A worker that answers knows nothing any more. *)
LEMMA SeenOnAnswer ==
    ASSUME DoorsInv, Serial, Calm, NEW t \in Threads, ~Idle(t), call[t].at # "recount",
           call'[t].at = "remember", call'[t].key = call[t].key,
           \A p \in Orders : cartOf[p] # NoCart => cartOf'[p] = cartOf[p]
    PROVE  SeenRight(t)'
<1>1. call[t].key \in Keys
  BY DEF DoorsInv, StepRight
<1>2. call[t].key[1] = "reserve" => Of(t) \in Orders /\ cartOf[Of(t)] # NoCart
  BY <1>1, KeyKinds DEF Of, CodeDoors, Serial, SeenRight
<1> QED
  BY <1>2 DEF SeenRight, Idle, Of

LEMMA SerialAnswer ==
    ASSUME DoorsInv, Serial, Calm, NEW t \in Threads, ~Idle(t),
           call[t].at \notin {"remember", "recount"}, NEW a \in Answers, Answer(t, a),
           UNCHANGED <<impl, scene, cartOf, cache, replies>>, Saying(call[t].key, a),
           \A p \in Orders : RowsRight(p)' \/ (book'[p] = book[p] /\ code'[p] = code[p]),
           Ration'
    PROVE  Serial'
<1>1. /\ \A u \in Threads : u # t => call'[u] = call[u]
      /\ call'[t].at = "remember" /\ call'[t].key = call[t].key /\ call'[t].answer = a
  BY AnswerStep
<1>2. SeenRight(t)'
  BY <1>1, SeenOnAnswer
<1> QED
  BY <1>1, <1>2, DoorStep
(* A key that is being worked on is that of no answer yet. *)
LEMMA NotYet ==
    ASSUME DoorsInv, Serial, Calm, NEW t \in Threads, ~Idle(t), call[t].at # "remember",
           call[t].key \in Keys, call[t].key[1] = "reserve"
    PROVE  /\ Of(t) \in Orders /\ cartOf[Of(t)] # NoCart /\ call[t].key = ReserveOf(Of(t))
           /\ book[Of(t)] = NoRows /\ code[Of(t)] = "none"
<1>1. Of(t) \in Orders /\ call[t].key = ReserveOf(Of(t))
  BY KeyKinds DEF Of, CodeDoors, ReserveOf
<1>2. call[t].key \notin DOMAIN cache /\ cartOf[Of(t)] # NoCart
  BY DEF Serial, Answering, SeenRight
<1>3. ~Begun(Of(t))
  BY <1>1, <1>2 DEF Begun, Serial, Alone, Idle
<1> QED
  BY <1>1, <1>2, <1>3 DEF Serial, RowsRight

(* The order's goods are now taken, once. *)
LEMMA TakenOnce ==
    ASSUME DoorsInv, Serial, Calm, NEW t \in Threads, ~Idle(t), call[t].at \in {"run", "code"},
           call[t].key \in Keys, call[t].key[1] = "reserve", Answer(t, "ok"),
           UNCHANGED <<impl, scene, cartOf, cache, replies>>,
           book' = [book EXCEPT ![Of(t)].taken = 1] \/ Book(Of(t), "taken", 1),
           code' = code \/ code' = [code EXCEPT ![Of(t)] = "held"],
           Ration'
    PROVE  Serial'
<1>1. PICK o \in Orders : /\ o = Of(t) /\ cartOf[o] # NoCart /\ call[t].key = ReserveOf(o)
                         /\ book[o] = NoRows /\ code[o] = "none"
  BY NotYet
<1>2. "ok" \in Answers /\ call[t].at # "recount"
  BY DEF Answers
<1>3. call'[t].at = "remember" /\ call'[t].key = call[t].key
  BY <1>2, AnswerStep
<1>4. book \in [Orders -> Rows] /\ code \in [Orders -> CodeStates]
  BY DEF DoorsInv, Types, CodeStates
<1>5. book'[o] = [taken |-> 1, sold |-> 0, given |-> 0]
  BY <1>1, <1>4 DEF Book, NoRows
<1>6. \A p \in Orders : p # o => book'[p] = book[p] /\ code'[p] = code[p]
  BY <1>1, <1>4 DEF Book
<1>7. Begun(o)'
  BY <1>1, <1>3 DEF Begun, ReserveOf
<1>8. RowsRight(o)'
  BY <1>1, <1>5, <1>7 DEF RowsRight
<1>9. Saying(call[t].key, "ok")
  BY DEF Saying
<1> QED
  BY <1>2, <1>6, <1>8, <1>9, SerialAnswer

(* The refusal, or the answer, of a door that leaves the shop alone.        *)
LEMMA SerialJustAnswers ==
    ASSUME DoorsInv, Serial, Calm, NEW t \in Threads, ~Idle(t),
           call[t].at \notin {"remember", "recount"}, NEW a \in Answers, Answer(t, a),
           UNCHANGED <<impl, scene, book, code, uses, cartOf, cache, replies>>,
           Saying(call[t].key, a)
    PROVE  Serial'
<1>1. Ration'
  BY DEF Serial, Ration
<1> QED
  BY <1>1, SerialAnswer

LEMMA ReserveSerial ==
    ASSUME DoorsInv, Serial, Calm, NEW t \in Threads, SiteReserve(t) \/ WooReserve(t)
    PROVE  Serial'
<1> DEFINE o == Of(t)
<1>1. /\ Running(t, "site", "reserve") \/ Running(t, "woo", "reserve")
      /\ \/ Answer(t, "sold-out") /\ UNCHANGED shop
         \/ Goto(t, "code", uses) /\ UNCHANGED shop
         \/ /\ Book(o, "taken", 1) /\ Answer(t, "ok")
            /\ UNCHANGED <<counted, code, uses, cartOf, status>>
      /\ UNCHANGED <<impl, scene, cache, replies>>
  BY DEF SiteReserve, WooReserve
<1>2. /\ ~Idle(t) /\ call[t].at = "run" /\ call[t].key \in Keys /\ impl \in {"site", "woo"}
      /\ call[t].key[1] = "reserve" /\ o \in Orders
  BY <1>1, RunningKey DEF CodeDoors
<1>3. \A a : Saying(call[t].key, a)
  BY <1>2 DEF Saying
<1>4. Ration'
  BY <1>1 DEF Serial, Ration, shop
<1>5. CASE Answer(t, "sold-out") /\ UNCHANGED shop
  BY <1>1, <1>2, <1>3, <1>5, SerialJustAnswers DEF Answers, Refusals, shop
<1>6. CASE Goto(t, "code", uses) /\ UNCHANGED shop
  <2>1. uses \in Nat
    BY <1>2 DEF DoorsInv, Types
  <2>2. /\ \A u \in Threads : u # t => call'[u] = call[u]
        /\ call'[t].at = "code" /\ call'[t].key = call[t].key /\ call'[t].saw = uses
    BY <1>6, <2>1, GotoStep DEF Steps
  <2>3. SeenRight(t)'
    BY <1>2, <1>6, <2>2, NotYet DEF SeenRight, shop, Of
  <2> QED
    BY <1>1, <1>2, <1>4, <1>6, <2>2, <2>3, DoorStep DEF shop
<1>7. CASE Book(o, "taken", 1) /\ Answer(t, "ok") /\ UNCHANGED <<counted, code, uses, cartOf, status>>
  BY <1>1, <1>2, <1>4, <1>7, TakenOnce
<1> QED
  BY <1>1, <1>5, <1>6, <1>7

LEMMA HoldCodeSerial ==
    ASSUME DoorsInv, Serial, Calm, NEW t \in Threads, SiteHoldCode(t) \/ WooHoldCode(t)
    PROVE  Serial'
<1> DEFINE o == Of(t)
<1>1. /\ call[t].at = "code" /\ impl \in {"site", "woo"}
      /\ \/ Answer(t, "code-invalid") /\ UNCHANGED shop
         \/ /\ Book(o, "taken", 1) /\ Answer(t, "ok")
            /\ code' = [code EXCEPT ![o] = "held"] /\ uses' \in {uses + 1, call[t].saw + 1}
            /\ UNCHANGED <<counted, cartOf, status>>
            /\ (impl = "woo" => MaxUses > 0) => call[t].saw < MaxUses
      /\ UNCHANGED <<impl, scene, cache, replies>>
  <2>1. call[t].saw \in Nat /\ MaxUses \in Nat
    BY DoorsAssumption DEF DoorsInv, Types, Calls
  <2>2. CASE SiteHoldCode(t)
    BY <2>1, <2>2 DEF SiteHoldCode
  <2>3. CASE WooHoldCode(t)
    BY <2>1, <2>3 DEF WooHoldCode
  <2> QED
    BY <2>2, <2>3
<1>2. /\ ~Idle(t) /\ call[t].key \in Keys /\ call[t].key[1] = "reserve" /\ call[t].saw = uses
      /\ uses \in Nat
  BY <1>1 DEF DoorsInv, Types, StepRight, Idle, Serial, SeenRight
<1>3. \A a : Saying(call[t].key, a)
  BY <1>2 DEF Saying
<1>4. CASE Answer(t, "code-invalid") /\ UNCHANGED shop
  BY <1>1, <1>2, <1>3, <1>4, SerialJustAnswers DEF Answers, Refusals, shop
<1>5. CASE /\ Book(o, "taken", 1) /\ Answer(t, "ok")
           /\ code' = [code EXCEPT ![o] = "held"] /\ uses' \in {uses + 1, call[t].saw + 1}
           /\ UNCHANGED <<counted, cartOf, status>>
           /\ (impl = "woo" => MaxUses > 0) => call[t].saw < MaxUses
  <2>1. Ration'
    BY <1>1, <1>2, <1>5, DoorsAssumption DEF Ration
  <2> QED
    BY <1>1, <1>2, <1>5, <2>1, TakenOnce
<1> QED
  BY <1>1, <1>4, <1>5

LEMMA FakeReserveSerial ==
    ASSUME DoorsInv, Serial, Calm, NEW t \in Threads, FakeReserve(t)
    PROVE  Serial'
<1> DEFINE o == Of(t)
           Held == {p \in Orders : code[p] = "held"}
<1>1. /\ ~Idle(t) /\ call[t].at = "run" /\ call[t].key \in Keys /\ impl = "fake"
      /\ call[t].key[1] = "reserve" /\ o \in Orders /\ UNCHANGED <<impl, scene, cache, replies>>
  BY RunningKey DEF FakeReserve, CodeDoors
<1>2. code[o] = "none" /\ code \in [Orders -> CodeStates] /\ uses \in Int /\ uses = Cardinality(Held)
  BY <1>1, NotYet DEF DoorsInv, Types, CodeStates, Serial, Ration
<1>3. \A a : Saying(call[t].key, a)
  BY <1>1 DEF Saying
<1>4. CASE UNCHANGED shop
  BY <1>1, <1>3, <1>4, SerialJustAnswers DEF FakeReserve, Answers, Refusals, shop
<1>5. CASE /\ book' = [book EXCEPT ![o].taken = 1] /\ Answer(t, "ok")
           /\ UNCHANGED <<counted, cartOf, status>>
           /\ \/ code' = [code EXCEPT ![o] = "held"] /\ uses' = uses + 1 /\ uses < MaxUses
              \/ UNCHANGED <<code, uses>>
  <2>1. CASE code' = [code EXCEPT ![o] = "held"] /\ uses' = uses + 1 /\ uses < MaxUses
    <3>1. Held' = Held \cup {o} /\ o \notin Held /\ Held \in SUBSET Orders
      BY <1>1, <1>2, <2>1
    <3>2. uses' = Cardinality(Held')
      BY <1>1, <1>2, <2>1, <3>1, CountUp
    <3>3. Ration'
      BY <1>1, <1>2, <2>1, <3>2, DoorsAssumption DEF Ration
    <3> QED
      BY <1>1, <1>5, <2>1, <3>3, TakenOnce
  <2>2. CASE UNCHANGED <<code, uses>>
    <3>1. Ration'
      BY <1>1, <2>2 DEF Serial, Ration
    <3> QED
      BY <1>1, <1>5, <2>2, <3>1, TakenOnce
  <2> QED
    BY <1>5, <2>1, <2>2
<1> QED
  BY <1>4, <1>5 DEF FakeReserve
LEMMA CommitSerial ==
    ASSUME DoorsInv, Serial, Calm, NEW t \in Threads,
           SiteCommit(t) \/ WooCommitWrite(t) \/ FakeCommit(t)
    PROVE  Serial'
<1>1. /\ ~Idle(t) /\ call[t].at \in {"run", "sell"} /\ call[t].key \in Keys
      /\ call[t].key[1] = "commit" /\ Of(t) \in Orders
      /\ UNCHANGED <<impl, scene, stock, counted, uses, cartOf, status, cache, replies>>
  <2>1. CASE SiteCommit(t)
    BY <2>1, RunningKey DEF SiteCommit, CodeDoors
  <2>2. CASE FakeCommit(t)
    BY <2>2, RunningKey DEF FakeCommit, CodeDoors
  <2>3. CASE WooCommitWrite(t)
    <3>1. call[t].at = "sell" /\ call[t].key \in Keys /\ call[t].key[1] = "commit"
      BY <2>3 DEF WooCommitWrite, DoorsInv, StepRight, Idle
    <3> QED
      BY <2>3, <3>1, KeyKinds DEF WooCommitWrite, Idle, Of, CodeDoors
  <2> QED
    BY <2>1, <2>2, <2>3
<1>2. PICK o \in Orders : o = Of(t)
  BY <1>1
<1>3. PICK a \in Answers : Answer(t, a)
  BY DEF SiteCommit, WooCommitWrite, FakeCommit, Answers, Refusals
<1>4. Saying(call[t].key, a)
  BY <1>1 DEF Saying
<1>5. book \in [Orders -> Rows] /\ code \in [Orders -> CodeStates] /\ RowsRight(o) /\ book[o] \in Rows
  BY <1>2 DEF DoorsInv, Types, CodeStates, Serial
<1>6. \A p \in Orders : Begun(p) => Begun(p)'
  <2>1. \A u \in Threads : u # t => call'[u] = call[u]
    BY <1>1, <1>3, AnswerStep DEF Idle
  <2> QED
    BY <1>1, <2>1 DEF Begun
<1>7. \A p \in Orders : RowsRight(p)' \/ (book'[p] = book[p] /\ code'[p] = code[p])
  <2>1. CASE SiteCommit(t)
    <3>1. book' = book /\ (\/ book[o].taken = 0 /\ code' = code
                           \/ /\ book[o].taken # 0
                              /\ code' = [code EXCEPT ![o] = IF @ = "held" THEN "consumed" ELSE @])
      BY <1>2, <2>1 DEF SiteCommit
    <3>2. \A p \in Orders : p # o => code'[p] = code[p]
      BY <1>5, <3>1
    <3>3. book[o].taken # 0 => book[o] # NoRows
      BY DEF NoRows
    <3>4. RowsRight(o)' \/ code' = code
      BY <1>1, <1>5, <1>6, <3>1, <3>3 DEF RowsRight
    <3> QED
      BY <3>1, <3>2, <3>4
  <2>2. CASE WooCommitWrite(t)
    <3>1. /\ book[o].taken = 1 /\ book[o].sold = 0 /\ book[o].given = 0 /\ impl = "woo"
      BY <1>2, <2>2 DEF WooCommitWrite, Serial, SeenRight, DoorsInv, StepRight
    <3>2. book' = [book EXCEPT ![o].sold = book[o].sold + book[o].taken, ![o].taken = 0]
      BY <1>2, <1>5, <2>2 DEF WooCommitWrite
    <3>3. book'[o] = [taken |-> 0, sold |-> 1, given |-> 0] /\ \A p \in Orders : p # o => book'[p] = book[p]
      BY <1>5, <3>1, <3>2 DEF Rows
    <3>4. \A p \in Orders : p # o => code'[p] = code[p]
      BY <1>2, <1>5, <2>2 DEF WooCommitWrite
    <3>5. book[o] # NoRows
      BY <3>1 DEF NoRows
    <3>6. RowsRight(o)'
      BY <1>1, <1>5, <1>6, <3>1, <3>3, <3>5 DEF RowsRight
    <3> QED
      BY <3>3, <3>4, <3>6
  <2>3. CASE FakeCommit(t)
    <3>1. /\ impl = "fake" /\ code' = code
          /\ book' = book \/ (book[o].taken # 0 /\ book' = [book EXCEPT ![o].taken = 0])
      BY <1>2, <2>3 DEF FakeCommit, Running
    <3>2. book[o].taken # 0 => book[o] # NoRows
      BY DEF NoRows
    <3>3. \A p \in Orders : p # o => book'[p] = book[p]
      BY <1>5, <3>1
    <3>4. RowsRight(o)' \/ book' = book
      BY <1>1, <1>5, <1>6, <3>1, <3>2 DEF RowsRight
    <3> QED
      BY <3>1, <3>3, <3>4
  <2> QED
    BY <2>1, <2>2, <2>3
<1>8. Ration'
  <2>1. CASE impl = "fake"
    BY <1>1, <2>1 DEF Serial, Ration, SiteCommit, WooCommitWrite, FakeCommit, Running, DoorsInv, StepRight
  <2>2. CASE impl # "fake"
    BY <1>1, <2>2 DEF Serial, Ration
  <2> QED
    BY <2>1, <2>2
<1> QED
  BY <1>1, <1>3, <1>4, <1>7, <1>8, SerialAnswer DEF Idle

LEMMA ReadSerial ==
    ASSUME DoorsInv, Serial, Calm, NEW t \in Threads,
           SiteReleaseRead(t) \/ WooReleaseRead(t) \/ WooCommitRead(t)
    PROVE  Serial'
<1>1. /\ ~Idle(t) /\ call[t].at = "run" /\ call[t].key \in Keys /\ impl \in {"site", "woo"}
      /\ UNCHANGED <<impl, scene, shop, cache, replies>>
      /\ call[t].key[1] \in {"release", "commit"} /\ Of(t) \in Orders
  BY RunningKey DEF SiteReleaseRead, WooReleaseRead, WooCommitRead, CodeDoors
<1>2. PICK o \in Orders : o = Of(t)
  BY <1>1
<1>3. \A a : Saying(call[t].key, a)
  BY <1>1 DEF Saying
<1>4. book[o] \in Rows /\ RowsRight(o)
  BY DEF DoorsInv, Types, Serial
<1>5. \/ \E a \in Answers : Answer(t, a)
      \/ /\ \/ Goto(t, "give", book[o].taken)
            \/ Goto(t, "sell", 0)
         /\ book[o].taken > 0 /\ (impl = "site" => book[o].given = 0)
  <2>1. CASE SiteReleaseRead(t)
    BY <1>2, <1>4, <2>1 DEF SiteReleaseRead, Answers, Refusals, Rows
  <2>2. CASE WooReleaseRead(t)
    BY <1>1, <1>2, <1>4, <2>2 DEF WooReleaseRead, Answers, Refusals, Rows, Running
  <2>3. CASE WooCommitRead(t)
    BY <1>1, <1>2, <1>4, <2>3 DEF WooCommitRead, Answers, Refusals, Rows, Running
  <2> QED
    BY <2>1, <2>2, <2>3
<1>6. CASE \E a \in Answers : Answer(t, a)
  BY <1>1, <1>3, <1>6, SerialJustAnswers DEF shop
<1>7. ASSUME NEW at \in {"give", "sell"}, NEW saw \in Nat, Goto(t, at, saw),
             at = "give" => saw = book[o].taken,
             book[o].taken > 0, impl = "site" => book[o].given = 0
      PROVE  Serial'
  <2>1. /\ \A u \in Threads : u # t => call'[u] = call[u]
        /\ call'[t].at = at /\ call'[t].key = call[t].key /\ call'[t].saw = saw
    BY <1>7, GotoStep DEF Steps
  <2>2. book[o].taken = 1 /\ book[o].given = 0 /\ book[o].sold = 0
    BY <1>1, <1>4, <1>7 DEF RowsRight, Rows
  <2>3. SeenRight(t)'
    BY <1>1, <1>2, <1>7, <2>1, <2>2 DEF SeenRight, shop, Of, Idle
  <2>4. Ration'
    BY <1>1 DEF Serial, Ration, shop
  <2> QED
    BY <1>1, <2>1, <2>3, <2>4, DoorStep DEF shop
<1>8. book[o].taken \in Nat /\ 0 \in Nat
  BY <1>4 DEF Rows
<1> QED
  BY <1>5, <1>6, <1>7, <1>8

LEMMA GiveSerial ==
    ASSUME DoorsInv, Serial, Calm, NEW t \in Threads, SiteReleaseGive(t) \/ WooReleaseGive(t)
    PROVE  Serial'
<1>1. /\ call[t].at = "give" /\ impl \in {"site", "woo"} /\ Answer(t, "ok")
      /\ UNCHANGED <<impl, scene, counted, cartOf, status, cache, replies>>
  BY DEF SiteReleaseGive, WooReleaseGive
<1>2. /\ ~Idle(t) /\ call[t].key \in Keys /\ call[t].key[1] = "release" /\ call[t].saw = 1
  BY <1>1 DEF DoorsInv, StepRight, Idle, Serial, SeenRight
<1>3. PICK o \in Orders : o = Of(t)
  BY <1>2, KeyKinds DEF Of, CodeDoors
<1>4. /\ book \in [Orders -> Rows] /\ code \in [Orders -> CodeStates] /\ RowsRight(o) /\ book[o] \in Rows
      /\ book[o].taken = 1 /\ book[o].given = 0 /\ book[o].sold = 0
  BY <1>1, <1>3 DEF DoorsInv, Types, CodeStates, Serial, SeenRight
<1>5. book'[o].sold = 0 /\ book'[o].given = 1 /\ (impl = "site" => book'[o].taken = 1)
      /\ (impl = "woo" => book'[o].taken = 0) /\ \A p \in Orders : p # o => book'[p] = book[p]
  <2>1. CASE SiteReleaseGive(t)
    <3>1. impl = "site" /\ book' = [book EXCEPT ![o].given = book[o].given + 1]
      BY <1>2, <1>3, <1>4, <2>1 DEF SiteReleaseGive, Book
    <3> QED
      BY <1>4, <3>1 DEF Rows
  <2>2. CASE WooReleaseGive(t)
    <3>1. impl = "woo" /\ book' = [book EXCEPT ![o].given = book[o].given + book[o].taken, ![o].taken = 0]
      BY <1>2, <1>3, <1>4, <2>2 DEF WooReleaseGive
    <3> QED
      BY <1>4, <3>1 DEF Rows
  <2> QED
    BY <2>1, <2>2
<1>6. \A p \in Orders : p # o => code'[p] = code[p]
  BY <1>3, <1>4 DEF SiteReleaseGive, WooReleaseGive
<1>7. Begun(o)'
  <2>1. book[o] # NoRows
    BY <1>4 DEF NoRows
  <2>2. \A u \in Threads : u # t => call'[u] = call[u]
    BY <1>1, <1>2, AnswerStep DEF Answers
  <2> QED
    BY <1>1, <1>4, <2>1, <2>2 DEF Begun, RowsRight
<1>8. book[o] # NoRows
  BY <1>4 DEF NoRows
<1>9. RowsRight(o)'
  BY <1>1, <1>4, <1>5, <1>7, <1>8 DEF RowsRight
<1>10. Ration'
  <2>1. uses \in Nat /\ uses' \in Nat /\ uses' <= uses
    <3>1. uses \in Nat /\ book[o].taken + book[o].sold + book[o].given \in Nat
      BY <1>1, <1>4 DEF DoorsInv, Types, Rows
    <3> QED
      BY <1>3, <3>1 DEF SiteReleaseGive, WooReleaseGive
  <2> QED
    BY <1>1, <2>1, DoorsAssumption DEF Serial, Ration
<1> QED
  BY <1>1, <1>2, <1>5, <1>6, <1>9, <1>10, SerialAnswer DEF Answers, Saying

LEMMA RestockSerial ==
    ASSUME DoorsInv, Serial, Calm, NEW t \in Threads, SiteRestock(t) \/ WooRestock(t) \/ FakeRestock(t)
    PROVE  Serial'
<1>1. /\ ~Idle(t) /\ call[t].at = "run" /\ call[t].key[1] = "restock" /\ Answer(t, "ok")
      /\ UNCHANGED <<impl, scene, book, code, uses, cartOf, status, cache, replies>>
  BY RunningKey DEF SiteRestock, WooRestock, FakeRestock, CodeDoors
<1> QED
  BY <1>1, SerialJustAnswers DEF Answers, Saying

LEMMA FakeReleaseSerial ==
    ASSUME DoorsInv, Serial, Calm, NEW t \in Threads, FakeRelease(t)
    PROVE  Serial'
<1> DEFINE Held == {p \in Orders : code[p] = "held"}
<1>1. /\ ~Idle(t) /\ call[t].at = "run" /\ call[t].key \in Keys /\ impl = "fake"
      /\ call[t].key[1] = "release" /\ Of(t) \in Orders
      /\ UNCHANGED <<impl, scene, counted, cartOf, status, cache, replies>>
  BY RunningKey DEF FakeRelease, CodeDoors
<1>2. PICK o \in Orders : o = Of(t)
  BY <1>1
<1>3. \A a : Saying(call[t].key, a)
  BY <1>1 DEF Saying
<1>4. CASE book[o].taken = 0
  BY <1>1, <1>2, <1>3, <1>4, SerialJustAnswers DEF FakeRelease, Answers, Refusals
<1>5. CASE book[o].taken # 0
  <2>1. /\ book' = [book EXCEPT ![o].taken = 0] /\ code' = [code EXCEPT ![o] = "none"]
        /\ uses' = IF code[o] = "held" THEN uses - 1 ELSE uses
        /\ Answer(t, "ok")
    BY <1>2, <1>5 DEF FakeRelease
  <2>2. book \in [Orders -> Rows] /\ code \in [Orders -> CodeStates] /\ RowsRight(o)
        /\ uses \in Int /\ uses = Cardinality(Held)
    BY <1>1 DEF DoorsInv, Types, CodeStates, Serial, Ration
  <2>3. \A p \in Orders : p # o => book'[p] = book[p] /\ code'[p] = code[p]
    BY <2>1, <2>2
  <2>4. book[o] # NoRows
    BY <1>5 DEF NoRows
  <2>5. Begun(o)'
    <3>1. \A u \in Threads : u # t => call'[u] = call[u]
      BY <1>1, <2>1, AnswerStep DEF Answers
    <3> QED
      BY <1>1, <2>2, <2>4, <3>1 DEF Begun, RowsRight
  <2>6. RowsRight(o)'
    BY <1>1, <2>2, <2>4, <2>5 DEF RowsRight
  <2>7. uses' = Cardinality(Held') /\ uses' <= uses /\ uses' \in Int
    <3>1. CASE code[o] = "held"
      <4>1. Held' = Held \ {o} /\ o \in Held /\ Held \in SUBSET Orders
        BY <2>1, <2>2, <3>1
      <4> QED
        BY <2>1, <2>2, <3>1, <4>1, CountDown
    <3>2. CASE code[o] # "held"
      <4>1. Held' = Held
        BY <2>1, <2>2, <3>2
      <4> QED
        BY <2>1, <2>2, <3>2, <4>1
    <3> QED
      BY <3>1, <3>2
  <2>8. Ration'
    BY <1>1, <2>2, <2>7, DoorsAssumption DEF Serial, Ration
  <2> QED
    BY <1>1, <1>3, <2>1, <2>3, <2>6, <2>8, SerialAnswer DEF Answers
<1> QED
  BY <1>4, <1>5
LEMMA CreateSerial ==
    ASSUME DoorsInv, Serial, Calm, NEW t \in Threads, Create(t)
    PROVE  Serial'
<1>1. /\ ~Idle(t) /\ call[t].at = "run" /\ call[t].key \in Keys
      /\ call[t].key[1] = "orders.create" /\ Of(t) \in Carts
      /\ UNCHANGED <<impl, scene, cache, replies>>
  <2>1. call[t].key \in Keys
    BY DEF Create, DoorsInv, StepRight, Idle
  <2> QED
    BY <2>1, KeyKinds DEF Create, Idle, Of
<1>2. \A a : Saying(call[t].key, a)
  BY <1>1 DEF Saying
<1>3. CASE Answer(t, "destination-unserviceable") /\ UNCHANGED shop
  BY <1>1, <1>2, <1>3, SerialJustAnswers DEF Answers, Refusals, shop
<1>4. ASSUME NEW o \in Orders, cartOf[o] = NoCart, Answer(t, o),
             cartOf' = [cartOf EXCEPT ![o] = Of(t)], UNCHANGED <<stock, counted, book, code, uses>>
      PROVE  Serial'
  <2>1. /\ \A u \in Threads : u # t => call'[u] = call[u]
        /\ call'[t].at = "remember" /\ call'[t].key = call[t].key
    BY <1>1, <1>4, AnswerStep DEF Answers
  <2>2. SeenRight(t)'
    BY <1>1, <2>1 DEF SeenRight
  <2>3. Ration'
    BY <1>1, <1>4 DEF Serial, Ration
  <2>4. \A p \in Orders : cartOf[p] # NoCart => cartOf'[p] = cartOf[p]
    BY <1>4 DEF DoorsInv, Types
  <2> QED
    BY <1>1, <1>2, <1>4, <2>1, <2>2, <2>3, <2>4, DoorStep
<1> QED
  BY <1>1, <1>3, <1>4 DEF Create

LEMMA SetStatusSerial ==
    ASSUME DoorsInv, Serial, Calm, NEW t \in Threads, SetStatus(t)
    PROVE  Serial'
<1> DEFINE to == call[t].key[3]
<1>1. /\ ~Idle(t) /\ call[t].at = "run" /\ call[t].key \in Keys
      /\ call[t].key[1] = "orders.set-status" /\ Of(t) \in Orders /\ to \in Targets
      /\ UNCHANGED <<impl, scene, stock, counted, book, code, uses, cartOf, cache, replies>>
      /\ \/ Answer(t, "not-found") /\ UNCHANGED status
         \/ Goto(t, "read", 0) /\ status' = [status EXCEPT ![Of(t)] = to]
  BY SetStatusSets
<1>2. CASE Answer(t, "not-found") /\ UNCHANGED status
  BY <1>1, <1>2, SerialJustAnswers DEF Answers, Refusals, Saying
<1>3. CASE Goto(t, "read", 0) /\ status' = [status EXCEPT ![Of(t)] = to]
  <2>1. /\ \A u \in Threads : u # t => call'[u] = call[u]
        /\ call'[t].at = "read" /\ call'[t].key = call[t].key
    BY <1>3, GotoStep DEF Steps
  <2>2. status'[Of(t)] = to
    BY <1>1, <1>3 DEF DoorsInv, Types
  <2>3. SeenRight(t)'
    BY <1>1, <2>1 DEF SeenRight
  <2>4. Ration'
    BY <1>1 DEF Serial, Ration
  <2> QED
    BY <1>1, <2>1, <2>2, <2>3, <2>4, DoorStep
<1> QED
  BY <1>1, <1>2, <1>3

LEMMA ReadBackSerial ==
    ASSUME DoorsInv, Serial, Calm, NEW t \in Threads, ReadBack(t)
    PROVE  Serial'
<1>1. /\ ~Idle(t) /\ call[t].at = "read" /\ call[t].key \in Keys
      /\ call[t].key[1] = "orders.set-status" /\ cartOf[Of(t)] # NoCart
      /\ status[Of(t)] = call[t].key[3]
      /\ Answer(t, status[Of(t)]) /\ UNCHANGED <<impl, scene, shop, cache, replies>>
  BY DEF ReadBack, DoorsInv, StepRight, Idle, Serial, Answering
<1>2. status[Of(t)] \in Answers
  BY <1>1, KeyKinds DEF Answers
<1> QED
  BY <1>1, <1>2, SerialJustAnswers DEF Saying, shop

(* A request comes, and the others are idle. *)
LEMMA ComesAlone ==
    ASSUME DoorsInv, Serial, Calm, NEW t \in Threads, \A u \in Threads : Idle(u),
           UNCHANGED <<impl, scene, shop, cache, replies>>,
           \A u \in Threads : u # t => call'[u] = call[u],
           call'[t].at \in {"run", "recount"}, call'[t].key \notin DOMAIN cache,
           SeenRight(t)'
    PROVE  Serial'
<1>1. \A u \in Threads : u # t => Idle(u)'
  BY DEF Idle
<1>2. Alone'
  BY <1>1 DEF Alone
<1>3. Answering'
  BY <1>1 DEF Serial, Answering, Idle
<1>4. \A p \in Orders : Begun(p) => Begun(p)'
  BY DEF Begun, Idle
<1>5. \A p \in Orders : RowsRight(p)'
  BY <1>4 DEF Serial, RowsRight, shop
<1>6. \A u \in Threads : SeenRight(u)'
  BY <1>1 DEF SeenRight, Idle
<1>7. Ration'
  BY DEF Serial, Ration, shop
<1> QED
  BY <1>2, <1>3, <1>5, <1>6, <1>7 DEF Serial

LEMMA ArriveSerial ==
    ASSUME DoorsInv, Serial, Calm, NEW t \in Threads, NEW key \in Keys, Arrive(t, key)
    PROVE  Serial'
<1>1. CASE key \in DOMAIN cache
  <2>1. /\ UNCHANGED <<impl, scene, shop, cache, call>>
        /\ replies' = [replies EXCEPT ![key] = @ \cup {cache[key]}]
    BY <1>1 DEF Arrive, Sent
  <2>2. Answering'
    BY <1>1, <2>1 DEF Serial, Answering, DoorsInv, Types, Idle, Of, Saying, shop
  <2> QED
    BY <2>1, <2>2 DEF Serial, Alone, Idle, RowsRight, Begun, SeenRight, Of, Ration, shop
<1>2. CASE key \notin DOMAIN cache
  <2>1. /\ UNCHANGED <<impl, scene, shop, cache, replies>>
        /\ \A u \in Threads : Idle(u)
        /\ call' = [call EXCEPT ![t] = [key |-> key, at |-> "run", saw |-> 0, answer |-> "ok"]]
    BY <1>2 DEF Arrive, Quiet
  <2>2. /\ \A u \in Threads : u # t => call'[u] = call[u]
        /\ call'[t].at = "run" /\ call'[t].key = key
    BY <2>1 DEF DoorsInv, Types
  <2>3. key[1] = "reserve" => cartOf[key[2]] # NoCart
    BY DEF Arrive
  <2>4. SeenRight(t)'
    BY <2>1, <2>2, <2>3 DEF SeenRight, Of, shop
  <2> QED
    BY <1>2, <2>1, <2>2, <2>4, ComesAlone
<1> QED
  BY <1>1, <1>2

LEMMA RecountReadSerial ==
    ASSUME DoorsInv, Serial, Calm, NEW t \in Threads, NEW k \in Skus, NEW n \in Counts,
           RecountRead(t, k, n)
    PROVE  Serial'
<1> DEFINE key == <<"recount", k, n>>
           c == [Quiet EXCEPT !.key = key, !.at = "recount", !.saw = stock[k]]
<1>1. Quiet \in Calls /\ stock[k] \in Nat /\ key \in RecountKeys /\ key[1] = "recount" /\ key[2] = k
  BY DEF Quiet, Calls, RecountKeys, Steps, Answers, DoorsInv, Types
<1>2. key \notin DOMAIN cache
  <2>1. \A i \in Keys : i[1] # "recount"
    BY DEF Keys, CodeDoors
  <2> QED
    BY <1>1, <2>1 DEF DoorsInv, Types
<1>3. /\ call' = [call EXCEPT ![t] = c] /\ \A u \in Threads : Idle(u)
      /\ UNCHANGED <<impl, scene, shop, cache, replies>>
  BY DEF RecountRead
<1> HIDE DEF key
<1>4. c.key = key /\ c.at = "recount" /\ c.saw = stock[k]
  BY <1>1 DEF Calls, Steps
<1> HIDE DEF c
<1>5. /\ \A u \in Threads : u # t => call'[u] = call[u]
      /\ call'[t] = c
  BY <1>3 DEF DoorsInv, Types
<1>6. SeenRight(t)'
  BY <1>1, <1>3, <1>4, <1>5 DEF SeenRight, Of, shop
<1> QED
  BY <1>2, <1>3, <1>4, <1>5, <1>6, ComesAlone

(* A worker is done, and all are idle. *)
LEMMA AllIdle ==
    ASSUME DoorsInv, Serial, Calm, NEW t \in Threads, ~Idle(t), call' = [call EXCEPT ![t] = Quiet]
    PROVE  \A u \in Threads : Idle(u)' /\ call'[u].at = "idle"
<1>1. \A u \in Threads : u # t => Idle(u)
  BY DEF Serial, Alone
<1> QED
  BY <1>1 DEF Idle, Quiet, DoorsInv, Types

LEMMA RecountWriteSerial ==
    ASSUME DoorsInv, Serial, Calm, NEW t \in Threads, RecountWrite(t)
    PROVE  Serial'
<1>1. /\ ~Idle(t) /\ call[t].at = "recount" /\ call' = [call EXCEPT ![t] = Quiet]
      /\ UNCHANGED <<impl, scene, book, code, uses, cartOf, status, cache, replies>>
  BY DEF RecountWrite, Idle
<1>2. \A u \in Threads : Idle(u)' /\ call'[u].at = "idle"
  BY <1>1, AllIdle
<1>3. Alone' /\ (\A u \in Threads : SeenRight(u)')
  BY <1>2 DEF Alone, SeenRight, Idle
<1>4. Answering'
  BY <1>1, <1>2 DEF Serial, Answering, Idle
<1>5. \A p \in Orders : Begun(p) => Begun(p)'
  <2>1. \A u \in Threads : u # t => Idle(u)
    BY <1>1 DEF Serial, Alone
  <2> QED
    BY <1>1, <2>1 DEF Begun, Idle
<1>6. \A p \in Orders : RowsRight(p)'
  BY <1>1, <1>5 DEF Serial, RowsRight
<1>7. Ration'
  BY <1>1 DEF Serial, Ration
<1> QED
  BY <1>3, <1>4, <1>6, <1>7 DEF Serial

LEMMA RememberSerial ==
    ASSUME DoorsInv, Serial, Calm, NEW t \in Threads, Remember(t)
    PROVE  Serial'
<1> DEFINE key == call[t].key
           a == call[t].answer
<1>1. /\ ~Idle(t) /\ call[t].at = "remember" /\ call' = [call EXCEPT ![t] = Quiet]
      /\ UNCHANGED <<impl, scene, shop>>
  BY DEF Remember, Idle
<1>2. key \in Keys /\ key \notin DOMAIN cache /\ Saying(key, a)
  BY <1>1 DEF DoorsInv, StepRight, Serial, Answering, Idle
<1>3. /\ DOMAIN cache' = DOMAIN cache \cup {key} /\ cache'[key] = a
      /\ \A i \in DOMAIN cache : cache'[i] = cache[i]
  BY <1>2 DEF Remember
<1>4. replies' = [replies EXCEPT ![key] = @ \cup {a}]
  BY DEF Remember, Sent
<1>5. \A u \in Threads : Idle(u)' /\ call'[u].at = "idle"
  BY <1>1, AllIdle
<1>6. Alone' /\ (\A u \in Threads : SeenRight(u)')
  BY <1>5 DEF Alone, SeenRight, Idle
<1>7. Answering'
  <2>1. \A i \in Keys : replies'[i] \subseteq IF i \in DOMAIN cache' THEN {cache'[i]} ELSE {}
    BY <1>2, <1>3, <1>4 DEF Serial, Answering, DoorsInv, Types
  <2>2. \A i \in DOMAIN cache' : Saying(i, cache'[i])
    BY <1>2, <1>3 DEF Serial, Answering
  <2> QED
    BY <1>5, <2>1, <2>2 DEF Answering, Idle, Saying
<1>8. \A p \in Orders : Begun(p) => Begun(p)'
  <2>1. \A u \in Threads : u # t => Idle(u)
    BY <1>1 DEF Serial, Alone
  <2> QED
    BY <1>3, <2>1 DEF Begun, Idle
<1>9. \A p \in Orders : RowsRight(p)'
  BY <1>1, <1>8 DEF Serial, RowsRight, shop
<1>10. Ration'
  BY <1>1 DEF Serial, Ration, shop
<1> QED
  BY <1>6, <1>7, <1>9, <1>10 DEF Serial

LEMMA SerialStep == DoorsInv /\ Serial /\ [Next]_vars => Serial'
<1> SUFFICES ASSUME DoorsInv, Serial, [Next]_vars PROVE Serial'
  OBVIOUS
<1>1. CASE UNCHANGED vars
  BY <1>1
  DEF vars, shop, Serial, Alone, Answering, RowsRight, Begun, SeenRight, Ration, Saying, Idle, Of, Calm
<1>2. CASE Next /\ ~Calm
  <2>1. scene' = scene
    BY <1>2 DEF Next, Arrive, Remember, Die, SiteReserve, SiteHoldCode, SiteCommit,
       SiteReleaseRead, SiteReleaseGive, SiteRestock, WooReserve, WooHoldCode, WooCommitRead,
       WooCommitWrite, WooReleaseRead, WooReleaseGive, WooRestock, FakeReserve, FakeCommit,
       FakeRelease, FakeRestock, Create, SetStatus, ReadBack, RecountRead, RecountWrite
  <2> QED
    BY <1>2, <2>1 DEF Serial, Calm
<1>3. CASE Next /\ Calm
  <2>1. ASSUME NEW t \in Threads,
               (\E key \in Keys : Arrive(t, key)) \/ Remember(t) \/ Die(t)
        PROVE  Serial'
    BY <1>3, <2>1, ArriveSerial, RememberSerial DEF Die
  <2>2. ASSUME NEW t \in Threads,
               \/ SiteReserve(t) \/ SiteHoldCode(t) \/ SiteCommit(t)
               \/ SiteReleaseRead(t) \/ SiteReleaseGive(t) \/ SiteRestock(t)
        PROVE  Serial'
    BY <1>3, <2>2, ReserveSerial, HoldCodeSerial, CommitSerial, ReadSerial, GiveSerial, RestockSerial
  <2>3. ASSUME NEW t \in Threads,
               \/ WooReserve(t) \/ WooHoldCode(t) \/ WooCommitRead(t) \/ WooCommitWrite(t)
               \/ WooReleaseRead(t) \/ WooReleaseGive(t) \/ WooRestock(t)
        PROVE  Serial'
    BY <1>3, <2>3, ReserveSerial, HoldCodeSerial, CommitSerial, ReadSerial, GiveSerial, RestockSerial
  <2>4. ASSUME NEW t \in Threads,
               FakeReserve(t) \/ FakeCommit(t) \/ FakeRelease(t) \/ FakeRestock(t)
        PROVE  Serial'
    BY <1>3, <2>4, FakeReserveSerial, CommitSerial, FakeReleaseSerial, RestockSerial
  <2>5. ASSUME NEW t \in Threads, Create(t) \/ SetStatus(t) \/ ReadBack(t)
        PROVE  Serial'
    BY <1>3, <2>5, CreateSerial, SetStatusSerial, ReadBackSerial
  <2>6. ASSUME NEW t \in Threads,
               (\E k \in Skus, n \in Counts : RecountRead(t, k, n)) \/ RecountWrite(t)
        PROVE  Serial'
    BY <1>3, <2>6, RecountReadSerial, RecountWriteSerial
  <2> QED
    BY <1>3, <2>1, <2>2, <2>3, <2>4, <2>5, <2>6 DEF Next
<1> QED
  BY <1>1, <1>2, <1>3

THEOREM FullInvariant == Spec => []FullInv
<1>1. Init => FullInv
  BY DoorsInitially, SerialInitially DEF FullInv
<1>2. FullInv /\ [Next]_vars => FullInv'
  BY DoorsStep, RationStep, SerialStep DEF FullInv
<1> QED
  BY <1>1, <1>2, PTL DEF Spec

-----------------------------------------------------------------------------
(* What the runs check. *)

(* The shelf never goes below nought, and neither do a code's uses, whatever *)
(* races and whoever dies.                                                  *)
THEOREM DoorsTypeCorrect == Spec => []TypeOK
<1>1. FullInv => TypeOK
  <2> SUFFICES ASSUME FullInv PROVE TypeOK
    OBVIOUS
  <2>1. uses \in Nat
    <3>1. CASE impl = "fake"
      <4>1. uses = Cardinality({o \in Orders : code[o] = "held"})
        BY <3>1 DEF FullInv, DoorsInv, Types, Serial, Ration
      <4> QED
        BY <4>1, SpentFinite, FS_CardinalityType
    <3>2. CASE impl # "fake"
      BY <3>2 DEF FullInv, DoorsInv, Types
    <3> QED
      BY <3>1, <3>2
  <2>2. \A t \in Threads :
          /\ call[t].at \in Steps /\ call[t].saw \in Nat /\ call[t].answer \in Answers
          /\ ~Idle(t) => call[t].key \in Keys \cup {"recount"} \X Skus \X Counts
    BY DEF FullInv, DoorsInv, Types, StepRight, Calls, RecountKeys
  <2> QED
    BY <2>1, <2>2 DEF FullInv, DoorsInv, Types, TypeOK
<1> QED
  BY <1>1, FullInvariant, PTL

(* One request at a time a key has one answer, and door 8's is the status   *)
(* it was asked for.                                                        *)
THEOREM AnswersAreTrue == Spec => []OneTrueAnswer
<1>1. FullInv => OneTrueAnswer
  <2> SUFFICES ASSUME FullInv, Calm PROVE OneTrueAnswer
    BY DEF OneTrueAnswer
  <2>1. ASSUME NEW key \in Keys PROVE Cardinality(replies[key]) <= 1
    <3>1. PICK a : replies[key] \subseteq {a}
      BY DEF FullInv, Serial, Answering
    <3>2. replies[key] = {} \/ replies[key] = {a}
      BY <3>1
    <3> QED
      BY <3>2, FS_EmptySet, FS_Singleton
  <2>2. ASSUME NEW o \in Orders, NEW to \in Targets
        PROVE  replies[<<"orders.set-status", o, to>>] \subseteq {to, "not-found"}
    <3> DEFINE key == <<"orders.set-status", o, to>>
    <3>1. key \in Keys /\ key[1] = "orders.set-status" /\ key[3] = to
      BY DEF Keys
    <3> HIDE DEF key
    <3>2. replies[key] \subseteq {to, "not-found"}
      BY <3>1 DEF FullInv, Serial, Answering, Saying
    <3> QED
      BY <3>2 DEF key
  <2> QED
    BY <2>1, <2>2 DEF OneTrueAnswer
<1> QED
  BY <1>1, FullInvariant, PTL

(* However requests race, two orders never hold the site's code at once and *)
(* its count is right; one at a time, no shop exceeds the limit.            *)
THEOREM CodeStaysRationed == Spec => []CodeIsRationed
<1>1. FullInv => CodeIsRationed
  BY DEF FullInv, SiteRation, Spent, Serial, Ration, CodeIsRationed
<1> QED
  BY <1>1, FullInvariant, PTL
-----------------------------------------------------------------------------
(* One request at a time, the site and the plugin implement Shelf.          *)

(* Where an order's goods are is told by its rows and its cart. *)
Same(o) == book'[o] = book[o] /\ (book[o] # NoRows => cartOf'[o] = cartOf[o])

LEMMA HoldStays ==
    ASSUME FullInv, NEW o \in Orders, Same(o), UNCHANGED impl
    PROVE  HoldOf(o)' = HoldOf(o)
<1>1. CASE book[o] # NoRows
  BY <1>1 DEF Same, HoldOf, Goods
<1>2. CASE book[o] = NoRows
  <2>1. HoldOf(o) = [as |-> "none", goods |-> [k \in Skus |-> 0]]
    BY <1>2 DEF HoldOf, NoRows
  <2>2. HoldOf(o)' = [as |-> "none", goods |-> [k \in Skus |-> 0]]
    BY <1>2 DEF HoldOf, NoRows, Same
  <2> QED
    BY <2>1, <2>2
<1> QED
  BY <1>1, <1>2

LEMMA ShelfStutters ==
    ASSUME FullInv, \A o \in Orders : Same(o), UNCHANGED <<impl, stock, counted>>
    PROVE  UNCHANGED <<stock, counted, [o \in Orders |-> HoldOf(o)]>>
BY HoldStays

LEMMA ShelfRecounts ==
    ASSUME FullInv, \A o \in Orders : Same(o), UNCHANGED impl,
           stock' = [k \in Skus |-> stock[k] + counted'[k] - counted[k]]
    PROVE  TheShelf!ShelfNext
BY HoldStays DEF TheShelf!ShelfNext, TheShelf!Recount

(* What an order's rows say, one request at a time. *)
HoldIn(who, b, g) ==
    LET open == IF who = "woo" THEN b.taken ELSE b.taken - b.given
        as == CASE open > 0 -> "held" [] open = 0 /\ b.sold > 0 -> "sold"
                [] open = 0 /\ b.sold = 0 /\ b.given > 0 -> "back" [] OTHER -> "none"
    IN  [as |-> as, goods |-> [k \in Skus |-> IF as = "held" THEN g[k] ELSE 0]]

LEMMA HoldInIs ==
    ASSUME NEW o \in Orders
    PROVE  /\ HoldOf(o) = HoldIn(impl, book[o], Goods(o))
           /\ HoldOf(o)' = HoldIn(impl', book'[o], Goods(o)')
BY DEF HoldOf, HoldIn

LEMMA RowsSay ==
    ASSUME NEW who \in {"site", "woo"}, NEW g \in [Skus -> Nat], NEW b \in Rows
    PROVE  /\ b = NoRows => HoldIn(who, b, g) = [as |-> "none", goods |-> [k \in Skus |-> 0]]
           /\ b = [taken |-> 1, sold |-> 0, given |-> 0] =>
                HoldIn(who, b, g) = [as |-> "held", goods |-> g]
           /\ b = [taken |-> 0, sold |-> 1, given |-> 0] =>
                HoldIn(who, b, g) = [as |-> "sold", goods |-> [k \in Skus |-> 0]]
           /\ b.sold = 0 /\ b.given = 1 /\ b.taken = (IF who = "woo" THEN 0 ELSE 1) =>
                HoldIn(who, b, g) = [as |-> "back", goods |-> [k \in Skus |-> 0]]
<1>1. g = [k \in Skus |-> g[k]]
  OBVIOUS
<1>2. ASSUME b = NoRows PROVE HoldIn(who, b, g) = [as |-> "none", goods |-> [k \in Skus |-> 0]]
  BY <1>2 DEF HoldIn, NoRows
<1>3. ASSUME b = [taken |-> 1, sold |-> 0, given |-> 0]
      PROVE  HoldIn(who, b, g) = [as |-> "held", goods |-> g]
  <2>1. HoldIn(who, b, g) = [as |-> "held", goods |-> [k \in Skus |-> g[k]]]
    BY <1>3 DEF HoldIn
  <2> QED
    BY <1>1, <2>1
<1>4. ASSUME b = [taken |-> 0, sold |-> 1, given |-> 0]
      PROVE  HoldIn(who, b, g) = [as |-> "sold", goods |-> [k \in Skus |-> 0]]
  BY <1>4 DEF HoldIn
<1>5. ASSUME b.sold = 0, b.given = 1, b.taken = (IF who = "woo" THEN 0 ELSE 1)
      PROVE  HoldIn(who, b, g) = [as |-> "back", goods |-> [k \in Skus |-> 0]]
  BY <1>5 DEF HoldIn
<1> QED
  BY <1>2, <1>3, <1>4, <1>5

LEMMA HoldIs ==
    ASSUME FullInv, FullInv', impl \in {"site", "woo"}, UNCHANGED <<impl, cartOf>>, NEW o \in Orders
    PROVE  /\ book[o] = NoRows => HoldOf(o) = [as |-> "none", goods |-> [k \in Skus |-> 0]]
           /\ book[o] = [taken |-> 1, sold |-> 0, given |-> 0] =>
                HoldOf(o) = [as |-> "held", goods |-> Goods(o)]
           /\ book'[o] = [taken |-> 1, sold |-> 0, given |-> 0] =>
                HoldOf(o)' = [as |-> "held", goods |-> Goods(o)]
           /\ book'[o] = [taken |-> 0, sold |-> 1, given |-> 0] =>
                HoldOf(o)' = [as |-> "sold", goods |-> [k \in Skus |-> 0]]
           /\ book'[o].sold = 0 /\ book'[o].given = 1 /\ book'[o].taken = (IF impl = "woo" THEN 0 ELSE 1) =>
                HoldOf(o)' = [as |-> "back", goods |-> [k \in Skus |-> 0]]
<1>1. Goods(o) \in [Skus -> Nat] /\ Goods(o)' = Goods(o)
  BY GoodsNat DEF FullInv, DoorsInv, Goods
<1>2. book[o] \in Rows /\ book'[o] \in Rows
  BY DEF FullInv, DoorsInv, Types
<1>3. HoldOf(o) = HoldIn(impl, book[o], Goods(o)) /\ HoldOf(o)' = HoldIn(impl, book'[o], Goods(o))
  BY <1>1, HoldInIs
<1> QED
  BY <1>1, <1>2, <1>3, RowsSay

Frozen == UNCHANGED <<stock, counted, [o \in Orders |-> HoldOf(o)]>>
Shelved == TheShelf!ShelfNext \/ Frozen

LEMMA Taking ==
    ASSUME FullInv, FullInv', Calm, NEW t \in Threads, ~Idle(t), impl \in {"site", "woo"},
           call[t].at \in {"run", "code"}, call[t].key \in Keys, call[t].key[1] = "reserve",
           Enough(Of(t)), Less(Of(t)), Book(Of(t), "taken", 1),
           UNCHANGED <<impl, scene, counted, cartOf>>
    PROVE  Shelved
<1>1. PICK o \in Orders : o = Of(t) /\ book[o] = NoRows
  BY NotYet DEF FullInv
<1>2. book \in [Orders -> Rows] /\ stock \in [Skus -> Nat] /\ stock' \in [Skus -> Nat]
      /\ Goods(o) \in [Skus -> Nat]
  BY GoodsNat DEF FullInv, DoorsInv, Types
<1>3. /\ book'[o] = [taken |-> 1, sold |-> 0, given |-> 0]
      /\ \A p \in Orders : p # o => book'[p] = book[p]
  <2>1. book' = [book EXCEPT ![o].taken = book[o].taken + 1]
    BY <1>1, <1>2 DEF Book
  <2>2. book[o].taken = 0 /\ book[o] = [taken |-> 0, sold |-> 0, given |-> 0]
    BY <1>1 DEF NoRows
  <2> QED
    BY <1>2, <2>1, <2>2
<1>4. \A p \in Orders : p # o => Same(p)
  BY <1>3 DEF Same
<1>5. HoldOf(o)' = [as |-> "held", goods |-> Goods(o)]
  BY <1>3, HoldIs
<1>6. HoldOf(o) = [as |-> "none", goods |-> [k \in Skus |-> 0]]
  BY <1>1, HoldIs
<1>7. \A k \in Skus : stock'[k] = stock[k] - Goods(o)[k]
  BY <1>1 DEF Less
<1>8. Goods(o) = [k \in Skus |-> stock[k] - stock'[k]] /\ \A k \in Skus : stock'[k] <= stock[k]
  <2>1. \A k \in Skus : Goods(o)[k] = stock[k] - stock'[k] /\ stock'[k] <= stock[k]
    BY <1>2, <1>7
  <2> QED
    BY <1>2, <2>1
<1>9. \A p \in Orders : p # o => HoldOf(p)' = HoldOf(p)
  BY <1>4, HoldStays
<1>10. [p \in Orders |-> HoldOf(p)]'
         = [[p \in Orders |-> HoldOf(p)] EXCEPT ![o] =
              [as |-> "held", goods |-> [k \in Skus |-> stock[k] - stock'[k]]]]
  BY <1>5, <1>8, <1>9
<1>11. TheShelf!Take(o)
  BY <1>2, <1>6, <1>8, <1>10 DEF TheShelf!Take
<1> QED
  BY <1>11 DEF Shelved, TheShelf!ShelfNext

LEMMA Selling ==
    ASSUME FullInv, FullInv', Calm, NEW t \in Threads, WooCommitWrite(t)
    PROVE  Shelved
<1>1. /\ call[t].at = "sell" /\ call[t].key \in Keys /\ call[t].key[1] = "commit" /\ impl = "woo"
      /\ book[Of(t)].taken = 1 /\ book[Of(t)].given = 0 /\ book[Of(t)].sold = 0
  BY DEF WooCommitWrite, FullInv, DoorsInv, StepRight, Idle, Serial, SeenRight
<1>2. PICK o \in Orders : o = Of(t)
  BY <1>1, KeyKinds DEF Of, CodeDoors
<1>3. book \in [Orders -> Rows] /\ UNCHANGED <<impl, scene, stock, counted, cartOf>>
  BY DEF WooCommitWrite, FullInv, DoorsInv, Types
<1>4. book[o] = [taken |-> 1, sold |-> 0, given |-> 0]
  BY <1>1, <1>2, <1>3 DEF Rows
<1>5. book' = [book EXCEPT ![o].sold = book[o].sold + book[o].taken, ![o].taken = 0]
  BY <1>2, <1>3 DEF WooCommitWrite
<1>6. book'[o] = [taken |-> 0, sold |-> 1, given |-> 0] /\ \A p \in Orders : p # o => Same(p)
  BY <1>3, <1>4, <1>5 DEF Same
<1>7. book'[o] = [taken |-> 0, sold |-> 1, given |-> 0]
  BY <1>6
<1>8. HoldOf(o)' = [as |-> "sold", goods |-> [k \in Skus |-> 0]] /\ HoldOf(o).as = "held"
  BY <1>1, <1>3, <1>4, <1>7, HoldIs
<1>9. \A p \in Orders : p # o => HoldOf(p)' = HoldOf(p)
  BY <1>3, <1>6, HoldStays
<1>10. TheShelf!Sell(o)
  BY <1>3, <1>8, <1>9 DEF TheShelf!Sell, TheShelf!Nothing
<1> QED
  BY <1>10 DEF Shelved, TheShelf!ShelfNext

LEMMA Giving ==
    ASSUME FullInv, FullInv', Calm, NEW t \in Threads, SiteReleaseGive(t) \/ WooReleaseGive(t)
    PROVE  Shelved
<1>1. /\ call[t].at = "give" /\ call[t].key \in Keys /\ call[t].key[1] = "release"
      /\ impl \in {"site", "woo"} /\ call[t].saw = 1
      /\ book[Of(t)].taken = 1 /\ book[Of(t)].given = 0 /\ book[Of(t)].sold = 0
  BY DEF SiteReleaseGive, WooReleaseGive, FullInv, DoorsInv, StepRight, Idle, Serial, SeenRight
<1>2. PICK o \in Orders : o = Of(t)
  BY <1>1, KeyKinds DEF Of, CodeDoors
<1>3. /\ book \in [Orders -> Rows] /\ stock \in [Skus -> Nat] /\ Goods(o) \in [Skus -> Nat]
      /\ UNCHANGED <<impl, scene, counted, cartOf>>
  BY GoodsNat DEF SiteReleaseGive, WooReleaseGive, FullInv, DoorsInv, Types
<1>4. book[o] = [taken |-> 1, sold |-> 0, given |-> 0]
  BY <1>1, <1>2, <1>3 DEF Rows
<1>5. book'[o].sold = 0 /\ book'[o].given = 1 /\ book'[o].taken = (IF impl = "woo" THEN 0 ELSE 1)
      /\ \A p \in Orders : p # o => Same(p)
  <2>1. CASE SiteReleaseGive(t)
    <3>1. impl = "site" /\ book' = [book EXCEPT ![o].given = book[o].given + 1]
      BY <1>1, <1>2, <1>3, <2>1 DEF SiteReleaseGive, Book
    <3> QED
      BY <1>3, <1>4, <3>1 DEF Rows, Same
  <2>2. CASE WooReleaseGive(t)
    <3>1. impl = "woo" /\ book' = [book EXCEPT ![o].given = book[o].given + book[o].taken, ![o].taken = 0]
      BY <1>2, <1>3, <2>2 DEF WooReleaseGive
    <3> QED
      BY <1>3, <1>4, <3>1 DEF Rows, Same
  <2> QED
    BY <2>1, <2>2
<1>7. HoldOf(o)' = [as |-> "back", goods |-> [k \in Skus |-> 0]]
  BY <1>1, <1>3, <1>5, HoldIs
<1>8. HoldOf(o) = [as |-> "held", goods |-> Goods(o)]
  BY <1>1, <1>3, <1>4, HoldIs
<1>9. stock' = [k \in Skus |-> stock[k] + Goods(o)[k]]
  <2>1. stock' = [k \in Skus |-> stock[k] + 1 * Goods(o)[k]]
    BY <1>1, <1>2 DEF SiteReleaseGive, WooReleaseGive, More
  <2> QED
    BY <1>3, <2>1
<1>10. \A p \in Orders : p # o => HoldOf(p)' = HoldOf(p)
  BY <1>3, <1>5, HoldStays
<1>11. TheShelf!PutBack(o)
  <2> DEFINE held == [p \in Orders |-> HoldOf(p)]
  <2>1. held[o].as = "held" /\ held[o].goods = Goods(o)
    BY <1>8
  <2>2. held' = [held EXCEPT ![o] = [as |-> "back", goods |-> [k \in Skus |-> 0]]]
    BY <1>7, <1>10
  <2>3. stock' = [k \in Skus |-> stock[k] + held[o].goods[k]]
    BY <1>9, <2>1, Zenon
  <2> QED
    BY <1>3, <2>1, <2>2, <2>3 DEF TheShelf!PutBack, TheShelf!Nothing
<1> QED
  BY <1>11 DEF Shelved, TheShelf!ShelfNext

LEMMA Refilling ==
    ASSUME FullInv, Calm, NEW t \in Threads,
           SiteRestock(t) \/ WooRestock(t) \/ RecountWrite(t)
    PROVE  Shelved
<1>1. stock \in [Skus -> Nat] /\ counted \in [Skus -> Int]
  BY DEF FullInv, DoorsInv, Types
<1>2. /\ \A o \in Orders : Same(o)
      /\ UNCHANGED impl
  BY DEF SiteRestock, WooRestock, RecountWrite, Same
<1>3. CASE SiteRestock(t) \/ WooRestock(t)
  <2>1. PICK o \in Orders : ComesBack(o)
    BY <1>3, RunningKey DEF SiteRestock, WooRestock, CodeDoors, FullInv
  <2>2. Goods(o) \in [Skus -> Nat]
    BY GoodsNat DEF FullInv, DoorsInv
  <2>3. stock' = [k \in Skus |-> stock[k] + counted'[k] - counted[k]]
    BY <1>1, <2>1, <2>2 DEF ComesBack
  <2> QED
    BY <1>2, <2>3, ShelfRecounts DEF Shelved
<1>4. CASE RecountWrite(t)
  <2>1. call[t].saw = stock[Of(t)] /\ call[t].key \in RecountKeys
    BY <1>4 DEF RecountWrite, FullInv, DoorsInv, StepRight, Serial, SeenRight
  <2>2. Of(t) \in Skus /\ call[t].key[3] \in Nat
    BY <2>1, DoorsAssumption DEF RecountKeys, Of
  <2>3. stock' = [k \in Skus |-> stock[k] + counted'[k] - counted[k]]
    <3>1. /\ stock' = [stock EXCEPT ![Of(t)] = call[t].key[3]]
          /\ counted' = [counted EXCEPT ![Of(t)] = @ + call[t].key[3] - stock[Of(t)]]
      BY <1>4, <2>1 DEF RecountWrite
    <3>2. \A k \in Skus : stock'[k] = stock[k] + counted'[k] - counted[k]
      BY <1>1, <2>2, <3>1
    <3> QED
      BY <1>1, <3>1, <3>2
  <2> QED
    BY <1>2, <2>3, ShelfRecounts DEF Shelved
<1> QED
  BY <1>3, <1>4

(* The goods of an order leave the shelf once, and are then sold or put     *)
(* back as they were taken, never both; nothing else moves them.            *)
THEOREM DoorsKeepShelf == Spec => KeepsShelf
<1>1. FullInv /\ FullInv' /\ [Next]_vars =>
        [Calm /\ impl # "fake" => TheShelf!ShelfNext \/ Frozen]_vars
  <2> SUFFICES ASSUME FullInv, FullInv', Next, Calm, impl # "fake" PROVE Shelved
    BY DEF Shelved
  <2>1. ASSUME \A o \in Orders : Same(o), UNCHANGED <<impl, stock, counted>> PROVE Shelved
    BY <2>1, ShelfStutters DEF Shelved, Frozen
  <2>2. ASSUME UNCHANGED shop, UNCHANGED impl PROVE Shelved
    BY <2>1, <2>2 DEF shop, Same
  <2>3. ASSUME NEW t \in Threads,
               \/ (\E key \in Keys : Arrive(t, key)) \/ Remember(t) \/ Die(t)
               \/ SiteReleaseRead(t) \/ WooReleaseRead(t) \/ WooCommitRead(t) \/ ReadBack(t)
               \/ \E k \in Skus, n \in Counts : RecountRead(t, k, n)
        PROVE  Shelved
    BY <2>2, <2>3 DEF Arrive, Remember, Die, SiteReleaseRead, WooReleaseRead, WooCommitRead,
                      ReadBack, RecountRead
  <2>4. ASSUME NEW t \in Threads, SiteCommit(t) \/ SetStatus(t) PROVE Shelved
    BY <2>1, <2>4 DEF SiteCommit, SetStatus, Same
  <2>5. ASSUME NEW t \in Threads, SiteReserve(t) \/ WooReserve(t) PROVE Shelved
    <3>1. /\ ~Idle(t) /\ call[t].at = "run" /\ call[t].key \in Keys /\ call[t].key[1] = "reserve"
          /\ impl \in {"site", "woo"} /\ UNCHANGED <<impl, scene>>
      BY <2>5, RunningKey DEF SiteReserve, WooReserve, CodeDoors, FullInv
    <3>2. CASE UNCHANGED shop
      BY <2>2, <2>5, <3>2 DEF SiteReserve, WooReserve
    <3>3. CASE Enough(Of(t)) /\ Less(Of(t)) /\ Book(Of(t), "taken", 1) /\ UNCHANGED <<counted, cartOf>>
      BY <2>5, <3>1, <3>3, Taking DEF SiteReserve, WooReserve
    <3> QED
      BY <2>5, <3>2, <3>3 DEF SiteReserve, WooReserve
  <2>6. ASSUME NEW t \in Threads, SiteHoldCode(t) \/ WooHoldCode(t) PROVE Shelved
    <3>1. ~Idle(t) /\ call[t].at = "code" /\ call[t].key \in Keys /\ call[t].key[1] = "reserve"
          /\ Enough(Of(t)) /\ impl \in {"site", "woo"} /\ UNCHANGED <<impl, scene>>
      BY <2>6 DEF SiteHoldCode, WooHoldCode, FullInv, DoorsInv, StepRight, Idle
    <3>2. CASE UNCHANGED shop
      BY <2>2, <2>6, <3>2 DEF SiteHoldCode, WooHoldCode
    <3>3. CASE Less(Of(t)) /\ Book(Of(t), "taken", 1) /\ UNCHANGED <<counted, cartOf>>
      BY <2>6, <3>1, <3>3, Taking DEF SiteHoldCode, WooHoldCode
    <3> QED
      BY <2>6, <3>2, <3>3 DEF SiteHoldCode, WooHoldCode
  <2>7. ASSUME NEW t \in Threads, Create(t) PROVE Shelved
    <3>1. CASE UNCHANGED shop
      BY <2>2, <2>7, <3>1 DEF Create
    <3>2. ASSUME NEW o \in Orders, cartOf[o] = NoCart, cartOf' = [cartOf EXCEPT ![o] = Of(t)],
                 UNCHANGED <<impl, stock, counted, book>>
          PROVE  Shelved
      <4>1. book[o] = NoRows /\ cartOf \in [Orders -> Carts \cup {NoCart}]
        BY <3>2 DEF FullInv, Serial, RowsRight, DoorsInv, Types
      <4>2. \A p \in Orders : Same(p)
        BY <3>2, <4>1 DEF Same
      <4> QED
        BY <2>1, <3>2, <4>2
    <3> QED
      BY <2>7, <3>1, <3>2 DEF Create
  <2>8. ASSUME NEW t \in Threads,
               FakeReserve(t) \/ FakeCommit(t) \/ FakeRelease(t) \/ FakeRestock(t)
        PROVE  FALSE
    BY <2>8 DEF FakeReserve, FakeCommit, FakeRelease, FakeRestock, Running
  <2> QED
    BY <2>3, <2>4, <2>5, <2>6, <2>7, <2>8, Selling, Giving, Refilling DEF Next
<1> QED
  BY <1>1, FullInvariant, PTL DEF Spec, KeepsShelf, Frozen

(* And it begins there.                                                     *)
THEOREM DoorsBeginAsShelf == Init => TheShelf!ShelfInit
<1> SUFFICES ASSUME Init PROVE TheShelf!ShelfInit
  OBVIOUS
<1>1. \A o \in Orders : HoldOf(o) = [as |-> "none", goods |-> [k \in Skus |-> 0]]
  BY DEF Init, HoldOf, NoRows
<1>2. stock \in [Skus -> Nat] /\ counted = stock
  BY DoorsInitially DEF DoorsInv, Types, Init
<1> QED
  BY <1>1, <1>2 DEF TheShelf!ShelfInit, TheShelf!Nothing

-----------------------------------------------------------------------------
(* The books explain the shelf.  The rows of an order are of goods it has:  *)
(* a door that writes one is asked of an order door 7 made.                 *)

Explained == \A k \in Skus : stock[k] = counted[k] - Missing(k)

Booked == (impl = "site" /\ scene = "racing") \/ (impl # "fake" /\ Calm)

MadeFirst ==
    /\ \A o \in Orders : book[o] # NoRows => cartOf[o] # NoCart
    /\ \A t \in Threads :
          ~Idle(t) /\ (call[t].key[1] = "reserve" \/ call[t].at = "give") => cartOf[Of(t)] # NoCart
    /\ scene = "racing" => \A t \in Threads : call[t].at # "recount"

BooksInv == MadeFirst /\ (Booked => Explained)

Share(o, k) == Out(o) * Goods(o)[k]

LEMMA ShareInt == ASSUME Types, NEW o \in Orders, NEW k \in Skus
                  PROVE  Out(o) \in Int /\ Goods(o)[k] \in Nat /\ Share(o, k) \in Int
<1>1. Goods(o)[k] \in Nat
  BY GoodsNat
<1>2. Out(o) \in Int
  BY DEF Types, Rows, Out
<1> QED
  BY <1>1, <1>2 DEF Share

LEMMA MissingIs == ASSUME NEW k \in Skus
                   PROVE  Missing(k) = SumFunctionOnSet([o \in Orders |-> Share(o, k)], Orders)
BY DEF Missing, Share, SumFunction

(* Rows, carts and goods that say the same leave the same missing.          *)
LEMMA NobodyMoves ==
    ASSUME Types, Types', Explained,
           \A o \in Orders, k \in Skus : Share(o, k)' = Share(o, k),
           \A k \in Skus : stock'[k] - counted'[k] = stock[k] - counted[k]
    PROVE  Explained'
<1> SUFFICES ASSUME NEW k \in Skus PROVE stock'[k] = counted'[k] - Missing(k)'
  BY DEF Explained
<1> DEFINE f == [o \in Orders |-> Share(o, k)]
           h == [o \in Orders |-> Share(o, k)']
<1>1. \A o \in Orders : f[o] \in Int /\ f[o] = h[o]
  BY ShareInt
<1>2. SumFunctionOnSet(f, Orders) = SumFunctionOnSet(h, Orders) /\ SumFunctionOnSet(f, Orders) \in Int
  <2> HIDE DEF f, h
  <2> QED
    BY <1>1, SumSame, SumInt, DoorsAssumption
<1>3. Missing(k) = SumFunctionOnSet(f, Orders)
  BY MissingIs
<1>4. Missing(k)' = SumFunctionOnSet(h, Orders)
  BY DEF Missing, Share, SumFunction
<1>5. stock[k] = counted[k] - Missing(k) /\ stock[k] \in Int /\ counted[k] \in Int
      /\ stock'[k] \in Int /\ counted'[k] \in Int
  BY DEF Explained, Types
<1> HIDE DEF f, h
<1> QED
  BY <1>2, <1>3, <1>4, <1>5

(* An order's goods leave the shelf d times, or come back.                  *)
LEMMA OneMoves ==
    ASSUME Types, Types', Explained, NEW o \in Orders, NEW d \in Int,
           cartOf' = cartOf, counted' = counted,
           Out(o)' = Out(o) + d, \A p \in Orders : p # o => Out(p)' = Out(p),
           \A k \in Skus : stock'[k] = stock[k] - d * Goods(o)[k]
    PROVE  Explained'
<1> SUFFICES ASSUME NEW k \in Skus PROVE stock'[k] = counted'[k] - Missing(k)'
  BY DEF Explained
<1> DEFINE f == [p \in Orders |-> Share(p, k)]
           h == [p \in Orders |-> Share(p, k)']
<1>0. \A p \in Orders : Goods(p)' = Goods(p)
  BY DEF Goods
<1>1. \A p \in Orders : f[p] \in Int /\ h[p] \in Int /\ (p # o => f[p] = h[p])
  <2> TAKE p \in Orders
  <2>1. Share(p, k) \in Int
    BY ShareInt
  <2>2. Out(p)' \in Int /\ Goods(p)[k] \in Nat
    BY ShareInt DEF Types, Rows, Out
  <2>3. Share(p, k)' = Out(p)' * Goods(p)[k]
    BY <1>0 DEF Share
  <2>4. p # o => Share(p, k)' = Share(p, k)
    BY <2>3 DEF Share
  <2>5. Share(p, k)' \in Int
    BY <2>2, <2>3
  <2> QED
    BY <2>1, <2>4, <2>5
<1>2. h[o] - f[o] = d * Goods(o)[k]
  <2>1. f[o] = Out(o) * Goods(o)[k] /\ h[o] = (Out(o) + d) * Goods(o)[k]
    BY <1>0 DEF Share
  <2>2. Out(o) \in Int /\ Goods(o)[k] \in Int
    BY ShareInt
  <2>3. \A a, b, c \in Int : (a + b) * c - a * c = b * c
    OBVIOUS
  <2> HIDE DEF f, h
  <2> QED
    BY <2>1, <2>2, <2>3
<1>3. SumFunctionOnSet(h, Orders) = SumFunctionOnSet(f, Orders) + h[o] - f[o]
      /\ SumFunctionOnSet(f, Orders) \in Int /\ SumFunctionOnSet(h, Orders) \in Int
  <2> HIDE DEF f, h
  <2>1. IsFiniteSet(Orders)
    BY DoorsAssumption
  <2>2. SumFunctionOnSet(f, Orders) \in Int /\ SumFunctionOnSet(h, Orders) \in Int
    BY <1>1, <2>1, SumInt
  <2>3. \A p \in Orders : f[p] \in Int /\ h[p] \in Int
    BY <1>1
  <2>4. \A p \in Orders : p # o => f[p] = h[p]
    BY <1>1
  <2>5. SumFunctionOnSet(h, Orders) = SumFunctionOnSet(f, Orders) + h[o] - f[o]
    BY <2>1, <2>3, <2>4, SumChanged
  <2> QED
    BY <2>2, <2>5
<1>4. Missing(k) = SumFunctionOnSet(f, Orders)
  BY MissingIs
<1>5. Missing(k)' = SumFunctionOnSet(h, Orders)
  BY DEF Missing, Share, SumFunction
<1>6. stock[k] = counted[k] - Missing(k) /\ stock[k] \in Int /\ counted[k] \in Int
  BY DEF Explained, Types
<1>7. stock'[k] = stock[k] - d * Goods(o)[k] /\ d * Goods(o)[k] \in Int
  BY GoodsNat
<1>8. f[o] \in Int /\ h[o] \in Int
  BY <1>1
<1> HIDE DEF f, h
<1> QED
  BY <1>2, <1>3, <1>4, <1>5, <1>6, <1>7, <1>8

LEMMA BooksInitially == Init => BooksInv
<1> SUFFICES ASSUME Init PROVE BooksInv
  OBVIOUS
<1>0. Types
  BY DoorsInitially DEF DoorsInv
<1>1. MadeFirst
  BY DEF Init, MadeFirst, Idle, Quiet
<1>2. ASSUME NEW k \in Skus PROVE stock[k] = counted[k] - Missing(k)
  <2> DEFINE f == [o \in Orders |-> Share(o, k)]
             g == [o \in Orders |-> 0 * Share(o, k)]
  <2>1. \A o \in Orders : f[o] = 0
    BY <1>0, GoodsNat DEF Init, Out, NoRows, Share
  <2>2. \A o \in Orders : f[o] \in Int /\ f[o] = 0 * f[o]
    <3> HIDE DEF f
    <3> QED
      BY <2>1
  <2>3. SumFunctionOnSet(f, Orders) = 0 * SumFunctionOnSet(f, Orders)
        /\ SumFunctionOnSet(f, Orders) \in Int
    <3> HIDE DEF f
    <3> QED
      BY <2>2, SumTimes, SumInt, DoorsAssumption
  <2>4. Missing(k) = SumFunctionOnSet(f, Orders)
    BY MissingIs
  <2>5. stock[k] = counted[k] /\ stock[k] \in Int
    BY <1>0 DEF Init, Types
  <2> HIDE DEF f
  <2> QED
    BY <2>3, <2>4, <2>5
<1> QED
  BY <1>1, <1>2 DEF BooksInv, Explained

LEMMA MadeKept ==
    ASSUME Types, MadeFirst, NEW t \in Threads, call' \in [Threads -> Calls],
           scene' = scene, call'[t].at = "recount" => scene # "racing",
           \A u \in Threads : u # t => call'[u] = call[u],
           \A o \in Orders : cartOf[o] # NoCart => cartOf'[o] # NoCart,
           \A o \in Orders : book[o] = NoRows /\ book'[o] # NoRows => cartOf'[o] # NoCart,
           ~Idle(t)' /\ (call'[t].key[1] = "reserve" \/ call'[t].at = "give") => cartOf'[Of(t)'] # NoCart,
           \A u \in Threads : ~Idle(u) /\ (call[u].key[1] = "reserve" \/ call[u].at = "give") => Of(u) \in Orders
    PROVE  MadeFirst'
BY DEF MadeFirst, Idle, Of

LEMMA AskedOfOrders ==
    ASSUME DoorsInv, NEW u \in Threads, ~Idle(u), call[u].key[1] = "reserve" \/ call[u].at = "give"
    PROVE  Of(u) \in Orders
<1>1. call[u].at # "recount"
  BY DEF DoorsInv, StepRight, RecountKeys
<1>2. call[u].key \in Keys /\ call[u].key[1] \in CodeDoors
  BY <1>1 DEF DoorsInv, StepRight, CodeDoors
<1> QED
  BY <1>2, KeyKinds DEF Of

(* A worker that goes on with the request it has.                           *)
LEMMA MadeGoesOn ==
    ASSUME DoorsInv, MadeFirst, NEW t \in Threads, ~Idle(t), call' \in [Threads -> Calls], cartOf' = cartOf,
           \A u \in Threads : u # t => call'[u] = call[u],
           scene' = scene, call'[t].key = call[t].key, call'[t].at # "recount",
           call'[t].at = "give" => call[t].at = "give" \/ cartOf[Of(t)] # NoCart,
           \A o \in Orders : book[o] = NoRows /\ book'[o] # NoRows =>
              o = Of(t) /\ (call[t].key[1] = "reserve" \/ call[t].at = "give")
    PROVE  MadeFirst'
<1>1. ~Idle(t)' /\ (call'[t].key[1] = "reserve" \/ call'[t].at = "give") => cartOf'[Of(t)'] # NoCart
  BY DEF MadeFirst, Of
<1>2. \A o \in Orders : book[o] = NoRows /\ book'[o] # NoRows => cartOf'[o] # NoCart
  BY DEF MadeFirst
<1> QED
  BY <1>1, <1>2, MadeKept, AskedOfOrders DEF DoorsInv

LEMMA Answered ==
    ASSUME DoorsInv, NEW t \in Threads, NEW a, Answer(t, a)
    PROVE  /\ \A u \in Threads : u # t => call'[u] = call[u]
           /\ call'[t].key = call[t].key /\ call'[t].at = "remember"
BY DEF Answer, DoorsInv, Types, Calls

LEMMA Went ==
    ASSUME DoorsInv, NEW t \in Threads, NEW at, NEW saw, Goto(t, at, saw)
    PROVE  /\ \A u \in Threads : u # t => call'[u] = call[u]
           /\ call'[t].key = call[t].key /\ call'[t].at = at /\ call'[t].saw = saw
BY DEF Goto, DoorsInv, Types, Calls

LEMMA MadeStep == ASSUME DoorsInv, DoorsInv', MadeFirst, [Next]_vars PROVE MadeFirst'
<1>0. call' \in [Threads -> Calls] /\ Types /\ Types' /\ scene' = scene
  BY ShopOfOneKind DEF DoorsInv, Types
<1>1. CASE UNCHANGED vars
  BY <1>1 DEF vars, shop, MadeFirst, Idle, Of
<1>2. ASSUME NEW t \in Threads, NEW key \in Keys, Arrive(t, key) PROVE MadeFirst'
  <2>1. UNCHANGED <<cartOf, book>>
    BY <1>2 DEF Arrive, shop
  <2>2. CASE UNCHANGED call
    BY <1>0, <2>1, <2>2 DEF MadeFirst, Idle, Of
  <2>3. CASE call' = [call EXCEPT ![t] = [Quiet EXCEPT !.key = key, !.at = "run"]]
    <3>1. /\ \A u \in Threads : u # t => call'[u] = call[u]
          /\ call'[t].key = key /\ call'[t].at = "run"
      BY <1>0, <2>3 DEF Types, Quiet
    <3>2. key[1] = "reserve" => cartOf[key[2]] # NoCart
      BY <1>2 DEF Arrive
    <3> QED
      BY <1>0, <2>1, <3>1, <3>2, MadeKept, AskedOfOrders DEF Of
  <2> QED
    BY <1>2, <2>2, <2>3 DEF Arrive
<1>3. ASSUME NEW t \in Threads, Remember(t) \/ Die(t) \/ RecountWrite(t) PROVE MadeFirst'
  <2>1. /\ UNCHANGED <<cartOf, book>> /\ call' = [call EXCEPT ![t] = Quiet]
    BY <1>3 DEF Remember, Die, RecountWrite, shop
  <2>2. /\ \A u \in Threads : u # t => call'[u] = call[u]
        /\ call'[t] = Quiet
    BY <1>0, <2>1 DEF Types
  <2>3. Idle(t)' /\ call'[t].at # "recount"
    BY <2>2 DEF Idle, Quiet
  <2> QED
    BY <1>0, <2>1, <2>2, <2>3, MadeKept, AskedOfOrders
<1>4. ASSUME NEW t \in Threads, SiteReserve(t) \/ WooReserve(t) \/ FakeReserve(t) PROVE MadeFirst'
  <2>1. ~Idle(t) /\ call[t].key[1] = "reserve" /\ cartOf' = cartOf
    BY <1>4, RunningKey DEF SiteReserve, WooReserve, FakeReserve, Running, shop, CodeDoors, Idle
  <2>2. \E a : Answer(t, a) \/ Goto(t, "code", uses)
    BY <1>4 DEF SiteReserve, WooReserve, FakeReserve
  <2>3. /\ \A u \in Threads : u # t => call'[u] = call[u]
        /\ call'[t].key = call[t].key /\ call'[t].at \notin {"give", "recount"}
    BY <2>2, Answered, Went
  <2>4. \A o \in Orders : o # Of(t) => book'[o] = book[o]
    BY <1>0, <1>4 DEF SiteReserve, WooReserve, FakeReserve, shop, Book, Types
  <2> QED
    BY <1>0, <2>1, <2>3, <2>4, MadeGoesOn
<1>5. ASSUME NEW t \in Threads, SiteHoldCode(t) \/ WooHoldCode(t) PROVE MadeFirst'
  <2>1. ~Idle(t) /\ call[t].key[1] = "reserve" /\ cartOf' = cartOf
    BY <1>5 DEF SiteHoldCode, WooHoldCode, shop, DoorsInv, StepRight, Idle
  <2>2. \E a : Answer(t, a)
    BY <1>5 DEF SiteHoldCode, WooHoldCode
  <2>3. \A o \in Orders : o # Of(t) => book'[o] = book[o]
    BY <1>0, <1>5 DEF SiteHoldCode, WooHoldCode, shop, Book, Types
  <2> QED
    BY <1>0, <2>1, <2>2, <2>3, Answered, MadeGoesOn
<1>6. ASSUME NEW t \in Threads,
             \/ SiteCommit(t) \/ WooCommitWrite(t) \/ FakeCommit(t) \/ FakeRelease(t)
             \/ SiteRestock(t) \/ WooRestock(t) \/ FakeRestock(t) \/ ReadBack(t)
      PROVE  MadeFirst'
  <2>1. ~Idle(t) /\ cartOf' = cartOf /\ \E a : Answer(t, a)
    BY <1>6 DEF SiteCommit, WooCommitWrite, FakeCommit, FakeRelease, SiteRestock, WooRestock,
                FakeRestock, ReadBack, Running, Idle, shop
  <2>2. CASE book' = book
    BY <1>0, <2>1, <2>2, Answered, MadeGoesOn
  <2>3. CASE FakeCommit(t) \/ FakeRelease(t)
    <3>1. book' = book \/ book' = [book EXCEPT ![Of(t)].taken = 0]
      BY <2>3 DEF FakeCommit, FakeRelease
    <3>2. \A o \in Orders : book[o] = NoRows => book'[o] = NoRows
      BY <1>0, <3>1 DEF Types, Rows, NoRows
    <3> QED
      BY <1>0, <2>1, <3>2, Answered, MadeGoesOn
  <2>4. CASE WooCommitWrite(t)
    <3>1. ASSUME NEW o \in Orders, book[o] = NoRows PROVE book'[o] = NoRows
      <4>1. CASE o # Of(t)
        BY <1>0, <2>4, <4>1, <3>1 DEF WooCommitWrite, Types
      <4>2. CASE o = Of(t)
        <5>1. book'[o] = [[book[o] EXCEPT !.sold = @ + book[o].taken] EXCEPT !.taken = 0]
          BY <1>0, <2>4, <4>2 DEF WooCommitWrite, Types
        <5>2. book[o] \in Rows
          BY <1>0 DEF Types
        <5>3. book'[o] = [taken |-> 0, sold |-> book[o].sold + book[o].taken, given |-> book[o].given]
          BY <5>1, <5>2 DEF Rows
        <5>4. 0 + 0 = 0
          OBVIOUS
        <5> QED
          BY <3>1, <5>3, <5>4 DEF NoRows
      <4> QED
        BY <4>1, <4>2
    <3> QED
      BY <1>0, <2>1, <3>1, Answered, MadeGoesOn
  <2> QED
    BY <1>6, <2>2, <2>3, <2>4 DEF SiteCommit, SiteRestock, WooRestock, FakeRestock, ReadBack, shop
<1>7. ASSUME NEW t \in Threads, SiteReleaseRead(t) \/ WooReleaseRead(t) \/ WooCommitRead(t) PROVE MadeFirst'
  <2>1. ~Idle(t) /\ UNCHANGED <<cartOf, book>> /\ Of(t) \in Orders
    BY <1>7, RunningKey DEF SiteReleaseRead, WooReleaseRead, WooCommitRead, shop, CodeDoors
  <2>2. \/ \E a : Answer(t, a)
        \/ Goto(t, "sell", 0)
        \/ book[Of(t)].taken # 0 /\ \E n : Goto(t, "give", n)
    BY <1>0, <1>7, <2>1 DEF SiteReleaseRead, WooReleaseRead, WooCommitRead, Types, Rows
  <2>3. /\ \A u \in Threads : u # t => call'[u] = call[u]
        /\ call'[t].key = call[t].key /\ call'[t].at # "recount"
        /\ call'[t].at = "give" => book[Of(t)].taken # 0
    BY <2>2, Answered, Went
  <2>4. call'[t].at = "give" => cartOf[Of(t)] # NoCart
    BY <2>1, <2>3 DEF MadeFirst, NoRows
  <2> QED
    BY <1>0, <2>1, <2>3, <2>4, MadeGoesOn
<1>8. ASSUME NEW t \in Threads, SiteReleaseGive(t) \/ WooReleaseGive(t) PROVE MadeFirst'
  <2>1. ~Idle(t) /\ cartOf' = cartOf /\ call[t].at = "give" /\ \E a : Answer(t, a)
    BY <1>8 DEF SiteReleaseGive, WooReleaseGive, Idle
  <2>2. \A o \in Orders : o # Of(t) => book'[o] = book[o]
    BY <1>0, <1>8 DEF SiteReleaseGive, WooReleaseGive, Book, Types
  <2> QED
    BY <1>0, <2>1, <2>2, Answered, MadeGoesOn
<1>9. ASSUME NEW t \in Threads, Create(t) PROVE MadeFirst'
  <2>1. book' = book /\ \E a : Answer(t, a)
    BY <1>9 DEF Create, shop
  <2>2. \A o \in Orders : cartOf[o] # NoCart => cartOf'[o] # NoCart
    BY <1>0, <1>9 DEF Create, shop, Types
  <2>3. call'[t].key[1] # "reserve" /\ call'[t].at # "give"
    BY <1>9, <2>1, Answered DEF Create
  <2> QED
    BY <1>0, <2>1, <2>2, <2>3, Answered, MadeKept, AskedOfOrders
<1>10. ASSUME NEW t \in Threads, SetStatus(t) PROVE MadeFirst'
  <2>1. ~Idle(t) /\ UNCHANGED <<book, cartOf>>
    BY <1>10 DEF SetStatus, Idle
  <2>2. (\E a : Answer(t, a)) \/ Goto(t, "read", 0)
    BY <1>10 DEF SetStatus
  <2>3. /\ \A u \in Threads : u # t => call'[u] = call[u]
        /\ call'[t].key = call[t].key /\ call'[t].at \notin {"give", "recount"}
    BY <2>2, Answered, Went
  <2> QED
    BY <1>0, <2>1, <2>3, MadeGoesOn
<1>11. ASSUME NEW t \in Threads, NEW k \in Skus, NEW n \in Counts, RecountRead(t, k, n) PROVE MadeFirst'
  <2>1. UNCHANGED <<cartOf, book>>
    BY <1>11 DEF RecountRead, shop
  <2>2. /\ \A u \in Threads : u # t => call'[u] = call[u]
        /\ call'[t].key[1] = "recount" /\ call'[t].at = "recount" /\ scene # "racing"
    BY <1>0, <1>11 DEF RecountRead, Types, Quiet
  <2> QED
    BY <1>0, <2>1, <2>2, MadeKept, AskedOfOrders
<1> QED
  BY <1>1, <1>2, <1>3, <1>4, <1>5, <1>6, <1>7, <1>8, <1>9, <1>10, <1>11 DEF Next

(* Nothing on the shelf or in the rows moves.                               *)
LEMMA ShelfRests ==
    ASSUME Types, Types', Explained, UNCHANGED <<impl, stock, counted, book, cartOf>>
    PROVE  Explained'
<1>1. \A o \in Orders, k \in Skus : Share(o, k)' = Share(o, k)
  BY DEF Share, Out, Goods
<1> QED
  BY <1>1, NobodyMoves

LEMMA TakesOne ==
    ASSUME Types, Types', Explained, impl \in {"site", "woo"}, impl' = impl, NEW o \in Orders,
           Less(o), Book(o, "taken", 1), UNCHANGED <<counted, cartOf>>
    PROVE  Explained'
<1>1. /\ book'[o].taken = book[o].taken + 1 /\ book'[o].sold = book[o].sold
      /\ book'[o].given = book[o].given
      /\ \A p \in Orders : p # o => book'[p] = book[p]
      /\ book[o] \in Rows
  BY DEF Book, Types, Rows
<1>2. Out(o)' = Out(o) + 1 /\ \A p \in Orders : p # o => Out(p)' = Out(p)
  BY <1>1 DEF Out, Rows
<1>3. \A k \in Skus : stock'[k] = stock[k] - 1 * Goods(o)[k]
  BY GoodsNat DEF Less, Types
<1> QED
  BY <1>2, <1>3, OneMoves

LEMMA GivesBack ==
    ASSUME Types, Types', Explained, impl' = impl, NEW o \in Orders, NEW n \in Nat,
           More(o, n), Out(o)' = Out(o) - n, \A p \in Orders : p # o => book'[p] = book[p],
           UNCHANGED <<counted, cartOf>>
    PROVE  Explained'
<1>1. Out(o)' = Out(o) + (-n) /\ -n \in Int
  BY ShareInt DEF Types, Out, Rows
<1>2. \A p \in Orders : p # o => Out(p)' = Out(p)
  BY DEF Out
<1>3. ASSUME NEW k \in Skus PROVE stock'[k] = stock[k] - (-n) * Goods(o)[k]
  <2>1. stock'[k] = stock[k] + n * Goods(o)[k] /\ stock[k] \in Int /\ Goods(o)[k] \in Int
    BY GoodsNat DEF More, Types
  <2>2. \A a, b, c \in Int : a + b * c = a - (-b) * c
    OBVIOUS
  <2> QED
    BY <2>1, <2>2
<1> QED
  BY <1>1, <1>2, <1>3, OneMoves

LEMMA GoodsReturn ==
    ASSUME Types, Types', Explained, NEW o \in Orders, ComesBack(o), UNCHANGED <<impl, book, cartOf>>
    PROVE  Explained'
<1>1. \A p \in Orders, k \in Skus : Share(p, k)' = Share(p, k)
  BY DEF Share, Out, Goods
<1>2. \A k \in Skus : stock'[k] - counted'[k] = stock[k] - counted[k]
  BY GoodsNat DEF ComesBack, Types
<1> QED
  BY <1>1, <1>2, NobodyMoves

LEMMA BooksStep ==
    ASSUME FullInv, FullInv', BooksInv, Booked, [Next]_vars PROVE Explained'
<1>0. Types /\ Types' /\ Explained /\ DoorsInv /\ DoorsInv' /\ MadeFirst /\ impl' = impl
  BY ShopOfOneKind DEF FullInv, DoorsInv, BooksInv
<1>1. CASE UNCHANGED <<impl, stock, counted, book, cartOf>>
  BY <1>0, <1>1, ShelfRests
<1>2. ASSUME NEW t \in Threads,
             Remember(t) \/ Die(t) \/ SetStatus(t) \/ ReadBack(t) \/ \E key \in Keys : Arrive(t, key)
      PROVE  UNCHANGED <<impl, stock, counted, book, cartOf>>
  BY <1>2 DEF Remember, Die, SetStatus, ReadBack, Arrive, shop
<1>3. ASSUME NEW t \in Threads,
             \/ SiteCommit(t) \/ SiteReleaseRead(t) \/ WooCommitRead(t) \/ WooReleaseRead(t)
             \/ \E k \in Skus, n \in Counts : RecountRead(t, k, n)
      PROVE  UNCHANGED <<impl, stock, counted, book, cartOf>>
  BY <1>3 DEF SiteCommit, SiteReleaseRead, WooCommitRead, WooReleaseRead, RecountRead, shop
<1>4. ASSUME NEW t \in Threads, SiteReserve(t) \/ WooReserve(t) PROVE Explained'
  <2>1. Of(t) \in Orders /\ impl \in {"site", "woo"}
    BY <1>0, <1>4, RunningKey DEF SiteReserve, WooReserve, CodeDoors
  <2>2. UNCHANGED shop \/ (Less(Of(t)) /\ Book(Of(t), "taken", 1) /\ UNCHANGED <<counted, cartOf>>)
    BY <1>4 DEF SiteReserve, WooReserve
  <2> QED
    BY <1>0, <1>1, <2>1, <2>2, TakesOne DEF shop
<1>5. ASSUME NEW t \in Threads, SiteHoldCode(t) \/ WooHoldCode(t) PROVE Explained'
  <2>1. ~Idle(t) /\ call[t].key[1] = "reserve" /\ impl \in {"site", "woo"}
    BY <1>0, <1>5 DEF SiteHoldCode, WooHoldCode, DoorsInv, StepRight, Idle
  <2>2. UNCHANGED shop \/ (Less(Of(t)) /\ Book(Of(t), "taken", 1) /\ UNCHANGED <<counted, cartOf>>)
    BY <1>5 DEF SiteHoldCode, WooHoldCode
  <2> QED
    BY <1>0, <1>1, <2>1, <2>2, TakesOne, AskedOfOrders DEF shop
<1>6. ASSUME NEW t \in Threads, SiteReleaseGive(t) PROVE Explained'
  <2>1. PICK o \in Orders : o = Of(t)
    BY <1>0, <1>6, AskedOfOrders DEF SiteReleaseGive, Idle
  <2>2. PICK n \in Nat : n = call[t].saw
    BY <1>0 DEF Types, Calls
  <2>3. /\ impl = "site" /\ More(o, n) /\ Book(o, "given", n) /\ UNCHANGED <<counted, cartOf>>
    BY <1>6, <2>1, <2>2 DEF SiteReleaseGive
  <2>4. /\ book'[o].taken = book[o].taken /\ book'[o].given = book[o].given + n
        /\ \A p \in Orders : p # o => book'[p] = book[p]
        /\ book[o] \in Rows
    BY <1>0, <2>3 DEF Book, Types, Rows
  <2>5. Out(o)' = Out(o) - n
    BY <1>0, <2>3, <2>4 DEF Out, Rows
  <2> QED
    BY <1>0, <2>3, <2>4, <2>5, GivesBack
<1>7. ASSUME NEW t \in Threads, WooReleaseGive(t) PROVE Explained'
  <2>1. PICK o \in Orders : o = Of(t)
    BY <1>0, <1>7, AskedOfOrders DEF WooReleaseGive, Idle
  <2>2. Calm /\ impl = "woo"
    BY <1>7 DEF WooReleaseGive, Booked
  <2>3. call[t].saw = 1 /\ book[o].taken = 1 /\ book[o].given = 0 /\ book[o].sold = 0
    BY <1>7, <2>1, <2>2 DEF WooReleaseGive, FullInv, Serial, SeenRight
  <2>4. /\ More(o, 1) /\ UNCHANGED <<counted, cartOf>>
        /\ book' = [book EXCEPT ![o].given = @ + book[o].taken, ![o].taken = 0]
    BY <1>7, <2>1, <2>3 DEF WooReleaseGive
  <2>5. /\ book'[o].taken = 0 /\ book'[o].sold = book[o].sold
        /\ \A p \in Orders : p # o => book'[p] = book[p]
    BY <1>0, <2>4 DEF Types, Rows
  <2>6. Out(o)' = Out(o) - 1
    BY <1>0, <2>2, <2>3, <2>5 DEF Out
  <2> QED
    BY <1>0, <2>4, <2>5, <2>6, GivesBack
<1>8. ASSUME NEW t \in Threads, WooCommitWrite(t) PROVE Explained'
  <2> DEFINE o == Of(t)
  <2>1. impl = "woo" /\ UNCHANGED <<stock, counted, cartOf>>
    BY <1>0, <1>8 DEF WooCommitWrite, DoorsInv, StepRight
  <2>2. ASSUME NEW p \in Orders PROVE Out(p)' = Out(p)
    <3>0. book[p] \in Rows
      BY <1>0 DEF Types
    <3>1. CASE p # o
      BY <1>0, <1>8, <3>1 DEF WooCommitWrite, Out, Types
    <3>2. CASE p = o
      <4>1. book'[p].taken = 0 /\ book'[p].sold = book[p].sold + book[p].taken
        BY <1>0, <1>8, <3>2 DEF WooCommitWrite, Types, Rows
      <4> QED
        BY <1>0, <2>1, <3>0, <4>1 DEF Out, Rows
    <3> QED
      BY <3>1, <3>2
  <2>3. \A p \in Orders, k \in Skus : Share(p, k)' = Share(p, k)
    BY <2>1, <2>2 DEF Share, Goods
  <2> QED
    BY <1>0, <2>1, <2>3, NobodyMoves
<1>9. ASSUME NEW t \in Threads, SiteRestock(t) \/ WooRestock(t) PROVE Explained'
  <2>1. Of(t) \in Orders
    BY <1>0, <1>9, RunningKey DEF SiteRestock, WooRestock, CodeDoors
  <2> QED
    BY <1>0, <1>9, <2>1, GoodsReturn DEF SiteRestock, WooRestock
<1>10. ASSUME NEW t \in Threads, FakeReserve(t) \/ FakeCommit(t) \/ FakeRelease(t) \/ FakeRestock(t)
       PROVE  FALSE
  BY <1>10 DEF FakeReserve, FakeCommit, FakeRelease, FakeRestock, Running, Booked
<1>11. ASSUME NEW t \in Threads, Create(t) PROVE Explained'
  <2>1. CASE UNCHANGED shop
    BY <1>1, <1>0, <2>1 DEF shop
  <2>2. ASSUME NEW o \in Orders, cartOf[o] = NoCart, cartOf' = [cartOf EXCEPT ![o] = Of(t)],
               UNCHANGED <<stock, counted, book>>
        PROVE  Explained'
    <3>1. book[o] = NoRows
      BY <1>0, <2>2 DEF MadeFirst
    <3>2. Out(o) = 0 /\ Out(o)' = 0 /\ Goods(o)' \in [Skus -> Nat] /\ Goods(o) \in [Skus -> Nat]
      <4>1. Out(o) = 0 /\ Out(o)' = 0
        BY <1>0, <2>2, <3>1 DEF Out, NoRows
      <4>2. Goods(o)' \in [Skus -> Nat]
        BY <1>0, DoorsAssumption DEF Goods, Types
      <4> QED
        BY <1>0, <4>1, <4>2, GoodsNat
    <3>3. \A k \in Skus : Share(o, k) = 0 /\ Share(o, k)' = 0
      BY <3>2 DEF Share
    <3>4. \A p \in Orders : p # o => Out(p)' = Out(p) /\ Goods(p)' = Goods(p)
      BY <1>0, <2>2 DEF Out, Goods, Types
    <3>5. \A p \in Orders, k \in Skus : Share(p, k)' = Share(p, k)
      BY <3>3, <3>4 DEF Share
    <3> QED
      BY <1>0, <2>2, <3>5, NobodyMoves
  <2> QED
    BY <1>11, <2>1, <2>2 DEF Create
<1>12. ASSUME NEW t \in Threads, RecountWrite(t) PROVE Explained'
  <2> DEFINE k == Of(t)
             n == call[t].key[3]
  <2>1. impl = "site" /\ Calm /\ call[t].key \in RecountKeys
    <3>1. impl = "site" /\ call[t].key \in RecountKeys
      BY <1>0, <1>12 DEF RecountWrite, DoorsInv, StepRight
    <3> QED
      BY <1>0, <1>12, <3>1 DEF RecountWrite, MadeFirst, Booked
  <2>2. k \in Skus /\ n \in Nat /\ call[t].saw = stock[k]
    BY <1>12, <2>1, DoorsAssumption DEF RecountWrite, RecountKeys, Of, FullInv, Serial, SeenRight
  <2>3. \A j \in Skus : stock'[j] - counted'[j] = stock[j] - counted[j]
    BY <1>0, <1>12, <2>2 DEF RecountWrite, Types
  <2>4. \A p \in Orders, j \in Skus : Share(p, j)' = Share(p, j)
    BY <1>0, <1>12 DEF RecountWrite, Share, Out, Goods
  <2> QED
    BY <1>0, <2>3, <2>4, NobodyMoves
<1> QED
  BY <1>1, <1>2, <1>3, <1>4, <1>5, <1>6, <1>7, <1>8, <1>9, <1>10, <1>11, <1>12 DEF Next, vars, shop

(* Every item is accounted for by the rows of the books: at the site        *)
(* however requests race, at site and plugin one request at a time.         *)
THEOREM BooksExplain == Spec => []BooksExplainStock
<1>1. Init => BooksInv
  BY BooksInitially
<1>2. FullInv /\ FullInv' /\ BooksInv /\ [Next]_vars => BooksInv'
  <2> SUFFICES ASSUME FullInv, FullInv', BooksInv, [Next]_vars PROVE BooksInv'
    OBVIOUS
  <2>1. MadeFirst'
    BY MadeStep DEF FullInv, BooksInv
  <2>2. Booked' => Booked
    BY ShopOfOneKind DEF Booked, Calm
  <2> QED
    BY <2>1, <2>2, BooksStep DEF BooksInv
<1>3. BooksInv => BooksExplainStock
  BY DEF BooksInv, Booked, Explained, BooksExplainStock
<1> QED
  BY <1>1, <1>2, <1>3, FullInvariant, PTL DEF Spec
==============================================================================

# OpenStore in TLA+

OpenStore lets an AI agent assemble an order at a Merchant's shop while only a
human tap can spend money. Its core is the **sidecar** (`src/openstore/sidecar`),
an asyncio service between four parties: the agent (tools over MCP, UCP, ACP,
AP2), the Consumer (an approve page), the payment Provider (payment links and
webhooks) and the Merchant (nine signed "trait doors" over its stock and its
orders). This directory models what must not be wrong: how an order, its stock,
its money, its price and the consent to it stay consistent when requests,
webhooks, a background sweep, failures and restarts interleave.

Paths below are relative to the repository root; `sc/` is `src/openstore/sidecar/`,
`woo/` is `integrations/woocommerce/openstore-sidecar/includes/`.

## 1. Inventory

| component | state it keeps | operations | talks to |
|---|---|---|---|
| Lifecycle rules `sc/gate/lifecycle.py` | none (tables) | `next_deadline`, `sweep`, `can_transition` | used by the sweeper and the console |
| Checkout flow `sc/checkout.py` | none of its own: a coroutine holds a copy of the row | `start`, `tap`, `complete`, `cancel`, `collect_cash`, `set_status`, `publish_order_event` | all below |
| Checkout store `sc/checkout_store.py` | one `checkouts` row per order, with the Decision | `save` (whole row), `get`, `by_token`, `by_link`, `live` | database |
| Expiry sweeper `sc/sweeper.py` | none (reads the live rows) | `sweep_once`, `expire`, `_resync`, `drain_events` | store, doors 5, 7, 8, Ledger, Provider |
| Tokens `sc/authority/tokens.py` | `tap_tokens`, `resume_tokens` | issue, read, spend, redeem | database |
| Passkeys `sc/authority/passkey.py`, approve page `sc/console/approve.py` | challenges, credentials with a sign count, ceremonies | begin, finish, take, forget | the Consumer's device |
| Gate and settlement `sc/gate/{decide,transcript,policy,settle}.py` | the Transcript of a decision, the live Policy | `run_core`, `settle`, `collect`, `rto` | doors 1, 2, 9, Ledger |
| Ledger `sc/ledger/entries.py` | append-only `ledger_entries`, unique on the idempotency key | `position`, `reserve`, `capture`, `release`, `refund`, `reversal` | database |
| Webhook `sc/provider/{routes,webhooks}.py` | the set of event ids seen, **in process memory** | `deliver` | `complete` |
| Razorpay adapter `sc/provider/razorpay.py` | none; one link per order at the Provider | `make_link`, `check_status`, `cancel`, `refund` | Provider |
| Trait client `sc/trait/client.py` | none | doors 1 to 9 | the Merchant |
| Merchant site `demo/merchant-site`, WooCommerce plugin `woo/`, fake `sc/trait/fake.py` | orders, stock and holds, codes and their uses, cached replies by idempotency key, prices | doors 1 to 9 | Postgres, WooCommerce |
| Agent surface `sc/protocols/{agent_routes,tools,idempotency}.py`, `sc/basket.py` | idempotency keys, one basket row per agent | tool calls, replay | flow, doors |
| Order events `sc/protocols/events.py`, admission `sc/admission/oauth.py` | outbox rows with attempts; who was admitted, and its callback, **in process memory** | enqueue, due, deliver, delivered, failed | agents' callbacks |
| Merchant console `sc/console/{merchant_actions,refunds}.py` | refund requests, one open per order | refund, decline, collect, rto, reject | Ledger |
| Evidence `sc/evidence/{bundle,keys,store,cli}.py`, `sc/verify/checks.py`, `checkout._seal`, the boot in `sc/app.py` | receipts, one row per order; the Merchant's keys **in process memory**, in the keyfile, in an export | seal, put; rotate, revoke, save, export, boot; verify | doors 1, 7; whoever holds a receipt |
| Request signatures, rate limiter, translators, settings, conformance suite, buyer chat | caches, nothing shared with the above | — | — |

What is hard here, and what correctness means:

- **Everything is read, awaited, then written.** A coroutine loads the row once
  and saves all of it several awaits later. Between, a webhook, a cancel or the
  sweep may have moved the order. A basket, a refund ask, a sign count and a
  recount of the shelf go the same way. Correct: a paid order was captured, a
  capture was paid for in full, a finished row does not come back to life, a
  decision that was made stands.
- **Four books, no transaction over them**: the shop's order, the shop's stock,
  the Ledger, the row. A failure or restart can fall between any two. Correct:
  nothing is held without a tap, nothing stays held by an order that ended, every
  hold is closed, once; the moves explain the shelf.
- **At-least-once callers.** Taps are submitted twice, webhooks repeat and
  reorder, door and tool calls are retried under cached keys, events are sent
  again. Correct: one tap per token, one row per key, an answer that is what was
  done, no event about what did not happen.
- **Consent.** What is charged is what was shown, at a price that still stands, by
  somebody whose device signed this very basket where the evidence says so.
- **Evidence outlives everything.** A receipt is read years later, by somebody who has the document
  and nothing else. Correct: it verifies whatever became of the keys since, nothing it can be turned
  into does, and it says what happened.
- **Money is integers.** Shares, taxes and discounts are rounded; the Gate adds the
  Merchant's sums again and must come to the same.
- **Time.** A quote (24 h), a tap token (5 min), a payment window (15 min), a
  link (16 min), a cash delivery window (7 d), a backoff all run out independently.

`PROJECT.json` lists each hazard at its line with the properties aimed at it.

## 2. Modules

| module | models |
|---|---|
| `Lifecycle` | statuses, legal transitions, deadlines, what a sweep does with a due row. Constant level. |
| `OrderLifecycle` | the abstract promise about one order: its status and where its money is, nothing of how. |
| `MoneyPath`, `MCMoneyPath` | the core: starts, taps, webhook requests, cancels and the sweeper as concurrent handlers over one order; the Provider, the clock, failing calls and restarts. The mapping to `OrderLifecycle`, and its instances. |
| `MoneyPathClaims` | what comments and documents say of the money path, where the code does something else. |
| `MoneyPathProofs` | the type invariant and every safety property the runs of `MoneyPath` check, and that it implements `OrderLifecycle`, proved. |
| `SumProofs` | sums over finite sets, ranks and shares: the lemmas the Ledger's, the doors', the baskets' and the quote's proofs rest on. |
| `Ledger` | the Ledger on its own: amounts, positions summed from the rows, sessions whose check and insert are apart. |
| `RefundDesk`, `MCRefundDesk`, `DeskProofs` | the refund queue and the Merchant's money actions, composed with `Ledger`; that they use it as specified, and all that the run checks, proved. |
| `Shelf` | the abstract promise of doors 3 to 6: goods leave the shelf once, and are then sold or put back. |
| `MerchantDoors`, `MCMerchantDoors`, `DoorsProofs` | doors 3 to 8 at the site, in the plugin and in the fake, behind their reply caches; the mapping to `Shelf`. All that the run checks, proved. |
| `ToolCalls`, `MCToolCalls`, `CallsProofs` | an agent's tool calls, the basket, the idempotency keys, and the checkouts they make; all that the run checks, proved. |
| `Outbox`, `MCOutbox`, `OutboxProofs` | order events from the status change to the callback, with admission's memory; its safety properties, proved. |
| `Consent`, `MCConsent`, `ConsentProofs` | approval links, passkey ceremonies and the Authority a tap ends in; all that the run checks, proved. |
| `QuoteGate` | door 9's arithmetic, the Gate's checks, the Transcript and settlement, while the Merchant edits shop and Policy. |
| `Evidence`, `MCEvidence`, `EvidenceProofs` | the receipt sealed over a purchase of `QuoteGate`, the keys it is signed with, and its verification; all that the run checks, proved, the Gate's second opinion of the sums for rates under a third. |

`MoneyPath` follows one order. Its shared state and the code:

- `row` — the `checkouts` row: status, method, tap token, whether a link id is on
  it, and its three timestamps. The Decision column is written in the same save as
  the link id and is folded into `link`.
- `tokens` — the `tap_tokens` row each start minted; `shop` — the order behind the
  doors: status, whether its stock was never held, refused, held or released,
  whether it was committed, and the statuses door 8 has answered (the reply cache;
  `_STATUS_ATTEMPT` gives each target status one key).
- `ledger` — the kinds of entry the order has. The keys carry attempt 1 at every
  call site, so an order has at most one entry of a kind, and a repeated insert is
  absorbed (`Append`). `Ledger` has the amounts this leaves out.
- `link`, `emitted` — the Provider's one link for the order (Razorpay refuses a
  second for the same `reference_id` and the adapter adopts the first) and the
  events it has sent; `seen` — the dedupe set, lost in a crash.
- `at`, `copy` — per handler, the await it is at and the row it loaded.

**An action is what runs between two awaits.** One door call, one Provider call,
or one database unit of work is atomic; everything else interleaves. A check
followed by an insert in the Ledger is two actions, as is a read of the row and
its save. `spend_tap` is two: a read, then the conditional update. `CallFails`
fails any handler at any await; `CloseStatusLost` is a door-8 call that took
effect and whose reply was lost, for the sweeper whose recovery looks at its copy
afterwards. `Crash` drops every coroutine and the dedupe set. Arguments that are
data (lines, amounts, destinations, hashes) are abstracted: a payment is full or
short, the Gate passes or refuses, door 3 holds or is sold out.

`RefundDesk` EXTENDS `Ledger` and adds `asks` (the `refund_requests` table), `paid`
(the orders whose status at the shop is refundable) and `desk` (per session: where its
handler is and what it has read). A refund is four steps: check and prepare, insert, find
the open ask, the conditional update. The partial unique index is the guard of
`AskInsert`. `CheckoutWrite` is the money path's use of the same Ledger, committed with its
`session_scope`. The Merchant's handlers write on a session that nothing in
`merchant_actions.py` commits: their rows stay in `flushed` until whoever owns the
`ledger_factory` ends the unit of work (`UnitEnds`, a commit or a rollback), while the queue is
written in units of its own. The refund's
row is keyed by its amount, as the shop's page sends no id (`merchant_actions.py:103`).

`MerchantDoors` has one state for three implementations: `impl` says whose code runs, so
the reserve of the site, of the plugin and of the fake are actions of their own. `book`
is what `stock_moves` (site) or the holds table (plugin) says of an order, by kind of
move, and `counted` is the sum of the moves that are no order's: recounts and restocks. A request looks its key up (`Arrive`), runs, stores its reply (`Remember`); a
transaction is one step, but where the code's uses are read inside it the rows taken
before stay locked (`Unlocked`), and what was read may be stale when it is used
(`SiteHoldCode`, `WooHoldCode`). `release` reads its moves before its transaction and
so is two. `scene` separates what holds one request at a time, while requests race and
workers die, and beside the catalogue page's recount.

`ToolCalls` follows the calls of an agent: `Arrive` and `Replay`, `Load`, the tool, `Save`
or `Clear`, `Remember`, each a transaction of its own. A basket is its lines by SKU and
parent, a place, whether it has a contact, the chosen option and the code. An option stands for the
offer it was picked from, so that one which outlives a change of basket shows. Door 7
(`OrdersCreate`) and door 9 with the save of the row (`QuoteAndSave`) are apart, because a
refusal of the second leaves the first done. Only the read tools (`READ_TOOLS`) are left out:
`place-order`, `cancel-order` and `request-refund` load no basket, but are stored and replayed under
their key like the rest. A protocol checkout brings its cart id with it (`Receive`), a new one or
any that was handed out before; the latter are remembered in `reused`. `calm` is the scene where
calls do not overlap.

`Outbox` has a status change in three steps (door 8, the event, the sidecar's row) and a tick
in three (read what is due, POST, write the row). An attempt fails before the agent has the
event or after (`DeliverFails`: an answer of 300 or more, or one that comes too late), and the database
may not take what became of it (`CutShort`: the pass is over, the rows are as they were). `seen`, the
admission records, is lost in a restart; `events` is not. A backoff is a row that is not due, and ends at
some time.

`Consent` identifies a link with the cart it was minted over and the challenge made of that cart's
hash, since the hash covers the link's own expiry. `signed` is every response a device
ever made; any client posts any of them with any link, again and again, which is what the server can
be sent, and `Verifies` is what the library checks: the challenge, and a count that has moved,
unless both counts are nought (a passkey that is synced counts nothing; those of `Counting` do). A page
moves on with the responses it posts itself (`own`). `answered` remembers the links whose challenge somebody
else answered since the page asked for it. A finish is verify-and-put, spend, remember; a tap is
read, spend, take, decide.

`QuoteGate` is sequential but for the Merchant, who edits prices, shipping, codes and the
Policy between any two steps. `Quote` is `pricing.ts`, `class-openstore-pricing.php` and
`fake.py` at once: fold add-ons, apportion by largest remainder, extract tax, total.
`Outcomes` are the Gate's checks in order and `Record` stops at the first that fails.
Where the three shops differ (percentage coupons, tax-exclusive prices) the difference
is a parameter of the shop.

`Evidence` EXTENDS `QuoteGate` and follows the receipts of the purchases in `Followed`. A hash is the
thing it is taken over; a signature is the key with the payload; a key's material is a number,
so that two keys can share a kid. Sealing is `SealSalt` (door 7), `Seal` (door 1, then
bundle and signature with no await between) and `Put`, and may fail or be lost in a restart at each. `ring` is
the Keyring in the process, `file` the keyfile and whether the process's passphrase opens
it, `backup` the export. `rotate` and `revoke` change `ring` and `save` writes it, as calls of
their own; `Boot` is a new process. `issued` keeps every document the table has ever held.

## 3. Runs

Passing runs:

| run | asks | scenario | states |
|---|---|---|---|
| `races` | one tap per token; nothing held without a spent token; the row claims only statuses the shop took | 2 starts, 2 taps, a webhook, a cancel, the sweep; 2 in flight at once; failing calls; 1 restart | 1.5 M |
| `webhooks` | paid implies captured; captured implies paid in full; a shown link stays on a live row; a finished row stays finished | 1 start, 1 tap, 2 webhook requests, 2 events, the sweep, all in flight at once; failing calls; 1 restart; no cancel | 0.3 M |
| `serial` | the code implements `OrderLifecycle`; a closed order holds nothing | handlers one at a time, no failures, no cancel, UPI and cash, 2 taps | 6 k |
| `live` | every hold on money closes, held stock is given back or sold | concurrent, fair, no failures, no cancel | 12 k |
| `desk` | the Ledger's rows stand: one per key, never taken back, each answer among them, only held money is closed; one open ask, none approved before its refund is written, no decision overwritten; one handler at a time, escrow and refunds within bounds | 2 sessions, one handler under way, or two and at most three rows, 1 order, amounts -1, 1, 2, 2 asks, 1 reversal id, deaths | 0.7 M |
| `doors` | stock is never below nought and the books explain it; a key has one true answer; a code is rationed; the shop implements `Shelf` | 3 implementations, 3 scenes, 2 orders, carts that want the same item or have nothing in common, 2 threads, 4 or 3 door runs | 0.7 M |
| `calls` | what a basket holds can be ordered; one answer per key; what was done stands | 1 agent, 2 workers, 1 key, 3 carts, 4 calls one at a time or 3 that overlap, from an empty basket or a ready one, deaths | 0.5 M |
| `outbox` | an agent is told only what the Merchant took; a row says what happened to it; the queue drains | 1 order, 2 events, 2 attempts, 1 restart or pass cut short | 1.0 M |
| `consent` | nothing counts as agreed that no device signed; a link is decided once and an assertion lowers no count; a ceremony halfway done can finish | 2 links, a credential with attestation that counts and one with neither, 2 workers, 2 responses, one request at a time or racing, deaths, expiry and the sweep | 2.4 M |
| `quotes` | quotes add up and the Gate passes honest ones; a permit is within a live Policy; what is charged is what was shown; a receipt says what happened and verifies for good | 7 shops, 4 Policies, 7 baskets, 2 edits; for one purchase, 2 seals, 2 kids and 3 acts on the keys, edits counted in | 0.4 M |

Two runs check a sentence of the repository that the code does not keep (section 5).

`races` and `webhooks` are the same model with the load in different places. In
`webhooks` cancels and second starts are left out because with them the two row
properties do not hold (section 6); in `serial` concurrency, failures and
cancels are left out for the same reason: with any of them the code does not
implement `OrderLifecycle`. So `serial` states what the handlers promise when they do
not meet, the other runs what survives when they do. The scenes of `desk`, `doors`,
`calls` and `consent` make the same split inside one run; a property that needs the
quiet scene says so in its formula.

Deadlock checking is off: the clock stops at its bound, an order ends, the bounded runs,
edits and acts on the keys are used up, and each start, tap and cancel runs once.

**Bounds.** A tick stands for the unit in which the windows differ. `TapTTL` = 1,
`PayWindow` = 1, `LinkLife` = 2, `PendingTTL` = `CodWindow` = 3 keep the order of
the code's constants (5 min and 15 min < 16 min < 24 h), the link outliving the
payment window included. `LastStart` = 0 and `MaxTime` = 4 leave time for every deadline
and one tick after it (`BoundsAssumption` checks this). Two taps and two starts
are needed for a token race and for a replaced row; two webhook requests with two
events for a duplicate, a reordering and a retry after a failure; one restart for
every crash point, since the handlers that follow begin afresh. `MaxInFlight` = 2
in `races` covers every pair of handlers that can overlap; the others allow all.
The Ledger's amounts are one below zero, a part and a whole; nothing in it relates two
orders, so `desk` has one. Its two asks are one that is in the way and one that comes after.
Where two handlers race, `RacingRows` = 3: a hold, its closing and a refund, or two of one kind and what they are of.
In `doors` two orders are what a shelf and a code can be fought over by; four door runs
are a reserve, a release or commit, and a retry of each, three overlapping ones a race of
two and what a third makes of it. In `calls` four calls from a ready basket start a
checkout, edit, and start again. `MAX_ATTEMPTS` = 2 (6 in the code) and `Limit` = 2 (50)
put both limits within reach. In `consent` two responses are an enrollment without
attestation and its second prompt, or those of two links or two credentials. The prices of `quotes` leave
remainders and odd tax; two of its shops differ by prices that move against each other,
so that the total alone does not show it. Receipts do not depend on which
shop they are of, so one purchase is followed, whose code and prices the edits can move; three acts
are a revocation and a restart over what was saved, or a lost keyfile, a boot and a rotation.

**Symmetry** is declared where no temporal liveness property is checked: starts and
taps in `races`, sessions and ask ids in `desk`, threads and orders in `doors`,
workers in `calls`, workers and links in `consent`.

**Fairness.** `FairSpec` (run `live`): a coroutine that can go on does (the event
loop; each call returns or times out in 10 to 20 seconds), the sweep loop never
exits (`run_forever` catches everything), and the Provider emits and delivers what
happened to its link. A `Tick` is strongly fair and waits until nothing is in
flight: a tick is minutes and a call seconds. No fairness is assumed of the
Consumer (`TapLoad`, `Pay`), of agents, of failures or of crashes. `live` excludes
failures and crashes: with an unlucky one a hold can stay open forever (section 6).
`Outbox` assumes that the sweeper's tick goes on, since a pass that fails does not end the
loop, that a backoff's time comes, and that the process and the database fail finitely often (`MaxCrashes`);
nothing of agents or callbacks.

## 4. What is proved

`MoneyPathProofs`, for any number of starts, taps, webhook requests, cancels and
events, any windows, with failures and crashes, from `MoneyPathAssumption` and
`LifecycleAssumption` (the kinds of handler are distinct, the windows are
naturals):

- `TypeCorrect`: `TypeOK`, inductive as it stands. One lemma per kind of handler,
  one step per action.
- `NeverPaidUncaptured`, `NeverCapturedUnpaid`: `PaidIsCaptured` and
  `CaptureIsBacked`. They are not inductive: a handler in flight carries their
  truth in its step. `MoneyInv` adds what each step knows: from `paidFull` on
  the link is full, from `captured` on the CAPTURE is there, and a copy that says
  paid was made by a handler that captured. Every step except the handler's own
  leaves these (`MoneyStays`): a full link stays full, the Ledger only grows.
- `OneTap`: `OneTapPerToken`. `TokenInv` adds that a token is unminted until its
  start issues it, that a tap holds a token some start minted, and that past the
  spend it is spent. Handlers that are neither start nor tap leave all that apart
  (`TokensApart`); of two taps at the update, the second finds the token spent.

- `RowNeverAhead`: `RowFollowsShop`. A save writes a handler's copy and a resync
  writes the shop's status into a copy, so `RowInv` says of the row, of every copy
  and of the shop's own status that door 8 has answered it (or that it is pending
  or failed). Door 8's answers only accumulate, so what is known stays known.
- `NoHoldUntapped`, `NoLinkUnheld`: `HoldImpliesTap` and `NoLinkWithoutHold` (which no run
  repeats). `HoldInv`
  adds what each step relies on: a tap past the spend has a spent token, one
  past door 3 found the stock held (`Stocked`), one past `Ledger.reserve` and
  every handler about to write a CAPTURE or a RELEASE has the RESERVE
  (`Reserved`). Other handlers cannot undo these: stock once held is held or
  released, entries are never removed, and a spent token stays spent.
- `ShownLinkStays`, `TerminalStays`: `ShownLinkIsFindable` and `TerminalRowStays`, with one start, no
  cancel and a token's life shorter than a quote's (`Undisturbed`), and with failures and restarts. No lock keeps
  a tap and the sweep apart, only the clock: `CourseInv` says that a tap past its vetting is within its
  token's life, that the sweep touches a pending row only at its deadline, and what each copy may
  still claim, so that none saves a live status over a terminal one or a row without its link.
- `SerialClosesAll`, `SerialRefines`: `ClosedOrderHoldsNothing` and `KeepsLifecycle`, one handler at a time,
  without failures, restarts and cancels (`Serially`). `SerialInv` says where row, shop, Ledger and link stand
  between handlers and at each step of the one that runs; each step is then one of `OrderLifecycle` or none.

`DeskProofs`, for any sessions, orders, asks and integer amounts, from `DeskAssumption`:

- `OneAsk`, `RefundBeforeApproval`, `AsksAreBacked`: `OneOpenAsk`, `ApprovedAfterRefund` and
  `AskHasMoney`. `DeskInv` says of each handler what its step has made sure of: one about to
  approve has a REFUND row of its order in its session or in the table, one about to ask has a CAPTURE, one about to resolve holds
  an ask of its order. Committed rows only accumulate (`RowsStay`) and a session's own go with its
  handler or after it, so no other handler takes that away; the table of asks changes only by an insert into an empty queue or by the
  conditional update.
- `DecisionsStand`: `ResolvedStays`, from the same invariant. `DeskTypes`: `DeskTypeOK`.
- `LedgerStands`: `WritesStand` of `Ledger`'s own specification. Types, unique keys and answers among
  the rows (`LedgerInv`) are inductive together.
- `ClosingIsBacked`: `ClosingNeedsReserve`, whatever races. `HoldInv` says of every row, and of every
  write between its check and its insert, that one which says it closes a hold has a RESERVE of its
  order of at least its amount (`Checked`); a RESERVE has the one key of its order.
- `SerialWritesBalance`, `MoneyIsBounded`: `EscrowNeverNegative` and `RefundsBounded`, the two parts of
  `assert_invariants`, as sums over all the rows of an order, and with the former `MoneyBounds`. With one
  writer at a time a check stays true until its insert; the insert adds one row to one sum.
- `DeskUsesLedger`: `DeskSpec => Spec`. Every step of the desk is a step of the Ledger or leaves it
  alone, so what was proved of the Ledger holds of the desk as well.

`EvidenceProofs`, for any shops, Policies, baskets, edits, kids and acts, from `QuoteAssumption` and
`EvidenceAssumption` (`None` is no kid, number or Policy; the first kid is a kid):

- `ChargeIsApproved`, `PermitIsWithinPolicy`: `ChargedIsApproved` and `PermitWithinPolicy`. A Transcript stops at
  the first check that is not clean, so one that ends clean is all twelve of them
  (`PermitIsClean`); read together they say that the quote that was shown still stands and
  the Policy allows it, its number of different items included (`CleanIsDecided`). `QuoteInv` carries that decision through
  the Merchant's later edits to the capture: nothing it speaks of is written after it.
- `QuotesAddUp`: `QuoteAddsUp`, for any prices, rates and basket. `ApportionExact`: what the floors leave is less than
  the number of shares, as many shares as are left have fewer than that ahead of them, and so the shares add up to
  the amount, each within a paisa of its proportion. `CoversCart` adds the lines up under the SKU they are quoted with.
- `QuotesAreSound`: with it `HonestQuotePasses`, so `QuoteIsSound`, where no rate is a third or more (`ModestRates`; every rate in the
  repository's catalogues is 28 per cent or less). `TaxWithinTotal` is check 10's bound: a line after its shares is at most two paise over
  its proportion of the total, and at such a rate the tax inside it leaves two paise. The schema allows rates up to the
  whole of the price, and there the bound fails: lines of 1, 3 and 3 paise with freight 4 and 10 off have 2 paise of tax in a total of 1.
- `GateTypeCorrect`, `EvidenceTypeCorrect`: the type invariants. The keyrings are right in memory, on disk
  and in the export (`KeysRight`): the current key, where there is one, is live.
- `SealingLeavesGate`: `EvidenceSpec => Spec`, so the Gate's theorems hold while keys
  and receipts come and go (`SealedChargeIsApproved`).
- `ReceiptsVerifyForGood`: `ReceiptsStand`. `ReceiptInv` says of the draft and of every
  document issued that it is chained, signed by the key it lists under its kid, and lists that
  key as live (`RightReceipt`); nothing later touches it, since it carries its keys with it. The other
  half is `NoOtherPasses`: with the same signature a document that verifies has the same payload under
  it, so each alteration is told apart.
- `ReceiptsAreTrue`: `ReceiptSaysWhatHappened`. A seal runs when the purchase has nothing left to do
  (`Sealable`), so what the sections were read from is no longer written.

`DoorsProofs`, for any orders, carts, SKUs, quantities, uses and threads, from `DoorsAssumption`:

- `DoorsTypeCorrect`: `TypeOK`. `DoorsInv` adds what a worker's step knows (its key is of the door it runs, and the goods it
  has locked are on the shelf) and that two workers past the lock run for different orders (`Locks`).
- `CodeStaysRationed`: `CodeIsRationed`, at the site however requests overlap, at the other two one at a
  time. `SiteRation` counts the orders that spent the code: a commit adds one to the set and
  one to `uses`, and no two orders hold it.
- `AnswersAreTrue`: `OneTrueAnswer`, of the quiet scene. `Serial` says there that one worker runs, that its
  key has no answer yet, and what the rows of an order are in terms of what has been answered: a reserve
  of an order runs once, so its goods are taken once and given back at most once.
- `BooksExplain`: `BooksExplainStock`, a sum over all orders. A row is made before anything moves for it
  (`MadeFirst`), each transaction moves the shelf by what it writes in the row of one order (`Explained`), and at the site
  that holds whatever runs twice; a recount is let in where it meets no other request.
- `DoorsBeginAsShelf`, `DoorsKeepShelf`: the mapping to `Shelf`, initial states and steps. With `RowsRight` each step of a door
  moves one order on the shelf, or none.

`ConsentProofs`, for any links, credentials, workers and responses, from `ConsentAssumption`
(`None` is no link, credential or response):

- `ConsentTypes`: `TypeOK`. `TablesInv` adds that no response counts further than its device has.
- `AgreementIsSigned`, `AnswersStand`: `ConsentWasSigned` and `NoAnswerTurnsBack`. `ConsentInv` has one part
  for each kind of reason. `Sure` is what a request has made sure of: past the put its response is
  over its own link, at the Gate its proof is backed by a signature. `OneDecides`: a link past its spend is in the
  hands of one request and is undecided. `Counted` and `Calm`: a device creates a credential
  before it counts, and one that counts never says nought in an assertion; with one request at a time
  what it read of a counter still stands.
- `CeremonyCanFinish`: `HalfDoneCanFinish`, from `ConsentInv` and `Waiting`: a page with a response
  to post, or whose response is being looked at, waits for no device, so nothing spends the
  challenge of one that does but a post of somebody else's (`answered`).

`OutboxProofs`, for any agents, orders, attempts and restarts, from `OutboxAssumption`:

- `NothingUntrueIsTold`: `ToldIsTrue`. `OutboxInv` adds that the Merchant has taken what a handler is about
  to announce; it takes nothing back, and no attempt rewrites what a row announces.
- `OutboxTypes`, `RowsAreHonest`: `TypeOK` and `DeliveryIsHonest`. `QueueInv` says of every row how its
  state, its attempts and what its agent has received hang together (`RowHonest`): what the agent received
  is at most the attempts that failed, one for each crash or pass cut short, and the one that was delivered or
  is not yet written.

`CallsProofs`, for any agents, workers, keys and baskets, from `CallsAssumption` (a shop has
a stock of every SKU, `None` is none of the things an agent can name, no code is both good and bad):

- `OneAnswer`, `DoneStands`: `OneAnswerPerKey` and `WhatWasDoneStands`.
- `CallTypes`: `TypeOK`.
- `BasketsStand`: `BasketStandsUp`. Its bound on the quantities of one SKU is a sum over the lines of every parent:
  `InStock` keeps it for the rows and for the copies of the calls under way, and an edit changes one term of it.
- `CallsInv` has a part for each. `Answers`: what was told under a key is what is kept there.
  `Fits`: deliveries and codes are right in the rows, in the copies of calls under way and in
  the checkouts, so a save that overwrites a newer row still writes a basket that fits. `Carts`:
  one call at a time, no two baskets share a cart id, and of those that no protocol checkout named again
  (`reused`) none in use has become a checkout except while its start is about to clear it.

`SumProofs` has what these share: `SumFunctionOnSet` over a finite set adds up term by term, over disjoint parts and by heads
(`SumByHead`), and is monotone. The library's induction theorems take an operator, which the provers cannot
instantiate; a set of numbers, or of finite sets, that holds the first and with each the next stands in for it
(`Inductive`, `FiniteInductive`). `FirstInLine` counts ranks, `Quotients` and `TaxInside` are integer division.

Every invariant and every action property of the passing runs, and both refinements, have a theorem.
Liveness and its fairness (`HoldsEnd`, `QueueDrains`) are outside the prover and stay with TLC.
Where a theorem has a scenario as its hypothesis (`Undisturbed`, `Serially`, one request at a time, modest
rates), it is the scenario of the run, without its bounds; section 6 says what the code does outside.

## 5. Where the code and its words part

Each of these runs checks one sentence of the repository and TLC finds a short
behaviour of the code against it:

| run | sentence | what happens |
|---|---|---|
| `claim_hold_closes_once` | "Each RESERVE ends in exactly one CAPTURE or RELEASE" | The sweep and a webhook both check the position before either inserts; their keys differ. |
| `claim_order_has_its_lines` | a cart's order is cleared with the basket, lest a second checkout "return the FIRST order" | A start makes the order at door 7 and is refused by door 9. The basket keeps its cart. The agent edits it and starts again: the Consumer is shown the new lines, the shop's order has the old ones. |

## 6. Claims without a run of their own

`MoneyPathClaims` states more; to see one, put it in place of the property
of `ClaimHoldClosesOnce.cfg` with `MaxInFlight = 2`, `Faults = TRUE` and one crash.

- `SweepNeverRaises`: a restart between door 8 and the save of a tap leaves the shop
  confirmed and the row pending. A day later `_resync` writes confirmed without
  `confirmed_at`, and `next_deadline` raises outside the per-order guard, now and in
  every later pass.
- `ExpiredHoldsNoStock`: a restart between door 3 and door 8; the pending row
  expires a day later without a release.
- `CancelledHoldsNoStock`: a cancel loads the row as pending while a tap is past door 3.
- `CancelIsPreMoney`: the Consumer paid, the webhook is not processed yet.
- `SeenIsProcessed`: the event id is remembered first; a failing call then loses the
  event for this process.
- `FailedReturnsStock`: the not-settled branch of `complete` never calls door 5.
- `CancelIsFromLive`: `cancel` refuses a paid row only.
- `StatusMovesAreLegal`, `PaidKeepsItsStock`: door 8 is unconditional and door 4
  asks only whether a hold was ever taken, so an expiry and a payment that overlap
  leave a paid order with its goods returned, or an expired one that was paid.
- `CaptureIsFinished`: a door that fails after the capture leaves an order every
  redelivery refuses to finish.
- `PaidRowIsKept`: a second start on the cart saves a fresh pending row over it.

With those, `ClosedOrderHoldsNothing`, `TerminalRowStays`, `ShownLinkIsFindable`,
`KeepsLifecycle` and `HoldsEnd` fail outside the scenarios their runs name, and only
for these reasons.

Of the other modules, what their properties leave out on purpose:

- `RefundDesk`. `ApprovedIsRefunded` fails: `close_open_request` commits the approval in a session of its
  own, the refund's row is flushed on the factory's session (`entries.py:228` opens only a savepoint) and
  nothing in `merchant_actions.py:105-123` commits it. `ApprovedAfterRefund` is what is left: the row is
  written before the ask is approved. `PartialsBothWrite` (`merchant_actions.py:90`: "two partials both write") fails:
  the default ref is the amount, so a second partial of the same amount is answered
  with the first one's row. `RefundsBounded` fails with two handlers at once: both
  check before either inserts (`entries.py:349`).
- `MerchantDoors`. Two releases under one key that overlap give the goods back twice, two
  reserves hold twice, and a worker that dies before `Remember` has its door run again;
  the site's books record it all, so they still explain the shelf. One at a time: the
  site answers ok to a commit after a release and gives sold goods back at a release
  after a commit, which the mapping to `Shelf` sees as still held; the plugin refuses
  both. A recount that races a reserve loses track. A code with several uses can still
  be held by one cart at a time at the site.
- `ToolCalls`. A protocol checkout that names the cart of a checkout there is (`agent_routes.py:737`) saves
  over its row, whoever's it is and whatever became of it: `CheckoutStands` and `OrderHasItsLines` speak of the
  carts not in `reused`. A `place-order` that is asked again under its key is answered with the checkout it
  named first, although that one may be paid by then (`agent_routes.py:610`: "Only a checkout still waiting
  on its tap"). Overlapping deliveries of one call both run, and the second `remember` raises
  after its tool took effect. A save that overlaps a clear brings the basket back. A
  shop that does not answer leaves an unknown code on the basket. `sweep` of the
  idempotency keys and `revoke_agent` have no caller.
- `Outbox`. `HearsEveryTransition` (`checkout.py:303`) fails: `expire` names no agent
  (`sweeper.py:199`). An agent may receive an event up to `MAX_ATTEMPTS` times without any restart, since
  an answer of 300 or more, or a late one, counts as a failure (`events.py:311`), and once more for
  every pass the database cuts short (`sweeper.py:315`); it can tell only by the event's id. A restart forgets callbacks, and one between door 8 and the queue
  loses the event. A row in backoff is overtaken by a later one.
- `Consent`. `CeremonyTookPlace` (`codes.py:102`) fails: a cash tap without a passkey is recorded
  with an assertion ceremony. `begin` does not look at the link's expiry although
  `approve.py:538` says so. "The sign count only ever moves forward" (`passkey.py:279`) fails: a create()
  posted again, after a new `begin` has put the deterministic challenge back, is put over the credential with the
  count it had then (`passkey.py:514-521`), and two assertions that race can move the count back. A passkey
  that counts nothing has the same response accepted again after a new `begin`. So
  `AssertionsMoveForward` speaks of one request at a time, of assertions, and of devices that count. A client that
  answers the challenge for somebody else's page leaves that page without one (`answered`).
  A finish that comes after the tap leaves an agreement under a spent link; a worker
  that dies between spend and remember loses one.
- `QuoteGate`. Of two lines with one SKU the later is quoted, while reserve holds both. Tax
  is never added where prices exclude it, and the Gate accepts that. A coupon's percentage
  ignores quantities in the plugin. A discount larger than the basket is refused by
  the client's schema only. A price that moved under an unchanged total is reported
  as inconsistent or stale authority before the check for a changed price is reached.
  The fake weighs remainders as decimals, so exact ties may go to another line.
- `Evidence`. `AttestationsArePinned` (`docs/Specification.md:314`) fails: the receipt attests the prices of
  the moment it is sealed. `CollectionIsInReceipt` (`evidence/bundle.py:207`) fails: nothing
  appends to a receipt. `UsableBackupRestores` (`evidence/cli.py:14`) fails: the drill compares kids, and a
  first key minted again has the kid of the first; the same boot writes over the export. A seal that fails is not
  tried again. `rotate` and `revoke` have no caller outside tests, nor has `set_policy` (`PolicyEdit` of
  `QuoteGate`: the Merchant's Policy as its console would change it); a restart before a `save` undoes a rotation.

## 7. Not modelled, and why

- One order at a time in `MoneyPath`: the sweep's pass over many orders shows only in
  `SweepNeverRaises`, how one ends a pass.
- Request signatures and nonces, the encryption of keyfile and export, the page that shows
  a receipt: data, and cryptography taken as sound.
- Pages, rendering, settings, logging, the envelopes of the protocols, the conformance
  suite, the buyer chat: no state that the properties are about.
- The rate limiter's bucket, the site's dispatch page with its invoice numbers, the
  plugin's settings page.
- What has no caller outside tests: `collect_cash`, resume tokens, `settle.rto`; the
  console's `rto` answers and changes nothing.
- The wiring of the Merchant's Ledger: nothing outside tests sets `ActionContext.ledger_factory`, so the
  deployed `refund` and `collect` always answer "no ledger configured" and `reject` writes no row.
  `RefundDesk` says what they do once a factory is there, whatever its owner does with the session.
- Which prompt the browser was shown in a passkey ceremony: the `ceremony` in the evidence is made of the
  response, not of the page.
- A payment after the link's own end, and more than one payment on a link: the
  Provider's side, which the sidecar cannot observe.

## 8. Plan

1. `Dispatch`: the site's invoice numbers and the order page's moves, beside door 8.
2. Two orders in `MoneyPath`, for the sweep's pass.
3. The rate limiter's bucket under a clock that jumps.

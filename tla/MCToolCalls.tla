----------------------------- MODULE MCToolCalls -----------------------------
(* One agent, with an empty basket or with one ready to be started, and a   *)
(* gift-wrap of which the shop has one.  The calls that run, one at a time  *)
(* and overlapping, are bounded in number; replays are not.                 *)
EXTENDS ToolCalls, TLC

CONSTANTS mug, wrap, here, there,
          MaxCalm, MaxRacing

VARIABLE runs

Shelf == (mug :> 2) @@ (wrap :> 1)

Starts == \E w \in Workers : Idle(w) /\ ~Idle(w)'

(* Parents are mugs.  Keys come with the calls that change most, and the    *)
(* calls that overlap are about one sku, one place and one code.            *)
Plain(c) ==
    /\ c.ask[1] = "add-line" => c.ask[2] = wrap \/ c.ask[3] = None
    /\ c.ask[1] = "add-line" => c.ask[3] # wrap
    /\ c.ask[1] = "checkout" => c.ask[2] = mug /\ c.ask[3] = here
    /\ (calm /\ c.key # None) => c.ask[1] \in {"clear-basket", "start-checkout"} \cup OrderTools \/ c.ask[2] = mug
    /\ c.ask[1] \in {"cancel-order", "request-refund"} => c.ask[2] = 1
    /\ ~calm => /\ c.ask[1] \notin {"set-contact", "clear-basket", "request-refund", "checkout"}
                /\ c.ask[1] \in OrderTools \/ c.ask[2] \in {mug, here, "offered", None} \cup GoodCodes
                /\ c.ask[2] = None => c.ask[1] \in {"start-checkout", "place-order"}
                /\ c.ask[2] = here => c.key = None

Ready ==
    LET b == [Fresh(1) EXCEPT !.lines[mug, None] = 1, !.dest = here, !.contact = TRUE]
    IN [b EXCEPT !.option = Offer(b)]

(* A basket that four calls before made ready. *)
InitReady ==
    /\ calm \in BOOLEAN /\ carts = 1
    /\ row = [a \in Agents |-> Ready]
    /\ keys = <<>> /\ orders = <<>> /\ checkouts = <<>>
    /\ call = [w \in Workers |-> Quiet]
    /\ told = [k \in Agents \X Keys |-> {}]
    /\ reused = {}

MCInit == (Init \/ InitReady) /\ runs = 0
MCNext ==
    /\ Next
    /\ runs' = IF Starts THEN runs + 1 ELSE runs
    /\ runs' <= IF calm THEN MaxCalm ELSE MaxRacing
    /\ \A w \in Workers : Idle(w)' \/ Plain(call'[w])
MCSpec == MCInit /\ [][MCNext]_<<vars, runs>>

Symmetry == Permutations(Workers)
=============================================================================

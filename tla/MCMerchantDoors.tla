--------------------------- MODULE MCMerchantDoors ---------------------------
(* Two carts that want the same item, one of them with an extra, or two     *)
(* with nothing in common, and a code some bring.  The runs of doors 3 to 6 *)
(* and 8 are bounded in number; replays of the cache are not.               *)
EXTENDS MerchantDoors, TLC

CONSTANTS c1, c2, c3, k1, k2,
          MaxSerial, MaxRacing  \* door runs, one at a time and racing

VARIABLE runs

Baskets ==
    (c1 :> (k1 :> 1 @@ k2 :> 0)) @@ (c2 :> (k1 :> 1 @@ k2 :> 1)) @@ (c3 :> (k1 :> 0 @@ k2 :> 1))

Wanting == IF <<impl, scene>> \in {<<"site", "racing">>, <<"woo", "serial">>} THEN {c1, c3} ELSE {c1, c2}

Starts(t) == Idle(t) /\ ~Idle(t)'
Makes(t)  == ~Idle(t)' /\ call'[t].key[1] = "orders.create"

(* Doors 3 to 6 race, over orders that are made. *)
Races ==
    \A t \in Threads :
        /\ ~Idle(t)' => call'[t].key[1] # "orders.set-status"
        /\ Makes(t) => \A u \in Threads : u = t \/ Idle(u)'

MCInit == Init /\ runs = 0
MCNext ==
    /\ Next
    /\ runs' = IF \E t \in Threads : Starts(t) /\ ~Makes(t) THEN runs + 1 ELSE runs
    /\ runs' <= IF Calm THEN MaxSerial ELSE MaxRacing
    /\ ~Calm => Races
    /\ \A t \in Threads : Makes(t) => call'[t].key[2] \in Wanting
MCSpec == MCInit /\ [][MCNext]_<<vars, runs>>

Symmetry == Permutations(Threads) \cup Permutations(Orders)
=============================================================================

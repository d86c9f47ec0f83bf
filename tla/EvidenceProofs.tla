---------------------------- MODULE EvidenceProofs ----------------------------
(***************************************************************************)
(* What the Gate lets through, for any shop, Policy and basket: only the    *)
(* quote that was shown, at prices that still stand, within a Policy that   *)
(* was live after the tap; and only that amount is ever captured.  And what *)
(* the receipt of it is worth, whatever becomes of the keys.                *)
(***************************************************************************)
EXTENDS Evidence, SequenceTheorems, SumProofs, TLAPS

-----------------------------------------------------------------------------
(* The Transcript. *)

(* Among twelve numbers there is a least one. *)
LEMMA LeastOfTwelve ==
    ASSUME NEW S \in SUBSET (1..12), S # {}
    PROVE  Min(S) \in S
<1>1. \E x \in S : \A y \in S : x <= y
  <2>1. PICK z \in S : TRUE
    OBVIOUS
  <2> QED
    BY <2>1, SMTT(30)
<1> QED
  BY <1>1 DEF Min

(* A record whose last entry is clean is the whole of the outcomes, and     *)
(* every one of them is clean: the Gate stops at the first that is not.     *)
LEMMA PermitIsClean ==
    ASSUME NEW S, NEW o \in Seq(S), Len(o) = 12, Permits(Record(o))
    PROVE  Record(o) = o /\ \A i \in 1..12 : o[i] \in Clean
<1> DEFINE bad == {i \in DOMAIN o : o[i] \notin Clean}
<1>1. DOMAIN o = 1..12
  OBVIOUS
<1>2. ASSUME bad # {} PROVE FALSE
  <2>1. Min(bad) \in bad
    BY <1>1, <1>2, LeastOfTwelve
  <2>2. Min(bad) \in 1..12 /\ o[Min(bad)] \notin Clean
    BY <1>1, <2>1
  <2>3. Record(o) = SubSeq(o, 1, Min(bad))
    BY <1>2 DEF Record
  <2> HIDE DEF bad
  <2>4. /\ Len(SubSeq(o, 1, Min(bad))) = Min(bad)
        /\ SubSeq(o, 1, Min(bad))[Min(bad)] = o[Min(bad)]
    BY <2>2
  <2> QED
    BY <2>2, <2>3, <2>4 DEF Permits
<1>3. Record(o) = o
  BY <1>2 DEF Record
<1> QED
  BY <1>1, <1>2, <1>3

(* What it takes for all twelve checks to be clean. *)
AllClear(q) ==
    /\ q = pinned
    /\ \A k \in DOMAIN pinned.lines : facts.price[k] = pinned.lines[k].unit
    /\ kind \in BindsCart => bound = CartHash(cart, pinned, facts.price)
    /\ held.window /\ kind \in held.kinds /\ MethodOf(kind) \in held.methods
    /\ pinned.total <= held.cap /\ WithinQty(cart.lines, held.qty)
    /\ WithinCount(cart.lines, held.count)

(* What a check may say. *)
Codes == {"pass", "deferred", "authority-kind-not-enabled", "authority-stale", "window-closed",
          "count-exceeded", "qty-exceeded", "blocked-item", "cap-exceeded",
          "quote-inconsistent", "price-changed", "method-not-supported"}

LEMMA OutcomesAreNamed ==
    ASSUME NEW q
    PROVE  Outcomes(q) \in Seq(Codes) /\ Len(Outcomes(q)) = 12
<1>1. AuthorityCheck \in Codes
  BY DEF AuthorityCheck, Codes
<1> QED
  BY <1>1 DEF Outcomes, Verdict, Codes

LEMMA CleanIsDecided ==
    ASSUME NEW q, \A i \in 1..12 : Outcomes(q)[i] \in Clean
    PROVE  AllClear(q) /\ (kind = "upi-pin" => Outcomes(q)[1] = "deferred")
<1> DEFINE o == Outcomes(q)
<1>2. /\ o[1] = AuthorityCheck
      /\ o[4] = Verdict(held.window, "window-closed")
      /\ o[5] = Verdict(WithinCount(cart.lines, held.count), "count-exceeded")
      /\ o[6] = Verdict(WithinQty(cart.lines, held.qty), "qty-exceeded")
      /\ o[9] = Verdict(pinned.total <= held.cap, "cap-exceeded")
      /\ o[10] = Verdict(Consistent(pinned), "quote-inconsistent")
      /\ o[11] = Verdict(IsFresh(q), "price-changed")
      /\ o[12] = Verdict(MethodOf(kind) \in held.methods, "method-not-supported")
  BY DEF Outcomes
<1>3. /\ AuthorityCheck \in Clean
      /\ kind = "upi-pin" => o[1] = "deferred"
  BY <1>2 DEF AuthorityCheck, Clean
<1>4. /\ kind \in held.kinds
      /\ kind \in BindsCart => bound = CartHash(cart, pinned, facts.price)
  BY <1>3 DEF AuthorityCheck, Clean, BindsCart
<1>5. held.window
  BY <1>2 DEF Verdict, Clean
<1>6. WithinQty(cart.lines, held.qty)
  BY <1>2 DEF Verdict, Clean
<1>7. pinned.total <= held.cap
  BY <1>2 DEF Verdict, Clean
<1>8. Consistent(pinned)
  BY <1>2 DEF Verdict, Clean
<1>9. IsFresh(q)
  BY <1>2 DEF Verdict, Clean
<1>10. MethodOf(kind) \in held.methods
  BY <1>2 DEF Verdict, Clean
<1>11. WithinCount(cart.lines, held.count)
  BY <1>2 DEF Verdict, Clean
<1> QED
  BY <1>3, <1>4, <1>5, <1>6, <1>7, <1>8, <1>9, <1>10, <1>11 DEF AllClear, Consistent, IsFresh

(* Only the payment app's own PIN is left for the payment to bring.         *)
LEMMA NothingElseDefers ==
    ASSUME NEW q, kind # "upi-pin", NEW i \in 1..12
    PROVE  Outcomes(q)[i] # "deferred"
<1>1. AuthorityCheck # "deferred"
  BY DEF AuthorityCheck
<1> QED
  BY <1>1 DEF Outcomes, Verdict

-----------------------------------------------------------------------------
(* The checkout. *)

After == {"permitted", "failed", "paid"}

(* What a decision leaves behind: twelve clean checks over what was shown,  *)
(* under a Policy that was live.                                            *)
DecisionStands ==
    /\ AllClear(fresh) /\ held \in lived
    /\ checks \in Seq(Codes) /\ Len(checks) = 12 /\ \A i \in 1..12 : checks[i] \in Clean

(* The inductive invariant. *)
QuoteInv ==
    /\ at \in {"facts", "gate"} => policy \in lived
    /\ at = "gate" => held \in lived
    /\ at \in After => DecisionStands
    /\ at \in {"permitted", "failed"} => (kind = "upi-pin" => checks[1] = "deferred")
    /\ at = "permitted" /\ kind # "upi-pin" => Complete(checks)
    /\ at = "paid" => captured = pinned.total /\ Complete(checks)
    /\ at # "paid" => captured = None

LEMMA InitQuote == Init => QuoteInv
BY DEF Init, QuoteInv, After

(* A step that touches nothing a decision rests on. *)
LEMMA DecisionKept ==
    ASSUME DecisionStands, UNCHANGED <<pinned, facts, kind, bound, cart, held, fresh, checks>>,
           lived \subseteq lived'
    PROVE  DecisionStands'
BY DEF DecisionStands, AllClear

LEMMA DecideKeeps == ASSUME QuoteInv, Decide PROVE QuoteInv'
<1> DEFINE q == Quote(shop, cart)
<1>1. CASE at' = "permitted"
  <2>1. /\ at = "gate" /\ fresh' = q /\ checks' = Record(Outcomes(q)) /\ Permits(checks')
        /\ UNCHANGED <<pinned, bound, cart, policy, kind, facts, held, captured, lived>>
    BY <1>1 DEF Decide, merchant, checkout
  <2>2. Outcomes(q) \in Seq(Codes) /\ Len(Outcomes(q)) = 12
    BY OutcomesAreNamed
  <2> HIDE DEF q
  <2>3. checks' = Outcomes(q) /\ \A i \in 1..12 : Outcomes(q)[i] \in Clean
    BY <2>1, <2>2, PermitIsClean
  <2>4. AllClear(q) /\ (kind = "upi-pin" => checks'[1] = "deferred")
    BY <2>3, CleanIsDecided
  <2>5. DecisionStands'
    BY <2>1, <2>2, <2>3, <2>4 DEF DecisionStands, AllClear, QuoteInv
  <2>6. kind' # "upi-pin" => Complete(checks')
    BY <2>1, <2>2, <2>3, NothingElseDefers DEF Complete
  <2> QED
    BY <1>1, <2>1, <2>4, <2>5, <2>6 DEF QuoteInv
<1>2. CASE at' # "permitted"
  <2>1. at' \in {"refused", "unquoted"} /\ at = "gate" /\ UNCHANGED captured
    BY <1>2 DEF Decide
  <2> QED
    BY <2>1 DEF QuoteInv, After
<1> QED
  BY <1>1, <1>2

(* Settlement resolves what deferred and nothing else. *)
LEMMA SettleKeeps ==
    ASSUME QuoteInv, NEW amount, NEW ok, Settle(amount, ok)
    PROVE  QuoteInv'
<1>0. at = "permitted" /\ DecisionStands /\ UNCHANGED <<merchant, checkout, kind, facts, held, fresh, lived>>
  BY DEF Settle, QuoteInv, After
<1>1. CASE at' = "failed"
  <2>1. UNCHANGED <<checks, captured>>
    BY <1>1 DEF Settle
  <2>2. DecisionStands'
    BY <1>0, <2>1, DecisionKept DEF merchant, checkout
  <2> QED
    BY <1>0, <1>1, <2>1, <2>2 DEF QuoteInv
<1>2. CASE at' = "paid"
  <2>1. checks' = Resolved(checks) /\ Complete(checks') /\ captured' = amount /\ amount = pinned.total
    BY <1>2 DEF Settle, Reconciles
  <2>2. checks' = [i \in 1..12 |-> IF checks[i] = "deferred" THEN "pass" ELSE checks[i]]
    BY <1>0, <2>1 DEF Resolved, DecisionStands
  <2>3. \A i \in 1..12 : checks'[i] = "pass"
    BY <1>0, <2>2 DEF DecisionStands, Clean
  <2>4. checks' \in Seq(Codes) /\ Len(checks') = 12 /\ \A i \in 1..12 : checks'[i] \in Clean
    BY <2>2, <2>3 DEF Codes, Clean
  <2>5. DecisionStands'
    BY <1>0, <2>4 DEF DecisionStands, AllClear, merchant, checkout
  <2> QED
    BY <1>0, <1>2, <2>1, <2>5 DEF QuoteInv, checkout
<1> QED
  BY <1>1, <1>2 DEF Settle

LEMMA StepKeeps == ASSUME QuoteInv, [Next]_vars PROVE QuoteInv'
<1>1. CASE StartQuote
  BY <1>1 DEF StartQuote, QuoteInv, After, merchant, tap
<1>2. CASE StartAttest
  BY <1>2 DEF StartAttest, QuoteInv, After, merchant, tap
<1>3. CASE \E k \in Kinds : Tap(k)
  BY <1>3 DEF Tap, QuoteInv, After, merchant, checkout
<1>4. CASE TapFacts
  BY <1>4 DEF TapFacts, CurrentPolicy, QuoteInv, After, merchant, checkout
<1>5. CASE Decide
  BY <1>5, DecideKeeps
<1>6. CASE Collect
  <2>1. /\ at = "permitted" /\ at' = "paid" /\ Complete(checks) /\ captured' = pinned.total
        /\ UNCHANGED <<merchant, checkout, tap, lived>>
    BY <1>6 DEF Collect
  <2>2. DecisionStands'
    BY <2>1, DecisionKept DEF QuoteInv, After, merchant, checkout, tap
  <2> QED
    BY <2>1, <2>2 DEF QuoteInv, merchant, checkout, tap, Complete
<1>7. CASE \E d \in {0, 1}, ok \in BOOLEAN : Settle(pinned.total + d, ok)
  BY <1>7, SettleKeeps
<1>8. CASE \E s \in Shops : ShopEdit(s)
  <2>1. UNCHANGED <<policy, checkout, tap, at, captured, lived>>
    BY <1>8 DEF ShopEdit
  <2>2. at \in After => DecisionStands'
    BY <2>1, DecisionKept DEF QuoteInv, checkout, tap
  <2> QED
    BY <2>1, <2>2 DEF QuoteInv, checkout, tap, Complete
<1>9. CASE \E p \in Policies : PolicyEdit(p)
  <2>1. /\ UNCHANGED <<shop, checkout, tap, at, captured>>
        /\ lived \subseteq lived' /\ (at \in {"facts", "gate"} => policy' \in lived')
    BY <1>9 DEF PolicyEdit
  <2>2. at \in After => DecisionStands'
    BY <2>1, DecisionKept DEF QuoteInv, checkout, tap
  <2> QED
    BY <2>1, <2>2 DEF QuoteInv, checkout, tap, Complete
<1>10. CASE UNCHANGED vars
  <2>1. at \in After => DecisionStands'
    BY <1>10, DecisionKept DEF QuoteInv, vars, checkout, tap
  <2> QED
    BY <1>10, <2>1 DEF QuoteInv, vars, merchant, checkout, tap, Complete
<1> QED
  BY <1>1, <1>2, <1>3, <1>4, <1>5, <1>6, <1>7, <1>8, <1>9, <1>10 DEF Next

LEMMA QuoteInvariant == Spec => []QuoteInv
BY InitQuote, StepKeeps, PTL DEF Spec

(* From the page to the capture, one amount (checkout.py, gate/decide.py    *)
(* checks 1, 10 and 11, gate/settle.py): what a tap decided on is what the  *)
(* Consumer was shown, and nothing else is captured, whatever the Merchant  *)
(* edits in between.                                                        *)
THEOREM ChargeIsApproved == Spec => []ChargedIsApproved
<1>1. QuoteInv => ChargedIsApproved
  BY DEF QuoteInv, DecisionStands, AllClear, After, ChargedIsApproved, ApprovedPriceStood,
         CapturedIsApproved
<1> QED
  BY <1>1, QuoteInvariant, PTL

(* gate/policy.py's one live Policy: what the Gate permits is within one    *)
(* that was live after the tap.                                             *)
THEOREM PermitIsWithinPolicy == Spec => []PermitWithinPolicy
<1>1. QuoteInv => PermitWithinPolicy
  BY DEF QuoteInv, DecisionStands, AllClear, After, PermitWithinPolicy
<1> QED
  BY <1>1, QuoteInvariant, PTL

-----------------------------------------------------------------------------
(* The checkout's types. *)

(* The Gate's record is at most its twelve checks long. *)
LEMMA RecordIsShort ==
    ASSUME NEW S, NEW o \in Seq(S), Len(o) = 12
    PROVE  Len(Record(o)) <= 12
<1> DEFINE bad == {i \in DOMAIN o : o[i] \notin Clean}
<1>0. DOMAIN o = 1..12
  OBVIOUS
<1>1. CASE bad = {}
  <2>1. Record(o) = o
    BY <1>1 DEF Record
  <2> QED
    BY <2>1
<1>2. CASE bad # {}
  <2>1. Min(bad) \in bad
    BY <1>0, <1>2, LeastOfTwelve
  <2>2. Min(bad) \in 1..12
    BY <2>1
  <2>3. Record(o) = SubSeq(o, 1, Min(bad))
    BY <1>2 DEF Record
  <2> HIDE DEF bad
  <2>4. Len(SubSeq(o, 1, Min(bad))) = Min(bad)
    BY <2>2
  <2> QED
    BY <2>2, <2>3, <2>4
<1> QED
  BY <1>1, <1>2

LEMMA QuoteHasTotal == \A s, c : "total" \in DOMAIN Quote(s, c)
BY DEF Quote

(* The types, and that a checkout that was quoted has a quote that parses.  *)
GateTypes ==
    TypeOK /\ (at \notin {"start", "unquoted"} => Parses(pinned) /\ "total" \in DOMAIN pinned)

LEMMA InitTypes == Init => GateTypes
BY QuoteAssumption DEF Init, GateTypes, TypeOK

LEMMA TypesKept ==
    ASSUME GateTypes, QuoteInv, [Next]_vars, QuoteInv'
    PROVE  GateTypes'
<1> USE DEF GateTypes, TypeOK
<1>1. CASE StartQuote
  BY <1>1, QuoteHasTotal DEF StartQuote, Quotable, merchant, tap
<1>2. CASE StartAttest
  BY <1>2 DEF StartAttest, merchant, tap
<1>3. CASE \E k \in Kinds : Tap(k)
  BY <1>3 DEF Tap, merchant, checkout
<1>4. CASE TapFacts
  BY <1>4 DEF TapFacts, CurrentPolicy, merchant, checkout
<1>5. CASE Decide
  <2>1. Len(checks') <= 12
    <3>1. CASE checks' = Record(Outcomes(fresh'))
      BY <3>1, OutcomesAreNamed, RecordIsShort
    <3> QED
      BY <1>5, <3>1 DEF Decide
  <2> QED
    BY <1>5, <2>1 DEF Decide, merchant, checkout
<1>6. CASE Collect
  BY <1>6 DEF Collect, merchant, checkout, tap, Parses
<1>7. CASE \E d \in {0, 1}, ok \in BOOLEAN : Settle(pinned.total + d, ok)
  <2>1. PICK d \in {0, 1}, ok \in BOOLEAN : Settle(pinned.total + d, ok)
    BY <1>7
  <2>2. Len(checks') <= 12
    BY <2>1 DEF Settle, QuoteInv, After, DecisionStands
  <2>3. captured' \in Nat \cup {None}
    BY <2>1 DEF Settle, Reconciles, Parses
  <2> QED
    BY <2>1, <2>2, <2>3 DEF Settle, merchant, checkout
<1>8. CASE \E s \in Shops : ShopEdit(s)
  BY <1>8, QuoteAssumption DEF ShopEdit, checkout, tap
<1>9. CASE \E p \in Policies : PolicyEdit(p)
  BY <1>9, QuoteAssumption DEF PolicyEdit, checkout, tap
<1>10. CASE UNCHANGED vars
  BY <1>10 DEF vars, merchant, checkout, tap
<1> QED
  BY <1>1, <1>2, <1>3, <1>4, <1>5, <1>6, <1>7, <1>8, <1>9, <1>10 DEF Next

(* Every value the checkout holds has its type, and no amount the Consumer  *)
(* is shown, or that is captured, is below nought, through every edit.      *)
THEOREM GateTypeCorrect == Spec => []TypeOK
<1>1. GateTypes => TypeOK
  BY DEF GateTypes
<1> QED
  BY <1>1, InitTypes, TypesKept, QuoteInvariant, PTL DEF Spec

-----------------------------------------------------------------------------
(* The keys. *)

(* A keyring keeps its shape, and seals with a live key or with none.       *)
RingRight(r) == KeyringOK(r) /\ r = Loaded(r)
FileRight(f) ==
    KeyringOK(f) /\ f.opens \in BOOLEAN /\ f = [Saved(f) EXCEPT !.opens = f.opens]

LEMMA EnrolledRight ==
    ASSUME NEW r, RingRight(r) \/ r = NoKeys, NEW kid \in Kids, NEW m \in Nat
    PROVE  RingRight(Enrolled(r, kid, m))
<1> DEFINE e == Enrolled(r, kid, m)
<1>1. /\ e = [keys |-> e.keys, current |-> kid]
      /\ DOMAIN e.keys = DOMAIN r.keys \cup {kid}
      /\ e.keys = [k \in DOMAIN e.keys |-> e.keys[k]]
      /\ e.keys[kid] = [material |-> m, revoked |-> None]
      /\ \A k \in DOMAIN r.keys : k # kid => e.keys[k] = r.keys[k]
  BY DEF Enrolled
<1>2. \A k \in DOMAIN r.keys : k \in Kids /\ r.keys[k] \in KeyRows
  BY DEF RingRight, KeyringOK, NoKeys
<1>3. \A k \in DOMAIN e.keys : k \in Kids /\ e.keys[k] \in KeyRows
  BY <1>1, <1>2 DEF KeyRows
<1> HIDE DEF e
<1>4. e.keys \in [DOMAIN e.keys -> KeyRows]
  BY <1>1, <1>3
<1>5. e.current \in LiveKids(e)
  BY <1>1 DEF LiveKids
<1>6. e = Loaded(e)
  BY <1>1 DEF Loaded
<1> QED
  BY <1>3, <1>4, <1>5, <1>6 DEF RingRight, KeyringOK, e

LEMMA RevokedRight ==
    ASSUME NEW r, RingRight(r), NEW kid \in DOMAIN r.keys, NEW t \in Nat,
           NEW s \in Revoked(r, kid, t)
    PROVE  RingRight(s)
<1> DEFINE marked == [r EXCEPT !.keys[kid].revoked = t]
<1>1. /\ marked = [keys |-> marked.keys, current |-> r.current]
      /\ marked.keys = [r.keys EXCEPT ![kid].revoked = t]
  BY DEF RingRight, Loaded
<1>2. /\ DOMAIN marked.keys = DOMAIN r.keys
      /\ marked.keys \in [DOMAIN r.keys -> KeyRows]
      /\ \A k \in DOMAIN r.keys : k # kid => marked.keys[k] = r.keys[k]
  BY <1>1 DEF RingRight, KeyringOK, KeyRows
<1>3. PICK k : /\ s = [marked EXCEPT !.current = k]
               /\ IF r.current # kid THEN k = r.current
                  ELSE k \in LiveKids(marked) \/ k = None
  BY DEF Revoked
<1> HIDE DEF marked
<1>4. s = [keys |-> marked.keys, current |-> k]
  BY <1>1, <1>3
<1>5. k \in LiveKids(s) \cup {None}
  BY <1>2, <1>3, <1>4 DEF LiveKids, RingRight, KeyringOK
<1> QED
  BY <1>2, <1>4, <1>5 DEF RingRight, KeyringOK, Loaded

LEMMA SavedRight == ASSUME NEW r, RingRight(r) PROVE FileRight(Saved(r)) /\ Saved(r) = Saved(Saved(r))
BY DEF RingRight, FileRight, KeyringOK, Saved, LiveKids

LEMMA LoadedRight == ASSUME NEW f, FileRight(f) PROVE RingRight(Loaded(f))
BY DEF RingRight, FileRight, KeyringOK, Loaded, LiveKids

(* The keys' part of the types. *)
KeysRight ==
    /\ ring # None => RingRight(ring)
    /\ file # None => FileRight(file)
    /\ FileRight(backup) /\ backup = Saved(backup)
    /\ made \in Nat /\ acts \in 0..KeyActs /\ now \in 0..MaxTime

LEMMA KeysInit == EvidenceInit => KeysRight
<1> SUFFICES ASSUME EvidenceInit PROVE KeysRight
  OBVIOUS
<1>1. RingRight(ring)
  BY EnrolledRight, EvidenceAssumption DEF EvidenceInit
<1>2. FileRight(file) /\ file = Saved(file)
  BY <1>1, SavedRight DEF EvidenceInit
<1> QED
  BY <1>1, <1>2, EvidenceAssumption DEF EvidenceInit, KeysRight

LEMMA KeysKept == KeysRight /\ TypeOK /\ [EvidenceNext]_allvars => KeysRight'
<1> SUFFICES ASSUME KeysRight, TypeOK, [EvidenceNext]_allvars PROVE KeysRight'
  OBVIOUS
<1>0. ASSUME Act PROVE acts' \in 0..KeyActs
  BY <1>0, QuoteAssumption, EvidenceAssumption DEF Act, KeysRight, TypeOK
<1>1. ASSUME UNCHANGED keysVars PROVE KeysRight'
  BY <1>1 DEF keysVars, KeysRight, RingRight, FileRight, KeyringOK, LiveKids, Loaded, Saved
<1>2. ASSUME NEW kid \in Kids, Rotate(kid) PROVE KeysRight'
  <2>1. RingRight(ring')
    BY <1>2, EnrolledRight DEF Rotate, KeysRight
  <2> QED
    BY <1>0, <1>2, <2>1 DEF Rotate, KeysRight
<1>3. ASSUME NEW kid \in Kids, Revoke(kid) PROVE KeysRight'
  <2>1. RingRight(ring')
    BY <1>3, RevokedRight DEF Revoke, KeysRight
  <2> QED
    BY <1>0, <1>3, <2>1 DEF Revoke, KeysRight
<1>4. CASE Save
  BY <1>0, <1>4, SavedRight DEF Save, KeysRight
<1>5. CASE Export
  <2>1. file = Saved(file)
    BY <1>5 DEF Export, KeysRight, FileRight, Saved
  <2> QED
    BY <1>0, <1>5, <2>1 DEF Export, KeysRight
<1>6. CASE Lose
  BY <1>0, <1>6 DEF Lose, KeysRight
<1>7. ASSUME NEW opens \in BOOLEAN, Restore(opens) PROVE KeysRight'
  <2>1. FileRight(file')
    BY <1>7 DEF Restore, KeysRight, FileRight, KeyringOK, Saved, LiveKids
  <2> QED
    BY <1>0, <1>7, <2>1 DEF Restore, KeysRight
<1>8. CASE Boot
  <2>1. CASE file = None
    <3>1. RingRight(ring') /\ made' = made + 1 /\ file' = Saved(ring') /\ backup' = Saved(ring')
      BY <1>8, <2>1, EnrolledRight, EvidenceAssumption DEF Boot, KeysRight, ExportNewKeys
    <3> QED
      BY <1>0, <1>8, <3>1, SavedRight DEF Boot, KeysRight
  <2>2. CASE file # None
    <3>1. ring' # None => RingRight(ring')
      BY <1>8, <2>2, LoadedRight DEF Boot, KeysRight
    <3> QED
      BY <1>0, <1>8, <2>2, <3>1 DEF Boot, KeysRight
  <2> QED
    BY <2>1, <2>2
<1>9. CASE Tick
  BY <1>0, <1>9, EvidenceAssumption DEF Tick, KeysRight
<1>10. CASE SealSalt \/ Seal \/ Put \/ SealFails
  BY <1>1, <1>10 DEF SealSalt, Seal, Put, SealFails
<1>11. CASE UNCHANGED evidence
  BY <1>1, <1>11 DEF evidence
<1>12. CASE UNCHANGED allvars
  BY <1>1, <1>12 DEF allvars, evidence
<1> QED
  BY <1>2, <1>3, <1>4, <1>5, <1>6, <1>7, <1>8, <1>9, <1>10, <1>11, <1>12 DEF EvidenceNext

(* Sealing and the keys leave the checkout alone: what is proved of the     *)
(* Gate holds beside them (_seal is read-only towards the order).           *)
LEMMA GateBeside == [EvidenceNext]_allvars => [Next]_vars
BY DEF EvidenceNext, allvars, SealSalt, Seal, Put, SealFails, Rotate, Revoke, Save, Export, Lose,
       Boot, Tick, Restore

THEOREM SealingLeavesGate == EvidenceSpec => Spec
<1>1. EvidenceInit => Init
  BY DEF EvidenceInit
<1> QED
  BY <1>1, GateBeside, PTL DEF EvidenceSpec, Spec

-----------------------------------------------------------------------------
(* The receipt. *)

(* An order that is sealed is decided and stays as it was decided: a cash   *)
(* order from its tap on, another from the payment on.                      *)
Sealable == at = "paid" \/ (at = "permitted" /\ MethodOf(kind) = "cod")

Settled == <<cart, pinned, bound, kind, facts, held, fresh, checks>>

LEMMA SealableStays ==
    ASSUME Sealable, [Next]_vars
    PROVE  Sealable' /\ UNCHANGED Settled /\ (at = "paid" => UNCHANGED captured)
<1> USE DEF Sealable, Settled, MethodOf
<1>1. CASE Collect
  BY <1>1 DEF Collect, merchant, checkout, tap
<1>2. CASE \E d \in {0, 1}, ok \in BOOLEAN : Settle(pinned.total + d, ok)
  BY <1>2 DEF Settle
<1>3. CASE \E s \in Shops : ShopEdit(s)
  BY <1>3 DEF ShopEdit, checkout, tap
<1>4. CASE \E p \in Policies : PolicyEdit(p)
  BY <1>4 DEF PolicyEdit, checkout, tap
<1>5. CASE UNCHANGED vars
  BY <1>5 DEF vars, merchant, checkout, tap
<1> QED
  BY <1>1, <1>2, <1>3, <1>4, <1>5 DEF Next, StartQuote, StartAttest, Tap, TapFacts, Decide

(* A document as _seal builds it: the order's facts in five linked          *)
(* sections, signed by a key it lists that was live when it signed.         *)
RightReceipt(d) ==
    /\ d = [version |-> 1, sealed |-> d.sealed, jwks |-> d.jwks, kid |-> d.kid,
            sections |-> d.sections, signature |-> d.signature]
    /\ d.sealed \in Nat /\ Listed(d)
    /\ d.jwks[d.kid] = [material |-> d.jwks[d.kid].material, revoked |-> None]
    /\ d.signature = [material |-> d.jwks[d.kid].material, over |-> SigningPayload(d)]
    /\ \E price : d.sections = Sections(<<Bought(price), Tapped, Decided, Told, Moved>>)

LEMMA BundleRight ==
    ASSUME KeysRight, ring # None, ring.current # None, NEW price
    PROVE  RightReceipt(Bundle(price))
<1> DEFINE d == Bundle(price)
           sections == Sections(<<Bought(price), Tapped, Decided, Told, Moved>>)
           body == [version |-> 1, sealed |-> now, jwks |-> ring.keys, kid |-> ring.current,
                    sections |-> sections, signature |-> None]
<1>1. d = [body EXCEPT !.signature = Sign(ring, SigningPayload(body))]
  BY DEF Bundle, Jwks
<1> HIDE DEF sections
<1>2. /\ d = [version |-> 1, sealed |-> now, jwks |-> ring.keys, kid |-> ring.current,
              sections |-> sections, signature |-> Sign(ring, SigningPayload(body))]
      /\ SigningPayload(d) = SigningPayload(body)
  BY <1>1 DEF SigningPayload
<1>3. now \in Nat /\ ring.current \in LiveKids(ring) /\ ring.keys[ring.current] \in KeyRows
  BY EvidenceAssumption DEF KeysRight, RingRight, KeyringOK, LiveKids
<1> HIDE DEF d, body
<1> QED
  BY <1>2, <1>3 DEF d, sections, RightReceipt, Listed, LiveKids, KeyRows, Sign

(* Every document that was signed: handed out, or about to be written.      *)
Signed == issued \cup {d \in {draft} : sealing = "put"}

(* The inductive invariant of sealing. *)
ReceiptInv ==
    /\ sealing \in {"unsealed", "prices", "put", "sealed", "lost"} /\ seals \in 0..MaxSeals
    /\ sealing # "unsealed" => Sealable
    /\ sealing # "put" => draft = None
    /\ receipt # None => receipt \in issued
    /\ issued # {} => sealing # "unsealed"
    /\ \A d \in Signed : RightReceipt(d)

LEMMA RightStays ==
    ASSUME NEW d, RightReceipt(d), Sealable, [Next]_vars
    PROVE  RightReceipt(d)'
<1>1. UNCHANGED Settled /\ (at = "paid" => UNCHANGED captured)
  BY SealableStays
<1>2. \A price : Bought(price)' = Bought(price)
  BY <1>1 DEF Settled, Bought
<1>3. Tapped' = Tapped /\ Decided' = Decided /\ Told' = Told
  BY <1>1 DEF Settled, Tapped, Decided, Told, BindingFor
<1>4. Moved' = Moved
  <2>1. CASE MethodOf(kind) = "cod"
    BY <1>1, <2>1 DEF Settled, Moved, MethodOf
  <2>2. CASE MethodOf(kind) # "cod"
    <3>1. UNCHANGED captured
      BY <1>1, <2>2 DEF Sealable
    <3> QED
      BY <1>1, <3>1 DEF Settled, Moved, MethodOf
  <2> QED
    BY <2>1, <2>2
<1> QED
  BY <1>2, <1>3, <1>4 DEF RightReceipt

LEMMA ReceiptKept == ReceiptInv /\ KeysRight /\ [EvidenceNext]_allvars => ReceiptInv'
<1> SUFFICES ASSUME ReceiptInv, KeysRight, [EvidenceNext]_allvars PROVE ReceiptInv'
  OBVIOUS
<1>0. [Next]_vars
  BY GateBeside
<1>1. /\ sealing # "unsealed" => Sealable'
      /\ \A d \in Signed : RightReceipt(d)'
  <2>1. CASE sealing # "unsealed"
    <3>1. Sealable
      BY <2>1 DEF ReceiptInv
    <3>2. Sealable'
      BY <1>0, <3>1, SealableStays
    <3>3. ASSUME NEW d \in Signed PROVE RightReceipt(d)'
      <4>1. RightReceipt(d)
        BY DEF ReceiptInv
      <4> QED
        BY <1>0, <3>1, <4>1, RightStays
    <3> QED
      BY <3>2, <3>3
  <2>2. CASE sealing = "unsealed"
    BY <2>2 DEF ReceiptInv, Signed
  <2> QED
    BY <2>1, <2>2
<1> USE DEF Signed
<1>2. CASE SealSalt
  <2>1. Sealable
    BY <1>2 DEF SealSalt, ToBeSealed, Sealable
  <2>2. Sealable'
    BY <1>0, <2>1, SealableStays
  <2> QED
    BY <1>1, <1>2, <2>2, EvidenceAssumption DEF SealSalt, ToBeSealed, ReceiptInv
<1>3. CASE Seal
  <2>1. CASE ring.current = None
    BY <1>1, <1>3, <2>1 DEF Seal, ReceiptInv
  <2>2. CASE ring.current # None
    <3>1. PICK d : d = Bundle(shop.price)
      OBVIOUS
    <3>2. RightReceipt(d)
      BY <1>3, <2>2, <3>1, BundleRight DEF Seal
    <3>3. Sealable
      BY <1>3 DEF Seal, ReceiptInv
    <3>4. RightReceipt(d)'
      BY <1>0, <3>2, <3>3, RightStays
    <3>5. draft' = d /\ sealing' = "put" /\ sealing = "prices" /\ UNCHANGED <<seals, receipt, issued>>
      BY <1>3, <2>2, <3>1 DEF Seal
    <3> QED
      BY <1>1, <3>4, <3>5 DEF ReceiptInv
  <2> QED
    BY <2>1, <2>2
<1>4. CASE Put
  BY <1>1, <1>4 DEF Put, ReceiptInv
<1>5. CASE SealFails
  BY <1>1, <1>5 DEF SealFails, ReceiptInv
<1>6. CASE Boot
  BY <1>1, <1>6 DEF Boot, ReceiptInv
<1>7. CASE UNCHANGED sealVars
  BY <1>1, <1>7 DEF sealVars, ReceiptInv
<1> QED
  BY <1>2, <1>3, <1>4, <1>5, <1>6, <1>7
  DEF EvidenceNext, Rotate, Revoke, Save, Export, Lose, Tick, Restore, evidence, allvars

(* The inductive invariant of the whole. *)
EvidenceInv == QuoteInv /\ GateTypes /\ KeysRight /\ ReceiptInv

LEMMA EvidenceCorrect == EvidenceSpec => []EvidenceInv
<1>1. EvidenceInit => EvidenceInv
  BY InitQuote, InitTypes, KeysInit, EvidenceAssumption
  DEF EvidenceInit, EvidenceInv, ReceiptInv, Signed
<1>2. EvidenceInv /\ [EvidenceNext]_allvars => EvidenceInv'
  BY GateBeside, StepKeeps, TypesKept, KeysKept, ReceiptKept DEF EvidenceInv, GateTypes
<1> QED
  BY <1>1, <1>2, PTL DEF EvidenceSpec

(* Types; and no keyring, in the process, in its file or in the backup,     *)
(* ever seals with a revoked key, through rotations, revocations, losses,   *)
(* restores and restarts (keys.py, app.py's boot).                          *)
THEOREM EvidenceTypeCorrect == EvidenceSpec => []EvidenceTypeOK
<1>1. EvidenceInv => EvidenceTypeOK
  BY DEF EvidenceInv, GateTypes, KeysRight, RingRight, FileRight, ReceiptInv, EvidenceTypeOK
<1> QED
  BY <1>1, EvidenceCorrect, PTL

(* What a receipt's sections are. *)
LEMMA SectionsSay ==
    ASSUME NEW p1, NEW p2, NEW p3, NEW p4, NEW p5, NEW d,
           d.sections = Sections(<<p1, p2, p3, p4, p5>>)
    PROVE  /\ [i \in DOMAIN d.sections |-> d.sections[i].name] = SECTION_ORDER
           /\ \A i \in 1..5 : ~LinkBroken(d, i)
           /\ d.sections[1].payload = p1 /\ d.sections[2].payload = p2
           /\ d.sections[3].payload = p3 /\ d.sections[4].payload = p4
           /\ d.sections[5].payload = p5
<1> DEFINE p == <<p1, p2, p3, p4, p5>>
           link1 == Chain(<<>>, SECTION_ORDER[1], p1)
           link2 == Chain(link1, SECTION_ORDER[2], p2)
           link3 == Chain(link2, SECTION_ORDER[3], p3)
           link4 == Chain(link3, SECTION_ORDER[4], p4)
           links == <<link1, link2, link3, link4, Chain(link4, SECTION_ORDER[5], p5)>>
<1>1. d.sections = [i \in 1..5 |-> [name |-> SECTION_ORDER[i], payload |-> p[i], link |-> links[i]]]
  BY DEF Sections
<1>2. /\ d.sections[1].link = Chain(<<>>, SECTION_ORDER[1], p1)
      /\ d.sections[2].link = Chain(d.sections[1].link, SECTION_ORDER[2], p2)
      /\ d.sections[3].link = Chain(d.sections[2].link, SECTION_ORDER[3], p3)
      /\ d.sections[4].link = Chain(d.sections[3].link, SECTION_ORDER[4], p4)
      /\ d.sections[5].link = Chain(d.sections[4].link, SECTION_ORDER[5], p5)
  BY <1>1
<1>3. \A i \in 1..5 : d.sections[i].name = SECTION_ORDER[i] /\ d.sections[i].payload = p[i]
  BY <1>1
<1>4. [i \in DOMAIN d.sections |-> d.sections[i].name] = SECTION_ORDER
  BY <1>1, <1>3 DEF SECTION_ORDER
<1> HIDE DEF links
<1>5. ASSUME NEW i \in 1..5 PROVE ~LinkBroken(d, i)
  <2>1. i = 1 \/ i = 2 \/ i = 3 \/ i = 4 \/ i = 5
    OBVIOUS
  <2> QED
    BY <1>2, <1>3, <2>1 DEF LinkBroken
<1> QED
  BY <1>3, <1>4, <1>5

(* Nothing that carries the signature of a receipt passes for another: what *)
(* verifies is, but for the signature, the receipt (verify/checks.py).      *)
LEMMA NoOtherPasses ==
    ASSUME NEW d, RightReceipt(d), NEW e, e.signature = d.signature, Verify(e, None) = "VALID"
    PROVE  SigningPayload(e) = SigningPayload(d)
BY DEF Verify, SignatureFits, RightReceipt

(* The receipt of an order, altered, does not verify.                       *)
LEMMA AlteredFails ==
    ASSUME EvidenceInv, NEW d \in issued, NEW e \in Altered(d)
    PROVE  Verify(e, None) # "VALID"
<1> SUFFICES ASSUME Verify(e, None) = "VALID" PROVE FALSE
  OBVIOUS
<1> DEFINE pay == [i \in 1..5 |-> d.sections[i].payload]
           others == {[pay EXCEPT ![1].quote.total = @ + 1],
                      [pay EXCEPT ![2].kind = IF @ = "passkey" THEN "upi-pin" ELSE "passkey"],
                      [pay EXCEPT ![3] = <<>>], [pay EXCEPT ![5].asserted = ~@]}
           listed(k) == [d.jwks[k] EXCEPT !.revoked = d.sealed + 1]
<1>1. RightReceipt(d) /\ Sealable
  BY DEF EvidenceInv, ReceiptInv, Signed
<1>2. e.signature = d.signature
  BY <1>1 DEF Altered, RightReceipt
<1>3. SigningPayload(e) = SigningPayload(d)
  BY <1>1, <1>2, NoOtherPasses
<1>4. /\ e.version = d.version /\ e.sealed = d.sealed /\ e.sections = d.sections
      /\ e.jwks = d.jwks
  BY <1>3 DEF SigningPayload
<1>5. PICK price : d.sections = Sections(<<Bought(price), Tapped, Decided, Told, Moved>>)
  BY <1>1 DEF RightReceipt
<1>6. /\ pay[1] = Bought(price) /\ pay[2] = Tapped /\ pay[3] = checks /\ pay[5] = Moved
      /\ [i \in DOMAIN d.sections |-> d.sections[i].name] = SECTION_ORDER
      /\ DOMAIN d.sections = 1..5
  BY <1>5, SectionsSay DEF Decided, Sections
<1>6a. \A i \in 1..5 : d.sections[i].payload = pay[i]
  OBVIOUS
<1> HIDE DEF pay
<1>7. ASSUME NEW p \in others PROVE \E i \in 1..5 : p[i] # pay[i]
  <2>1. DOMAIN pay = 1..5
    BY DEF pay
  <2>2. CASE p = [pay EXCEPT ![1].quote.total = @ + 1]
    <3>1. pinned.total \in Nat /\ "total" \in DOMAIN pinned
      BY <1>1 DEF Sealable, EvidenceInv, GateTypes, Parses
    <3>2. p[1].quote.total = pinned.total + 1 /\ pay[1].quote.total = pinned.total
      BY <1>6, <2>1, <2>2, <3>1 DEF Bought
    <3> QED
      BY <3>1, <3>2
  <2>3. CASE p = [pay EXCEPT ![2].kind = IF @ = "passkey" THEN "upi-pin" ELSE "passkey"]
    <3>1. p[2].kind = IF kind = "passkey" THEN "upi-pin" ELSE "passkey"
      BY <1>6, <2>1, <2>3 DEF Tapped
    <3>2. pay[2].kind = kind
      BY <1>6 DEF Tapped
    <3> QED
      BY <3>1, <3>2
  <2>4. CASE p = [pay EXCEPT ![3] = <<>>]
    <3>1. Len(checks) = 12 /\ p[3] = <<>>
      BY <1>1, <2>1, <2>4 DEF Sealable, EvidenceInv, QuoteInv, After, DecisionStands
    <3>2. p[3] # checks
      <4>1. Len(<<>>) = 0
        OBVIOUS
      <4>2. CASE p[3] = checks
        <5>1. checks = <<>>
          BY <3>1, <4>2
        <5> QED
          BY <3>1, <4>1, <5>1
      <4> QED
        BY <4>2
    <3>3. pay[3] = checks
      BY <1>6
    <3> QED
      BY <3>2, <3>3
  <2>5. CASE p = [pay EXCEPT ![5].asserted = ~@]
    <3>1. p[5].asserted = ~Moved.asserted /\ pay[5].asserted = Moved.asserted
      BY <1>6, <2>1, <2>5 DEF Moved
    <3>2. Moved.asserted \in BOOLEAN
      BY DEF Moved
    <3> QED
      BY <3>1, <3>2
  <2> QED
    BY <2>2, <2>3, <2>4, <2>5
<1>8. ASSUME NEW p \in others, e = [d EXCEPT !.sections = Sections(p)] PROVE FALSE
  <2>1. e.sections = Sections(p)
    BY <1>1, <1>8 DEF RightReceipt
  <2>2. \A i \in 1..5 : e.sections[i].payload = p[i]
    BY <2>1 DEF Sections
  <2> QED
    BY <1>4, <1>7, <1>8, <1>6a, <2>2
<1>9. ASSUME NEW p \in others,
             e = [d EXCEPT !.sections = [i \in 1..5 |-> [@[i] EXCEPT !.payload = p[i]]]]
      PROVE  FALSE
  <2>1. e.sections = [i \in 1..5 |-> [d.sections[i] EXCEPT !.payload = p[i]]]
    BY <1>1, <1>9 DEF RightReceipt
  <2>2. \A i \in 1..5 : e.sections[i].payload = p[i]
    BY <1>5, <2>1 DEF Sections
  <2> QED
    BY <1>4, <1>7, <1>9, <1>6a, <2>2
<1>10. ASSUME e = [d EXCEPT !.sections = [i \in 1..5 |-> @[6 - i]]] PROVE FALSE
  <2>1. e.sections[1] = d.sections[5]
    BY <1>1, <1>10 DEF RightReceipt
  <2>2. d.sections[1].name = "bought" /\ d.sections[5].name = "moved"
    BY <1>5 DEF Sections, SECTION_ORDER
  <2> QED
    BY <1>4, <2>1, <2>2
<1>11. e # [d EXCEPT !.version = 2]
  BY <1>1, <1>4 DEF RightReceipt
<1>12. e # [d EXCEPT !.sealed = @ + 1]
  BY <1>1, <1>4 DEF RightReceipt
<1>13. ASSUME e = [d EXCEPT !.jwks = [k \in DOMAIN @ |-> listed(k)]] PROVE FALSE
  <2>1. e.jwks = [k \in DOMAIN d.jwks |-> listed(k)]
    BY <1>1, <1>13 DEF RightReceipt
  <2>2. e.jwks[d.kid] = [d.jwks[d.kid] EXCEPT !.revoked = d.sealed + 1]
    BY <1>1, <2>1 DEF RightReceipt, Listed
  <2> QED
    BY <1>1, <1>4, <2>2, EvidenceAssumption DEF RightReceipt
<1> QED
  BY <1>8, <1>9, <1>10, <1>11, <1>12, <1>13 DEF Altered, pay

(* A receipt, once handed out, verifies for good and nothing it could be    *)
(* turned into does, for any keys, rotations, revocations, losses, restores *)
(* and restarts, and any number of seals (keys.py: history is never         *)
(* re-signed; verify/checks.py).                                            *)
THEOREM ReceiptsVerifyForGood == EvidenceSpec => []ReceiptsStand
<1>1. ASSUME EvidenceInv, NEW d \in issued
      PROVE  /\ Verify(d, None) = "VALID" /\ Verify(d, cart.home) = "VALID"
             /\ Verify(d, ~cart.home) = "TAMPERED"
  <2>1. RightReceipt(d) /\ cart.home \in BOOLEAN
    BY <1>1, QuoteAssumption DEF EvidenceInv, GateTypes, TypeOK, ReceiptInv, Signed
  <2>2. PICK price : d.sections = Sections(<<Bought(price), Tapped, Decided, Told, Moved>>)
    BY <2>1 DEF RightReceipt
  <2>3. /\ [i \in DOMAIN d.sections |-> d.sections[i].name] = SECTION_ORDER
        /\ \A i \in 1..5 : ~LinkBroken(d, i)
        /\ d.sections[1].payload = Bought(price)
    BY <2>2, SectionsSay
  <2>4. Listed(d) /\ SignatureFits(d.jwks[d.kid], SigningPayload(d), d.signature)
    BY <2>1 DEF RightReceipt, SignatureFits
  <2>5. d.jwks[d.kid].revoked = None
    BY <2>1 DEF RightReceipt
  <2>6. ~TooLate(d.jwks[d.kid], d.sealed)
    BY <2>5 DEF TooLate
  <2>7. ASSUME NEW row
        PROVE  Verify(d, row) = IF row # None /\ Commit("salt", row) # d.sections[1].payload.destination
                                THEN "TAMPERED" ELSE "VALID"
    BY <2>3, <2>4, <2>6 DEF Verify
  <2>8. d.sections[1].payload.destination = <<"salt", cart.home>>
    BY <2>3 DEF Bought, Commit
  <2>9. Verify(d, None) = "VALID" /\ Verify(d, cart.home) = "VALID"
    BY <2>7, <2>8 DEF Commit
  <2>10. PICK other : other = ~cart.home
    OBVIOUS
  <2>11. other \in BOOLEAN /\ other # cart.home
    BY <2>1, <2>10, Zenon
  <2>12. other # None
    BY <2>11, EvidenceAssumption, Zenon
  <2>13. <<"salt", other>> # <<"salt", cart.home>>
    BY <2>11, Zenon
  <2>14. Verify(d, other) = "TAMPERED"
    BY <2>7, <2>8, <2>12, <2>13 DEF Commit
  <2> QED
    BY <2>9, <2>10, <2>14
<1>2. EvidenceInv => ReceiptsStand
  BY <1>1, AlteredFails DEF ReceiptsStand
<1> QED
  BY <1>2, EvidenceCorrect, PTL

(* Every receipt tells the order's own story: the quote that was shown and  *)
(* decided on, twelve checks that passed, the amount that was captured, and *)
(* "signed by the buyer" only of the basket that was signed (checkout.py    *)
(* _seal, verify/checks.py).                                                *)
THEOREM ReceiptsAreTrue == EvidenceSpec => []ReceiptSaysWhatHappened
<1>1. ASSUME EvidenceInv, NEW d \in issued
      PROVE  LET bought == d.sections[1].payload  tapped == d.sections[2].payload
                 decided == d.sections[3].payload  moved == d.sections[5].payload
             IN  /\ bought.quote = pinned /\ fresh = pinned /\ bought.lines = cart.lines
                 /\ Len(decided) = 12 /\ \A i \in 1..12 : decided[i] = "pass"
                 /\ captured # None => captured = bought.quote.total
                 /\ Claims(d).money = "settled" => at = "paid" /\ moved.entries[2][2] = captured
                 /\ Claims(d).money = "nothing has moved" => MethodOf(tapped.kind) = "cod"
                 /\ Claims(d).basket = "signed by the buyer" =>
                      tapped.cartHash = CartHash(cart, bought.quote, facts.price)
  <2>1. RightReceipt(d) /\ Sealable
    BY <1>1 DEF EvidenceInv, ReceiptInv, Signed
  <2>2. PICK price : d.sections = Sections(<<Bought(price), Tapped, Decided, Told, Moved>>)
    BY <2>1 DEF RightReceipt
  <2>3. /\ d.sections[1].payload = Bought(price) /\ d.sections[2].payload = Tapped
        /\ d.sections[3].payload = checks /\ d.sections[5].payload = Moved
    BY <2>2, SectionsSay DEF Decided
  <2>4. /\ DecisionStands
        /\ at = "permitted" /\ kind # "upi-pin" => Complete(checks)
        /\ at = "paid" => captured = pinned.total /\ Complete(checks)
        /\ at # "paid" => captured = None
    BY <1>1, <2>1 DEF EvidenceInv, QuoteInv, After, Sealable
  <2>5. Len(checks) = 12 /\ \A i \in 1..12 : checks[i] = "pass"
    <3>1. Complete(checks)
      BY <2>1, <2>4 DEF Sealable, MethodOf
    <3>2. DOMAIN checks = 1..12
      BY <2>4 DEF DecisionStands
    <3> QED
      BY <2>4, <3>1, <3>2 DEF DecisionStands, Complete, Clean
  <2>6. fresh = pinned /\ (kind = "passkey" => bound = CartHash(cart, pinned, facts.price))
    BY <2>4 DEF DecisionStands, AllClear, BindsCart
  <2>7. /\ Bought(price).quote = pinned /\ Bought(price).lines = cart.lines
        /\ Tapped.kind = kind /\ Tapped.cartHash = bound
    BY DEF Bought, Tapped
  <2>8. Claims(d).basket = "signed by the buyer" => kind = "passkey"
    BY <2>3, <2>7 DEF Claims
  <2>9. MethodOf(kind) = "cod" => Claims(d).money = "nothing has moved"
    BY <2>3 DEF Claims, Moved
  <2>10. ASSUME MethodOf(kind) # "cod"
         PROVE  Claims(d).money = "settled" /\ Moved.entries[2][2] = captured
    <3>1. Moved.entries = <<<<"RESERVE", pinned.total>>, <<"CAPTURE", captured>> >> /\ ~Moved.asserted
      BY <2>10 DEF Moved
    <3>2. Len(Moved.entries) = 2 /\ Len(<<>>) = 0
      BY <3>1
    <3>3. Moved.entries # <<>>
      BY <3>2
    <3> QED
      BY <2>3, <3>1, <3>3 DEF Claims
  <2>11. MethodOf(kind) # "cod" => at = "paid"
    BY <2>1 DEF Sealable
  <2> QED
    BY <2>3, <2>4, <2>5, <2>6, <2>7, <2>8, <2>9, <2>10, <2>11
<1>2. EvidenceInv => ReceiptSaysWhatHappened
  BY <1>1 DEF ReceiptSaysWhatHappened
<1> QED
  BY <1>2, EvidenceCorrect, PTL

(* The Gate's promises hold beside the sealing.                             *)
THEOREM SealedChargeIsApproved == EvidenceSpec => [](ChargedIsApproved /\ PermitWithinPolicy)
BY SealingLeavesGate, ChargeIsApproved, PermitIsWithinPolicy, PTL

-----------------------------------------------------------------------------
(* The shop's arithmetic. *)

(* Largest remainder: the shares add up to what was split, and each is      *)
(* within a paisa of its proportion (pricing.ts apportion, fake.py:62).     *)
LEMMA ApportionExact ==
    ASSUME NEW S \in SUBSET Nat, IsFiniteSet(S), NEW w \in [S -> Nat], NEW amount \in Nat,
           NEW W, W = SumFunctionOnSet(w, S), W # 0
    PROVE  /\ W \in Nat \ {0}
           /\ Apportion(amount, w) \in [S -> Nat]
           /\ SumFunctionOnSet(Apportion(amount, w), S) = amount
           /\ \A s \in S : /\ amount * w[s] - W <= W * Apportion(amount, w)[s]
                           /\ W * Apportion(amount, w)[s] <= amount * w[s] + W
<1> DEFINE floor == [s \in S |-> (amount * w[s]) \div W]
           rem   == [s \in S |-> (amount * w[s]) % W]
           left  == amount - SumFunctionOnSet(floor, S)
           Ahead == [s \in S |-> {t \in S : rem[t] > rem[s] \/ (rem[t] = rem[s] /\ t < s)}]
           extra == [s \in S |-> IF Cardinality(Ahead[s]) < left THEN 1 ELSE 0]
           parts == [s \in S |-> amount * w[s]]
           whole == [s \in S |-> W * floor[s]]
           share == [s \in S |-> floor[s] + extra[s]]
<1>1. W \in Nat \ {0}
  <2>1. \A s \in S : w[s] \in Nat
    OBVIOUS
  <2> QED
    BY <2>1, SumNat
<1>2. ASSUME NEW s \in S
      PROVE  /\ parts[s] \in Nat /\ floor[s] \in Nat /\ rem[s] \in 0..(W - 1)
             /\ parts[s] = whole[s] + rem[s] /\ whole[s] \in Nat
  <2>1. amount * w[s] \in Nat
    BY NatTimes
  <2>2. /\ (amount * w[s]) \div W \in Nat /\ (amount * w[s]) % W \in 0..(W - 1)
        /\ amount * w[s] = W * ((amount * w[s]) \div W) + ((amount * w[s]) % W)
    BY <1>1, <2>1, Quotients
  <2>3. W * ((amount * w[s]) \div W) \in Nat
    BY <1>1, <2>2, NatTimes
  <2> QED
    BY <2>1, <2>2, <2>3
<1>3. Apportion(amount, w) = share
  <2>1. DOMAIN w = S /\ DOMAIN floor = S
    OBVIOUS
  <2> QED
    BY <2>1 DEF Apportion, SumFunction
<1>4. \A s \in S : /\ w[s] \in Int /\ parts[s] = amount * w[s]
                   /\ floor[s] \in Int /\ whole[s] = W * floor[s]
  BY <1>2
<1>5. share[amount] = share[amount] /\ \A s \in S : share[s] = floor[s] + extra[s] /\ extra[s] \in {0, 1}
  OBVIOUS
<1>6. ASSUME NEW s \in S, NEW t \in S
      PROVE  t \in Ahead[s] <=> rem[t] > rem[s] \/ (rem[t] = rem[s] /\ t < s)
  OBVIOUS
<1>7. Ahead \in [S -> SUBSET S] /\ extra \in [S -> {0, 1}] /\ share \in [S -> Int]
  BY <1>2
<1>8. {s \in S : extra[s] = 1} = {s \in S : Cardinality(Ahead[s]) < left}
  OBVIOUS
<1> HIDE DEF floor, rem, Ahead, extra, parts, whole, share
<1> DEFINE F == SumFunctionOnSet(floor, S)
           R == SumFunctionOnSet(rem, S)
<1>9. F \in Int /\ R \in Nat /\ R <= W * Cardinality(S) /\ Cardinality(S) \in Nat
  <2>1. \A s \in S : rem[s] \in Nat /\ rem[s] \in Int /\ rem[s] <= W
    BY <1>1, <1>2
  <2> QED
    BY <1>1, <1>4, <2>1, SumInt, SumNat, SumAtMost, FS_CardinalityType
<1>10. amount * W = W * F + R
  <2>0. amount \in Int /\ W \in Int
    BY <1>1
  <2>1. SumFunctionOnSet(parts, S) = amount * W
    <3>1. \A s \in S : w[s] \in Int /\ parts[s] = amount * w[s]
      BY <1>4
    <3>2. SumFunctionOnSet(parts, S) = amount * SumFunctionOnSet(w, S)
      BY <2>0, <3>1, SumTimes, Zenon
    <3> QED
      BY <3>2
  <2>2. SumFunctionOnSet(whole, S) = W * F
    <3>1. \A s \in S : floor[s] \in Int /\ whole[s] = W * floor[s]
      BY <1>4
    <3> QED
      BY <2>0, <3>1, SumTimes, Zenon
  <2>3. SumFunctionOnSet(parts, S) = SumFunctionOnSet(whole, S) + R
    <3>1. \A s \in S : whole[s] \in Int /\ rem[s] \in Int /\ parts[s] = whole[s] + rem[s]
      BY <1>1, <1>2
    <3> QED
      BY <3>1, SumPlus
  <2> QED
    BY <2>1, <2>2, <2>3
<1>11. left \in 0..Cardinality(S)
  <2>1. left \in Int /\ W * left = R
    BY <1>1, <1>9, <1>10
  <2>2. W * 0 <= W * left /\ W * left <= W * Cardinality(S)
    BY <1>1, <1>9, <2>1
  <2> QED
    BY <1>1, <1>9, <2>1, <2>2, NatTimes
<1>12. Cardinality({s \in S : Cardinality(Ahead[s]) < left}) = left
  <2>1. \A s \in S : rem[s] \in Int /\ s \in Int
    BY <1>1, <1>2
  <2>2. ASSUME NEW s \in S PROVE s \notin Ahead[s]
    <3>1. rem[s] \in Int /\ s \in Int
      BY <2>1
    <3>2. ~(rem[s] > rem[s] \/ (rem[s] = rem[s] /\ s < s))
      BY <3>1
    <3> QED
      BY <1>6, <3>2
  <2>3. ASSUME NEW s \in S, NEW t \in S, s # t PROVE s \in Ahead[t] \/ t \in Ahead[s]
    <3>1. rem[s] \in Int /\ s \in Int /\ rem[t] \in Int /\ t \in Int
      BY <2>1
    <3>2. \/ rem[t] > rem[s] \/ (rem[t] = rem[s] /\ t < s)
          \/ rem[s] > rem[t] \/ (rem[s] = rem[t] /\ s < t)
      BY <2>3, <3>1
    <3> QED
      BY <1>6, <3>2
  <2>4. \A s, t \in S : t \in Ahead[s] => Ahead[t] \subseteq Ahead[s]
    <3> TAKE s, t \in S
    <3> HAVE t \in Ahead[s]
    <3>0. rem[t] > rem[s] \/ (rem[t] = rem[s] /\ t < s)
      BY <1>6
    <3>1. ASSUME NEW u \in Ahead[t] PROVE u \in Ahead[s]
      <4>1. u \in S
        BY <1>7
      <4>2. rem[u] > rem[t] \/ (rem[u] = rem[t] /\ u < t)
        BY <1>6, <4>1
      <4>3. /\ rem[s] \in Int /\ rem[t] \in Int /\ rem[u] \in Int
            /\ s \in Int /\ t \in Int /\ u \in Int
        BY <2>1, <4>1
      <4>4. rem[u] > rem[s] \/ (rem[u] = rem[s] /\ u < s)
        BY <3>0, <4>2, <4>3
      <4> QED
        BY <1>6, <4>1, <4>4
    <3> QED
      BY <3>1
  <2> HIDE DEF left
  <2> QED
    BY <1>7, <1>11, <2>2, <2>3, <2>4, FirstInLine
<1>13. SumFunctionOnSet(extra, S) = left
  <2>1. \A s \in S : extra[s] \in {0, 1}
    BY <1>7
  <2> QED
    <3>1. SumFunctionOnSet(extra, S) = Cardinality({s \in S : extra[s] = 1})
      BY <2>1, SumCounts, Zenon
    <3> QED
      BY <1>8, <1>12, <3>1, Zenon
<1>14. SumFunctionOnSet(share, S) = amount
  <2>1. \A s \in S : floor[s] \in Int /\ extra[s] \in Int /\ share[s] = floor[s] + extra[s]
    BY <1>4, <1>5
  <2>2. SumFunctionOnSet(share, S) = F + left
    <3>1. SumFunctionOnSet(share, S) = F + SumFunctionOnSet(extra, S)
      BY <2>1, SumPlus, Zenon
    <3> QED
      BY <1>13, <3>1
  <2> QED
    BY <1>9, <2>2
<1>15. ASSUME NEW s \in S
       PROVE  share[s] \in Nat /\ parts[s] - W <= W * share[s] /\ W * share[s] <= parts[s] + W
  <2>1. share[s] = floor[s] \/ share[s] = floor[s] + 1
    BY <1>2, <1>5
  <2>2. W * (floor[s] + 1) = whole[s] + W
    BY <1>1, <1>2, <1>4
  <2>3. W * share[s] = whole[s] \/ W * share[s] = whole[s] + W
    BY <1>4, <2>1, <2>2
  <2> QED
    BY <1>1, <1>2, <2>1, <2>3
<1>16. share \in [S -> Nat]
  BY <1>7, <1>15
<1> QED
  BY <1>1, <1>3, <1>4, <1>14, <1>15, <1>16

LEMMA Largest == ASSUME NEW n \in Nat, NEW T \in SUBSET (1..n), T # {} PROVE Max(T) \in T
<1> DEFINE Below_ == {n - x : x \in T}
<1>1. Below_ \in SUBSET Nat /\ Below_ # {}
  <2>1. \A x \in T : n - x \in Nat
    OBVIOUS
  <2>2. PICK x \in T : TRUE
    OBVIOUS
  <2>3. n - x \in Below_
    BY <2>2
  <2> QED
    BY <2>1, <2>3
<1>2. PICK m \in Below_ : \A k \in Below_ : m <= k
  BY <1>1, Least
<1>3. PICK x \in T : m = n - x
  OBVIOUS
<1>4. \A y \in T : x >= y
  <2> TAKE y \in T
  <2>1. m <= n - y
    BY <1>2
  <2> QED
    BY <1>3, <2>1
<1> QED
  BY <1>4 DEF Max

LEMMA OneIsLargest == ASSUME NEW i \in Nat PROVE Max({i}) = i
BY DEF Max

LEMMA LinesTyped ==
    ASSUME NEW c \in Carts
    PROVE  /\ Len(c.lines) \in Nat /\ DOMAIN c.lines = 1..Len(c.lines)
           /\ IsFiniteSet(DOMAIN c.lines) /\ c.home \in BOOLEAN /\ c.code \in BOOLEAN
           /\ \A i \in DOMAIN c.lines : /\ c.lines[i].sku \in Items /\ c.lines[i].sku \in Nat
                                        /\ c.lines[i].qty \in Nat \ {0}
<1>1. /\ c.lines \in Seq([sku : Items, qty : Nat \ {0}, parent : Items \cup {None}])
      /\ c.home \in BOOLEAN /\ c.code \in BOOLEAN /\ Items \subseteq Nat
  <2>1. Items \subseteq Nat
    BY QuoteAssumption, Zenon
  <2>2. \A b \in Carts :
         /\ b.home \in BOOLEAN /\ b.code \in BOOLEAN
         /\ b.lines \in Seq([sku : Items, qty : Nat \ {0}, parent : Items \cup {None}])
    BY QuoteAssumption, Zenon
  <2> QED
    BY <2>1, <2>2, Zenon
<1>2. Len(c.lines) \in Nat /\ DOMAIN c.lines = 1..Len(c.lines)
  BY <1>1
<1>3. IsFiniteSet(1..Len(c.lines))
  <2>1. 1 \in Int /\ Len(c.lines) \in Int
    BY <1>2
  <2> QED
    BY <2>1, FS_Interval, Zenon
<1>4. \A i \in DOMAIN c.lines : c.lines[i] \in [sku : Items, qty : Nat \ {0}, parent : Items \cup {None}]
  BY <1>1, ElementOfSeq, <1>2
<1> QED
  BY <1>1, <1>2, <1>3, <1>4

LEMMA PricesTyped ==
    ASSUME NEW s \in Shops, NEW k \in Items
    PROVE  s.price[k] \in Nat /\ s.price \in [Items -> Nat] /\ s.ship \in Nat
BY QuoteAssumption

LEMMA RatesTyped == ASSUME NEW k \in Items PROVE RateOf[k] \in Rates
<1>1. RateOf \in [Items -> Rates]
  BY QuoteAssumption, Zenon
<1> QED
  BY <1>1

(* What an add-on line asks for, at the price of the day.                   *)
AddonSum(c, price, k) ==
    SumFunction([i \in AddonsOf(c.lines, k) |-> c.lines[i].qty * price[c.lines[i].sku]])

(* The lines as the shop quotes them: one for each SKU that is no add-on.   *)
LEMMA LinesFold ==
    ASSUME NEW s \in Shops, NEW c \in Carts
    PROVE  /\ Parents(c.lines) \in SUBSET Items /\ Parents(c.lines) \in SUBSET Nat
           /\ IsFiniteSet(Parents(c.lines)) /\ DOMAIN Fold(c.lines, s.price) = Parents(c.lines)
           /\ \A k \in Parents(c.lines) :
                LET l == Fold(c.lines, s.price)[k]
                IN  /\ l.qty \in Nat /\ l.unit = s.price[k] /\ l.addons \in Nat /\ l.total \in Nat
                    /\ l.total = l.qty * l.unit + l.addons
                    /\ l.qty = c.lines[Max({i \in DOMAIN c.lines : c.lines[i].sku = k})].qty
                    /\ l.addons = AddonSum(c, s.price, k)
<1> DEFINE lines == c.lines
           heads == {j \in DOMAIN lines : lines[j].sku \notin Addons}
<1>1. /\ Len(lines) \in Nat /\ DOMAIN lines = 1..Len(lines) /\ IsFiniteSet(DOMAIN lines)
      /\ \A i \in DOMAIN lines : /\ lines[i].sku \in Items /\ lines[i].sku \in Nat
                                 /\ lines[i].qty \in Nat \ {0}
  BY LinesTyped
<1>2. Parents(lines) = {lines[i].sku : i \in heads}
  BY DEF Parents
<1>3. IsFiniteSet(heads)
  BY <1>1, FS_Subset
<1>4. IsFiniteSet(Parents(lines))
  <2>1. [i \in heads |-> lines[i].sku] \in Surjection(heads, Parents(lines))
    BY <1>2 DEF Surjection
  <2> QED
    BY <1>3, <2>1, FS_Surjection
<1>5. Parents(lines) \in SUBSET Items /\ Parents(lines) \in SUBSET Nat
  BY <1>1, <1>2
<1>6. DOMAIN Fold(lines, s.price) = Parents(lines)
  BY DEF Fold
<1>7. ASSUME NEW k \in Parents(lines)
      PROVE  LET l == Fold(lines, s.price)[k]
             IN  /\ l.qty \in Nat /\ l.unit = s.price[k] /\ l.addons \in Nat /\ l.total \in Nat
                 /\ l.total = l.qty * l.unit + l.addons
                 /\ l.qty = lines[Max({i \in DOMAIN lines : lines[i].sku = k})].qty
                 /\ l.addons = AddonSum(c, s.price, k)
  <2> DEFINE own == {i \in DOMAIN lines : lines[i].sku = k}
             on  == AddonsOf(lines, k)
             add == [i \in on |-> lines[i].qty * s.price[lines[i].sku]]
             l   == Fold(lines, s.price)[k]
  <2>1. own \in SUBSET (1..Len(lines)) /\ own # {}
    BY <1>1, <1>2
  <2>2. Max(own) \in own
    <3> HIDE DEF own
    <3> QED
      BY <1>1, <2>1, Largest
  <2>3. lines[Max(own)].qty \in Nat
    BY <1>1, <2>2
  <2>4. s.price[k] \in Nat
    BY <1>5, PricesTyped
  <2>5. IsFiniteSet(on) /\ \A i \in on : i \in DOMAIN lines
    BY <1>1, FS_Subset DEF AddonsOf
  <2>6. \A i \in on : add[i] \in Nat
    <3> TAKE i \in on
    <3>1. lines[i].qty \in Nat /\ s.price[lines[i].sku] \in Nat
      BY <1>1, <2>5, PricesTyped
    <3> QED
      BY <3>1, NatTimes
  <2>7. SumFunction(add) \in Nat
    <3>1. SumFunction(add) = SumFunctionOnSet(add, on)
      BY DEF SumFunction
    <3> HIDE DEF add, on
    <3> QED
      BY <2>5, <2>6, <3>1, SumNat
  <2>8. /\ l.qty = lines[Max(own)].qty /\ l.unit = s.price[k] /\ l.addons = SumFunction(add)
        /\ l.total = s.price[k] * lines[Max(own)].qty + SumFunction(add)
    BY DEF Fold
  <2>9. s.price[k] * lines[Max(own)].qty \in Nat
        /\ s.price[k] * lines[Max(own)].qty = lines[Max(own)].qty * s.price[k]
    <3> HIDE DEF own
    <3> QED
      BY <2>3, <2>4, NatTimes, IntTimes
  <2>10. SumFunction(add) = AddonSum(c, s.price, k)
    BY DEF AddonSum
  <2> HIDE DEF own, add, l
  <2>11. l.total = l.qty * l.unit + l.addons /\ l.total \in Nat
    BY <2>7, <2>8, <2>9
  <2> QED
    BY <2>3, <2>7, <2>8, <2>10, <2>11 DEF own, l
<1> QED
  BY <1>4, <1>5, <1>6, <1>7

(* The weights a discount and the shipping are shared by, and what each     *)
(* line comes to after them.                                                *)
Weights(s, c) == [k \in Parents(c.lines) |-> Fold(c.lines, s.price)[k].total]
Net(q) == [k \in DOMAIN q.lines |-> q.lines[k].total - q.off[k] + q.freight[k]]

LEMMA QuoteParts ==
    ASSUME NEW s, NEW c
    PROVE  LET q == Quote(s, c)
           IN  /\ q.lines = Fold(c.lines, s.price)
               /\ q.subtotal = SumFunctionOnSet(Weights(s, c), Parents(c.lines))
               /\ q.discount = Discount(s, c) /\ q.ship = s.ship /\ q.inclusive = s.inclusive
               /\ q.off = Apportion(q.discount, Weights(s, c))
               /\ q.freight = Apportion(q.ship, Weights(s, c))
               /\ q.lineTax = [k \in Parents(c.lines) |-> ExtractTax(Net(q)[k], RateOf[k])]
               /\ q.tax = TaxLines(q.lineTax, c.home)
               /\ q.total = q.subtotal + q.ship - q.discount
<1> DEFINE q == Quote(s, c)
           f == Fold(c.lines, s.price)
<1>1. DOMAIN f = Parents(c.lines)
  BY DEF Fold
<1>2. [k \in DOMAIN f |-> f[k].total] = Weights(s, c) /\ DOMAIN Weights(s, c) = Parents(c.lines)
  BY <1>1 DEF Weights
<1> HIDE DEF f
<1>3. /\ q.lines = f /\ q.subtotal = SumFunction(Weights(s, c))
      /\ q.discount = Discount(s, c) /\ q.ship = s.ship /\ q.inclusive = s.inclusive
      /\ q.off = Apportion(Discount(s, c), Weights(s, c))
      /\ q.freight = Apportion(s.ship, Weights(s, c))
  BY <1>2 DEF Quote, f
<1>4. q.total = q.subtotal + q.ship - q.discount
  BY DEF Quote, TotalOf
<1>5. q.tax = TaxLines(q.lineTax, c.home)
  BY DEF Quote
<1>6. q.lineTax = [k \in DOMAIN f |-> ExtractTax(Weights(s, c)[k] - q.off[k] + q.freight[k], RateOf[k])]
  BY <1>2, <1>3 DEF Quote, f
<1>7. \A k \in DOMAIN f : Net(q)[k] = Weights(s, c)[k] - q.off[k] + q.freight[k]
  BY <1>1, <1>3 DEF Net, Weights, f
<1>8. q.lineTax = [k \in Parents(c.lines) |-> ExtractTax(Net(q)[k], RateOf[k])]
  BY <1>1, <1>6, <1>7
<1> HIDE DEF q
<1>9. q.subtotal = SumFunctionOnSet(Weights(s, c), Parents(c.lines))
  BY <1>2, <1>3 DEF SumFunction
<1> QED
  BY <1>3, <1>4, <1>5, <1>8, <1>9 DEF f, q

(* What a code takes off is an amount. *)
LEMMA DiscountNat ==
    ASSUME NEW s \in Shops, NEW c \in Carts, Redeemable(s, c)
    PROVE  Discount(s, c) \in Nat
<1>1. CASE ~c.code
  BY <1>1 DEF Discount
<1>2. CASE c.code
  <2>1. s.code \in [percent : BOOLEAN, amount : Nat \ {0}]
    BY <1>2, QuoteAssumption DEF Redeemable
  <2>2. CASE ~s.code.percent
    BY <1>2, <2>1, <2>2 DEF Discount
  <2>3. CASE s.code.percent
    <3> DEFINE asked == {c.lines[i].sku : i \in DOMAIN c.lines}
               each  == SumFunctionOnSet(s.price, asked)
    <3>1. \A k \in asked : s.price[k] \in Nat
      BY LinesTyped, PricesTyped
    <3>2. IsFiniteSet(asked)
      <4>1. [i \in DOMAIN c.lines |-> c.lines[i].sku] \in Surjection(DOMAIN c.lines, asked)
        BY DEF Surjection
      <4> QED
        BY <4>1, LinesTyped, FS_Surjection
    <3> HIDE DEF asked
    <3>3. each \in Nat
      BY <3>1, <3>2, SumNat
    <3> HIDE DEF each
    <3>4. s.code.amount * each \in Nat
      BY <2>1, <3>3, NatTimes
    <3>5. (s.code.amount * each) \div 100 \in Nat
      <4>1. 100 \in Nat \ {0}
        OBVIOUS
      <4> QED
        BY <3>4, <4>1, Quotients
    <3> QED
      BY <1>2, <2>3, <3>5 DEF Discount, asked, each
  <2> QED
    BY <2>2, <2>3
<1> QED
  BY <1>1, <1>2

(* The two halves at home and the whole elsewhere are all of the tax.       *)
LEMMA TaxAddsUp ==
    ASSUME NEW S, IsFiniteSet(S), NEW tax, DOMAIN tax = S, \A k \in S : tax[k] \in Int, NEW home
    PROVE  LET t == TaxLines(tax, home)
           IN  /\ t.CGST \in Int /\ t.SGST \in Int /\ t.IGST \in Int
               /\ t.CGST + t.SGST + t.IGST = SumFunctionOnSet(tax, S)
<1> DEFINE here  == {k \in S : AtHome(k, home)}
           cgst  == [k \in here |-> Split(tax[k]).CGST]
           sgst  == [k \in here |-> Split(tax[k]).SGST]
           t     == TaxLines(tax, home)
<1>1. IsFiniteSet(here) /\ IsFiniteSet(S \ here) /\ here \cap (S \ here) = {} /\ here \cup (S \ here) = S
  BY FS_Subset
<1>2. \A k \in here : cgst[k] \in Int /\ sgst[k] \in Int /\ tax[k] \in Int /\ tax[k] = cgst[k] + sgst[k]
  BY DEF Split
<1>3. /\ t.CGST = SumFunctionOnSet(cgst, here) /\ t.SGST = SumFunctionOnSet(sgst, here)
      /\ t.IGST = SumFunctionOnSet(tax, S \ here)
  BY DEF TaxLines, SumFunction
<1> HIDE DEF here, cgst, sgst, t
<1>4. SumFunctionOnSet(tax, here) = SumFunctionOnSet(cgst, here) + SumFunctionOnSet(sgst, here)
  BY <1>1, <1>2, SumPlus
<1>5. SumFunctionOnSet(tax, S) = SumFunctionOnSet(tax, here) + SumFunctionOnSet(tax, S \ here)
  <2>1. \A k \in here \cup (S \ here) : tax[k] \in Int
    BY <1>1
  <2>2. SumFunctionOnSet(tax, here \cup (S \ here)) = SumFunctionOnSet(tax, here) + SumFunctionOnSet(tax, S \ here)
    BY <1>1, <2>1, SumUnion, Zenon
  <2> QED
    BY <1>1, <2>2
<1>6. /\ SumFunctionOnSet(cgst, here) \in Int /\ SumFunctionOnSet(sgst, here) \in Int
      /\ SumFunctionOnSet(tax, S \ here) \in Int
  BY <1>1, <1>2, SumInt
<1> QED
  BY <1>3, <1>4, <1>5, <1>6 DEF t

(* The tax inside an amount, at a rate of a third or less: nothing up to    *)
(* two paise, and above that it leaves two paise of the amount at least.    *)
LEMMA TaxInside ==
    ASSUME NEW x \in Int, NEW r \in Rates
    PROVE  /\ ExtractTax(x, r) \in Int
           /\ 3 * r < 10000 /\ x <= 2 => ExtractTax(x, r) <= 0
           /\ 3 * r < 10000 /\ x >= 3 => ExtractTax(x, r) <= x - 2
<1>0. r \in Nat /\ r <= 10000
  BY DEF Rates
<1>1. CASE r = 0
  BY <1>1 DEF ExtractTax
<1>2. CASE r # 0
  <2> DEFINE n == x * r * 2 + 10000 + r
             d == 2 * (10000 + r)
             q == n \div d
  <2>1. /\ d \in Nat \ {0} /\ d \in Nat /\ r \in Nat /\ r \in Int /\ x * r \in Int /\ r * x \in Int
        /\ x * r = r * x
    BY <1>0, IntTimes
  <2>2. n \in Int
    BY <2>1
  <2>3. ExtractTax(x, r) = q
    BY <1>2 DEF ExtractTax
  <2>4. q \in Int
    BY <2>1, <2>2, Division
  <2>5. ASSUME 3 * r < 10000, x <= 2 PROVE q <= 0
    <3>1. r * x <= r * 2
      BY <2>1, <2>5, Scales
    <3>2. n < d * (0 + 1)
      BY <1>0, <2>1, <2>5, <3>1
    <3>3. 0 \in Int
      OBVIOUS
    <3> HIDE DEF n, d, q
    <3> QED
      BY <2>1, <2>2, <3>2, <3>3, QuotientAtMost DEF q
  <2>6. ASSUME 3 * r < 10000, x >= 3 PROVE q <= x - 2
    <3>1. (10000 - r) * 3 <= (10000 - r) * x /\ 10000 - r \in Nat
      <4>1. 10000 - r \in Nat
        BY <1>0
      <4>2. 3 \in Int /\ 3 <= x
        BY <2>6
      <4> DEFINE e == 10000 - r
      <4> HIDE DEF e
      <4>3. e * 3 <= e * x
        BY <4>1, <4>2, Scales DEF e
      <4> QED
        BY <4>1, <4>3 DEF e
    <3>2. (10000 - r) * x = 10000 * x - r * x
      BY <2>1, IntTimes
    <3>3. d * ((x - 2) + 1) = 20000 * x - 20000 + 2 * (r * x) - 2 * r
      BY <2>1
    <3>4. n < d * ((x - 2) + 1)
      BY <2>1, <2>6, <3>1, <3>2, <3>3
    <3>5. x - 2 \in Int
      OBVIOUS
    <3> HIDE DEF n, d, q
    <3> QED
      BY <2>1, <2>2, <3>4, <3>5, QuotientAtMost DEF q
  <2> QED
    BY <2>3, <2>4, <2>5, <2>6
<1> QED
  BY <1>1, <1>2

(* A quote's shares, its taxes and their sums, whatever the rates.          *)
LEMMA QuoteShares ==
    ASSUME NEW s \in Shops, NEW c \in Carts, Redeemable(s, c),
           NEW q, q = Quote(s, c), NEW S, S = Parents(c.lines)
    PROVE  /\ q.subtotal \in Nat /\ q.discount \in Nat /\ q.ship \in Nat
           /\ q.off \in [S -> Nat] /\ q.freight \in [S -> Nat]
           /\ DOMAIN q.lineTax = S /\ DOMAIN q.lines = S
           /\ \A k \in S : /\ q.lineTax[k] \in Int /\ Net(q)[k] \in Int
                           /\ q.lines[k].total \in Nat
                           /\ Net(q)[k] = q.lines[k].total - q.off[k] + q.freight[k]
                           /\ q.lineTax[k] = ExtractTax(Net(q)[k], RateOf[k])
           /\ SumFunctionOnSet(Weights(s, c), S) = q.subtotal
           /\ \A k \in S : Weights(s, c)[k] = q.lines[k].total
           /\ q.tax.CGST \in Int /\ q.tax.SGST \in Int /\ q.tax.IGST \in Int
           /\ q.tax.CGST + q.tax.SGST + q.tax.IGST = SumFunction(q.lineTax)
           /\ q.subtotal # 0 =>
                /\ SumFunction(q.off) = q.discount /\ SumFunction(q.freight) = q.ship
                /\ \A k \in S :
                     /\ q.discount * Weights(s, c)[k] - q.subtotal <= q.subtotal * q.off[k]
                     /\ q.subtotal * q.freight[k] <= q.ship * Weights(s, c)[k] + q.subtotal
           /\ q.subtotal = 0 => \A k \in S : Net(q)[k] = 0
<1> DEFINE w == Weights(s, c)
<1>1. /\ S \in SUBSET Items /\ S \in SUBSET Nat /\ IsFiniteSet(S) /\ DOMAIN w = S
      /\ DOMAIN Fold(c.lines, s.price) = S
      /\ \A k \in S : w[k] = Fold(c.lines, s.price)[k].total /\ w[k] \in Nat
  BY LinesFold DEF Weights
<1>2. /\ q.lines = Fold(c.lines, s.price)
      /\ q.subtotal = SumFunctionOnSet(w, S)
      /\ q.discount = Discount(s, c) /\ q.ship = s.ship
      /\ q.off = Apportion(q.discount, w) /\ q.freight = Apportion(q.ship, w)
      /\ q.lineTax = [k \in S |-> ExtractTax(Net(q)[k], RateOf[k])]
      /\ q.tax = TaxLines(q.lineTax, c.home)
  BY QuoteParts
<1>3. q.discount \in Nat /\ q.ship \in Nat /\ q.subtotal \in Nat
  <2>1. q.discount \in Nat
    BY <1>2, DiscountNat
  <2>2. q.ship \in Nat
    BY <1>2, QuoteAssumption
  <2> HIDE DEF w
  <2>3. q.subtotal \in Nat
    BY <1>1, <1>2, SumNat
  <2> QED
    BY <2>1, <2>2, <2>3
<1> HIDE DEF w
<1>4. w \in [S -> Nat]
  <2>1. w = [k \in S |-> w[k]]
    BY DEF w, Weights
  <2> QED
    BY <1>1, <2>1
<1>5. ASSUME NEW amount \in Nat, q.subtotal # 0
      PROVE  /\ Apportion(amount, w) \in [S -> Nat]
             /\ SumFunctionOnSet(Apportion(amount, w), S) = amount
             /\ \A k \in S : /\ amount * w[k] - q.subtotal <= q.subtotal * Apportion(amount, w)[k]
                             /\ q.subtotal * Apportion(amount, w)[k] <= amount * w[k] + q.subtotal
  <2>1. q.subtotal = SumFunctionOnSet(w, S) /\ q.subtotal # 0
    BY <1>2, <1>5
  <2>2. S \in SUBSET Nat /\ IsFiniteSet(S)
    BY <1>1
  <2> DEFINE W == q.subtotal
  <2> HIDE DEF W
  <2>3. /\ Apportion(amount, w) \in [S -> Nat]
        /\ SumFunctionOnSet(Apportion(amount, w), S) = amount
        /\ \A k \in S : /\ amount * w[k] - W <= W * Apportion(amount, w)[k]
                        /\ W * Apportion(amount, w)[k] <= amount * w[k] + W
    <3>1. W = SumFunctionOnSet(w, S) /\ W # 0
      BY <2>1 DEF W
    <3> QED
      BY <1>4, <2>2, <3>1, ApportionExact, SMT
  <2> QED
    BY <2>3 DEF W
<1>6. ASSUME NEW amount \in Nat, q.subtotal = 0
      PROVE  Apportion(amount, w) = [k \in S |-> 0]
  <2>1. SumFunction(w) = 0
    BY <1>1, <1>2, <1>6 DEF SumFunction
  <2> QED
    BY <1>1, <2>1 DEF Apportion
<1>7. q.off \in [S -> Nat] /\ q.freight \in [S -> Nat]
  <2>1. CASE q.subtotal # 0
    BY <1>2, <1>3, <1>5, <2>1
  <2>2. CASE q.subtotal = 0
    <3>1. [k \in S |-> 0] \in [S -> Nat]
      OBVIOUS
    <3> QED
      BY <1>2, <1>3, <1>6, <2>2, <3>1
  <2> QED
    BY <2>1, <2>2
<1>8. ASSUME NEW k \in S
      PROVE  /\ Net(q)[k] = w[k] - q.off[k] + q.freight[k] /\ Net(q)[k] \in Int
             /\ q.lineTax[k] = ExtractTax(Net(q)[k], RateOf[k]) /\ q.lineTax[k] \in Int
             /\ q.lines[k].total = w[k] /\ w[k] \in Nat
  <2>1. w[k] = q.lines[k].total /\ w[k] \in Nat
    BY <1>1, <1>2
  <2>2. Net(q)[k] = w[k] - q.off[k] + q.freight[k]
    BY <1>1, <1>2, <2>1 DEF Net
  <2>3. q.off[k] \in Nat /\ q.freight[k] \in Nat
    BY <1>7
  <2>4. Net(q)[k] \in Int
    BY <2>1, <2>2, <2>3
  <2>5. q.lineTax[k] = ExtractTax(Net(q)[k], RateOf[k])
    BY <1>2
  <2>6. RateOf[k] \in Rates
    <3>1. k \in Items
      BY <1>1
    <3> QED
      BY <3>1, RatesTyped, Zenon
  <2>7. q.lineTax[k] \in Int
    <3> DEFINE x == Net(q)[k]
               r == RateOf[k]
    <3>1. x \in Int /\ r \in Rates
      BY <2>4, <2>6
    <3> HIDE DEF x, r
    <3>2. ExtractTax(x, r) \in Int
      BY <3>1, TaxInside
    <3> QED
      BY <2>5, <3>2 DEF x, r
  <2> QED
    BY <2>1, <2>2, <2>4, <2>5, <2>7
<1>9. DOMAIN q.lineTax = S /\ DOMAIN q.lines = S
  BY <1>1, <1>2
<1>10. /\ q.tax.CGST \in Int /\ q.tax.SGST \in Int /\ q.tax.IGST \in Int
       /\ q.tax.CGST + q.tax.SGST + q.tax.IGST = SumFunction(q.lineTax)
  <2>1. \A k \in S : q.lineTax[k] \in Int
    BY <1>8
  <2>2. SumFunction(q.lineTax) = SumFunctionOnSet(q.lineTax, S)
    BY <1>9 DEF SumFunction
  <2> QED
    BY <1>1, <1>2, <1>9, <2>1, <2>2, TaxAddsUp
<1>11. ASSUME q.subtotal # 0
       PROVE  /\ SumFunction(q.off) = q.discount /\ SumFunction(q.freight) = q.ship
              /\ \A k \in S : /\ q.discount * w[k] - q.subtotal <= q.subtotal * q.off[k]
                              /\ q.subtotal * q.freight[k] <= q.ship * w[k] + q.subtotal
  <2>1. DOMAIN q.off = S /\ DOMAIN q.freight = S
    BY <1>7
  <2>2. /\ SumFunctionOnSet(q.off, S) = q.discount
        /\ \A k \in S : q.discount * w[k] - q.subtotal <= q.subtotal * q.off[k]
    BY <1>2, <1>3, <1>5, <1>11
  <2>3. /\ SumFunctionOnSet(q.freight, S) = q.ship
        /\ \A k \in S : q.subtotal * q.freight[k] <= q.ship * w[k] + q.subtotal
    BY <1>2, <1>3, <1>5, <1>11
  <2> QED
    BY <2>1, <2>2, <2>3 DEF SumFunction
<1>12. ASSUME q.subtotal = 0, NEW k \in S PROVE Net(q)[k] = 0
  <2>1. q.off[k] = 0 /\ q.freight[k] = 0
    BY <1>2, <1>3, <1>6, <1>12
  <2>2. w[k] <= q.subtotal
    BY <1>1, <1>2, SumNat
  <2> QED
    BY <1>8, <1>12, <2>1, <2>2
<1> QED
  BY <1>2, <1>3, <1>7, <1>8, <1>9, <1>10, <1>11, <1>12 DEF w

(* No rate is a third or more: every GST rate in force is under it.         *)
ModestRates == \A k \in Items : 3 * RateOf[k] < 10000

(* The tax inside the prices is never more than the total it is inside.     *)
LEMMA TaxWithinTotal ==
    ASSUME ModestRates, NEW s \in Shops, NEW c \in Carts, Redeemable(s, c),
           NEW q, q = Quote(s, c), q.total \in Nat
    PROVE  q.tax.CGST + q.tax.SGST + q.tax.IGST <= q.total
<1> DEFINE S == Parents(c.lines)
           w == Weights(s, c)
           x == Net(q)
           W == q.subtotal
           T == SumFunctionOnSet(q.lineTax, S)
<1>1. /\ W \in Nat /\ q.discount \in Nat /\ q.ship \in Nat
      /\ q.off \in [S -> Nat] /\ q.freight \in [S -> Nat] /\ DOMAIN q.lineTax = S
      /\ \A k \in S : /\ q.lineTax[k] \in Int /\ x[k] \in Int /\ w[k] \in Nat
                      /\ x[k] = w[k] - q.off[k] + q.freight[k]
                      /\ q.lineTax[k] = ExtractTax(x[k], RateOf[k])
      /\ SumFunctionOnSet(w, S) = W
      /\ q.tax.CGST + q.tax.SGST + q.tax.IGST = SumFunction(q.lineTax)
      /\ W # 0 => \A k \in S : /\ q.discount * w[k] - W <= W * q.off[k]
                               /\ W * q.freight[k] <= q.ship * w[k] + W
      /\ W = 0 => \A k \in S : x[k] = 0
  BY QuoteShares
<1>2. q.total = W + q.ship - q.discount
  BY QuoteParts
<1>3. SumFunction(q.lineTax) = T
  BY <1>1 DEF SumFunction
<1>4. IsFiniteSet(S) /\ S \in SUBSET Items
  BY LinesFold
<1> HIDE DEF S, w, x, W, T
<1>5. ASSUME NEW k \in S
      PROVE  /\ x[k] <= 2 => q.lineTax[k] <= 0
             /\ x[k] >= 3 => q.lineTax[k] <= x[k] - 2
  <2> DEFINE y == x[k]
             r == RateOf[k]
  <2>0. k \in Items
    BY <1>4
  <2>1. y \in Int /\ r \in Rates /\ 3 * r < 10000
    BY <1>1, <2>0, RatesTyped DEF ModestRates
  <2> HIDE DEF y, r
  <2>2. /\ y <= 2 => ExtractTax(y, r) <= 0
        /\ y >= 3 => ExtractTax(y, r) <= y - 2
    BY <2>1, TaxInside
  <2>3. q.lineTax[k] = ExtractTax(y, r)
    BY <1>1 DEF y, r
  <2> QED
    BY <2>2, <2>3 DEF y
<1>6. T \in Int
  BY <1>1, <1>4, SumInt DEF T
<1>7. CASE W = 0
  <2>1. \A k \in S : q.lineTax[k] \in Int /\ q.lineTax[k] <= 0
    BY <1>1, <1>5, <1>7
  <2>2. T <= 0 * Cardinality(S)
    BY <1>4, <2>1, SumAtMost DEF T
  <2>3. Cardinality(S) \in Nat
    BY <1>4, FS_CardinalityType
  <2>4. T <= 0
    BY <1>6, <2>2, <2>3
  <2> QED
    BY <1>1, <1>3, <1>6, <2>4
<1>8. CASE W # 0
  <2>1. ASSUME NEW k \in S PROVE W * q.lineTax[k] <= q.total * w[k]
    <3> DEFINE t == q.lineTax[k]
               a == W * q.off[k]
               b == W * q.freight[k]
               d == q.discount * w[k]
               f == q.ship * w[k]
               p == W * w[k]
    <3>0. q.off[k] \in Nat /\ q.freight[k] \in Nat
      BY <1>1
    <3>1. /\ a \in Nat /\ b \in Nat /\ d \in Nat /\ f \in Nat /\ p \in Nat /\ t \in Int
          /\ q.total * w[k] \in Nat /\ W \in Nat /\ w[k] \in Nat /\ x[k] \in Int
      BY <1>1, <3>0, NatTimes
    <3>2. d - W <= a /\ b <= f + W
      BY <1>1, <1>8
    <3>3. q.total * w[k] = p + f - d
      BY <1>1, <1>2
    <3>4. CASE x[k] <= 2
      <4>1. W * t <= W * 0
        BY <1>5, <3>1, <3>4, Scales
      <4> QED
        BY <3>1, <4>1
    <3>5. CASE x[k] >= 3
      <4>1. x[k] - 2 \in Int /\ t <= x[k] - 2
        BY <1>5, <3>1, <3>5
      <4>2. W * t <= W * (x[k] - 2)
        BY <3>1, <4>1, Scales
      <4>3. W * (x[k] - 2) = p - a + b - 2 * W
        BY <1>1, <3>0
      <4>4. W * t \in Int
        BY <3>1, IntTimes
      <4> HIDE DEF t, a, b, d, f, p
      <4>5. W * t <= p + f - d
        BY <3>1, <3>2, <4>2, <4>3, <4>4
      <4> QED
        BY <3>3, <4>5 DEF t
    <3> QED
      BY <3>1, <3>4, <3>5
  <2> DEFINE g == [k \in S |-> W * q.lineTax[k]]
             h == [k \in S |-> q.total * w[k]]
  <2>2. \A k \in S : /\ q.lineTax[k] \in Int /\ g[k] = W * q.lineTax[k] /\ g[k] \in Int
                     /\ w[k] \in Int /\ h[k] = q.total * w[k] /\ h[k] \in Int /\ g[k] <= h[k]
    BY <1>1, <2>1, IntTimes
  <2>3. W \in Int /\ q.total \in Int
    BY <1>1
  <2> HIDE DEF g, h
  <2>4. SumFunctionOnSet(g, S) = W * T
    BY <1>4, <2>2, <2>3, SumTimes DEF T
  <2>5. SumFunctionOnSet(h, S) = q.total * W
    BY <1>1, <1>4, <2>2, <2>3, SumTimes
  <2>6. SumFunctionOnSet(g, S) <= SumFunctionOnSet(h, S)
    BY <1>4, <2>2, SumLess
  <2>7. W * T <= W * q.total
    BY <2>3, <2>4, <2>5, <2>6, IntTimes
  <2>8. W \in Nat \ {0}
    BY <1>1, <1>8
  <2>9. T <= q.total
    BY <1>6, <2>3, <2>7, <2>8, Cancels
  <2> QED
    BY <1>1, <1>3, <2>9
<1> QED
  BY <1>7, <1>8

NoSkuTwice(c) ==
    \A i, j \in DOMAIN c.lines :
        c.lines[i].sku = c.lines[j].sku /\ c.lines[i].sku \notin Addons => i = j

(* Every line is in one quoted line: the one of its SKU, or of the SKU it   *)
(* is an add-on to.  So the quote adds up what was asked for.               *)
LEMMA CoversCart ==
    ASSUME NEW s \in Shops, NEW c \in Carts, Foldable(c.lines), NoSkuTwice(c)
    PROVE  Quote(s, c).subtotal =
             SumFunction([i \in DOMAIN c.lines |-> c.lines[i].qty * s.price[c.lines[i].sku]])
<1> DEFINE lines == c.lines
           D == DOMAIN lines
           P == Parents(lines)
           w == Weights(s, c)
           f == [i \in D |-> lines[i].qty * s.price[lines[i].sku]]
           h == [i \in D |-> IF lines[i].sku \in Addons THEN lines[i].parent ELSE lines[i].sku]
<1>1. IsFiniteSet(D) /\ \A i \in D : lines[i].sku \in Items /\ lines[i].qty \in Nat
  BY LinesTyped
<1>2. \A i \in D : f[i] \in Nat /\ f[i] \in Int
  <2> TAKE i \in D
  <2>1. lines[i].qty \in Nat /\ s.price[lines[i].sku] \in Nat
    BY <1>1, PricesTyped
  <2> QED
    BY <2>1, NatTimes
<1>3. IsFiniteSet(P)
  BY LinesFold
<1>4. \A i \in D : h[i] \in P
  BY DEF Foldable, Parents
<1>5. ASSUME NEW k \in P
      PROVE  w[k] = SumFunctionOnSet(f, Fibre(h, D, k))
  <2> DEFINE on  == AddonsOf(lines, k)
             own == {i \in D : lines[i].sku = k}
             add == [i \in on |-> lines[i].qty * s.price[lines[i].sku]]
  <2>1. PICK i0 \in D : lines[i0].sku = k /\ lines[i0].sku \notin Addons
    BY DEF Parents
  <2>2. own = {i0}
    BY <2>1 DEF NoSkuTwice
  <2>3. Max(own) = i0
    <3>1. i0 \in Nat
      BY LinesTyped
    <3> QED
      BY <2>2, <3>1, OneIsLargest
  <2>4. on \subseteq D /\ IsFiniteSet(on) /\ i0 \notin on
    <3>1. on \subseteq D /\ i0 \notin on
      BY <2>1 DEF AddonsOf
    <3> QED
      BY <1>1, <3>1, FS_Subset
  <2>5. Fibre(h, D, k) = on \cup {i0}
    BY <2>1 DEF AddonsOf, NoSkuTwice, Fibre
  <2>6. SumFunction(add) = SumFunctionOnSet(f, on)
    <3>1. SumFunction(add) = SumFunctionOnSet(add, on)
      BY DEF SumFunction
    <3>2. \A i \in on : add[i] = f[i] /\ add[i] \in Int
      BY <1>2, <2>4
    <3> HIDE DEF add, f, on
    <3> QED
      BY <2>4, <3>1, <3>2, SumSame
  <2>7. w[k] = f[i0] + SumFunction(add)
    <3>1. /\ w[k] = Fold(lines, s.price)[k].total
          /\ Fold(lines, s.price)[k].total =
               Fold(lines, s.price)[k].qty * Fold(lines, s.price)[k].unit + Fold(lines, s.price)[k].addons
          /\ Fold(lines, s.price)[k].qty = lines[Max(own)].qty /\ Fold(lines, s.price)[k].unit = s.price[k]
          /\ Fold(lines, s.price)[k].addons = SumFunction(add)
      BY LinesFold DEF Weights, AddonSum
    <3>2. f[i0] = lines[i0].qty * s.price[k]
      BY <2>1
    <3> QED
      BY <2>3, <3>1, <3>2
  <2>8. SumFunctionOnSet(f, on \cup {i0}) = f[i0] + SumFunctionOnSet(f, on)
    <3>1. \A i \in on \cup {i0} : f[i] \in Int
      BY <1>2, <2>4
    <3> HIDE DEF f, on
    <3> QED
      BY <2>4, <3>1, SumMore
  <2> QED
    BY <2>5, <2>6, <2>7, <2>8
<1>6. SumFunctionOnSet(w, P) = SumFunctionOnSet(f, D)
  <2> HIDE DEF w, f, h, P, D
  <2>1. IsFiniteSet(D) /\ \A i \in D : f[i] \in Int
    BY <1>1, <1>2
  <2>2. \A k \in P : w[k] = SumFunctionOnSet(f, Fibre(h, D, k))
    BY <1>5
  <2> QED
    BY <1>3, <1>4, <2>1, <2>2, SumByHead
<1>7. Quote(s, c).subtotal = SumFunctionOnSet(w, P)
  BY QuoteParts
<1>8. SumFunction(f) = SumFunctionOnSet(f, D)
  BY DEF SumFunction
<1> QED
  BY <1>6, <1>7, <1>8

(* Check 10 finds nothing in a quote of the shop the tap read.              *)
LEMMA HonestIsConsistent ==
    ASSUME ModestRates, NEW s \in Shops, NEW c \in Carts, Quotable(s, c), facts.price = s.price
    PROVE  Consistent(Quote(s, c))
<1> DEFINE q == Quote(s, c)
           S == Parents(c.lines)
           w == Weights(s, c)
<1>1. Redeemable(s, c) /\ q.total \in Nat
  BY DEF Quotable, Parses
<1>2. DOMAIN q.lines = S /\ q.lines = Fold(c.lines, s.price) /\ S = DOMAIN w
      /\ q.total = q.subtotal + q.ship - q.discount
      /\ q.subtotal = SumFunctionOnSet(w, S)
  <2>1. /\ q.lines = Fold(c.lines, s.price) /\ q.total = q.subtotal + q.ship - q.discount
        /\ q.subtotal = SumFunctionOnSet(w, S)
    BY QuoteParts
  <2>2. DOMAIN Fold(c.lines, s.price) = S
    BY LinesFold
  <2>3. DOMAIN w = S
    BY DEF Weights
  <2> QED
    BY <2>1, <2>2, <2>3
<1>3. SumFunction([k \in DOMAIN q.lines |-> q.lines[k].total]) = q.subtotal
  <2>1. [k \in DOMAIN q.lines |-> q.lines[k].total] = w
    BY <1>2 DEF Weights
  <2> QED
    BY <1>2, <2>1 DEF SumFunction
<1>4. ASSUME NEW k \in DOMAIN q.lines
      PROVE  /\ q.lines[k].qty * q.lines[k].unit + q.lines[k].addons = q.lines[k].total
             /\ facts.price[k] = q.lines[k].unit
  <2>1. /\ Fold(c.lines, s.price)[k].unit = s.price[k]
        /\ Fold(c.lines, s.price)[k].total =
             Fold(c.lines, s.price)[k].qty * Fold(c.lines, s.price)[k].unit
               + Fold(c.lines, s.price)[k].addons
    BY <1>2, LinesFold
  <2> QED
    BY <1>2, <2>1
<1>5. q.tax.CGST + q.tax.SGST + q.tax.IGST <= q.total
  <2> HIDE DEF q
  <2>1. q = Quote(s, c)
    BY DEF q
  <2> QED
    BY <1>1, <2>1, TaxWithinTotal
<1>6. q.subtotal + q.ship - q.discount = q.total
  BY <1>2
<1> HIDE DEF q
<1>7. Consistent(q)
  BY <1>3, <1>4, <1>5, <1>6 DEF Consistent
<1> QED
  BY <1>7 DEF q

-----------------------------------------------------------------------------
(* The quote, from the page to the Gate. *)

(* What is pinned is what some shop of the Merchant's quoted.               *)
PinnedInv == pinned # None => \E s \in Shops : Quotable(s, cart) /\ pinned = Quote(s, cart)

(* While nothing has been edited, it is what the shop still quotes, the     *)
(* Authority is over its prices, and so is what the tap read.               *)
StillInv ==
    edits = 0 =>
      /\ at \in {"attest", "shown", "facts", "gate"} =>
           Quotable(shop, cart) /\ pinned = Quote(shop, cart)
      /\ at \in {"start", "attest", "shown", "facts", "gate"} => checks = <<>>
      /\ at \in {"shown", "facts", "gate"} => bound = CartHash(cart, pinned, shop.price)
      /\ at = "gate" => facts = FactsOf(shop)

LEMMA InitPinned == Init => PinnedInv /\ StillInv
BY DEF Init, PinnedInv, StillInv

LEMMA PinnedKept ==
    ASSUME PinnedInv, StillInv, TypeOK, [Next]_vars
    PROVE  PinnedInv' /\ StillInv'
<1> USE DEF PinnedInv, StillInv
<1>1. CASE StartQuote
  BY <1>1 DEF StartQuote, merchant, tap, TypeOK
<1>2. CASE StartAttest
  BY <1>2 DEF StartAttest, merchant, tap
<1>3. CASE \E k \in Kinds : Tap(k)
  BY <1>3 DEF Tap, merchant, checkout
<1>4. CASE TapFacts
  BY <1>4 DEF TapFacts, merchant, checkout
<1>5. CASE Decide
  BY <1>5 DEF Decide, merchant, checkout
<1>6. CASE Collect
  BY <1>6 DEF Collect, merchant, checkout, tap
<1>7. CASE \E d \in {0, 1}, ok \in BOOLEAN : Settle(pinned.total + d, ok)
  BY <1>7 DEF Settle, merchant, checkout
<1>8. CASE \E s \in Shops : ShopEdit(s)
  <2>1. edits' # 0 /\ UNCHANGED checkout
    BY <1>8 DEF ShopEdit, TypeOK
  <2> QED
    BY <2>1 DEF checkout
<1>9. CASE \E p \in Policies : PolicyEdit(p)
  <2>1. edits' # 0 /\ UNCHANGED checkout
    BY <1>9 DEF PolicyEdit, TypeOK
  <2> QED
    BY <2>1 DEF checkout
<1>10. CASE UNCHANGED vars
  BY <1>10 DEF vars, merchant, checkout, tap
<1> QED
  BY <1>1, <1>2, <1>3, <1>4, <1>5, <1>6, <1>7, <1>8, <1>9, <1>10 DEF Next

LEMMA PinnedInvariant == Spec => [](PinnedInv /\ StillInv)
<1>1. TypeOK /\ PinnedInv /\ StillInv /\ [Next]_vars => (PinnedInv /\ StillInv)'
  BY PinnedKept
<1> QED
  BY <1>1, InitPinned, GateTypeCorrect, PTL DEF Spec

(* Whatever the rates, the prices and the basket, a quote adds up: its      *)
(* shares to what was split, its taxes to the tax, and its lines to what    *)
(* was asked for (pricing.ts apportion, splitCgstSgst, buildQuote).         *)
THEOREM QuotesAddUp == Spec => []QuoteAddsUp
<1>1. TypeOK /\ PinnedInv => SharesAddUp
  <2> SUFFICES ASSUME TypeOK, PinnedInv, pinned # None, pinned.subtotal > 0
               PROVE  /\ SumFunction(pinned.off) = pinned.discount
                      /\ SumFunction(pinned.freight) = pinned.ship
                      /\ pinned.tax.CGST + pinned.tax.SGST + pinned.tax.IGST = SumFunction(pinned.lineTax)
    BY DEF SharesAddUp
  <2>1. PICK s \in Shops : Quotable(s, cart) /\ pinned = Quote(s, cart)
    BY DEF PinnedInv
  <2>2. Redeemable(s, cart) /\ cart \in Carts
    BY <2>1 DEF Quotable, TypeOK
  <2> QED
    BY <2>1, <2>2, QuoteShares
<1>2. TypeOK /\ StillInv => QuoteCoversCart
  <2> SUFFICES ASSUME TypeOK, StillInv, at = "attest", edits = 0, NoSkuTwice(cart)
               PROVE  pinned.subtotal =
                        SumFunction([i \in DOMAIN cart.lines |->
                                       cart.lines[i].qty * shop.price[cart.lines[i].sku]])
    BY DEF QuoteCoversCart, NoSkuTwice
  <2>1. pinned = Quote(shop, cart) /\ Foldable(cart.lines) /\ shop \in Shops /\ cart \in Carts
    BY DEF StillInv, Quotable, TypeOK
  <2> QED
    BY <2>1, CoversCart
<1> QED
  BY <1>1, <1>2, PinnedInvariant, GateTypeCorrect, PTL DEF QuoteAddsUp

(* The codes that are for a quote that did move.                            *)
Stale == {"quote-inconsistent", "price-changed", "authority-stale"}
EndsWell == checks # <<>> => checks[Len(checks)] \notin Stale

LEMMA RecordEnds ==
    ASSUME NEW S, NEW o \in Seq(S), Len(o) = 12
    PROVE  \E i \in 1..12 : Record(o)[Len(Record(o))] = o[i]
<1> DEFINE bad == {i \in DOMAIN o : o[i] \notin Clean}
<1>0. DOMAIN o = 1..12
  OBVIOUS
<1>1. CASE bad = {}
  <2>1. Record(o) = o
    BY <1>1 DEF Record
  <2>2. Record(o)[Len(Record(o))] = o[12]
    <3>1. Record(o)[Len(Record(o))] = o[Len(o)]
      BY <2>1, Zenon
    <3> QED
      BY <3>1
  <2> QED
    BY <2>2
<1>2. CASE bad # {}
  <2>1. Min(bad) \in 1..12
    BY <1>0, <1>2, LeastOfTwelve
  <2>2. Record(o) = SubSeq(o, 1, Min(bad))
    BY <1>2 DEF Record
  <2> HIDE DEF bad
  <2>3. Len(SubSeq(o, 1, Min(bad))) = Min(bad) /\ SubSeq(o, 1, Min(bad))[Min(bad)] = o[Min(bad)]
    BY <2>1
  <2> QED
    BY <2>1, <2>2, <2>3
<1> QED
  BY <1>1, <1>2

(* Where nothing moved, none of the twelve says that something did.         *)
LEMMA HonestOutcomes ==
    ASSUME ModestRates, TypeOK, StillInv, edits = 0, at = "gate", NEW i \in 1..12
    PROVE  Outcomes(Quote(shop, cart))[i] \notin Stale
<1> DEFINE q == Quote(shop, cart)
           o == Outcomes(q)
<1>1. /\ Quotable(shop, cart) /\ pinned = q /\ facts = FactsOf(shop)
      /\ bound = CartHash(cart, pinned, shop.price) /\ shop \in Shops /\ cart \in Carts
  BY DEF StillInv, TypeOK
<1>2. facts.price = shop.price
  BY <1>1 DEF FactsOf
<1>3. Consistent(q)
  BY <1>1, <1>2, HonestIsConsistent
<1> HIDE DEF q
<1>4. Verdict(Consistent(pinned), "quote-inconsistent") = "pass" /\ Verdict(IsFresh(q), "price-changed") = "pass"
  BY <1>1, <1>3 DEF Verdict, IsFresh
<1>5. AuthorityCheck \notin Stale
  BY <1>1, <1>2 DEF AuthorityCheck, Stale
<1>6. \A b : /\ Verdict(b, "window-closed") \notin Stale /\ Verdict(b, "count-exceeded") \notin Stale
             /\ Verdict(b, "qty-exceeded") \notin Stale /\ Verdict(b, "blocked-item") \notin Stale
             /\ Verdict(b, "cap-exceeded") \notin Stale /\ Verdict(b, "method-not-supported") \notin Stale
  BY DEF Verdict, Stale
<1>7. "pass" \notin Stale
  BY DEF Stale
<1>8. o[i] \notin Stale
  <2>1. /\ o[1] = AuthorityCheck /\ o[2] = "pass" /\ o[3] = "pass" /\ o[8] = "pass"
        /\ o[4] = Verdict(held.window, "window-closed")
        /\ o[10] = Verdict(Consistent(pinned), "quote-inconsistent")
        /\ o[11] = Verdict(IsFresh(q), "price-changed")
        /\ \E b : o[5] = Verdict(b, "count-exceeded")
        /\ \E b : o[6] = Verdict(b, "qty-exceeded")
        /\ \E b : o[7] = Verdict(b, "blocked-item")
        /\ \E b : o[9] = Verdict(b, "cap-exceeded")
        /\ \E b : o[12] = Verdict(b, "method-not-supported")
    BY DEF Outcomes
  <2>2. i = 1 \/ i = 2 \/ i = 3 \/ i = 4 \/ i = 5 \/ i = 6 \/ i = 7 \/ i = 8 \/ i = 9 \/ i = 10
        \/ i = 11 \/ i = 12
    OBVIOUS
  <2> HIDE DEF o
  <2> QED
    BY <1>4, <1>5, <1>6, <1>7, <2>1, <2>2
<1> QED
  BY <1>8 DEF q

LEMMA HonestKept ==
    ASSUME ModestRates, TypeOK, StillInv, QuoteInv', (edits = 0 => EndsWell), [Next]_vars
    PROVE  (edits = 0 => EndsWell)'
<1> SUFFICES ASSUME edits' = 0 PROVE EndsWell'
  OBVIOUS
<1>1. CASE at' \in After
  <2>1. Len(checks') = 12 /\ checks'[12] \in Clean
    BY <1>1 DEF QuoteInv, DecisionStands
  <2> QED
    BY <2>1 DEF EndsWell, Stale, Clean
<1>2. CASE UNCHANGED checks /\ edits = 0
  BY <1>2 DEF EndsWell
<1>3. CASE Decide /\ at' \notin After
  <2>1. edits = 0 /\ at = "gate"
    BY <1>3 DEF Decide, merchant
  <2>2. CASE UNCHANGED checks
    BY <2>1, <2>2 DEF EndsWell
  <2>3. CASE checks' = Record(Outcomes(Quote(shop, cart)))
    <3> DEFINE o == Outcomes(Quote(shop, cart))
    <3>1. o \in Seq(Codes) /\ Len(o) = 12
      BY OutcomesAreNamed
    <3>2. \A i \in 1..12 : o[i] \notin Stale
      BY <2>1, HonestOutcomes
    <3> HIDE DEF o
    <3>3. PICK i \in 1..12 : Record(o)[Len(Record(o))] = o[i]
      BY <3>1, RecordEnds
    <3> QED
      BY <2>3, <3>2, <3>3 DEF EndsWell, o
  <2> QED
    BY <1>3, <2>2, <2>3 DEF Decide
<1>4. ASSUME ~Decide, at' \notin After PROVE UNCHANGED checks /\ edits = 0
  BY <1>4 DEF Next, vars, StartQuote, StartAttest, Tap, TapFacts, Collect, Settle, ShopEdit, PolicyEdit,
              merchant, checkout, tap, After, TypeOK
<1> QED
  BY <1>1, <1>2, <1>3, <1>4

(* The Gate's second opinion: where nothing was edited it never finds the   *)
(* shop's arithmetic wrong, the quote stale or the Authority stale          *)
(* (decide.py, checks 1, 10 and 11), if the rates are modest.  At a rate of *)
(* the whole price it would: three lines of 1, 3 and 3 paise, freight 4 and *)
(* 10 off make lines of -1, 1 and 1, with 2 paise of tax in a total of 1.   *)
THEOREM QuotesAreSound ==
    ASSUME ModestRates
    PROVE  Spec => []QuoteIsSound
<1>1. Init => (edits = 0 => EndsWell)
  BY DEF Init, EndsWell
<1>2. TypeOK /\ StillInv /\ QuoteInv' /\ (edits = 0 => EndsWell) /\ [Next]_vars
        => (edits = 0 => EndsWell)'
  BY HonestKept
<1>3. (edits = 0 => EndsWell) => HonestQuotePasses
  BY DEF EndsWell, HonestQuotePasses, Stale
<1> QED
  BY <1>1, <1>2, <1>3, QuotesAddUp, PinnedInvariant, QuoteInvariant, GateTypeCorrect, PTL
     DEF Spec, QuoteIsSound
=============================================================================

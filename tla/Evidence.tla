------------------------------ MODULE Evidence ------------------------------
(***************************************************************************)
(* The sealed receipt of a checkout: its five sections, their chain and     *)
(* their signature (evidence/bundle.py, checkout.py _seal), the Merchant's  *)
(* keys in the process, in the keyfile and in a backup (evidence/keys.py,   *)
(* cli.py, app.py's boot), the table the receipt lives in (store.py), and   *)
(* what a verifier says of a document (verify/checks.py).                   *)
(*                                                                         *)
(* A hash is the thing it is taken over, and a signature the key with it.   *)
(* A key's material is a number: two keys may share a kid, not a number.    *)
(***************************************************************************)
EXTENDS QuoteGate

CONSTANTS Kids,
          FirstKid,  \* "k1"
          Followed,  \* bound: baskets, with a shop and a Policy, whose receipt is followed
          KeyActs,   \* bound: acts on the keys and edits of the Merchant, together
          MaxTime,   \* bound: the clock
          MaxSeals   \* bound: seals of one order

ASSUME EvidenceAssumption ==
    /\ FirstKid \in Kids /\ None \notin Kids \cup Nat \cup BOOLEAN
    /\ Followed \subseteq Carts \X Shops \X Policies
    /\ KeyActs \in Nat /\ MaxTime \in Nat /\ MaxSeals \in Nat

VARIABLES ring,    \* the process's Keyring, or None while the boot refuses
          file,    \* the keyfile: a Keyring and whether it opens, or None
          backup,  \* the export
          made,    \* keys generated so far
          acts, now,
          sealing, \* where _seal is
          seals,
          draft,   \* the bundle it has signed
          receipt, \* the row of the receipts table
          issued   \* history: every document the table has held

keysVars == <<ring, file, backup, made, acts, now>>
sealVars == <<sealing, seals, draft, receipt, issued>>
evidence == <<keysVars, sealVars>>
allvars  == <<vars, evidence>>

-----------------------------------------------------------------------------
(* The keyring. *)

NoKeys == [keys |-> <<>>, current |-> None]

Enrolled(r, kid, m) ==
    [keys |-> [k \in DOMAIN r.keys \cup {kid} |->
                 IF k = kid THEN [material |-> m, revoked |-> None] ELSE r.keys[k]],
     current |-> kid]

LiveKids(r) == {k \in DOMAIN r.keys : r.keys[k].revoked = None}

\* mutant: the key that seals is left as it is
RevokedInPlace(r, kid, at_) == {[r EXCEPT !.keys[kid].revoked = at_]}

(* The current key, when it goes, is followed by the last of the live ones  *)
(* in the dict, whose order a restart changes; the last live one to go      *)
(* leaves none.                                                             *)
Revoked(r, kid, at_) ==
    LET marked == [r EXCEPT !.keys[kid].revoked = at_]
        heirs  == IF r.current # kid THEN {r.current}
                  ELSE IF LiveKids(marked) = {} THEN {None} ELSE LiveKids(marked)
    IN  {[marked EXCEPT !.current = k] : k \in heirs}

(* Every key, revoked ones included, with its dates. *)
Jwks(r) == r.keys

Sign(r, payload) == [material |-> r.keys[r.current].material, over |-> payload]
SignatureFits(jwk, payload, signature) ==
    signature.material = jwk.material /\ signature.over = payload

-----------------------------------------------------------------------------
(* The bundle. *)

SECTION_ORDER == <<"bought", "tapped", "decided", "told", "moved">>

Chain(previous, name, payload) == <<previous, name, payload>>

Attestation(sku, price) == <<sku, price[sku]>>

(* The salt is the order's, and door 7 tells it again.                      *)
Commit(salt, value) == <<salt, value>>

(* The quote that was decided on; the catalogue's prices as they are now.   *)
Bought(price) ==
    [quote |-> pinned, lines |-> cart.lines,
     attestations |-> {Attestation(cart.lines[i].sku, price) : i \in DOMAIN cart.lines},
     destination  |-> Commit("salt", cart.home)]

(* What the kind binds, and who attests it: declared by the kind.           *)
BindingFor(k) ==
    CASE k = "upi-pin"    -> [what |-> "amount", by |-> "payer-bank"]
      [] k = "intent-upi" -> [what |-> "none",   by |-> "payer-bank"]
      [] k \in BindsCart  -> [what |-> "cart",   by |-> "payer-device"]

Tapped  == [kind |-> kind, binding |-> BindingFor(kind), cartHash |-> bound]
Decided == checks
Told    == <<>>

\* mutant: the Ledger is read before the settlement writes
MovedUncaptured == [entries |-> <<>>, asserted |-> MethodOf(kind) = "cod"]

(* The Ledger's rows when the money has moved; none on a cash order, which  *)
(* is sealed when it is confirmed.                                          *)
Moved ==
    LET cash == MethodOf(kind) = "cod"
    IN  [entries  |-> IF cash THEN <<>> ELSE <<<<"RESERVE", pinned.total>>, <<"CAPTURE", captured>> >>,
         asserted |-> cash]

(* Sections are added in order, each link over the one before.              *)
Sections(p) ==
    LET link1 == Chain(<<>>, SECTION_ORDER[1], p[1])   link2 == Chain(link1, SECTION_ORDER[2], p[2])
        link3 == Chain(link2, SECTION_ORDER[3], p[3])  link4 == Chain(link3, SECTION_ORDER[4], p[4])
        links == <<link1, link2, link3, link4, Chain(link4, SECTION_ORDER[5], p[5])>>
    IN  [i \in 1..5 |-> [name |-> SECTION_ORDER[i], payload |-> p[i], link |-> links[i]]]

\* mutant: the key list is not under the signature
PayloadWithoutKeys(d) == <<d.version, d.sealed, d.sections, d.kid>>

(* Everything but the signature.                                            *)
SigningPayload(d) == <<d.version, d.sealed, d.sections, d.jwks, d.kid>>

(* Built and signed with no await between: the keys listed are the keys     *)
(* that sign.                                                               *)
Bundle(price) ==
    LET body == [version |-> 1, sealed |-> now, jwks |-> Jwks(ring), kid |-> ring.current,
                 sections |-> Sections(<<Bought(price), Tapped, Decided, Told, Moved>>),
                 signature |-> None]
    IN  [body EXCEPT !.signature = Sign(ring, SigningPayload(body))]

-----------------------------------------------------------------------------
(* The verifier. *)

LinkBroken(d, i) ==
    d.sections[i].link # Chain(IF i = 1 THEN <<>> ELSE d.sections[i - 1].link,
                               d.sections[i].name, d.sections[i].payload)

Listed(d) == d.kid \in DOMAIN d.jwks

(* Revoked before the receipt was sealed. *)
TooLate(jwk, sealed) == jwk.revoked # None /\ jwk.revoked <= sealed

(* The order of the sections, the chain, the key, its signature, its dates, *)
(* and the commitment where the order's stored row is at hand.              *)
Verify(d, row) ==
    IF \/ [i \in DOMAIN d.sections |-> d.sections[i].name] # SECTION_ORDER
       \/ \E i \in 1..5 : LinkBroken(d, i)
    THEN "TAMPERED"
    ELSE IF ~Listed(d) THEN "UNTRUSTED_KEY"
    ELSE IF ~SignatureFits(d.jwks[d.kid], SigningPayload(d), d.signature) THEN "TAMPERED"
    ELSE IF TooLate(d.jwks[d.kid], d.sealed) THEN "UNTRUSTED_KEY"
    ELSE IF row # None /\ Commit("salt", row) # d.sections[1].payload.destination THEN "TAMPERED"
    ELSE "VALID"

(* What the verifier says of the basket, and of the money.                  *)
Claims(d) ==
    LET tapped == d.sections[2].payload  moved == d.sections[5].payload
    IN  [basket |-> CASE tapped.kind = "passkey" -> "signed by the buyer"
                      [] tapped.kind = "upi-pin" -> "by reference"
                      [] OTHER -> "see the mechanism",
         money  |-> IF moved.entries = <<>> THEN "nothing has moved"
                    ELSE IF moved.asserted THEN "asserted by the Merchant" ELSE "settled"]

-----------------------------------------------------------------------------
(* Sealing: door 7 tells the salt, door 1 the prices, the bundle is signed, *)
(* the row is written.                                                      *)

InView == <<cart, shop, policy>> \in Followed

(* A cash order is sealed by the tap that confirms it, another by the       *)
(* settlement that finds it paid; two deliveries of one payment that both   *)
(* pass the Ledger's check both seal.                                       *)
ToBeSealed ==
    /\ InView /\ seals < MaxSeals
    /\ \/ at = "permitted" /\ MethodOf(kind) = "cod" /\ sealing = "unsealed"
       \/ at = "paid" /\ MethodOf(kind) = "upi" /\ sealing \in {"unsealed", "sealed"}

SealSalt ==
    /\ ToBeSealed
    /\ sealing' = "prices" /\ seals' = seals + 1
    /\ UNCHANGED <<vars, keysVars, draft, receipt, issued>>

(* current raises where no key is live. *)
Seal ==
    /\ sealing = "prices" /\ ring # None
    /\ IF ring.current = None
       THEN sealing' = "lost" /\ UNCHANGED draft
       ELSE sealing' = "put" /\ draft' = Bundle(shop.price)
    /\ UNCHANGED <<vars, keysVars, seals, receipt, issued>>

(* One row per receipt id, replaced in place. *)
Put ==
    /\ sealing = "put"
    /\ receipt' = draft /\ issued' = issued \cup {draft}
    /\ sealing' = "sealed" /\ draft' = None
    /\ UNCHANGED <<vars, keysVars, seals>>

(* A door or the database fails: nobody seals this order again.             *)
SealFails ==
    /\ sealing \in {"prices", "put"}
    /\ sealing' = "lost" /\ draft' = None
    /\ UNCHANGED <<vars, keysVars, seals, receipt, issued>>

-----------------------------------------------------------------------------
(* The keys' life. *)

Act == /\ InView /\ at \in {"permitted", "paid"} /\ acts + edits < KeyActs
       /\ acts' = acts + 1

(* rotate: additive, under a kid of its own.                                *)
Rotate(kid) ==
    /\ Act /\ ring # None /\ kid \notin DOMAIN ring.keys
    /\ ring' = Enrolled(ring, kid, made + 1) /\ made' = made + 1
    /\ UNCHANGED <<vars, file, backup, now, sealVars>>

Revoke(kid) ==
    /\ Act /\ ring # None /\ kid \in DOMAIN ring.keys
    /\ ring' \in Revoked(ring, kid, now)
    /\ UNCHANGED <<vars, file, backup, made, now, sealVars>>

Saved(r) == [keys |-> r.keys, current |-> r.current, opens |-> TRUE]
Loaded(f) == [keys |-> f.keys, current |-> f.current]

(* save: a call of its own, after the change. *)
Save ==
    /\ Act /\ ring # None
    /\ file' = Saved(ring)
    /\ UNCHANGED <<vars, ring, backup, made, now, sealVars>>

(* openstore-keys export: the keyfile's keys, under another passphrase.     *)
Export ==
    /\ Act /\ file # None /\ file.opens
    /\ backup' = file
    /\ UNCHANGED <<vars, ring, file, made, now, sealVars>>

(* openstore-keys check --against the live keyfile.                         *)
Usable(copy, live) == DOMAIN live.keys \subseteq DOMAIN copy.keys /\ live.current = copy.current

(* The operator loses the keyfile, or puts the backup in its place; with a  *)
(* passphrase the process does not have, it will not open.                  *)
Lose ==
    /\ Act /\ file # None /\ file' = None
    /\ UNCHANGED <<vars, ring, backup, made, now, sealVars>>

Restore(opens) ==
    /\ Act /\ backup # None /\ file' = [backup EXCEPT !.opens = opens]
    /\ UNCHANGED <<vars, ring, backup, made, now, sealVars>>

(* A new process refuses a keyfile it cannot read, or with no live key.     *)
Opens(f) == f.opens /\ f.current # None

(* The configured export follows an enrolment, over whatever was there.     *)
ExportNewKeys == backup' = Saved(ring')

(* A new process reads the keyfile, refuses to start over one it cannot     *)
(* use, or mints and exports the first key where there is none.  A seal    *)
(* under way is lost with the old one.                                      *)
Boot ==
    /\ Act
    /\ IF file = None
       THEN /\ ring' = Enrolled(NoKeys, FirstKid, made + 1) /\ made' = made + 1
            /\ file' = Saved(ring') /\ ExportNewKeys
       ELSE /\ ring' = IF Opens(file) THEN Loaded(file) ELSE None
            /\ UNCHANGED <<made, file, backup>>
    /\ sealing' = IF sealing \in {"prices", "put"} THEN "lost" ELSE sealing
    /\ draft' = None
    /\ UNCHANGED <<vars, now, seals, receipt, issued>>

Tick ==
    /\ Act /\ now < MaxTime /\ now' = now + 1
    /\ UNCHANGED <<vars, ring, file, backup, made, sealVars>>

EvidenceInit ==
    /\ Init
    /\ ring = Enrolled(NoKeys, FirstKid, 1) /\ file = Saved(ring)
    /\ backup = file /\ made = 1 /\ acts = 0 /\ now = 0
    /\ sealing = "unsealed" /\ seals = 0 /\ draft = None /\ receipt = None /\ issued = {}

EvidenceNext ==
    \/ Next /\ acts + edits' <= KeyActs /\ UNCHANGED evidence
    \/ SealSalt \/ Seal \/ Put \/ SealFails
    \/ \E kid \in Kids : Rotate(kid) \/ Revoke(kid)
    \/ Save \/ Export \/ Lose \/ Boot \/ Tick
    \/ \E opens \in BOOLEAN : Restore(opens)

EvidenceSpec == EvidenceInit /\ [][EvidenceNext]_allvars

-----------------------------------------------------------------------------
(* Properties. *)

KeyRows == [material : Nat, revoked : Nat \cup {None}]
KeyringOK(r) ==
    /\ DOMAIN r.keys \subseteq Kids /\ r.keys \in [DOMAIN r.keys -> KeyRows]
    /\ r.current \in LiveKids(r) \cup {None}

(* Types; and a keyring, in memory or on disk, seals with a live key or     *)
(* with none.                                                               *)
EvidenceTypeOK ==
    /\ TypeOK
    /\ ring # None => KeyringOK(ring) /\ ring = Loaded(ring)
    /\ file # None => /\ KeyringOK(file) /\ file.opens \in BOOLEAN
                      /\ file = [Saved(file) EXCEPT !.opens = file.opens]
    /\ KeyringOK(backup) /\ backup = Saved(backup)
    /\ made \in Nat /\ acts \in 0..KeyActs /\ now \in 0..MaxTime /\ seals \in 0..MaxSeals
    /\ sealing \in {"unsealed", "prices", "put", "sealed", "lost"}
    /\ sealing # "put" => draft = None
    /\ receipt # None => receipt \in issued

(* What a document could be turned into by whoever holds it: a payload      *)
(* changed, its links recomputed or not, sections swapped, another version, *)
(* time or key list.                                                        *)
Altered(d) ==
    LET pay == [i \in 1..5 |-> d.sections[i].payload]
        others == {[pay EXCEPT ![1].quote.total = @ + 1], [pay EXCEPT ![2].kind = IF @ = "passkey" THEN "upi-pin" ELSE "passkey"],
                   [pay EXCEPT ![3] = <<>>], [pay EXCEPT ![5].asserted = ~@]}
        listed(k) == [d.jwks[k] EXCEPT !.revoked = d.sealed + 1]
    IN  {[d EXCEPT !.sections = Sections(p)] : p \in others}
        \cup {[d EXCEPT !.sections = [i \in 1..5 |-> [@[i] EXCEPT !.payload = p[i]]]] : p \in others}
        \cup {[d EXCEPT !.sections = [i \in 1..5 |-> @[6 - i]]],
              [d EXCEPT !.version = 2], [d EXCEPT !.sealed = @ + 1],
              [d EXCEPT !.jwks = [k \in DOMAIN @ |-> listed(k)]]}

(* A receipt, once handed out, verifies for good, whatever becomes of the   *)
(* keys, the keyfile and the process that sealed it; not against another    *)
(* destination; and nothing it could be turned into does (keys.py: history  *)
(* is never re-signed; verify/checks.py).                                   *)
ReceiptsStand ==
    \A d \in issued :
       /\ Verify(d, None) = "VALID" /\ Verify(d, cart.home) = "VALID"
       /\ Verify(d, ~cart.home) = "TAMPERED"
       /\ \A e \in Altered(d) : Verify(e, None) # "VALID"

(* A receipt says what happened: the quote that was shown, a decision of    *)
(* twelve checks none of which is open, money where money was captured and  *)
(* that amount; and a basket it calls signed by the buyer is the basket, at *)
(* the quote, that the Authority was taken over (checkout.py _seal).        *)
ReceiptSaysWhatHappened ==
    \A d \in issued :
       LET bought == d.sections[1].payload  tapped == d.sections[2].payload
           decided == d.sections[3].payload  moved == d.sections[5].payload
       IN  /\ bought.quote = pinned /\ fresh = pinned /\ bought.lines = cart.lines
           /\ Len(decided) = 12 /\ \A i \in 1..12 : decided[i] = "pass"
           /\ captured # None => captured = bought.quote.total
           /\ Claims(d).money = "settled" => at = "paid" /\ moved.entries[2][2] = captured
           /\ Claims(d).money = "nothing has moved" => MethodOf(tapped.kind) = "cod"
           /\ Claims(d).basket = "signed by the buyer" =>
                tapped.cartHash = CartHash(cart, bought.quote, facts.price)

-----------------------------------------------------------------------------
(* What the repository says of receipts and the code does not keep; no run  *)
(* checks these.                                                            *)

(* "Each order pins the Attestation hash that it used": _seal reads the     *)
(* catalogue again, after the tap and the payment.                          *)
AttestationsArePinned ==
    \A d \in issued : d.sections[1].payload.attestations =
                        {Attestation(cart.lines[i].sku, facts.price) : i \in DOMAIN cart.lines}

(* "collection appends a moved entry as v2": nothing does. *)
CollectionIsInReceipt ==
    at = "paid" /\ receipt # None => receipt.sections[5].payload.entries # <<>>

(* "This backup would restore the shop's identity": the drill compares      *)
(* kids, and a first key minted again has the kid of the first.             *)
UsableBackupRestores ==
    file # None /\ backup # None /\ file.opens /\ Usable(backup, file) =>
        \A k \in DOMAIN file.keys : file.keys[k].material = backup.keys[k].material
=============================================================================

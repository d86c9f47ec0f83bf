------------------------------ MODULE Consent ------------------------------
(***************************************************************************)
(* How a Consumer agrees: approval links (authority/tokens.py), the passkey *)
(* ceremony over a link's basket (authority/passkey.py), its two routes and *)
(* the page (console/approve.py), and the tap that turns what was agreed    *)
(* into the Authority the Gate records (checkout.py tap).                   *)
(*                                                                         *)
(* All links are of one order: a second checkout of its cart mints a link   *)
(* of its own and takes the row over.  A link's cart hash covers its expiry *)
(* to the microsecond, so a link also stands for the cart it was minted     *)
(* over and for the challenge, a hash of that cart.  A request is steps     *)
(* between its database calls; what it writes is durable, its worker is not.*)
(***************************************************************************)
EXTENDS Integers, FiniteSets

CONSTANTS Links, Credentials, Workers,
          Attested,  \* the credentials whose create() carries an attestation
          Counting,  \* those whose device counts its signatures; others say 0
          Enabled,   \* the Authority kinds the Merchant accepts
          MaxSigns,  \* bound: assertions per credential
          MaxCalm,   \* bound: responses in all, one request at a time
          MaxRacing, \* bound: responses in all, where requests race
          None

Kinds == {"upi-pin", "passkey", "intent-upi", "intent-passkey"}

ASSUME ConsentAssumption ==
    /\ Attested \subseteq Credentials /\ Counting \subseteq Credentials /\ Enabled \subseteq Kinds
    /\ None \notin Credentials \cup Links
    /\ MaxSigns \in Nat /\ MaxCalm \in Nat /\ MaxRacing \in Nat

VARIABLES calm,      \* scene: one request at a time
          age,       \* of a link: none, live, late (5 min), old (24 h)
          spent,     \* links a tap has spent
          row,       \* the link on the order's checkout row
          challenge, \* links with a row in passkey_challenges
          stored,    \* passkey_credentials: the sign count, -1 without a row
          agreed,    \* passkey_ceremonies
          page,      \* what the approve page of a link is doing
          answered,  \* where calm: links whose challenge another client has
                     \* answered since the page asked for it
          made,      \* the device's own counter, -1 before create()
          signed,    \* every response a device has produced
          call,      \* the requests under way
          evidence   \* the Authority in a link's Transcript

tables  == <<spent, row, challenge, stored, agreed>>
devices == <<made, signed>>
vars    == <<calm, age, tables, page, answered, devices, call, evidence>>

Idle     == [at |-> "idle"]
Prompts  == {"enrollment", "assertion"}
Busy(w)  == call[w] # Idle
Free     == calm => \A w \in Workers : ~Busy(w)
L(w)     == call[w].link
R(w)     == call[w].resp
Goto(w, at) == call' = [call EXCEPT ![w].at = at]
Drop(w)  == call' = [call EXCEPT ![w] = Idle]

Init ==
    /\ calm \in BOOLEAN
    /\ age = [l \in Links |-> "none"] /\ spent = {} /\ row = None
    /\ challenge = {} /\ stored = [c \in Credentials |-> -1]
    /\ agreed = [l \in Links |-> None] /\ page = [l \in Links |-> "idle"]
    /\ answered = {}
    /\ made = [c \in Credentials |-> -1] /\ signed = {}
    /\ call = [w \in Workers |-> Idle]
    /\ evidence = [l \in Links |-> None]

(* A checkout, or one more over the same cart: issue_tap, then the row.     *)
IssueTap(l) ==
    /\ age[l] = "none" /\ Free
    /\ age' = [age EXCEPT ![l] = "live"] /\ row' = l
    /\ UNCHANGED <<calm, spent, challenge, stored, agreed, page, answered, devices, call, evidence>>

(* Where requests race, they do so within minutes; else a link expires, or  *)
(* a day passes over all of them.                                           *)
Elapse ==
    /\ calm
    /\ \/ \E l \in Links : age[l] = "live" /\ age' = [age EXCEPT ![l] = "late"]
       \/ /\ Free /\ \E l \in Links : age[l] \in {"live", "late"}
          /\ age' = [l \in Links |-> IF age[l] = "none" THEN "none" ELSE "old"]
    /\ UNCHANGED <<calm, tables, page, answered, devices, call, evidence>>

-----------------------------------------------------------------------------
(* The browser and the device. *)

(* begin: the row's link, unspent; its expiry is not looked at.  The page   *)
(* names no credential and gets an enrollment; a client that names one the  *)
(* shop holds gets an assertion.                                            *)
Begin(l) ==
    /\ row = l /\ l \notin spent /\ page[l] = "idle" /\ Free
    /\ challenge' = challenge \cup {l}
    /\ \/ page' = [page EXCEPT ![l] = "enrollment"]
       \/ /\ \E c \in Credentials : stored[c] # -1
          /\ page' = [page EXCEPT ![l] = "assertion"]
    /\ answered' = answered \ {l}
    /\ UNCHANGED <<calm, age, spent, row, stored, agreed, devices, call, evidence>>

Sign(c, l, count, make) ==
    LET r == [cred |-> c, over |-> l, count |-> count, make |-> make] IN
    /\ Cardinality(signed) < IF calm THEN MaxCalm ELSE MaxRacing
    /\ made' = [made EXCEPT ![c] = count]
    /\ signed' = signed \cup {r}
    /\ page' = [page EXCEPT ![l] = "posting"]
    /\ UNCHANGED <<calm, age, tables, answered, call, evidence>>

Create(c, l) == page[l] = "enrollment" /\ made[c] = -1 /\ Sign(c, l, 0, TRUE)

(* get() over the credentials the shop holds, whichever link made them.  A  *)
(* passkey that is synced between devices counts nothing.                   *)
GetSigned(c, l) ==
    /\ page[l] = "assertion" /\ stored[c] # -1
    /\ \/ c \in Counting /\ made[c] < MaxSigns /\ Sign(c, l, made[c] + 1, FALSE)
       \/ c \notin Counting /\ Sign(c, l, 0, FALSE)

(* The page is reloaded, or shows a refusal and offers its button again.    *)
Reload(l) ==
    /\ page[l] # "idle" /\ Free
    /\ page' = [page EXCEPT ![l] = "idle"]
    /\ UNCHANGED <<calm, age, tables, answered, devices, call, evidence>>

-----------------------------------------------------------------------------
(* passkey_finish. *)

(* The checkout of the token, its challenge, and for an assertion the       *)
(* stored credential.  Any client posts any response there is, again and    *)
(* again; its page moves on with its own, and where requests race with      *)
(* whoever posts what it had signed.                                        *)
FinishRead(w, l, r, own) ==
    /\ ~Busy(w) /\ Free
    /\ IF page[l] = "posting" /\ r.over = l THEN calm \/ own ELSE ~own
    /\ row = l /\ l \in challenge
    /\ r.make \/ stored[r.cred] # -1
    /\ call' = [call EXCEPT ![w] = [at |-> "verify", link |-> l, resp |-> r,
                                    count |-> stored[r.cred], own |-> own]]
    /\ UNCHANGED <<calm, age, tables, page, answered, devices, evidence>>

\* mutant: the challenge is taken from the client's own data
VerifiesAnything(w) == R(w).make \/ R(w).count > call[w].count

(* What the library checks: the challenge, and that the count has moved     *)
(* since it was last stored, unless neither has ever counted.               *)
Verifies(w) ==
    /\ R(w).over = L(w)
    /\ \/ R(w).make \/ R(w).count > call[w].count
       \/ R(w).count = 0 /\ call[w].count = 0

(* An attestation is a signature over the challenge; none is not.           *)
Proves(w) == R(w).make => R(w).cred \in Attested

\* mutant: the shop counts the signature itself, over what the device said
PutCredentialCounting(r) == stored' = [stored EXCEPT ![r.cred] = r.count + 1]

\* mutant: an update stores the credential as it was enrolled
PutCredentialAgain(r) == stored' = [stored EXCEPT ![r.cred] = 0]

(* _put_credential writes the count it was handed over the one that is there. *)
PutCredential(r) == stored' = [stored EXCEPT ![r.cred] = r.count]

\* mutant: every enrollment answers its challenge
FinishPutSpending(w) ==
    /\ call[w].at = "verify"
    /\ IF ~Verifies(w)
       THEN Drop(w) /\ UNCHANGED <<stored, page, challenge>>
       ELSE /\ PutCredential(R(w)) /\ challenge' = challenge \ {L(w)}
            /\ IF Proves(w)
               THEN Goto(w, "spend") /\ UNCHANGED page
               ELSE /\ Drop(w)
                    /\ page' = [page EXCEPT ![L(w)] =
                                  IF call[w].own THEN "assertion" ELSE @]
    /\ UNCHANGED <<calm, age, spent, row, agreed, answered, devices, evidence>>

(* Without an attestation the credential is kept, the challenge stays, and  *)
(* the page is handed it for a second prompt.                               *)
FinishPut(w) ==
    /\ call[w].at = "verify"
    /\ IF ~Verifies(w)
       THEN Drop(w) /\ UNCHANGED <<stored, page>>
       ELSE /\ PutCredential(R(w))
            /\ IF Proves(w)
               THEN Goto(w, "spend") /\ UNCHANGED page
               ELSE /\ Drop(w)
                    /\ page' = [page EXCEPT ![L(w)] =
                                  IF call[w].own /\ L(w) \in challenge
                                  THEN "assertion" ELSE @]
    /\ UNCHANGED <<calm, age, spent, row, challenge, agreed, answered, devices, evidence>>

FinishSpend(w) ==
    /\ call[w].at = "spend" /\ Goto(w, "remember")
    /\ challenge' = challenge \ {L(w)}
    /\ answered' = IF calm /\ ~call[w].own THEN answered \cup {L(w)} ELSE answered
    /\ UNCHANGED <<calm, age, spent, row, stored, agreed, page, devices, evidence>>

Agreement(w) ==
    [cred |-> R(w).cred, cart |-> L(w),
     ceremony |-> IF R(w).make THEN "enrollment" ELSE "assertion"]

FinishRemember(w) ==
    /\ call[w].at = "remember" /\ Drop(w)
    /\ agreed' = [agreed EXCEPT ![L(w)] = Agreement(w)]
    /\ page' = [page EXCEPT ![L(w)] = IF call[w].own /\ @ = "posting" THEN "idle" ELSE @]
    /\ UNCHANGED <<calm, age, spent, row, challenge, stored, answered, devices, evidence>>

-----------------------------------------------------------------------------
(* tap. *)

(* by_token, and the checks spend_tap makes on the token as it reads it.    *)
(* Taps that race all pay by UPI; the method decides only the kind.         *)
TapRead(w, l, method) ==
    /\ ~Busy(w) /\ Free /\ (calm \/ method = "upi")
    /\ row = l /\ l \notin spent /\ age[l] = "live"
    /\ call' = [call EXCEPT ![w] = [at |-> "tap", link |-> l, method |-> method]]
    /\ UNCHANGED <<calm, age, tables, page, answered, devices, evidence>>

\* mutant: the token is marked spent after it was read
TapSpendBlindly(w) ==
    /\ call[w].at = "tap" /\ Goto(w, "take")
    /\ spent' = spent \cup {L(w)}
    /\ UNCHANGED <<calm, age, row, challenge, stored, agreed, page, answered, devices, evidence>>

(* UPDATE ... WHERE spent = false: the loser of a race is refused.          *)
TapSpend(w) ==
    /\ call[w].at = "tap"
    /\ IF L(w) \in spent THEN Drop(w) ELSE Goto(w, "take")
    /\ spent' = spent \cup {L(w)}
    /\ UNCHANGED <<calm, age, row, challenge, stored, agreed, page, answered, devices, evidence>>

(* Consumed, not read; one over another basket refuses the tap.             *)
TapTake(w) ==
    /\ call[w].at = "take"
    /\ agreed' = [agreed EXCEPT ![L(w)] = None]
    /\ IF agreed[L(w)] # None /\ agreed[L(w)].cart # L(w)
       THEN Drop(w)
       ELSE call' = [call EXCEPT ![w] = [at |-> "gate", link |-> L(w), method |-> call[w].method,
                                         proof |-> agreed[L(w)]]]
    /\ UNCHANGED <<calm, age, spent, row, challenge, stored, page, answered, devices, evidence>>

\* mutant: the kind follows the page that was shown, not what was agreed
AuthorityForShop(method, proof) ==
    IF method = "cod" THEN "intent-passkey" ELSE IF proof # None THEN "passkey" ELSE "upi-pin"

(* _authority_for. *)
AuthorityFor(method, proof) ==
    IF method = "cod" THEN IF proof # None THEN "intent-passkey" ELSE "intent-upi"
                      ELSE IF proof # None THEN "passkey" ELSE "upi-pin"

(* The Authority as the tap states it: whatever is not upi-pin is present   *)
(* and was an assertion, unless a ceremony says which it was.               *)
Authority(method, proof) ==
    LET kind == AuthorityFor(method, proof) IN
    [kind |-> kind,
     cred |-> IF proof # None THEN proof.cred ELSE None,
     ceremony |-> IF proof # None THEN proof.ceremony
                  ELSE IF kind = "upi-pin" THEN None ELSE "assertion"]

(* The Gate takes an enabled kind bound to this cart, or refuses (this or   *)
(* any other check); the tap then holds stock and saves its row.            *)
TapDecide(w) ==
    /\ call[w].at = "gate" /\ Drop(w)
    /\ \/ UNCHANGED <<row, evidence>>
       \/ /\ AuthorityFor(call[w].method, call[w].proof) \in Enabled
          /\ evidence' = [evidence EXCEPT ![L(w)] = Authority(call[w].method, call[w].proof)]
          /\ row' = L(w)
    /\ UNCHANGED <<calm, age, spent, challenge, stored, agreed, page, answered, devices>>

-----------------------------------------------------------------------------
(* A worker dies with its request; the tables stay. *)
Die(w) ==
    /\ Busy(w) /\ Drop(w)
    /\ UNCHANGED <<calm, age, tables, page, answered, devices, evidence>>

(* The sweep: rows a day old go, a credential with the link it was made on. *)
Forget ==
    /\ Free
    /\ \E gone \in SUBSET {l \in Links : age[l] = "old"} :
         /\ gone # {}
         /\ challenge' = challenge \ gone
         /\ agreed' = [l \in Links |-> IF l \in gone THEN None ELSE agreed[l]]
         /\ stored' = [c \in Credentials |->
                         IF \E r \in signed : r.make /\ r.cred = c /\ r.over \in gone
                         THEN -1 ELSE stored[c]]
    /\ UNCHANGED <<calm, age, spent, row, page, answered, devices, call, evidence>>

Next ==
    \/ \E l \in Links : IssueTap(l) \/ Begin(l) \/ Reload(l)
    \/ \E c \in Credentials, l \in Links : Create(c, l) \/ GetSigned(c, l)
    \/ \E w \in Workers :
         \/ \E l \in Links, r \in signed, own \in BOOLEAN : FinishRead(w, l, r, own)
         \/ FinishPut(w) \/ FinishSpend(w) \/ FinishRemember(w)
         \/ \E l \in Links, m \in {"upi", "cod"} : TapRead(w, l, m)
         \/ TapSpend(w) \/ TapTake(w) \/ TapDecide(w) \/ Die(w)
    \/ Elapse \/ Forget

Spec == Init /\ [][Next]_vars

-----------------------------------------------------------------------------
(* Properties. *)

Responses  == [cred : Credentials, over : Links, count : 0..MaxSigns, make : BOOLEAN]
Agreements == [cred : Credentials, cart : Links, ceremony : {"enrollment", "assertion"}]

(* The tables hold what the code writes to them, and a stored count is one  *)
(* the device has reached (passkey.py:71, :83, :102, tokens.py:50).         *)
TypeOK ==
    /\ calm \in BOOLEAN /\ age \in [Links -> {"none", "live", "late", "old"}]
    /\ spent \subseteq Links /\ challenge \subseteq Links /\ row \in Links \cup {None}
    /\ stored \in [Credentials -> -1..MaxSigns] /\ made \in [Credentials -> -1..MaxSigns]
    /\ \A c \in Credentials : stored[c] <= made[c]
    /\ agreed \in [Links -> Agreements \cup {None}]
    /\ page \in [Links -> Prompts \cup {"idle", "posting"}]
    /\ signed \subseteq Responses /\ answered \subseteq Links

(* A device has signed this very basket: an assertion over its challenge,   *)
(* or an attested enrollment over it.                                       *)
Agrees(c, l, ceremony) ==
    \E r \in signed : /\ r.cred = c /\ r.over = l /\ r.make = (ceremony = "enrollment")
                      /\ r.make => c \in Attested

(* passkey.py:11 the challenge is the binding, :507 a create() without an   *)
(* attestation proves nothing: whatever order requests and links come in,   *)
(* an agreement that is kept was signed over its own link's basket.         *)
AgreedIsSigned ==
    \A l \in Links : agreed[l] # None =>
        agreed[l].cart = l /\ Agrees(agreed[l].cred, l, agreed[l].ceremony)

(* checkout.py:448-476: a Transcript that says a passkey authorized this    *)
(* link's basket has a signature over that basket by the credential it      *)
(* names, also when the order has several links and taps race.              *)
PasskeyWasSigned ==
    \A l \in Links : evidence[l] # None =>
        (evidence[l].kind \in {"passkey", "intent-passkey"} =>
            evidence[l].cred # None /\ Agrees(evidence[l].cred, l, evidence[l].ceremony))

(* Nobody is taken to have agreed to what no device of theirs signed,       *)
(* neither by the agreement the shop keeps nor by the evidence made of it.  *)
ConsentWasSigned == AgreedIsSigned /\ PasskeyWasSigned

(* tokens.py:89 single use is enforced by the UPDATE: a link is decided     *)
(* once, so no second tap replaces the Authority that is in evidence.       *)
EvidenceStays == [][\A l \in Links : evidence[l] # None => evidence'[l] = evidence[l]]_vars

(* passkey.py:279 says that a sign count only ever moves forward.  It does  *)
(* not (a create() posted again is put over the credential as it was), but  *)
(* an assertion never lowers one, and of a device that counts it is taken   *)
(* only where it raises the count: the same response is not taken again     *)
(* unless a create() of its credential was put in between.  The count is    *)
(* read a step before it is written: this is one request at a time.         *)
AssertionsMoveForward ==
    [][calm =>
         /\ \A c \in Credentials :
              (stored[c] # -1 /\ stored'[c] # -1 /\ stored'[c] < stored[c]) =>
                  \E w \in Workers : call[w].at = "verify" /\ R(w).make /\ R(w).cred = c
         /\ \A w \in Workers :
              (call[w].at = "verify" /\ call'[w].at = "spend" /\ ~R(w).make
                 /\ R(w).cred \in Counting) =>
                  stored'[R(w).cred] > stored[R(w).cred]]_vars

(* No later tap and no later assertion turns back what an earlier one left. *)
NoAnswerTurnsBack == EvidenceStays /\ AssertionsMoveForward

(* passkey.py:190 a ceremony that is halfway done is not refused, whatever  *)
(* restarts in between and whoever else posts: while the page waits for a   *)
(* device the challenge it was given is still there to answer, unless       *)
(* another client has answered it.                                          *)
HalfDoneCanFinish ==
    calm => \A l \in Links :
        (page[l] \in Prompts /\ age[l] # "old" /\ l \notin answered) => l \in challenge

(* codes.py:103: ceremony is which WebAuthn ceremony carried a passkey      *)
(* Authority; the Transcript names one only when one took place.            *)
CeremonyTookPlace ==
    \A l \in Links : evidence[l] # None =>
        (evidence[l].ceremony # None => \E r \in signed : r.over = l)
=============================================================================

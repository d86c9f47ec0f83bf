--------------------------- MODULE ConsentProofs ---------------------------
(***************************************************************************)
(* What an order's evidence and a credential's counter rest on, for any     *)
(* links, credentials and workers, however requests, deaths and the sweep   *)
(* interleave.                                                              *)
(***************************************************************************)
EXTENDS Consent, TLAPS

Ats == {"idle", "verify", "spend", "remember", "tap", "take", "gate"}

(* The shapes of things: what may be in a table, a device, a request.       *)
Shape ==
    /\ calm \in BOOLEAN
    /\ stored \in [Credentials -> Int] /\ made \in [Credentials -> Nat \cup {-1}]
    /\ signed \subseteq [cred : Credentials, over : Links, count : Int, make : BOOLEAN]
    /\ DOMAIN agreed = Links /\ DOMAIN evidence = Links
    /\ DOMAIN call = Workers
    /\ \A w \in Workers :
         /\ call[w].at \in Ats /\ "at" \in DOMAIN call[w]
         /\ call[w].at = "idle" <=> call[w] = Idle
         /\ call[w].at # "idle" => L(w) \in Links
         /\ call[w].at \in {"verify", "spend", "remember"} => R(w) \in signed

(* What a request has made sure of at the step it is at.                    *)
Sure ==
    \A w \in Workers :
      /\ call[w].at \in {"spend", "remember"} => R(w).over = L(w) /\ Proves(w)
      /\ call[w].at = "gate" => (call[w].proof # None =>
             Agrees(call[w].proof.cred, L(w), call[w].proof.ceremony))

(* A link past its spend is in the hands of one request, and is undecided.  *)
Holding(w) == call[w].at \in {"take", "gate"}
OneDecides ==
    /\ \A l \in Links : evidence[l] # None => l \in spent
    /\ \A w \in Workers : Holding(w) => L(w) \in spent /\ evidence[L(w)] = None
    /\ \A w, v \in Workers : Holding(w) /\ Holding(v) /\ L(w) = L(v) => w = v

(* A device creates a credential first, and one that counts then begins.    *)
Counted ==
    /\ \A r \in signed : made[r.cred] # -1
    /\ \A c \in Credentials : stored[c] # -1 => made[c] # -1
    /\ \A r \in signed : (~r.make /\ r.cred \in Counting) => r.count > 0

(* One request at a time: what it read of a credential still stands.        *)
Calm ==
    calm =>
      /\ \A w, v \in Workers : call[w].at # "idle" /\ call[v].at # "idle" => w = v
      /\ \A w \in Workers : call[w].at = "verify" => call[w].count = stored[R(w).cred]

ConsentInv == Shape /\ Sure /\ ConsentWasSigned /\ OneDecides /\ Counted /\ Calm

LEMMA InitConsent == Init => ConsentInv
<1> SUFFICES ASSUME Init PROVE ConsentInv
  OBVIOUS
<1>1. Shape
  BY DEF Init, Shape, Idle, Ats, L, R
<1> QED
  BY <1>1 DEF Init, ConsentInv, Idle, Sure, ConsentWasSigned, AgreedIsSigned, PasskeyWasSigned,
     OneDecides, Holding, Counted, Calm

-----------------------------------------------------------------------------
(* Pages, clocks and the sweep. *)

(* A step that no device, request or decision sees; the sweep may forget an *)
(* agreement or a credential.                                               *)
LEMMA QuietKeeps ==
    ASSUME ConsentInv,
           UNCHANGED <<calm, spent, devices, call, evidence>>,
           DOMAIN agreed' = Links,
           \A l \in Links : agreed'[l] = agreed[l] \/ agreed'[l] = None,
           \/ stored' = stored
           \/ /\ calm => \A w \in Workers : call[w].at = "idle"
              /\ stored' \in [Credentials -> Int]
              /\ \A c \in Credentials : stored'[c] = stored[c] \/ stored'[c] = -1
    PROVE  ConsentInv'
<1> USE DEF devices
<1>1. Shape'
  BY DEF ConsentInv, Shape, L, R
<1>2. Sure'
  BY DEF ConsentInv, Sure, L, R, Proves, Agrees
<1>3. ConsentWasSigned'
  BY DEF ConsentInv, ConsentWasSigned, AgreedIsSigned, PasskeyWasSigned, Agrees
<1>4. OneDecides'
  BY DEF ConsentInv, OneDecides, Holding, L
<1>5. Counted'
  BY DEF ConsentInv, Counted, Shape
<1>6. Calm'
  BY DEF ConsentInv, Calm, Shape, R
<1> QED
  BY <1>1, <1>2, <1>3, <1>4, <1>5, <1>6 DEF ConsentInv

LEMMA ForgetKeeps == ASSUME ConsentInv, Forget PROVE ConsentInv'
<1>1. calm => \A w \in Workers : call[w].at = "idle"
  BY DEF Forget, Free, Busy, ConsentInv, Shape
<1>2. PICK gone \in SUBSET Links :
        /\ agreed' = [l \in Links |-> IF l \in gone THEN None ELSE agreed[l]]
        /\ stored' = [c \in Credentials |->
                        IF \E r \in signed : r.make /\ r.cred = c /\ r.over \in gone
                        THEN -1 ELSE stored[c]]
  BY DEF Forget
<1>3. /\ stored' \in [Credentials -> Int]
      /\ \A c \in Credentials : stored'[c] = stored[c] \/ stored'[c] = -1
  BY <1>2 DEF ConsentInv, Shape
<1>4. DOMAIN agreed' = Links /\ \A l \in Links : agreed'[l] = agreed[l] \/ agreed'[l] = None
  BY <1>2
<1>5. UNCHANGED <<calm, spent, devices, call, evidence>>
  BY DEF Forget
<1> QED
  BY <1>1, <1>3, <1>4, <1>5, QuietKeeps

(* A device produces a response: a new one, and what is known of the others *)
(* stays so.                                                                *)
LEMMA SignKeeps ==
    ASSUME ConsentInv, NEW c \in Credentials, NEW l \in Links, Create(c, l) \/ GetSigned(c, l)
    PROVE  ConsentInv'
<1> DEFINE Signed(count, make) == [cred |-> c, over |-> l, count |-> count, make |-> make]
           Effect(r) == /\ signed' = signed \cup {r} /\ made' = [made EXCEPT ![c] = r.count]
                        /\ UNCHANGED <<calm, spent, stored, agreed, call, evidence>>
<1>1. PICK r \in [cred : Credentials, over : Links, count : Int, make : BOOLEAN] :
        /\ Effect(r) /\ r.cred = c /\ r.over = l /\ r.count \in Nat
        /\ (~r.make /\ c \in Counting) => r.count > 0
  <2>1. made[c] \in Nat \cup {-1}
    BY DEF ConsentInv, Shape
  <2>2. CASE Create(c, l)
    <3> DEFINE r == Signed(0, TRUE)
    <3>1. Effect(r)
      BY <2>2 DEF Create, Sign, tables
    <3>2. /\ r \in [cred : Credentials, over : Links, count : Int, make : BOOLEAN]
          /\ r.cred = c /\ r.over = l /\ r.count \in Nat /\ r.make
      OBVIOUS
    <3> HIDE DEF r, Effect
    <3> QED
      BY <3>1, <3>2
  <2>3. CASE GetSigned(c, l)
    <3> DEFINE n == IF c \in Counting THEN made[c] + 1 ELSE 0
               r == Signed(n, FALSE)
    <3>1. Effect(r) /\ made[c] # -1
      BY <2>1, <2>3 DEF GetSigned, Sign, tables, ConsentInv, Counted
    <3>2. n \in Nat /\ (c \in Counting => n > 0)
      BY <2>1, <3>1
    <3> HIDE DEF n
    <3>3. /\ r \in [cred : Credentials, over : Links, count : Int, make : BOOLEAN]
          /\ r.cred = c /\ r.over = l /\ r.count \in Nat /\ (c \in Counting => r.count > 0)
      BY <3>2
    <3> HIDE DEF r, Effect
    <3> QED
      BY <3>1, <3>3
  <2> QED
    BY <2>2, <2>3
<1>2. Effect(r)
  BY <1>1
<1>5. Shape'
  BY <1>1, <1>2 DEF ConsentInv, Shape, L, R
<1>6. Sure'
  BY <1>2 DEF ConsentInv, Sure, L, R, Proves, Agrees
<1>7. ConsentWasSigned'
  BY <1>2 DEF ConsentInv, ConsentWasSigned, AgreedIsSigned, PasskeyWasSigned, Agrees
<1>8. OneDecides'
  BY <1>2 DEF ConsentInv, OneDecides, Holding, L
<1>9. Counted'
  BY <1>1, <1>2 DEF ConsentInv, Counted, Shape
<1>10. Calm'
  BY <1>2 DEF ConsentInv, Calm, Shape, R
<1> QED
  BY <1>5, <1>6, <1>7, <1>8, <1>9, <1>10 DEF ConsentInv

-----------------------------------------------------------------------------
(* passkey_finish. *)

LEMMA FinishReadKeeps ==
    ASSUME ConsentInv, NEW w \in Workers, NEW l \in Links, NEW r \in signed, NEW own \in BOOLEAN,
           FinishRead(w, l, r, own)
    PROVE  ConsentInv'
<1> DEFINE c == [at |-> "verify", link |-> l, resp |-> r, count |-> stored[r.cred],
               own |-> own]
<1>1. /\ call[w].at = "idle" /\ call' = [call EXCEPT ![w] = c]
      /\ calm => \A v \in Workers : call[v].at = "idle"
      /\ UNCHANGED <<calm, spent, stored, agreed, made, signed, evidence>>
  BY DEF FinishRead, Busy, Free, ConsentInv, Shape, tables, devices
<1>2. /\ c.at = "verify" /\ c.link = l /\ c.resp = r /\ c.count = stored[r.cred]
      /\ "at" \in DOMAIN c /\ c # Idle /\ r.cred \in Credentials
  BY DEF Idle, ConsentInv, Shape
<1> HIDE DEF c
<1>3. Shape'
  BY <1>1, <1>2 DEF ConsentInv, Shape, L, R, Ats
<1>4. Sure'
  BY <1>1, <1>2 DEF ConsentInv, Shape, Sure, L, R, Proves, Agrees
<1>5. ConsentWasSigned'
  BY <1>1 DEF ConsentInv, ConsentWasSigned, AgreedIsSigned, PasskeyWasSigned, Agrees
<1>6. OneDecides'
  BY <1>1, <1>2 DEF ConsentInv, Shape, OneDecides, Holding, L
<1>7. Counted'
  BY <1>1 DEF ConsentInv, Counted
<1>8. Calm'
  BY <1>1, <1>2 DEF ConsentInv, Shape, Calm, R
<1> QED
  BY <1>3, <1>4, <1>5, <1>6, <1>7, <1>8 DEF ConsentInv

LEMMA FinishPutKeeps ==
    ASSUME ConsentInv, NEW w \in Workers, FinishPut(w)
    PROVE  ConsentInv'
<1> DEFINE r == R(w)
<1>1. /\ call[w].at = "verify" /\ r \in signed /\ r.cred \in Credentials /\ L(w) \in Links
      /\ r.count \in Int /\ made[r.cred] # -1
      /\ UNCHANGED <<calm, spent, agreed, made, signed, evidence>>
  BY DEF FinishPut, ConsentInv, Shape, Counted, devices
<1>2. \/ call' = [call EXCEPT ![w] = Idle] /\ UNCHANGED stored
      \/ call' = [call EXCEPT ![w] = Idle] /\ stored' = [stored EXCEPT ![r.cred] = r.count]
      \/ /\ Verifies(w) /\ Proves(w) /\ call' = [call EXCEPT ![w].at = "spend"]
         /\ stored' = [stored EXCEPT ![r.cred] = r.count]
  BY DEF FinishPut, Drop, Goto, PutCredential
<1>3. (r.over = L(w) /\ Proves(w)) \/ call'[w] = Idle
  BY <1>2 DEF Verifies, ConsentInv, Shape
<1>4. /\ \A v \in Workers \ {w} : call'[v] = call[v]
      /\ call'[w] = Idle \/ /\ call'[w].at = "spend" /\ call'[w].link = L(w)
                            /\ call'[w].resp = r /\ call'[w] # Idle
      /\ DOMAIN call' = Workers /\ Idle.at = "idle" /\ "at" \in DOMAIN call'[w]
  <2>1. DOMAIN call = Workers /\ Idle.at = "idle" /\ "at" \in DOMAIN Idle
        /\ call[w].link = L(w) /\ call[w].resp = r /\ "at" \in DOMAIN call[w]
    BY DEF ConsentInv, Shape, L, R, Idle
  <2>2. [call[w] EXCEPT !.at = "spend"].at = "spend"
    BY DEF ConsentInv, Shape
  <2>3. CASE call' = [call EXCEPT ![w] = Idle]
    BY <2>1, <2>3
  <2>4. CASE call' = [call EXCEPT ![w].at = "spend"]
    BY <1>1, <2>1, <2>2, <2>4
  <2> QED
    BY <1>2, <2>3, <2>4
<1> HIDE DEF r
<1>5. Shape'
  BY <1>1, <1>2, <1>4 DEF ConsentInv, Shape, L, R, Ats
<1>6. Sure'
  BY <1>1, <1>3, <1>4 DEF ConsentInv, Shape, Sure, L, R, Proves, Agrees, r
<1>7. ConsentWasSigned'
  BY <1>1 DEF ConsentInv, ConsentWasSigned, AgreedIsSigned, PasskeyWasSigned, Agrees
<1>8. OneDecides'
  BY <1>1, <1>4 DEF ConsentInv, Shape, OneDecides, Holding, L
<1>9. Counted'
  BY <1>1, <1>2 DEF ConsentInv, Shape, Counted
<1>10. Calm'
  <2> SUFFICES ASSUME calm PROVE Calm'
    BY <1>1 DEF Calm
  <2>1. \A v \in Workers : call'[v].at # "idle" => v = w /\ call'[v].at = "spend"
    BY <1>1, <1>4 DEF ConsentInv, Calm
  <2> QED
    BY <1>1, <2>1 DEF ConsentInv, Calm
<1> QED
  BY <1>5, <1>6, <1>7, <1>8, <1>9, <1>10 DEF ConsentInv

-----------------------------------------------------------------------------
(* The steps of a request that leave what it read alone. *)

(* A request goes on to its next step. *)
LEMMA Moves ==
    ASSUME Shape, NEW w \in Workers, NEW at \in Ats \ {"idle"}, call[w].at # "idle", Goto(w, at)
    PROVE  /\ \A v \in Workers \ {w} : call'[v] = call[v]
           /\ call'[w].at = at /\ call'[w] # Idle
           /\ call'[w].link = L(w) /\ call'[w].resp = R(w)
           /\ DOMAIN call' = Workers /\ "at" \in DOMAIN call'[w]
<1>1. /\ DOMAIN call = Workers /\ "at" \in DOMAIN call[w]
      /\ call' = [call EXCEPT ![w] = [call[w] EXCEPT !.at = at]]
  BY DEF Goto, Shape
<1>2. Idle.at = "idle"
  BY DEF Idle
<1> QED
  BY <1>1, <1>2 DEF L, R

(* A request is over. *)
LEMMA Drops ==
    ASSUME Shape, NEW w \in Workers, Drop(w)
    PROVE  /\ \A v \in Workers \ {w} : call'[v] = call[v]
           /\ call'[w] = Idle /\ Idle.at = "idle" /\ "at" \in DOMAIN Idle
           /\ DOMAIN call' = Workers
BY DEF Drop, Shape, Idle

(* A request ends, and what the tables say at its end is right.             *)
LEMMA EndKeeps ==
    ASSUME ConsentInv, NEW w \in Workers, Drop(w),
           UNCHANGED <<calm, stored, devices>>, spent \subseteq spent',
           DOMAIN agreed' = Links, DOMAIN evidence' = Links,
           ConsentWasSigned',
           \A l \in Links : evidence'[l] # evidence[l] => Holding(w) /\ L(w) = l
    PROVE  ConsentInv'
<1> USE DEF devices
<1>1. /\ \A v \in Workers \ {w} : call'[v] = call[v]
      /\ call'[w] = Idle /\ Idle.at = "idle" /\ "at" \in DOMAIN Idle
      /\ DOMAIN call' = Workers
  BY Drops DEF ConsentInv
<1>2. Shape'
  BY <1>1 DEF ConsentInv, Shape, L, R, Ats
<1>3. Sure'
  BY <1>1 DEF ConsentInv, Shape, Sure, L, R, Proves, Agrees
<1>4. OneDecides'
  BY <1>1 DEF ConsentInv, Shape, OneDecides, Holding, L
<1>5. Counted'
  BY DEF ConsentInv, Counted
<1>6. Calm'
  BY <1>1 DEF ConsentInv, Shape, Calm, R
<1> QED
  BY <1>2, <1>3, <1>4, <1>5, <1>6 DEF ConsentInv

LEMMA FinishRememberKeeps ==
    ASSUME ConsentInv, NEW w \in Workers, FinishRemember(w)
    PROVE  ConsentInv'
<1>1. /\ call[w].at = "remember" /\ Drop(w)
      /\ agreed' = [agreed EXCEPT ![L(w)] = Agreement(w)]
      /\ UNCHANGED <<calm, spent, stored, devices, evidence, signed>>
      /\ R(w) \in signed /\ R(w).make \in BOOLEAN /\ R(w).over = L(w) /\ Proves(w)
  BY DEF FinishRemember, ConsentInv, Shape, Sure, devices
<1>2. /\ Agreement(w).cart = L(w)
      /\ Agrees(Agreement(w).cred, L(w), Agreement(w).ceremony)
  BY <1>1 DEF Agreement, Agrees, Proves
<1>3. ConsentWasSigned'
  BY <1>1, <1>2 DEF ConsentInv, Shape, ConsentWasSigned, AgreedIsSigned, PasskeyWasSigned, Agrees
<1> QED
  BY <1>1, <1>3, EndKeeps DEF ConsentInv, Shape

LEMMA TapDecideKeeps ==
    ASSUME ConsentInv, NEW w \in Workers, TapDecide(w)
    PROVE  ConsentInv'
<1> DEFINE a == Authority(call[w].method, call[w].proof)
<1>1. /\ call[w].at = "gate" /\ Drop(w) /\ L(w) \in Links
      /\ evidence' = evidence \/ evidence' = [evidence EXCEPT ![L(w)] = a]
      /\ UNCHANGED <<calm, spent, stored, agreed, devices, signed>>
  BY DEF TapDecide, ConsentInv, Shape, devices
<1>2. a.kind \in {"passkey", "intent-passkey"} =>
        a.cred # None /\ Agrees(a.cred, L(w), a.ceremony)
  <2>1. call[w].proof # None => Agrees(call[w].proof.cred, L(w), call[w].proof.ceremony)
    BY <1>1 DEF ConsentInv, Sure
  <2>2. call[w].proof # None => call[w].proof.cred # None
    BY <2>1, ConsentAssumption DEF Agrees, ConsentInv, Shape
  <2> QED
    BY <2>1, <2>2 DEF Authority, AuthorityFor
<1> HIDE DEF a
<1>3. ConsentWasSigned'
  BY <1>1, <1>2 DEF ConsentInv, Shape, ConsentWasSigned, AgreedIsSigned, PasskeyWasSigned, Agrees
<1> QED
  BY <1>1, <1>3, EndKeeps DEF ConsentInv, Shape, Holding

LEMMA DieKeeps ==
    ASSUME ConsentInv, NEW w \in Workers, Die(w)
    PROVE  ConsentInv'
<1>1. Drop(w) /\ UNCHANGED <<calm, spent, stored, agreed, devices, signed, evidence>>
  BY DEF Die, tables, devices
<1>2. ConsentWasSigned'
  BY <1>1 DEF ConsentInv, ConsentWasSigned, AgreedIsSigned, PasskeyWasSigned, Agrees
<1> QED
  BY <1>1, <1>2, EndKeeps DEF ConsentInv, Shape

(* A request goes to another step than verify, as sure of it as it has to   *)
(* be, and no other request holds the link it holds.                        *)
LEMMA OnKeeps ==
    ASSUME ConsentInv, NEW w \in Workers,
           \A v \in Workers \ {w} : call'[v] = call[v], DOMAIN call' = Workers,
           call'[w] # Idle, "at" \in DOMAIN call'[w], call'[w].link \in Links,
           call'[w].at \in Ats \ {"idle", "verify"},
           call[w].at # "idle" \/ (calm => \A v \in Workers : call[v].at = "idle"),
           UNCHANGED <<calm, stored, devices, evidence>>, spent \subseteq spent',
           DOMAIN agreed' = Links, AgreedIsSigned',
           call'[w].at \in {"spend", "remember"} =>
             R(w)' \in signed /\ R(w)'.over = L(w)' /\ Proves(w)',
           call'[w].at = "gate" => (call'[w].proof # None =>
             Agrees(call'[w].proof.cred, L(w)', call'[w].proof.ceremony)),
           Holding(w)' => \/ Holding(w) /\ L(w)' = L(w)
                          \/ L(w)' \notin spent /\ L(w)' \in spent'
    PROVE  ConsentInv'
<1> USE DEF devices
<1>1. Shape'
  BY DEF ConsentInv, Shape, L, R, Idle
<1>2. Sure'
  <2>1. \A v \in Workers \ {w} : R(v)' = R(v) /\ L(v)' = L(v)
    BY DEF R, L
  <2>2. signed' = signed
    OBVIOUS
  <2> QED
    BY <2>1, <2>2 DEF ConsentInv, Sure, Proves, Agrees
<1>3. ConsentWasSigned'
  BY DEF ConsentInv, ConsentWasSigned, PasskeyWasSigned, Agrees
<1>4. OneDecides'
  BY DEF ConsentInv, Shape, OneDecides, Holding, L
<1>5. Counted'
  BY DEF ConsentInv, Counted
<1>6. Calm'
  BY DEF ConsentInv, Shape, Calm, R
<1> QED
  BY <1>1, <1>2, <1>3, <1>4, <1>5, <1>6 DEF ConsentInv

LEMMA FinishSpendKeeps ==
    ASSUME ConsentInv, NEW w \in Workers, FinishSpend(w)
    PROVE  ConsentInv'
<1>1. /\ call[w].at = "spend" /\ Goto(w, "remember") /\ "remember" \in Ats \ {"idle"}
      /\ UNCHANGED <<calm, spent, stored, agreed, devices, signed, evidence>>
      /\ R(w) \in signed /\ R(w).over = L(w) /\ Proves(w) /\ L(w) \in Links
  BY DEF FinishSpend, ConsentInv, Shape, Sure, devices, Ats
<1>2. /\ \A v \in Workers \ {w} : call'[v] = call[v]
      /\ call'[w].at = "remember" /\ call'[w] # Idle
      /\ call'[w].link = L(w) /\ call'[w].resp = R(w)
      /\ DOMAIN call' = Workers /\ "at" \in DOMAIN call'[w]
  BY <1>1, Moves DEF ConsentInv
<1>3. AgreedIsSigned'
  BY <1>1 DEF ConsentInv, ConsentWasSigned, AgreedIsSigned, Agrees
<1>4. R(w)' \in signed /\ R(w)'.over = L(w)' /\ Proves(w)'
  BY <1>1, <1>2 DEF R, L, Proves
<1> QED
  BY <1>1, <1>2, <1>3, <1>4, OnKeeps DEF ConsentInv, Shape, Holding, Ats

LEMMA TapReadKeeps ==
    ASSUME ConsentInv, NEW w \in Workers, NEW l \in Links, NEW m, TapRead(w, l, m)
    PROVE  ConsentInv'
<1> DEFINE c == [at |-> "tap", link |-> l, method |-> m]
<1>1. /\ calm => \A v \in Workers : call[v].at = "idle"
      /\ call' = [call EXCEPT ![w] = c]
      /\ UNCHANGED <<calm, spent, stored, agreed, devices, signed, evidence>>
  BY DEF TapRead, Busy, Free, ConsentInv, Shape, tables, devices
<1>2. c.at = "tap" /\ c.link = l /\ "at" \in DOMAIN c /\ c # Idle
  BY DEF Idle
<1> HIDE DEF c
<1>3. /\ \A v \in Workers \ {w} : call'[v] = call[v]
      /\ call'[w] = c /\ DOMAIN call' = Workers
  BY <1>1 DEF ConsentInv, Shape
<1>4. AgreedIsSigned'
  BY <1>1 DEF ConsentInv, ConsentWasSigned, AgreedIsSigned, Agrees
<1> QED
  BY <1>1, <1>2, <1>3, <1>4, OnKeeps DEF ConsentInv, Shape, Holding, Ats

LEMMA TapSpendKeeps ==
    ASSUME ConsentInv, NEW w \in Workers, TapSpend(w)
    PROVE  ConsentInv'
<1>1. /\ call[w].at = "tap" /\ L(w) \in Links /\ spent' = spent \cup {L(w)}
      /\ UNCHANGED <<calm, stored, agreed, devices, signed, evidence>>
  BY DEF TapSpend, ConsentInv, Shape, devices
<1>2. ConsentWasSigned'
  BY <1>1 DEF ConsentInv, ConsentWasSigned, AgreedIsSigned, PasskeyWasSigned, Agrees
<1>3. CASE Drop(w)
  BY <1>1, <1>2, <1>3, EndKeeps DEF ConsentInv, Shape
<1>4. CASE L(w) \notin spent /\ Goto(w, "take")
  <2>1. /\ \A v \in Workers \ {w} : call'[v] = call[v]
        /\ call'[w].at = "take" /\ call'[w] # Idle /\ call'[w].link = L(w)
        /\ DOMAIN call' = Workers /\ "at" \in DOMAIN call'[w]
    BY <1>1, <1>4, Moves DEF ConsentInv, Ats
  <2>2. L(w)' = L(w)
    BY <2>1 DEF L
  <2> QED
    BY <1>1, <1>2, <1>4, <2>1, <2>2, OnKeeps DEF ConsentInv, Shape, ConsentWasSigned, Ats
<1> QED
  BY <1>3, <1>4 DEF TapSpend

LEMMA TapTakeKeeps ==
    ASSUME ConsentInv, NEW w \in Workers, TapTake(w)
    PROVE  ConsentInv'
<1> DEFINE c == [at |-> "gate", link |-> L(w), method |-> call[w].method, proof |-> agreed[L(w)]]
<1>1. /\ call[w].at = "take" /\ L(w) \in Links
      /\ agreed' = [agreed EXCEPT ![L(w)] = None]
      /\ UNCHANGED <<calm, spent, stored, devices, signed, evidence>>
  BY DEF TapTake, ConsentInv, Shape, devices
<1>2. ConsentWasSigned'
  BY <1>1 DEF ConsentInv, ConsentWasSigned, AgreedIsSigned, PasskeyWasSigned, Agrees, Shape
<1>3. DOMAIN agreed' = Links /\ DOMAIN evidence' = Links
  BY <1>1 DEF ConsentInv, Shape
<1>4. CASE Drop(w)
  BY <1>1, <1>2, <1>3, <1>4, EndKeeps
<1>5. CASE call' = [call EXCEPT ![w] = c]
  <2>1. /\ c.at = "gate" /\ c.link = L(w) /\ c.proof = agreed[L(w)]
        /\ "at" \in DOMAIN c /\ c # Idle
    BY DEF Idle
  <2>2. agreed[L(w)] # None =>
          Agrees(agreed[L(w)].cred, L(w), agreed[L(w)].ceremony)
    BY <1>1 DEF ConsentInv, ConsentWasSigned, AgreedIsSigned
  <2> HIDE DEF c
  <2>3. /\ \A v \in Workers \ {w} : call'[v] = call[v]
        /\ call'[w] = c /\ DOMAIN call' = Workers
    BY <1>5 DEF ConsentInv, Shape
  <2>4. L(w)' = L(w)
    BY <2>1, <2>3 DEF L
  <2> QED
    BY <1>1, <1>2, <1>3, <2>1, <2>2, <2>3, <2>4, OnKeeps DEF ConsentWasSigned, Holding, Ats
<1> QED
  BY <1>4, <1>5 DEF TapTake

-----------------------------------------------------------------------------
(* All of them. *)

LEMMA StepKeeps == ConsentInv /\ [Next]_vars => ConsentInv'
<1> SUFFICES ASSUME ConsentInv, [Next]_vars PROVE ConsentInv'
  OBVIOUS
<1> DEFINE Pages == \/ UNCHANGED vars \/ Elapse
                    \/ \E l \in Links : IssueTap(l) \/ Begin(l) \/ Reload(l)
<1>1. CASE Pages
  <2>1. UNCHANGED <<calm, spent, stored, agreed, devices, call, evidence>>
    BY <1>1 DEF vars, tables, devices, Elapse, IssueTap, Begin, Reload
  <2>2. DOMAIN agreed' = Links
    BY <2>1 DEF ConsentInv, Shape
  <2> QED
    BY <2>1, <2>2, QuietKeeps
<1>2. CASE Forget
  BY <1>2, ForgetKeeps
<1>3. ASSUME NEW c \in Credentials, NEW l \in Links, Create(c, l) \/ GetSigned(c, l)
      PROVE  ConsentInv'
  BY <1>3, SignKeeps
<1>4. ASSUME NEW w \in Workers, NEW l \in Links, NEW r \in signed, NEW own \in BOOLEAN,
             FinishRead(w, l, r, own)
      PROVE  ConsentInv'
  BY <1>4, FinishReadKeeps
<1>5. ASSUME NEW w \in Workers, NEW l \in Links, NEW m \in {"upi", "cod"}, TapRead(w, l, m)
      PROVE  ConsentInv'
  BY <1>5, TapReadKeeps
<1>6. ASSUME NEW w \in Workers,
             FinishPut(w) \/ FinishSpend(w) \/ FinishRemember(w) \/ TapSpend(w) \/ TapTake(w)
               \/ TapDecide(w) \/ Die(w)
      PROVE  ConsentInv'
  BY <1>6, FinishPutKeeps, FinishSpendKeeps, FinishRememberKeeps, TapSpendKeeps, TapTakeKeeps,
     TapDecideKeeps, DieKeeps
<1> QED
  BY <1>1, <1>2, <1>3, <1>4, <1>5, <1>6 DEF Next

LEMMA ConsentInvariant == Spec => []ConsentInv
BY InitConsent, StepKeeps, PTL DEF Spec

(* Nobody is taken to have agreed to what no device of theirs signed        *)
(* (passkey.py:11, :507, checkout.py:448-476).                              *)
THEOREM AgreementIsSigned == Spec => []ConsentWasSigned
<1>1. ConsentInv => ConsentWasSigned
  BY DEF ConsentInv
<1> QED
  BY <1>1, ConsentInvariant, PTL

-----------------------------------------------------------------------------
(* What a step may never do. *)

LEMMA EvidenceKept ==
    ASSUME ConsentInv, [Next]_vars, NEW l \in Links, evidence[l] # None
    PROVE  evidence'[l] = evidence[l]
<1>1. \/ evidence' = evidence
      \/ \E w \in Workers : call[w].at = "gate" /\ \E a : evidence' = [evidence EXCEPT ![L(w)] = a]
  BY DEF Next, vars, tables, devices, Elapse, IssueTap, Begin, Reload, Forget, Create, GetSigned,
     Sign, FinishRead, FinishPut, FinishSpend, FinishRemember, TapRead, TapSpend, TapTake,
     TapDecide, Die
<1> QED
  BY <1>1 DEF ConsentInv, Shape, OneDecides, Holding

(* The table of credentials is written by the sweep and by a finish alone.  *)
LEMMA StoredMoves ==
    ASSUME [Next]_vars
    PROVE  \/ stored' = stored \/ Forget
           \/ \E w \in Workers : FinishPut(w)
BY DEF Next, vars, tables, devices, Elapse, IssueTap, Begin, Reload, Create, GetSigned,
   Sign, FinishRead, FinishSpend, FinishRemember, TapRead, TapSpend, TapTake,
   TapDecide, Die

(* A finish that is in the table got there by its put.                      *)
LEMMA SpendIsPut ==
    ASSUME ConsentInv, [Next]_vars, NEW w \in Workers,
           call[w].at = "verify", call'[w].at = "spend"
    PROVE  FinishPut(w)
<1>0. /\ DOMAIN call = Workers /\ \A v \in Workers : "at" \in DOMAIN call[v]
      /\ Idle.at = "idle"
  BY DEF ConsentInv, Shape, Idle
<1>1. call' # call
  OBVIOUS
<1>2. PICK v \in Workers :
        \/ FinishPut(v) \/ FinishSpend(v) \/ FinishRemember(v) \/ TapSpend(v) \/ TapTake(v)
        \/ TapDecide(v) \/ Die(v)
        \/ \E l \in Links, m \in {"upi", "cod"} : TapRead(v, l, m)
        \/ \E l \in Links, r \in signed, own \in BOOLEAN : FinishRead(v, l, r, own)
  BY <1>1 DEF Next, vars, Elapse, IssueTap, Begin, Reload, Forget, Create, GetSigned, Sign
<1>3. v = w
  BY <1>0, <1>2 DEF FinishPut, FinishSpend, FinishRemember, TapSpend, TapTake, TapDecide, Die,
     TapRead, FinishRead, Drop, Goto
<1> QED
  BY <1>0, <1>2, <1>3 DEF FinishSpend, FinishRemember, TapSpend, TapTake, TapDecide, Die,
     TapRead, FinishRead, Busy, Drop, Goto

LEMMA PutMovesForward ==
    ASSUME ConsentInv, calm, NEW w \in Workers, FinishPut(w)
    PROVE  /\ \A c \in Credentials :
                stored'[c] >= stored[c]
                  \/ (call[w].at = "verify" /\ R(w).make /\ R(w).cred = c)
           /\ (call'[w].at = "spend" /\ ~R(w).make /\ R(w).cred \in Counting) =>
                stored'[R(w).cred] > stored[R(w).cred]
<1> DEFINE r == R(w)
<1>1. /\ call[w].at = "verify" /\ r \in signed /\ r.cred \in Credentials /\ r.count \in Int
      /\ stored \in [Credentials -> Int] /\ call[w].count = stored[r.cred]
      /\ (~r.make /\ r.cred \in Counting) => r.count > 0
  BY DEF FinishPut, ConsentInv, Shape, Calm, Counted
<1>2. CASE ~Verifies(w)
  <2>1. stored' = stored /\ call'[w].at # "spend"
    BY <1>1, <1>2 DEF FinishPut, Drop, Idle, ConsentInv, Shape
  <2> QED
    BY <1>1, <2>1
<1>3. CASE Verifies(w)
  <2>1. stored' = [stored EXCEPT ![r.cred] = r.count]
    BY <1>3 DEF FinishPut, PutCredential
  <2>2. ~r.make => r.count > stored[r.cred] \/ (r.count = 0 /\ stored[r.cred] = 0)
    BY <1>1, <1>3 DEF Verifies
  <2> HIDE DEF r
  <2>3. \A c \in Credentials : stored'[c] = IF c = r.cred THEN r.count ELSE stored[c]
    BY <1>1, <2>1
  <2>4. \A c \in Credentials : stored[c] \in Int
    BY <1>1
  <2> QED
    BY <1>1, <2>2, <2>3, <2>4 DEF r
<1> QED
  BY <1>2, <1>3

(* A link is decided once (tokens.py:89).  Where requests do not overlap, a *)
(* stored count is lowered by a create() put again and by nothing else, and *)
(* an assertion of a device that counts is taken only where it raises it    *)
(* (passkey.py:279).                                                        *)
THEOREM AnswersStand == Spec => NoAnswerTurnsBack
<1>1. ConsentInv /\ [Next]_vars => [\A l \in Links : evidence[l] # None => evidence'[l] = evidence[l]]_vars
  BY EvidenceKept
<1> DEFINE Forward ==
             calm =>
               /\ \A c \in Credentials :
                    (stored[c] # -1 /\ stored'[c] # -1 /\ stored'[c] < stored[c]) =>
                        \E w \in Workers : call[w].at = "verify" /\ R(w).make /\ R(w).cred = c
               /\ \A w \in Workers :
                    (call[w].at = "verify" /\ call'[w].at = "spend" /\ ~R(w).make
                       /\ R(w).cred \in Counting) =>
                        stored'[R(w).cred] > stored[R(w).cred]
<1>2. ConsentInv /\ [Next]_vars => [Forward]_vars
  <2> SUFFICES ASSUME ConsentInv, [Next]_vars, calm PROVE Forward
    OBVIOUS
  <2>0. stored \in [Credentials -> Int] /\ ConsentInv'
    BY StepKeeps DEF ConsentInv, Shape
  <2>1. ASSUME NEW c \in Credentials, stored[c] # -1, stored'[c] # -1, stored'[c] < stored[c]
        PROVE  \E w \in Workers : call[w].at = "verify" /\ R(w).make /\ R(w).cred = c
    <3>1. stored[c] \in Int /\ stored'[c] \in Int
      BY <2>0 DEF ConsentInv, Shape
    <3>2. CASE stored' = stored
      BY <2>1, <3>1, <3>2
    <3>3. CASE Forget
      <4>1. stored'[c] = stored[c] \/ stored'[c] = -1
        BY <3>3 DEF Forget
      <4> QED
        BY <2>1, <3>1, <4>1
    <3>4. ASSUME NEW w \in Workers, FinishPut(w)
          PROVE  call[w].at = "verify" /\ R(w).make /\ R(w).cred = c
      <4>1. stored'[c] >= stored[c] \/ (call[w].at = "verify" /\ R(w).make /\ R(w).cred = c)
        BY <3>4, PutMovesForward
      <4> QED
        BY <2>1, <3>1, <4>1
    <3> QED
      BY <3>2, <3>3, <3>4, StoredMoves
  <2>2. ASSUME NEW w \in Workers, call[w].at = "verify", call'[w].at = "spend", ~R(w).make,
               R(w).cred \in Counting
        PROVE  stored'[R(w).cred] > stored[R(w).cred]
    BY <2>2, SpendIsPut, PutMovesForward
  <2> QED
    BY <2>1, <2>2
<1> QED
  BY <1>1, <1>2, ConsentInvariant, PTL DEF Spec, NoAnswerTurnsBack, EvidenceStays,
     AssertionsMoveForward

-----------------------------------------------------------------------------
(* A ceremony halfway done. *)

(* One request at a time: a page whose own response is being looked at      *)
(* waits for no device.                                                     *)
Waiting ==
    /\ DOMAIN page = Links /\ DOMAIN age = Links
    /\ \A w \in Workers :
         call[w].at \in {"verify", "spend", "remember"} => "own" \in DOMAIN call[w]
    /\ calm =>
         /\ \A w \in Workers : (call[w].at \in {"verify", "spend", "remember"} /\ call[w].own) =>
              page[L(w)] \notin Prompts
         /\ \A l \in Links :
              (page[l] \in Prompts /\ age[l] # "old" /\ l \notin answered) => l \in challenge

LEMMA WaitingKeeps ==
    ASSUME ConsentInv, Waiting, [Next]_vars
    PROVE  Waiting'
<1>0. /\ DOMAIN call = Workers /\ DOMAIN page = Links
      /\ Idle.at = "idle" /\ "posting" \notin Prompts /\ "idle" \notin Prompts
      /\ \A v \in Workers : "at" \in DOMAIN call[v] /\ (call[v].at # "idle" => L(v) \in Links)
  BY DEF ConsentInv, Shape, Waiting, Idle, Prompts
<1>1. ASSUME Free, calm PROVE \A w \in Workers : call[w].at = "idle"
  BY <1>1 DEF Free, Busy, ConsentInv, Shape
<1>2. CASE UNCHANGED vars
  BY <1>2 DEF Waiting, vars, tables, L
<1>3. ASSUME NEW l \in Links, IssueTap(l) \/ Begin(l) \/ Reload(l)
      PROVE  Waiting'
  <2>1. CASE IssueTap(l)
    BY <1>0, <2>1 DEF Waiting, IssueTap, L
  <2>2. CASE Begin(l)
    BY <1>0, <1>1, <2>2 DEF Waiting, Begin, L
  <2>3. CASE Reload(l)
    BY <1>0, <1>1, <2>3 DEF Waiting, Reload, tables, L
  <2> QED
    BY <1>3, <2>1, <2>2, <2>3
<1>4. ASSUME NEW c \in Credentials, NEW l \in Links, Create(c, l) \/ GetSigned(c, l)
      PROVE  Waiting'
  <2>1. /\ page[l] \in Prompts /\ page' = [page EXCEPT ![l] = "posting"]
        /\ UNCHANGED <<calm, age, challenge, answered, call>>
    BY <1>0, <1>4 DEF Create, GetSigned, Sign, tables, Prompts
  <2> QED
    BY <1>0, <2>1 DEF Waiting, L
<1>5. CASE Elapse
  BY <1>5 DEF Waiting, Elapse, tables, L
<1>6. CASE Forget
  BY <1>0, <1>6 DEF Waiting, Forget, L
<1>7. ASSUME NEW w \in Workers, NEW l \in Links, NEW r \in signed, NEW own \in BOOLEAN,
             FinishRead(w, l, r, own)
      PROVE  Waiting'
  BY <1>0, <1>7, ConsentAssumption DEF Waiting, FinishRead, tables, L, ConsentInv, Shape
<1>8. ASSUME NEW w \in Workers, FinishPut(w)
      PROVE  Waiting'
  <2>1. \/ page' = page
        \/ page' = [page EXCEPT ![L(w)] =
                      IF call[w].own /\ L(w) \in challenge THEN "assertion" ELSE @]
           /\ call'[w].at = "idle"
    BY <1>0, <1>8 DEF FinishPut, Drop
  <2>2. /\ call[w].at = "verify" /\ L(w) \in Links
        /\ UNCHANGED <<calm, age, challenge, answered>>
        /\ \A v \in Workers \ {w} : call'[v] = call[v]
        /\ call'[w].at = "idle" \/ (call'[w].at = "spend" /\ call'[w].link = L(w)
                                   /\ call'[w].own = call[w].own /\ "own" \in DOMAIN call'[w])
        /\ calm => \A v \in Workers \ {w} : call[v].at = "idle"
    <3>1. /\ call[w].at = "verify" /\ UNCHANGED <<calm, age, challenge, answered>>
          /\ Drop(w) \/ Goto(w, "spend")
      BY <1>8 DEF FinishPut
    <3>2. calm => \A v \in Workers \ {w} : call[v].at = "idle"
      BY <3>1 DEF ConsentInv, Calm
    <3>3. /\ \A v \in Workers \ {w} : call'[v] = call[v]
          /\ call'[w].at = "idle" \/ (call'[w].at = "spend" /\ call'[w].link = L(w)
                                     /\ call'[w].own = call[w].own /\ "own" \in DOMAIN call'[w])
      <4>1. CASE Drop(w)
        BY <4>1, Drops DEF ConsentInv
      <4>2. CASE Goto(w, "spend")
        <5>1. call'[w].own = call[w].own /\ "own" \in DOMAIN call'[w]
          BY <1>0, <3>1, <4>2 DEF Goto, Waiting
        <5> QED
          BY <3>1, <4>2, <5>1, Moves DEF ConsentInv, Ats
      <4> QED
        BY <3>1, <4>1, <4>2
    <3> QED
      BY <1>0, <3>1, <3>2, <3>3
  <2> QED
    BY <1>0, <2>1, <2>2 DEF Waiting, L
<1>9. ASSUME NEW w \in Workers, FinishSpend(w) \/ FinishRemember(w)
      PROVE  Waiting'
  <2>1. CASE FinishSpend(w)
    BY <1>0, <2>1 DEF Waiting, FinishSpend, Goto, L
  <2>2. CASE FinishRemember(w)
    BY <1>0, <2>2 DEF Waiting, FinishRemember, Drop, L
  <2> QED
    BY <1>9, <2>1, <2>2
<1>10. ASSUME NEW w \in Workers,
              TapSpend(w) \/ TapTake(w) \/ TapDecide(w) \/ Die(w)
                \/ \E l \in Links, m \in {"upi", "cod"} : TapRead(w, l, m)
       PROVE  Waiting'
  BY <1>0, <1>10 DEF Waiting, TapSpend, TapTake, TapDecide, TapRead, Die, tables, Drop, Goto, L
<1> QED
  BY <1>2, <1>3, <1>4, <1>5, <1>6, <1>7, <1>8, <1>9, <1>10 DEF Next

(* A ceremony that is halfway done is not refused (passkey.py:190).         *)
THEOREM CeremonyCanFinish == Spec => []HalfDoneCanFinish
<1>1. Init => Waiting
  BY DEF Init, Waiting, Idle, Prompts
<1>2. Waiting => HalfDoneCanFinish
  BY DEF Waiting, HalfDoneCanFinish
<1> QED
  BY <1>1, <1>2, WaitingKeeps, ConsentInvariant, PTL DEF Spec

-----------------------------------------------------------------------------
(* What the tables and the devices hold.  No response counts further than   *)
(* its device has, so neither does a counter that is stored.                *)

TablesInv ==
    /\ TypeOK
    /\ \A r \in signed : r.count <= made[r.cred]
    /\ \A c \in Credentials \ Counting : made[c] <= 0

LEMMA InitTables == Init => TablesInv
<1> SUFFICES ASSUME Init PROVE TablesInv
  OBVIOUS
<1>1. -1 \in -1..MaxSigns /\ -1 <= -1
  BY ConsentAssumption
<1> QED
  BY <1>1 DEF Init, TablesInv, TypeOK, Prompts

(* A device counts one further, or from zero. *)
LEMMA SignTables ==
    ASSUME TablesInv, NEW c \in Credentials, NEW l \in Links, Create(c, l) \/ GetSigned(c, l)
    PROVE  TablesInv'
<1>1. /\ made[c] \in -1..MaxSigns /\ MaxSigns \in Nat
  BY ConsentAssumption DEF TablesInv, TypeOK
<1>2. PICK n \in 0..MaxSigns, make \in BOOLEAN :
        Sign(c, l, n, make) /\ made[c] <= n /\ (c \notin Counting => n = 0)
  <2>1. CASE Create(c, l)
    <3>1. Sign(c, l, 0, TRUE) /\ made[c] = -1
      BY <2>1 DEF Create
    <3>2. 0 \in 0..MaxSigns /\ made[c] <= 0
      BY <1>1, <3>1
    <3> QED
      BY <3>1, <3>2
  <2>2. CASE GetSigned(c, l)
    <3>1. CASE Sign(c, l, made[c] + 1, FALSE) /\ made[c] < MaxSigns /\ c \in Counting
      <4>1. made[c] + 1 \in 0..MaxSigns /\ made[c] <= made[c] + 1
        BY <1>1, <3>1
      <4> QED
        BY <3>1, <4>1
    <3>2. CASE Sign(c, l, 0, FALSE) /\ c \notin Counting
      <4>1. 0 \in 0..MaxSigns /\ made[c] <= 0
        BY <1>1, <3>2 DEF TablesInv
      <4> QED
        BY <3>2, <4>1
    <3> QED
      BY <2>2, <3>1, <3>2 DEF GetSigned
  <2> QED
    BY <2>1, <2>2
<1> DEFINE r == [cred |-> c, over |-> l, count |-> n, make |-> make]
<1>3. /\ made' = [made EXCEPT ![c] = n] /\ signed' = signed \cup {r}
      /\ page' = [page EXCEPT ![l] = "posting"]
      /\ UNCHANGED <<calm, age, tables, answered>>
  BY <1>2 DEF Sign
<1>4. r \in Responses /\ r.cred = c /\ r.count = n
  BY DEF Responses
<1> HIDE DEF r
<1>5. signed' \subseteq Responses /\ answered' \subseteq Links
  BY <1>3, <1>4 DEF TablesInv, TypeOK
<1>6. made' \in [Credentials -> -1..MaxSigns]
  BY <1>1, <1>3 DEF TablesInv, TypeOK
<1>7. \A d \in Credentials : made[d] <= made'[d] /\ made[d] \in Int /\ made'[d] \in Int
  <2>1. \A d \in Credentials : made[d] \in -1..MaxSigns /\ made'[d] = IF d = c THEN n ELSE made[d]
    BY <1>3 DEF TablesInv, TypeOK
  <2> QED
    BY <1>1, <1>2, <2>1
<1>8. \A d \in Credentials : stored[d] <= made'[d]
  <2>1. \A d \in Credentials : stored[d] <= made[d] /\ stored[d] \in Int
    BY <1>1 DEF TablesInv, TypeOK
  <2> QED
    BY <1>7, <2>1
<1>9. \A s \in signed' : s.count <= made'[s.cred]
  <2>1. r.count <= made'[r.cred]
    BY <1>1, <1>3, <1>4 DEF TablesInv, TypeOK
  <2>2. \A s \in signed : s.cred \in Credentials /\ s.count \in Int /\ s.count <= made[s.cred]
    BY <1>1 DEF TablesInv, TypeOK, Responses
  <2>3. \A s \in signed : s.count <= made'[s.cred]
    BY <1>7, <2>2
  <2> QED
    BY <1>3, <2>1, <2>3
<1>10. page' \in [Links -> Prompts \cup {"idle", "posting"}]
  BY <1>3 DEF TablesInv, TypeOK
<1>11. \A d \in Credentials \ Counting : made'[d] <= 0
  BY <1>2, <1>3 DEF TablesInv, TypeOK
<1> QED
  BY <1>3, <1>5, <1>6, <1>8, <1>9, <1>10, <1>11 DEF TablesInv, TypeOK, tables

(* A step that no device takes: the tables stay within what is known.       *)
LEMMA WriteTables ==
    ASSUME TablesInv, UNCHANGED <<calm, devices>>,
           age' \in [Links -> {"none", "live", "late", "old"}],
           spent' \subseteq Links, challenge' \subseteq Links, row' \in Links \cup {None},
           stored' \in [Credentials -> Int],
           \A c \in Credentials : \/ stored'[c] = stored[c] \/ stored'[c] = -1
                                  \/ \E r \in signed : r.cred = c /\ stored'[c] = r.count,
           agreed' \in [Links -> Agreements \cup {None}],
           page' \in [Links -> Prompts \cup {"idle", "posting"}],
           answered' \subseteq Links
    PROVE  TablesInv'
<1> USE DEF devices
<1>1. /\ MaxSigns \in Nat
      /\ \A c \in Credentials : /\ stored[c] \in -1..MaxSigns /\ made[c] \in -1..MaxSigns
                                /\ stored[c] <= made[c]
      /\ \A r \in signed : r.count \in 0..MaxSigns /\ r.count <= made[r.cred]
  BY ConsentAssumption DEF TablesInv, TypeOK, Responses
<1>2. \A c \in Credentials : stored'[c] \in -1..MaxSigns /\ stored'[c] <= made[c]
  BY <1>1
<1>3. stored' \in [Credentials -> -1..MaxSigns]
  BY <1>2
<1> QED
  BY <1>1, <1>2, <1>3 DEF TablesInv, TypeOK

(* A step that writes no credential. *)
LEMMA CallTables ==
    ASSUME TablesInv, UNCHANGED <<calm, age, stored, devices>>,
           spent' \subseteq Links, challenge' \subseteq Links, row' \in Links \cup {None},
           agreed' \in [Links -> Agreements \cup {None}],
           page' \in [Links -> Prompts \cup {"idle", "posting"}],
           answered' \subseteq Links
    PROVE  TablesInv'
<1>1. stored \in [Credentials -> Int] /\ age \in [Links -> {"none", "live", "late", "old"}]
  <2>1. -1..MaxSigns \subseteq Int
    BY ConsentAssumption
  <2> QED
    BY <2>1 DEF TablesInv, TypeOK
<1> QED
  BY <1>1, WriteTables

LEMMA FinishTables ==
    ASSUME TablesInv, ConsentInv, NEW w \in Workers,
           FinishPut(w) \/ FinishSpend(w) \/ FinishRemember(w)
    PROVE  TablesInv'
<1>1. R(w) \in Responses /\ R(w) \in signed /\ L(w) \in Links
  BY DEF FinishPut, FinishSpend, FinishRemember, ConsentInv, Shape, TablesInv, TypeOK
<1>2. R(w).cred \in Credentials /\ R(w).count \in Int /\ R(w).make \in BOOLEAN
  BY <1>1, ConsentAssumption DEF Responses
<1>3. CASE FinishPut(w)
  <2>1. /\ UNCHANGED <<calm, age, spent, row, challenge, agreed, answered, devices>>
        /\ stored' = stored \/ stored' = [stored EXCEPT ![R(w).cred] = R(w).count]
        /\ page' = page \/ \E p \in Prompts : page' = [page EXCEPT ![L(w)] = p]
                        \/ page' = [page EXCEPT ![L(w)] = page[L(w)]]
    BY <1>3 DEF FinishPut, PutCredential, Prompts
  <2>2. stored \in [Credentials -> Int]
    BY DEF ConsentInv, Shape
  <2>3. /\ stored' \in [Credentials -> Int]
        /\ \A c \in Credentials : \/ stored'[c] = stored[c]
                                  \/ \E r \in signed : r.cred = c /\ stored'[c] = r.count
    <3>1. CASE stored' = stored
      BY <2>2, <3>1
    <3>2. CASE stored' = [stored EXCEPT ![R(w).cred] = R(w).count]
      BY <1>1, <1>2, <2>2, <3>2
    <3> QED
      BY <2>1, <3>1, <3>2
  <2>4. page' \in [Links -> Prompts \cup {"idle", "posting"}]
    BY <1>1, <2>1 DEF TablesInv, TypeOK
  <2> HIDE DEF Responses
  <2> QED
    BY <2>1, <2>3, <2>4, WriteTables DEF TablesInv, TypeOK
<1>4. CASE FinishSpend(w)
  <2>1. /\ UNCHANGED <<calm, age, spent, row, stored, agreed, page, devices>>
        /\ challenge' \subseteq challenge
        /\ answered' = answered \/ (answered' = answered \cup {L(w)} /\ L(w) \in Links)
    BY <1>1, <1>4 DEF FinishSpend
  <2> QED
    BY <2>1, CallTables DEF TablesInv, TypeOK
<1>5. CASE FinishRemember(w)
  <2>1. Agreement(w) \in Agreements
    BY <1>1, <1>2 DEF Agreement, Agreements
  <2>2. agreed' \in [Links -> Agreements \cup {None}]
    BY <1>5, <2>1 DEF FinishRemember, TablesInv, TypeOK
  <2>3. page' \in [Links -> Prompts \cup {"idle", "posting"}]
    <3>1. page' = [page EXCEPT ![L(w)] = "idle"] \/ page' = [page EXCEPT ![L(w)] = page[L(w)]]
      BY <1>5 DEF FinishRemember
    <3> QED
      BY <1>1, <3>1 DEF TablesInv, TypeOK
  <2>4. UNCHANGED <<calm, age, spent, row, challenge, stored, answered, devices>>
    BY <1>5 DEF FinishRemember
  <2> QED
    BY <2>2, <2>3, <2>4, CallTables DEF TablesInv, TypeOK
<1> QED
  BY <1>3, <1>4, <1>5

LEMMA TapTables ==
    ASSUME TablesInv, ConsentInv, NEW w \in Workers,
           TapSpend(w) \/ TapTake(w) \/ TapDecide(w) \/ Die(w)
    PROVE  TablesInv'
<1>1. /\ UNCHANGED <<calm, age, stored, challenge, page, answered, devices>>
      /\ spent' = spent \/ (spent' = spent \cup {L(w)} /\ L(w) \in Links)
      /\ row' = row \/ (row' = L(w) /\ L(w) \in Links)
      /\ agreed' = agreed \/ agreed' = [agreed EXCEPT ![L(w)] = None]
  BY DEF TapSpend, TapTake, TapDecide, Die, tables, ConsentInv, Shape
<1>2. agreed' \in [Links -> Agreements \cup {None}]
  BY <1>1 DEF TablesInv, TypeOK
<1> QED
  BY <1>1, <1>2, CallTables DEF TablesInv, TypeOK

(* Pages, clocks, and what begins a request. *)
LEMMA PageTables ==
    ASSUME TablesInv, NEW l \in Links,
           \/ IssueTap(l) \/ Begin(l) \/ Reload(l)
           \/ \E w \in Workers :
                \/ \E r \in signed, own \in BOOLEAN : FinishRead(w, l, r, own)
                \/ \E m \in {"upi", "cod"} : TapRead(w, l, m)
    PROVE  TablesInv'
<1>1. /\ UNCHANGED <<calm, spent, stored, agreed, devices>>
      /\ age' = age \/ age' = [age EXCEPT ![l] = "live"]
      /\ row' = row \/ row' = l
      /\ challenge' = challenge \/ challenge' = challenge \cup {l}
      /\ page' = page \/ \E p \in Prompts \cup {"idle"} : page' = [page EXCEPT ![l] = p]
      /\ answered' \subseteq answered
  BY DEF IssueTap, Begin, Reload, FinishRead, TapRead, tables, Prompts
<1>2. age' \in [Links -> {"none", "live", "late", "old"}]
  BY <1>1 DEF TablesInv, TypeOK
<1>3. page' \in [Links -> Prompts \cup {"idle", "posting"}]
  BY <1>1 DEF TablesInv, TypeOK
<1>4. answered' \subseteq Links
  BY <1>1 DEF TablesInv, TypeOK
<1>5. stored \in [Credentials -> Int]
  <2>1. -1..MaxSigns \subseteq Int
    BY ConsentAssumption
  <2> QED
    BY <2>1 DEF TablesInv, TypeOK
<1> QED
  BY <1>1, <1>2, <1>3, <1>4, <1>5, WriteTables DEF TablesInv, TypeOK

LEMMA TimeTables == ASSUME TablesInv, Elapse \/ Forget PROVE TablesInv'
<1>1. /\ UNCHANGED <<calm, spent, row, page, answered, devices>> /\ challenge' \subseteq challenge
  BY DEF Elapse, Forget, tables
<1>2. age' \in [Links -> {"none", "live", "late", "old"}]
  BY DEF Elapse, Forget, TablesInv, TypeOK
<1>3. agreed' \in [Links -> Agreements \cup {None}]
  <2>1. agreed' = agreed \/ \E gone \in SUBSET Links :
                              agreed' = [l \in Links |-> IF l \in gone THEN None ELSE agreed[l]]
    BY DEF Elapse, Forget, tables
  <2> QED
    BY <2>1 DEF TablesInv, TypeOK
<1>4. /\ stored' \in [Credentials -> Int]
      /\ \A c \in Credentials : stored'[c] = stored[c] \/ stored'[c] = -1
  <2>1. stored \in [Credentials -> Int]
    <3>1. -1..MaxSigns \subseteq Int
      BY ConsentAssumption
    <3> QED
      BY <3>1 DEF TablesInv, TypeOK
  <2>2. CASE Elapse
    BY <2>1, <2>2 DEF Elapse, tables
  <2>3. CASE Forget
    BY <2>1, <2>3 DEF Forget
  <2> QED
    BY <2>2, <2>3
<1> QED
  BY <1>1, <1>2, <1>3, <1>4, WriteTables DEF TablesInv, TypeOK

LEMMA StepTables == ConsentInv /\ TablesInv /\ [Next]_vars => TablesInv'
<1> SUFFICES ASSUME ConsentInv, TablesInv, [Next]_vars PROVE TablesInv'
  OBVIOUS
<1>1. CASE UNCHANGED vars
  BY <1>1 DEF vars, tables, devices, TablesInv, TypeOK
<1> QED
  BY <1>1, SignTables, FinishTables, TapTables, PageTables, TimeTables DEF Next

(* passkey.py:71, :83, :102, tokens.py:50: the tables hold what the code    *)
(* writes to them, and a stored count is one the device has reached.        *)
THEOREM ConsentTypes == Spec => []TypeOK
<1>1. TablesInv => TypeOK
  BY DEF TablesInv
<1> QED
  BY <1>1, InitTables, StepTables, ConsentInvariant, PTL DEF Spec
=============================================================================

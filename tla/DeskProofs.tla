------------------------------ MODULE DeskProofs ------------------------------
(***************************************************************************)
(* What the refund desk keeps for any sessions, orders, asks and amounts:  *)
(* it is a correct user of the Ledger, its queue has one open ask per      *)
(* order and resolves each once, and it approves only after a refund.      *)
(***************************************************************************)
EXTENDS MCRefundDesk, SumProofs, TLAPS

-----------------------------------------------------------------------------
(* The Ledger, for any sessions, orders and amounts, however its sessions  *)
(* interleave.                                                             *)

(* A check leaves the rows alone and hands the session an entry to insert, *)
(* forgetting its last answer.                                             *)
LEMMA PrepareEntry ==
    ASSUME TypeOK, NEW s \in Sessions, NEW kind \in LedgerKind, NEW order \in Orders,
           NEW amount \in Int, NEW ref \in RefundIds \cup ReversalIds \cup {Attempt},
           NEW closes \in BOOLEAN,
           Prepare(s, kind, order, amount, ref, closes)
    PROVE  /\ UNCHANGED <<rows, flushed>>
           /\ \E e \in Entry : writing' = [writing EXCEPT ![s] = e]
           /\ answer' = [answer EXCEPT ![s] = NoEntry]
<1> DEFINE e == [kind |-> kind, order |-> order, amount |-> amount,
                 ref |-> ref, closes |-> closes]
<1>1. e \in Entry
  BY DEF Prepare, Entry
<1> QED
  BY <1>1 DEF Prepare

(* Every write is a check of one entry. *)
LEMMA WriteEntry ==
    ASSUME TypeOK, NEW s \in Sessions, NEW order \in Orders, NEW amount \in Amounts,
           Write(s, order, amount)
    PROVE  /\ UNCHANGED <<rows, flushed>>
           /\ \E e \in Entry : writing' = [writing EXCEPT ![s] = e]
           /\ answer' = [answer EXCEPT ![s] = NoEntry]
<1> USE LedgerAssumption
<1>0. amount \in Int
  OBVIOUS
<1>1. CASE Reserve(s, order, amount)
  BY <1>0, <1>1, PrepareEntry DEF Reserve, LedgerKind
<1>2. CASE \E cod \in BOOLEAN : Capture(s, order, amount, cod)
  <2> DEFINE e == [kind |-> "CAPTURE", order |-> order, amount |-> amount,
                   ref |-> Attempt, closes |-> OpenHolds(View(s), order) > 0]
  <2>1. Prepare(s, "CAPTURE", order, amount, Attempt, OpenHolds(View(s), order) > 0)
    BY <1>2 DEF Capture
  <2>2. (OpenHolds(View(s), order) > 0) \in BOOLEAN
    OBVIOUS
  <2>3. amount \in Nat
    BY <1>0, <2>1 DEF Prepare
  <2>4. e \in Entry
    BY <2>2, <2>3 DEF Entry, LedgerKind
  <2> QED
    BY <2>1, <2>4 DEF Prepare
<1>3. CASE Release(s, order, amount)
  BY <1>0, <1>3, PrepareEntry DEF Release, LedgerKind
<1>4. CASE \E id \in RefundIds : Refund(s, order, amount, id)
  BY <1>0, <1>4, PrepareEntry DEF Refund, LedgerKind
<1>5. CASE \E id \in ReversalIds : Reversal(s, order, amount, id)
  BY <1>0, <1>5, PrepareEntry DEF Reversal, LedgerKind
<1> QED
  BY <1>1, <1>2, <1>3, <1>4, <1>5 DEF Write

-----------------------------------------------------------------------------
(* The inductive invariant: the types, one row per key, and every answer   *)
(* among the rows.                                                         *)
LedgerInv == TypeOK /\ KeysUnique /\ AnswersAreRows

(* An insert gives the session's unit of work the entry that was checked,  *)
(* whose key no row has, or leaves the rows alone.                         *)
LEMMA InsertFlushes ==
    ASSUME LedgerInv, NEW s \in Sessions, Insert(s)
    PROVE  /\ writing[s] \in Entry /\ writing[s] # NoEntry
           /\ writing' = [writing EXCEPT ![s] = NoEntry]
           /\ UNCHANGED rows
           /\ \/ /\ UNCHANGED flushed
                 /\ \E e \in View(s) : /\ KeyOf(e) = KeyOf(writing[s])
                                       /\ answer' = [answer EXCEPT ![s] = e]
              \/ /\ flushed' = [flushed EXCEPT ![s] = @ \cup {writing[s]}]
                 /\ \A e \in Written : KeyOf(e) # KeyOf(writing[s])
                 /\ answer' = [answer EXCEPT ![s] = writing[s]]
<1> DEFINE w == writing[s]
           taken == {e \in View(s) : KeyOf(e) = KeyOf(w)}
<1>1. w \in Entry /\ w # NoEntry
  BY DEF Insert, LedgerInv, TypeOK
<1>2. CASE taken = {}
  <2>1. \A e \in Written : KeyOf(e) # KeyOf(w)
    BY <1>2 DEF Insert, Written, View
  <2> QED
    BY <1>1, <1>2, <2>1 DEF Insert
<1>3. CASE taken # {}
  BY <1>1, <1>3 DEF Insert
<1> QED
  BY <1>2, <1>3

LEMMA InsertKeeps ==
    ASSUME LedgerInv, NEW s \in Sessions, Insert(s)
    PROVE  LedgerInv'
<1> PICK w : w = writing[s]
  OBVIOUS
<1>1. w \in Entry /\ writing' = [writing EXCEPT ![s] = NoEntry] /\ UNCHANGED rows
  BY InsertFlushes
<1>2. CASE /\ flushed' = [flushed EXCEPT ![s] = @ \cup {w}]
           /\ \A e \in Written : KeyOf(e) # KeyOf(w)
           /\ answer' = [answer EXCEPT ![s] = w]
  <2>1. TypeOK'
    BY <1>1, <1>2 DEF LedgerInv, TypeOK
  <2>2. Written' = Written \cup {w}
    BY <1>1, <1>2 DEF LedgerInv, TypeOK, Written
  <2>3. KeysUnique'
    BY <1>2, <2>2 DEF LedgerInv, KeysUnique, KeyOf
  <2>4. AnswersAreRows'
    BY <1>1, <1>2 DEF LedgerInv, TypeOK, AnswersAreRows, View
  <2> QED
    BY <2>1, <2>3, <2>4 DEF LedgerInv
<1>3. CASE /\ UNCHANGED flushed
           /\ \E e \in View(s) : answer' = [answer EXCEPT ![s] = e]
  <2>1. PICK e \in View(s) : answer' = [answer EXCEPT ![s] = e]
    BY <1>3
  <2>2. TypeOK'
    BY <1>1, <1>3, <2>1 DEF LedgerInv, TypeOK, View
  <2>3. KeysUnique'
    BY <1>1, <1>3 DEF LedgerInv, KeysUnique, KeyOf, Written
  <2>4. AnswersAreRows'
    BY <1>1, <1>3, <2>1 DEF LedgerInv, TypeOK, AnswersAreRows, View
  <2> QED
    BY <2>2, <2>3, <2>4 DEF LedgerInv
<1> QED
  BY <1>2, <1>3, InsertFlushes

(* A commit makes the unit's rows everybody's; a rollback takes them away, *)
(* and with them what the session was answered.                            *)
LEMMA CommitKeeps ==
    ASSUME LedgerInv, NEW s \in Sessions, Commit(s)
    PROVE  LedgerInv'
<1>1. TypeOK'
  BY DEF Commit, View, LedgerInv, TypeOK
<1>2. Written' \subseteq Written
  BY DEF Commit, View, LedgerInv, TypeOK, Written
<1>3. AnswersAreRows'
  BY DEF Commit, View, LedgerInv, TypeOK, AnswersAreRows
<1> QED
  BY <1>1, <1>2, <1>3 DEF LedgerInv, KeysUnique, KeyOf

LEMMA RollbackKeeps ==
    ASSUME LedgerInv, NEW s \in Sessions, Rollback(s)
    PROVE  LedgerInv'
<1>1. TypeOK'
  BY DEF Rollback, LedgerInv, TypeOK
<1>2. Written' \subseteq Written
  BY DEF Rollback, LedgerInv, TypeOK, Written
<1>3. AnswersAreRows'
  BY DEF Rollback, View, LedgerInv, TypeOK, AnswersAreRows
<1> QED
  BY <1>1, <1>2, <1>3 DEF LedgerInv, KeysUnique, KeyOf

LEMMA NextKeeps == LedgerInv /\ [Next]_vars => LedgerInv'
<1> SUFFICES ASSUME LedgerInv, [Next]_vars PROVE LedgerInv'
  OBVIOUS
<1>1. ASSUME NEW s \in Sessions, NEW order \in Orders, NEW amount \in Amounts,
             Write(s, order, amount)
      PROVE  LedgerInv'
  <2>1. PICK e \in Entry : /\ UNCHANGED <<rows, flushed>>
                           /\ writing' = [writing EXCEPT ![s] = e]
                           /\ answer' = [answer EXCEPT ![s] = NoEntry]
    BY <1>1, WriteEntry DEF LedgerInv
  <2> QED
    BY <2>1 DEF LedgerInv, TypeOK, KeysUnique, KeyOf, AnswersAreRows, Written, View
<1>2. ASSUME NEW s \in Sessions, Abandon(s)
      PROVE  LedgerInv'
  BY <1>2 DEF Abandon, LedgerInv, TypeOK, KeysUnique, KeyOf, AnswersAreRows, Written, View
<1>3. CASE UNCHANGED vars
  BY <1>3 DEF vars, LedgerInv, TypeOK, KeysUnique, KeyOf, AnswersAreRows, Written, View
<1> QED
  BY <1>1, <1>2, <1>3, InsertKeeps, CommitKeeps, RollbackKeeps DEF Next

LEMMA LedgerCorrect == Spec => []LedgerInv
<1>1. Init => LedgerInv
  BY DEF Init, LedgerInv, TypeOK, KeysUnique, AnswersAreRows, Written
<1> QED
  BY <1>1, NextKeeps, PTL DEF Spec

(* Of sessions that race one key one writes the row, and every answer a     *)
(* write returned is a row of the ledger, the winner's where the key was    *)
(* taken: for as long as its unit of work stands, and for good once that is *)
(* committed.                                                               *)
THEOREM LedgerStands == Spec => []WritesStand
<1>1. LedgerInv => WritesStand
  BY DEF LedgerInv, WritesStand
<1> QED
  BY <1>1, LedgerCorrect, PTL

-----------------------------------------------------------------------------
(* The position of an order, for any rows. *)

AmountOf(E) == [e \in E |-> e.amount]

LEMMA SumOfIs == ASSUME NEW E PROVE SumOf(E) = SumFunctionOnSet(AmountOf(E), E)
BY DEF SumOf, AmountOf, SumFunction

(* A sum of entries is not below nought, and not below any of them.        *)
LEMMA SumOfNat ==
    ASSUME NEW E \in SUBSET Entry, IsFiniteSet(E)
    PROVE  SumOf(E) \in Nat /\ \A e \in E : e.amount <= SumOf(E)
<1> DEFINE f == AmountOf(E)
<1>1. \A e \in E : f[e] = e.amount /\ f[e] \in Nat
  BY DEF AmountOf, Entry
<1> HIDE DEF f
<1>2. SumFunctionOnSet(f, E) \in Nat /\ \A e \in E : f[e] <= SumFunctionOnSet(f, E)
  BY <1>1, SumNat
<1> QED
  BY <1>1, <1>2, SumOfIs DEF f

(* One entry more. *)
LEMMA SumOfMore ==
    ASSUME NEW E \in SUBSET Entry, IsFiniteSet(E), NEW w \in Entry, w \notin E
    PROVE  SumOf(E \cup {w}) = SumOf(E) + w.amount
<1> DEFINE f == AmountOf(E)
           h == AmountOf(E \cup {w})
<1>1. /\ \A e \in E : f[e] = e.amount /\ f[e] \in Int
      /\ \A e \in E \cup {w} : h[e] = e.amount /\ h[e] \in Int
      /\ h[w] = w.amount
  BY DEF AmountOf, Entry
<1> HIDE DEF f, h
<1>2. SumFunctionOnSet(h, E \cup {w}) = h[w] + SumFunctionOnSet(h, E)
      /\ SumFunctionOnSet(h, E) \in Int
  BY <1>1, SumMore
<1>3. SumFunctionOnSet(f, E) = SumFunctionOnSet(h, E)
  BY <1>1, SumSame
<1>4. SumOf(E) = SumFunctionOnSet(f, E) /\ SumOf(E \cup {w}) = SumFunctionOnSet(h, E \cup {w})
  BY SumOfIs DEF f, h
<1>5. w.amount \in Int
  BY <1>1
<1> QED
  BY <1>1, <1>2, <1>3, <1>4, <1>5

OfKind(book, o, kind) == {e \in book : e.order = o /\ e.kind = kind}
Closers(book, o)      == {e \in book : e.order = o /\ e.closes}

LEMMA TotalsNat ==
    ASSUME NEW book \in SUBSET Entry, IsFiniteSet(book), NEW o, NEW kind
    PROVE  /\ Total(book, o, kind) \in Nat
           /\ \A e \in OfKind(book, o, kind) : e.amount <= Total(book, o, kind)
           /\ Closing(book, o) \in Nat
<1>1. /\ OfKind(book, o, kind) \in SUBSET Entry /\ IsFiniteSet(OfKind(book, o, kind))
      /\ Closers(book, o) \in SUBSET Entry /\ IsFiniteSet(Closers(book, o))
  BY FS_Subset DEF OfKind, Closers
<1> QED
  BY <1>1, SumOfNat DEF Total, Closing, OfKind, Closers

(* What a new row does to the position. *)
LEMMA TotalsMore ==
    ASSUME NEW book \in SUBSET Entry, IsFiniteSet(book), NEW w \in Entry, w \notin book,
           NEW o, NEW kind, NEW more, more = book \cup {w}
    PROVE  /\ Total(more, o, kind) = Total(book, o, kind)
                                  + (IF w.order = o /\ w.kind = kind THEN w.amount ELSE 0)
           /\ Closing(more, o) = Closing(book, o)
                                  + (IF w.order = o /\ w.closes THEN w.amount ELSE 0)
<1> DEFINE K == OfKind(book, o, kind)
           C == Closers(book, o)
<1>0. /\ K \in SUBSET Entry /\ IsFiniteSet(K) /\ C \in SUBSET Entry /\ IsFiniteSet(C)
      /\ w \notin K /\ w \notin C
      /\ Total(book, o, kind) \in Nat /\ Closing(book, o) \in Nat
  BY FS_Subset, TotalsNat DEF OfKind, Closers
<1>1. /\ Total(book, o, kind) = SumOf(K) /\ Closing(book, o) = SumOf(C)
      /\ Total(more, o, kind) = SumOf(OfKind(more, o, kind))
      /\ Closing(more, o) = SumOf(Closers(more, o))
  BY DEF Total, Closing, OfKind, Closers
<1>2. OfKind(more, o, kind) = IF w.order = o /\ w.kind = kind THEN K \cup {w} ELSE K
  BY DEF OfKind
<1>3. Closers(more, o) = IF w.order = o /\ w.closes THEN C \cup {w} ELSE C
  BY DEF Closers
<1> HIDE DEF K, C
<1>4. Total(more, o, kind) = Total(book, o, kind)
                               + (IF w.order = o /\ w.kind = kind THEN w.amount ELSE 0)
  BY <1>0, <1>1, <1>2, SumOfMore
<1>5. Closing(more, o) = Closing(book, o) + (IF w.order = o /\ w.closes THEN w.amount ELSE 0)
  BY <1>0, <1>1, <1>3, SumOfMore
<1> QED
  BY <1>4, <1>5

-----------------------------------------------------------------------------
(* What a session found when it checked, as far as no other session can    *)
(* take it away: the one RESERVE of the order, whose amount bounds what is *)
(* open, because a second one would carry the same key.                    *)
Checked(book, e) ==
    /\ e.kind = "RESERVE" => e.ref = Attempt /\ ~e.closes
    /\ e.closes => \E r \in book : r.kind = "RESERVE" /\ r.order = e.order /\ r.amount >= e.amount

HoldInv ==
    /\ LedgerInv
    /\ IsFiniteSet(rows)
    /\ \A e \in rows : Checked(rows, e)
    /\ \A s \in Sessions :
          /\ IsFiniteSet(flushed[s])
          /\ \A e \in flushed[s] : Checked(View(s), e)
          /\ writing[s] # NoEntry => Checked(View(s), writing[s])

(* What is checked against some rows is checked against more. *)
LEMMA CheckedStays ==
    ASSUME NEW book, NEW more, book \subseteq more, NEW e, Checked(book, e)
    PROVE  Checked(more, e)
BY DEF Checked

(* What a session reads. *)
LEMMA ViewIs ==
    ASSUME HoldInv, NEW s \in Sessions
    PROVE  /\ View(s) \in SUBSET Entry /\ IsFiniteSet(View(s))
           /\ \A e \in View(s) : Checked(View(s), e)
           /\ \A d, e \in View(s) : KeyOf(d) = KeyOf(e) => d = e
<1>1. View(s) \in SUBSET Entry /\ IsFiniteSet(View(s)) /\ View(s) \subseteq Written
  BY FS_Union DEF HoldInv, LedgerInv, TypeOK, View, Written
<1>2. \A e \in View(s) : Checked(View(s), e)
  BY CheckedStays DEF HoldInv, View
<1> QED
  BY <1>1, <1>2 DEF HoldInv, LedgerInv, KeysUnique

(* An open hold is one row, and is not more than it.                       *)
LEMMA OpenIsReserved ==
    ASSUME HoldInv, NEW s \in Sessions, NEW o, OpenHolds(View(s), o) > 0
    PROVE  \E r \in View(s) : /\ r.kind = "RESERVE" /\ r.order = o
                              /\ r.amount >= OpenHolds(View(s), o)
<1> PICK book : book = View(s)
  OBVIOUS
<1> DEFINE R == OfKind(book, o, "RESERVE")
<1>0. /\ IsFiniteSet(R) /\ R \in SUBSET Entry
      /\ Total(book, o, "RESERVE") \in Nat /\ Closing(book, o) \in Nat
      /\ \A e \in R : e \in book /\ e.kind = "RESERVE" /\ e.order = o /\ e.ref = Attempt
  BY FS_Subset, TotalsNat, ViewIs DEF OfKind, Checked
<1>1. Total(book, o, "RESERVE") = SumOf(R)
  BY DEF Total, OfKind
<1>2. \A d, e \in R : d = e
  BY <1>0, ViewIs DEF KeyOf
<1>3. CASE R = {}
  <2>1. SumOf({}) = 0
    BY SumOfIs, SumEmpty
  <2> QED
    BY <1>0, <1>1, <1>3, <2>1 DEF OpenHolds
<1>4. CASE R # {}
  <2>1. PICK r \in R : R = {} \cup {r}
    BY <1>2, <1>4
  <2>2. r \in Entry /\ r.amount \in Nat
    BY <1>0 DEF Entry
  <2>3. SumOf({} \cup {r}) = SumOf({}) + r.amount /\ SumOf({}) = 0
    BY <2>2, SumOfMore, SumOfIs, SumEmpty, FS_EmptySet
  <2>4. OpenHolds(book, o) <= r.amount
    <3>1. Total(book, o, "RESERVE") = r.amount
      <4>1. SumOf(R) = SumOf({} \cup {r})
        BY <2>1
      <4> HIDE DEF R
      <4> QED
        BY <1>1, <2>2, <2>3, <4>1
    <3> QED
      BY <1>0, <2>2, <3>1 DEF OpenHolds
  <2>5. OpenHolds(book, o) \in Int
    BY <1>0 DEF OpenHolds
  <2> QED
    BY <1>0, <2>1, <2>2, <2>4, <2>5
<1> QED
  BY <1>3, <1>4

(* A check looks at the money it is about. *)
LEMMA WriteChecks ==
    ASSUME HoldInv, NEW s \in Sessions, NEW order \in Orders, NEW amount \in Amounts,
           Write(s, order, amount)
    PROVE  \E e \in Entry : /\ writing' = [writing EXCEPT ![s] = e]
                            /\ Checked(View(s), e)
                            /\ e.closes => e.amount <= OpenHolds(View(s), e.order)
                            /\ e.kind = "REFUND" => e.amount <= Refundable(View(s), e.order)
<1> USE LedgerAssumption
<1>0. amount \in Int
  OBVIOUS
<1> DEFINE E(kind, ref, closes) == [kind |-> kind, order |-> order, amount |-> amount,
                                    ref |-> ref, closes |-> closes]
<1>t. OpenHolds(View(s), order) \in Int
  BY TotalsNat, ViewIs DEF OpenHolds
<1>1. CASE Reserve(s, order, amount)
  <2>1. Prepare(s, "RESERVE", order, amount, Attempt, FALSE)
    BY <1>1 DEF Reserve
  <2>2. E("RESERVE", Attempt, FALSE) \in Entry
    BY <1>0, <2>1 DEF Prepare, Entry, LedgerKind
  <2>3. Checked(View(s), E("RESERVE", Attempt, FALSE))
    BY DEF Checked
  <2> QED
    BY <2>1, <2>2, <2>3 DEF Prepare
<1>2. ASSUME NEW kind \in {"CAPTURE", "RELEASE"}, NEW closes \in BOOLEAN,
             closes => OpenHolds(View(s), order) > 0 /\ amount <= OpenHolds(View(s), order),
             Prepare(s, kind, order, amount, Attempt, closes)
      PROVE  \E e \in Entry : /\ writing' = [writing EXCEPT ![s] = e]
                              /\ Checked(View(s), e)
                              /\ e.closes => e.amount <= OpenHolds(View(s), e.order)
                              /\ e.kind = "REFUND" => e.amount <= Refundable(View(s), e.order)
  <2> DEFINE e == E(kind, Attempt, closes)
  <2>1. e \in Entry
    BY <1>0, <1>2 DEF Prepare, Entry, LedgerKind
  <2>2. ASSUME closes
        PROVE  \E r \in View(s) : r.kind = "RESERVE" /\ r.order = order /\ r.amount >= amount
    <3>1. PICK r \in View(s) : r.kind = "RESERVE" /\ r.order = order /\ r.amount >= OpenHolds(View(s), order)
      BY <1>2, <2>2, OpenIsReserved
    <3>2. r.amount \in Int
      BY ViewIs DEF Entry
    <3> QED
      BY <1>0, <1>2, <1>t, <2>2, <3>1, <3>2
  <2>3. Checked(View(s), e)
    BY <2>2 DEF Checked
  <2> QED
    BY <1>2, <2>1, <2>3 DEF Prepare
<1>3. CASE \E cod \in BOOLEAN : Capture(s, order, amount, cod)
  <2>1. (OpenHolds(View(s), order) > 0) \in BOOLEAN
    OBVIOUS
  <2> QED
    BY <1>2, <1>3, <2>1 DEF Capture
<1>4. CASE Release(s, order, amount)
  BY <1>2, <1>4 DEF Release
<1>5. CASE \E id \in RefundIds : Refund(s, order, amount, id)
  <2>1. PICK id \in RefundIds : Refund(s, order, amount, id)
    BY <1>5
  <2>2. E("REFUND", id, FALSE) \in Entry
    BY <1>0, <2>1 DEF Refund, Prepare, Entry, LedgerKind
  <2> QED
    BY <2>1, <2>2 DEF Refund, Prepare, Checked
<1>6. CASE \E id \in ReversalIds : Reversal(s, order, amount, id)
  <2>1. PICK id \in ReversalIds : Reversal(s, order, amount, id)
    BY <1>6
  <2>2. E("REVERSAL", id, FALSE) \in Entry
    BY <1>0, <2>1 DEF Reversal, Prepare, Entry, LedgerKind
  <2> QED
    BY <2>1, <2>2 DEF Reversal, Prepare, Checked
<1> QED
  BY <1>1, <1>3, <1>4, <1>5, <1>6 DEF Write

(* An insert leaves the rows alone, and adds the entry that was checked to  *)
(* its own unit of work, or nothing.                                       *)
LEMMA InsertAdds ==
    ASSUME LedgerInv, NEW s \in Sessions, Insert(s)
    PROVE  /\ writing[s] \in Entry /\ writing[s] # NoEntry
           /\ writing' = [writing EXCEPT ![s] = NoEntry]
           /\ UNCHANGED rows
           /\ \/ UNCHANGED flushed
              \/ /\ flushed' = [flushed EXCEPT ![s] = @ \cup {writing[s]}]
                 /\ writing[s] \notin View(s)
<1>1. View(s) \subseteq Written
  BY DEF View, Written
<1> QED
  BY <1>1, InsertFlushes

(* A step that takes no row from a session's sight leaves what it checked  *)
(* as it was.                                                              *)
LEMMA SightKeeps ==
    ASSUME HoldInv, LedgerInv', NEW s \in Sessions,
           rows \subseteq rows', IsFiniteSet(rows'), \A e \in rows' : Checked(rows', e),
           NEW f \in SUBSET Entry, flushed' = [flushed EXCEPT ![s] = f], IsFiniteSet(f),
           \A e \in f : Checked(rows' \cup f, e),
           NEW w, writing' = [writing EXCEPT ![s] = w],
           w # NoEntry => Checked(rows' \cup f, w)
    PROVE  HoldInv'
<1>0. /\ flushed \in [Sessions -> SUBSET Entry]
      /\ writing \in [Sessions -> Entry \cup {NoEntry}]
  BY DEF HoldInv, LedgerInv, TypeOK
<1>1. ASSUME NEW t \in Sessions
      PROVE  /\ IsFiniteSet(flushed'[t])
             /\ \A e \in flushed'[t] : Checked(View(t)', e)
             /\ writing'[t] # NoEntry => Checked(View(t)', writing'[t])
  <2>1. CASE t = s
    <3>1. flushed'[t] = f /\ writing'[t] = w /\ View(t)' = rows' \cup f
      BY <1>0, <2>1 DEF View
    <3> QED
      BY <3>1
  <2>2. CASE t # s
    <3>1. flushed'[t] = flushed[t] /\ writing'[t] = writing[t] /\ View(t) \subseteq View(t)'
      BY <1>0, <2>2 DEF View
    <3> QED
      BY <3>1, CheckedStays DEF HoldInv
  <2> QED
    BY <2>1, <2>2
<1> QED
  BY <1>1 DEF HoldInv, Checked

LEMMA HoldKeeps == HoldInv /\ [Next]_vars => HoldInv'
<1> SUFFICES ASSUME HoldInv, [Next]_vars PROVE HoldInv'
  OBVIOUS
<1>0. /\ LedgerInv'
      /\ writing \in [Sessions -> Entry \cup {NoEntry}]
      /\ flushed \in [Sessions -> SUBSET Entry]
  BY NextKeeps DEF HoldInv, LedgerInv, TypeOK
<1>f. ASSUME NEW s \in Sessions
      PROVE  /\ flushed[s] \in SUBSET Entry /\ IsFiniteSet(flushed[s])
             /\ \A e \in flushed[s] : Checked(View(s), e)
             /\ View(s) = rows \cup flushed[s]
             /\ UNCHANGED flushed => flushed' = [flushed EXCEPT ![s] = flushed[s]]
             /\ UNCHANGED rows => /\ rows \subseteq rows' /\ IsFiniteSet(rows')
                                  /\ \A e \in rows' : Checked(rows', e)
                                  /\ rows' = rows
  BY <1>0 DEF HoldInv, View
<1>1. ASSUME NEW s \in Sessions, NEW order \in Orders, NEW amount \in Amounts,
             Write(s, order, amount)
      PROVE  HoldInv'
  <2>1. PICK e \in Entry : writing' = [writing EXCEPT ![s] = e] /\ Checked(View(s), e)
    BY <1>1, WriteChecks
  <2>2. UNCHANGED <<rows, flushed>>
    BY <1>1, WriteEntry DEF HoldInv, LedgerInv
  <2>3. /\ flushed' = [flushed EXCEPT ![s] = flushed[s]]
        /\ \A d \in flushed[s] : Checked(rows' \cup flushed[s], d)
        /\ Checked(rows' \cup flushed[s], e)
        /\ rows \subseteq rows' /\ IsFiniteSet(rows') /\ \A d \in rows' : Checked(rows', d)
    BY <1>f, <2>1, <2>2
  <2> QED
    BY <1>0, <1>f, <2>1, <2>3, SightKeeps
<1>2. ASSUME NEW s \in Sessions, Insert(s)
      PROVE  HoldInv'
  <2> PICK w : w = writing[s]
    OBVIOUS
  <2>1. /\ w \in Entry /\ w # NoEntry /\ Checked(View(s), w)
        /\ writing' = [writing EXCEPT ![s] = NoEntry] /\ UNCHANGED rows
    BY <1>2, InsertAdds DEF HoldInv
  <2>2. CASE UNCHANGED flushed
    <3>1. /\ flushed' = [flushed EXCEPT ![s] = flushed[s]]
          /\ \A e \in flushed[s] : Checked(rows' \cup flushed[s], e)
          /\ rows \subseteq rows' /\ IsFiniteSet(rows') /\ \A e \in rows' : Checked(rows', e)
      BY <1>f, <2>1, <2>2
    <3> QED
      BY <1>0, <1>f, <2>1, <3>1, SightKeeps
  <2>3. CASE flushed' = [flushed EXCEPT ![s] = @ \cup {w}]
    <3> DEFINE f == flushed[s] \cup {w}
    <3>1. f \in SUBSET Entry /\ IsFiniteSet(f) /\ flushed' = [flushed EXCEPT ![s] = f]
      BY <1>f, <2>1, <2>3, FS_AddElement
    <3>2. \A e \in f : Checked(rows' \cup f, e)
      <4>1. View(s) \subseteq rows' \cup f
        BY <1>f, <2>1
      <4>2. \A e \in f : Checked(View(s), e)
        BY <1>f, <2>1
      <4> HIDE DEF f
      <4> QED
        BY <4>1, <4>2, CheckedStays
    <3> HIDE DEF f
    <3> QED
      BY <1>0, <1>f, <2>1, <3>1, <3>2, SightKeeps
  <2> QED
    BY <1>2, <2>2, <2>3, InsertAdds DEF HoldInv
<1>3. ASSUME NEW s \in Sessions, Commit(s)
      PROVE  HoldInv'
  <2>1. /\ rows' = View(s) /\ flushed' = [flushed EXCEPT ![s] = {}]
        /\ writing' = [writing EXCEPT ![s] = NoEntry]
    BY <1>0, <1>3 DEF Commit
  <2>2. rows \subseteq rows' /\ IsFiniteSet(rows') /\ \A e \in rows' : Checked(rows', e)
    <3>1. rows \subseteq View(s) /\ IsFiniteSet(View(s)) /\ \A e \in View(s) : Checked(View(s), e)
      BY <1>f, ViewIs
    <3> QED
      BY <2>1, <3>1
  <2>3. {} \in SUBSET Entry /\ IsFiniteSet({})
    BY FS_EmptySet
  <2> QED
    BY <1>0, <2>1, <2>2, <2>3, SightKeeps
<1>4. ASSUME NEW s \in Sessions, Rollback(s)
      PROVE  HoldInv'
  <2>1. {} \in SUBSET Entry /\ IsFiniteSet({})
    BY FS_EmptySet
  <2> QED
    BY <1>0, <1>4, <1>f, <2>1, SightKeeps DEF Rollback
<1>5. ASSUME NEW s \in Sessions, Abandon(s)
      PROVE  HoldInv'
  BY <1>0, <1>5, <1>f, SightKeeps DEF Abandon
<1>6. CASE UNCHANGED vars
  BY <1>0, <1>6 DEF vars, HoldInv, Checked, View
<1> QED
  BY <1>1, <1>2, <1>3, <1>4, <1>5, <1>6 DEF Next

LEMMA HoldCorrect == Spec => []HoldInv
<1>1. Init => HoldInv
  BY FS_EmptySet DEF Init, HoldInv, LedgerInv, TypeOK, KeysUnique, AnswersAreRows, Written
<1> QED
  BY <1>1, HoldKeeps, PTL DEF Spec

(* Whatever races, a row that says it closes a hold has a hold to close,   *)
(* and is not more than it.                                                *)
THEOREM ClosingIsBacked == Spec => []ClosingNeedsReserve
<1>1. HoldInv => ClosingNeedsReserve
  BY DEF HoldInv, Checked, ClosingNeedsReserve
<1> QED
  BY <1>1, HoldCorrect, PTL

(* With one unit of work under way what a check saw is still true when its *)
(* insert lands.                                                           *)
Balanced(book) == \A o \in Orders : OpenHolds(book, o) >= 0 /\ Refundable(book, o) >= 0

Fits(book, e) ==
    /\ e.closes => e.amount <= OpenHolds(book, e.order)
    /\ e.kind = "REFUND" => e.amount <= Refundable(book, e.order)

Bounded ==
    /\ Balanced(rows)
    /\ \A s \in Sessions : /\ Balanced(View(s))
                           /\ writing[s] # NoEntry => Fits(View(s), writing[s])

(* A row that fits leaves the books in balance. *)
LEMMA FittingBalances ==
    ASSUME NEW book \in SUBSET Entry, IsFiniteSet(book), Balanced(book),
           NEW w \in Entry, w \notin book, Fits(book, w), w.kind = "RESERVE" => ~w.closes
    PROVE  Balanced(book \cup {w})
<1> PICK more : more = book \cup {w}
  OBVIOUS
<1>1. w.amount \in Nat /\ w.closes \in BOOLEAN
  BY DEF Entry
<1>2. ASSUME NEW o \in Orders
      PROVE  OpenHolds(more, o) >= 0 /\ Refundable(more, o) >= 0
  <2>1. /\ OpenHolds(book, o) = Total(book, o, "RESERVE") - Closing(book, o)
        /\ Refundable(book, o) = Total(book, o, "CAPTURE") - Total(book, o, "REFUND")
        /\ OpenHolds(book, o) >= 0 /\ Refundable(book, o) >= 0
        /\ OpenHolds(more, o) = Total(more, o, "RESERVE") - Closing(more, o)
        /\ Refundable(more, o) = Total(more, o, "CAPTURE") - Total(more, o, "REFUND")
    BY DEF OpenHolds, Refundable, Balanced
  <2>2. /\ Total(book, o, "RESERVE") \in Nat /\ Total(book, o, "CAPTURE") \in Nat
        /\ Total(book, o, "REFUND") \in Nat /\ Closing(book, o) \in Nat
    BY TotalsNat
  <2>3. /\ Total(more, o, "RESERVE") = Total(book, o, "RESERVE")
             + (IF w.order = o /\ w.kind = "RESERVE" THEN w.amount ELSE 0)
        /\ Total(more, o, "CAPTURE") = Total(book, o, "CAPTURE")
             + (IF w.order = o /\ w.kind = "CAPTURE" THEN w.amount ELSE 0)
        /\ Total(more, o, "REFUND") = Total(book, o, "REFUND")
             + (IF w.order = o /\ w.kind = "REFUND" THEN w.amount ELSE 0)
        /\ Closing(more, o) = Closing(book, o)
             + (IF w.order = o /\ w.closes THEN w.amount ELSE 0)
    BY TotalsMore
  <2>4. CASE w.order = o
    BY <1>1, <2>1, <2>2, <2>3, <2>4 DEF Fits
  <2>5. CASE w.order # o
    BY <2>1, <2>2, <2>3, <2>5
  <2> QED
    BY <2>4, <2>5
<1> QED
  BY <1>2 DEF Balanced

LEMMA BoundedKeeps ==
    ASSUME HoldInv, Bounded, OneWriter, OneWriter', [Next]_vars
    PROVE  Bounded'
<1>0. /\ TypeOK /\ writing \in [Sessions -> Entry \cup {NoEntry}]
      /\ flushed \in [Sessions -> SUBSET Entry] /\ NoEntry \notin Entry
  BY LedgerAssumption DEF HoldInv, LedgerInv, TypeOK, Entry, LedgerKind
<1>u. ASSUME NEW s \in Sessions, Unfinished(s)
      PROVE  \A t \in Sessions \ {s} : flushed[t] = {} /\ writing[t] = NoEntry
  BY <1>u DEF OneWriter, Unfinished
<1>1. ASSUME NEW s \in Sessions, NEW order \in Orders, NEW amount \in Amounts,
             Write(s, order, amount)
      PROVE  Bounded'
  <2>1. PICK e \in Entry : writing' = [writing EXCEPT ![s] = e] /\ Fits(View(s), e)
    BY <1>1, WriteChecks DEF Fits
  <2>2. UNCHANGED <<rows, flushed>>
    BY <1>0, <1>1, WriteEntry
  <2>3. \A t \in Sessions : View(t)' = View(t)
    BY <2>2 DEF View
  <2>4. ASSUME NEW t \in Sessions, writing'[t] # NoEntry
        PROVE  Fits(View(t), writing'[t])
    BY <1>0, <2>1, <2>4 DEF Bounded
  <2> QED
    BY <2>2, <2>3, <2>4 DEF Bounded
<1>2. ASSUME NEW s \in Sessions, Insert(s)
      PROVE  Bounded'
  <2> PICK w : w = writing[s]
    OBVIOUS
  <2>1. /\ w \in Entry /\ w # NoEntry /\ Checked(View(s), w) /\ Fits(View(s), w)
        /\ writing' = [writing EXCEPT ![s] = NoEntry] /\ UNCHANGED rows
        /\ \/ UNCHANGED flushed
           \/ flushed' = [flushed EXCEPT ![s] = @ \cup {w}] /\ w \notin View(s)
    BY <1>2, InsertAdds DEF HoldInv, Bounded
  <2>2. \A t \in Sessions : writing'[t] = NoEntry
    BY <1>0, <1>u, <2>1 DEF Unfinished
  <2>3. \A t \in Sessions \ {s} : View(t)' = View(t)
    BY <1>0, <2>1 DEF View
  <2>4. Balanced(View(s)')
    <3>1. CASE UNCHANGED flushed
      BY <2>1, <3>1 DEF View, Bounded
    <3>2. CASE flushed' = [flushed EXCEPT ![s] = @ \cup {w}] /\ w \notin View(s)
      <4>1. View(s)' = View(s) \cup {w}
        BY <1>0, <2>1, <3>2 DEF View
      <4>2. /\ View(s) \in SUBSET Entry /\ IsFiniteSet(View(s)) /\ Balanced(View(s))
            /\ w.kind = "RESERVE" => ~w.closes
        BY <2>1, ViewIs DEF Bounded, Checked
      <4> QED
        BY <2>1, <3>2, <4>1, <4>2, FittingBalances
    <3> QED
      BY <2>1, <3>1, <3>2
  <2> QED
    BY <2>1, <2>2, <2>3, <2>4 DEF Bounded
<1>3. ASSUME NEW s \in Sessions, Commit(s)
      PROVE  Bounded'
  <2>1. /\ rows' = View(s) /\ flushed' = [flushed EXCEPT ![s] = {}] /\ UNCHANGED writing
    BY <1>3 DEF Commit
  <2>2. CASE flushed[s] = {}
    <3>1. UNCHANGED <<rows, flushed>>
      BY <1>0, <2>1, <2>2 DEF View
    <3> QED
      BY <2>1, <3>1 DEF Bounded, View
  <2>3. CASE flushed[s] # {}
    <3>1. \A t \in Sessions : View(t)' = View(s) /\ writing'[t] = NoEntry
      BY <1>0, <1>3, <1>u, <2>1, <2>3 DEF View, Unfinished, Commit
    <3> QED
      BY <2>1, <3>1 DEF Bounded
  <2> QED
    BY <2>2, <2>3
<1>4. ASSUME NEW s \in Sessions, Rollback(s)
      PROVE  Bounded'
  <2>1. UNCHANGED rows
    BY <1>4 DEF Rollback
  <2>2. /\ View(s)' = rows /\ writing'[s] = NoEntry
        /\ \A t \in Sessions \ {s} : View(t)' = View(t) /\ writing'[t] = writing[t]
    BY <1>0, <1>4 DEF Rollback, View
  <2> QED
    BY <2>1, <2>2 DEF Bounded
<1>5. ASSUME NEW s \in Sessions, Abandon(s)
      PROVE  Bounded'
  <2>1. UNCHANGED rows /\ \A t \in Sessions : View(t)' = View(t)
    BY <1>5 DEF Abandon, View
  <2>2. \A t \in Sessions : writing'[t] = NoEntry \/ writing'[t] = writing[t]
    BY <1>0, <1>5 DEF Abandon
  <2> QED
    BY <2>1, <2>2 DEF Bounded
<1>6. CASE UNCHANGED vars
  BY <1>6 DEF vars, Bounded, View
<1> QED
  BY <1>1, <1>2, <1>3, <1>4, <1>5, <1>6 DEF Next

LEMMA BoundedInit == ASSUME Init PROVE Bounded
<1>1. \A o, kind : Total({}, o, kind) = 0 /\ Closing({}, o) = 0
  <2>1. \A o, kind : OfKind({}, o, kind) = {} /\ Closers({}, o) = {}
    BY DEF OfKind, Closers
  <2>2. SumOf({}) = 0
    BY SumOfIs, SumEmpty
  <2> QED
    BY <2>1, <2>2 DEF Total, Closing, OfKind, Closers
<1>2. Balanced({})
  BY <1>1 DEF Balanced, OpenHolds, Refundable
<1>3. rows = {} /\ \A s \in Sessions : View(s) = {} /\ writing[s] = NoEntry
  BY DEF Init, View
<1> QED
  BY <1>2, <1>3 DEF Bounded

(* As long as no write's check falls inside another unit of work, no hold  *)
(* is closed by more than it held and no more is given back than was       *)
(* captured: assert_invariants never raises.                               *)
THEOREM SerialWritesBalance ==
    Spec /\ []OneWriter => [](EscrowNeverNegative /\ RefundsBounded)
<1>1. Bounded => EscrowNeverNegative /\ RefundsBounded
  BY DEF Bounded, Balanced, EscrowNeverNegative, RefundsBounded
<1>2. HoldInv /\ Bounded /\ OneWriter /\ OneWriter' /\ [Next]_vars => Bounded'
  BY BoundedKeeps
<1>3. Init => Bounded
  BY BoundedInit
<1> QED
  BY <1>1, <1>2, <1>3, HoldCorrect, PTL DEF Spec

-----------------------------------------------------------------------------
(* The desk. *)

(* A money row of an order. *)
HasRow(book, kind, order) == \E e \in book : e.kind = kind /\ e.order = order

(* A handler is where its step says: what it still has to do, it may.      *)
StepRight(s) ==
    /\ desk[s] \in Step
    /\ writing[s] = NoEntry \/ writing[s] \in Entry
    /\ desk[s].at = "release" => desk[s].amount \in Amounts
    /\ desk[s].at \in {"ask", "existing"} => HasRow(rows, "CAPTURE", desk[s].order)
    /\ desk[s].at = "refund" => /\ desk[s].as = "approved"
                                /\ writing[s] \in Entry
                                /\ writing[s].kind = "REFUND"
                                /\ writing[s].order = desk[s].order
    /\ desk[s].at \in {"find", "resolve"} =>
          /\ desk[s].as \in {"approved", "declined"}
          /\ desk[s].as = "approved" => HasRow(View(s), "REFUND", desk[s].order)
    /\ desk[s].at = "resolve" => /\ desk[s].ask \in DOMAIN asks
                                 /\ asks[desk[s].ask].order = desk[s].order

AskRight(q) == asks[q] \in Ask /\ HasRow(rows, "CAPTURE", asks[q].order)

(* The inductive invariant. *)
DeskInv ==
    /\ flushed = [s \in Sessions |-> flushed[s]]
    /\ writing = [s \in Sessions |-> writing[s]]
    /\ desk = [s \in Sessions |-> desk[s]]
    /\ \A s \in Sessions : StepRight(s)
    /\ DOMAIN asks \subseteq RequestIds
    /\ \A q \in DOMAIN asks : AskRight(q)
    /\ \A order \in paid : HasRow(rows, "CAPTURE", order)
    /\ OneOpenAsk

(* Committed rows are never taken away, so whatever was paid stays paid.   *)
LEMMA RowsStay ==
    ASSUME NEW book, NEW more, book \subseteq more, NEW kind, NEW order,
           HasRow(book, kind, order)
    PROVE  HasRow(more, kind, order)
BY DEF HasRow

(* An insert leaves the session with a row of the kind and the order it was *)
(* checked for, whether it is its own or one that was there.               *)
LEMMA InsertHasRow ==
    ASSUME DeskInv, NEW s \in Sessions, NEW w, w = writing[s], Insert(s)
    PROVE  /\ UNCHANGED rows
           /\ HasRow(View(s)', w.kind, w.order)
           /\ writing' = [writing EXCEPT ![s] = NoEntry]
           /\ \E f : flushed' = [flushed EXCEPT ![s] = f]
<1> DEFINE taken == {e \in View(s) : KeyOf(e) = KeyOf(w)}
<1>1. CASE taken = {}
  <2>1. flushed' = [flushed EXCEPT ![s] = @ \cup {w}] /\ UNCHANGED rows
    BY <1>1 DEF Insert
  <2>2. w \in View(s)'
    BY <2>1 DEF DeskInv, View
  <2> QED
    BY <2>1, <2>2 DEF Insert, HasRow
<1>2. CASE taken # {}
  <2>1. PICK e \in taken : TRUE
    BY <1>2
  <2>2. e.kind = w.kind /\ e.order = w.order
    BY <2>1 DEF KeyOf
  <2>3. UNCHANGED <<rows, flushed>> /\ flushed' = [flushed EXCEPT ![s] = flushed[s]]
    BY <1>2 DEF Insert, DeskInv
  <2> QED
    BY <2>1, <2>2, <2>3 DEF Insert, HasRow, View
<1> QED
  BY <1>1, <1>2

(* What a step of one handler leaves alone: the other handlers.            *)
LEMMA OthersKeep ==
    ASSUME DeskInv, rows \subseteq rows', NEW s \in Sessions, StepRight(s)',
           DOMAIN asks \subseteq DOMAIN asks',
           \A q \in DOMAIN asks : asks'[q].order = asks[q].order,
           NEW d, desk' = [desk EXCEPT ![s] = d],
           NEW w, writing' = [writing EXCEPT ![s] = w],
           NEW f, flushed' = [flushed EXCEPT ![s] = f]
    PROVE  /\ flushed' = [x \in Sessions |-> flushed'[x]]
           /\ writing' = [x \in Sessions |-> writing'[x]]
           /\ desk' = [x \in Sessions |-> desk'[x]]
           /\ \A x \in Sessions : StepRight(x)'
<1>1. /\ flushed' = [x \in Sessions |-> flushed'[x]]
      /\ writing' = [x \in Sessions |-> writing'[x]]
  BY DEF DeskInv
<1>2. desk' = [x \in Sessions |-> desk'[x]]
  BY DEF DeskInv
<1>3. ASSUME NEW x \in Sessions, x # s PROVE StepRight(x)'
  <2>1. desk'[x] = desk[x] /\ writing'[x] = writing[x] /\ View(x) \subseteq View(x)'
    BY <1>3 DEF DeskInv, View
  <2>2. StepRight(x)
    BY DEF DeskInv
  <2> QED
    BY <2>1, <2>2, RowsStay DEF StepRight
<1> QED
  BY <1>1, <1>2, <1>3

(* A step that leaves the queue alone keeps what it says.                  *)
LEMMA QueueKeeps ==
    ASSUME DeskInv, rows \subseteq rows', UNCHANGED asks
    PROVE  (\A q \in DOMAIN asks : AskRight(q))' /\ OneOpenAsk'
<1>1. ASSUME NEW q \in DOMAIN asks PROVE AskRight(q)'
  BY RowsStay DEF DeskInv, AskRight
<1> QED
  BY <1>1 DEF DeskInv, OneOpenAsk, Open

-----------------------------------------------------------------------------
(* A ledger check by the desk: what it hands the session to insert.        *)
LEMMA LedgerCheck ==
    ASSUME NEW s \in Sessions, NEW order \in Orders, NEW amount \in Amounts,
           Write(s, order, amount), writing = [x \in Sessions |-> writing[x]]
    PROVE  /\ UNCHANGED <<rows, flushed>>
           /\ \E e \in Entry : /\ e.order = order
                               /\ writing' = [writing EXCEPT ![s] = e]
<1> USE LedgerAssumption
<1>0. amount \in Int
  OBVIOUS
<1>1. ASSUME NEW kind \in LedgerKind, NEW ref \in RefundIds \cup ReversalIds \cup {Attempt},
             NEW closes \in BOOLEAN, Prepare(s, kind, order, amount, ref, closes)
      PROVE  /\ UNCHANGED <<rows, flushed>>
             /\ \E e \in Entry : e.order = order /\ writing' = [writing EXCEPT ![s] = e]
  <2> DEFINE e == [kind |-> kind, order |-> order, amount |-> amount,
                   ref |-> ref, closes |-> closes]
  <2>1. e \in Entry /\ e.order = order
    BY <1>0, <1>1 DEF Prepare, Entry
  <2> QED
    BY <1>1, <2>1 DEF Prepare
<1>2. CASE Reserve(s, order, amount)
  BY <1>1, <1>2 DEF Reserve, LedgerKind
<1>3. CASE \E cod \in BOOLEAN : Capture(s, order, amount, cod)
  <2>1. Prepare(s, "CAPTURE", order, amount, Attempt, OpenHolds(View(s), order) > 0)
    BY <1>3 DEF Capture
  <2>2. (OpenHolds(View(s), order) > 0) \in BOOLEAN
    OBVIOUS
  <2> QED
    BY <1>1, <2>1, <2>2 DEF LedgerKind
<1>4. CASE Release(s, order, amount)
  BY <1>1, <1>4 DEF Release, LedgerKind
<1>5. CASE \E id \in RefundIds : Refund(s, order, amount, id)
  BY <1>1, <1>5 DEF Refund, LedgerKind
<1>6. CASE \E id \in ReversalIds : Reversal(s, order, amount, id)
  BY <1>1, <1>6 DEF Reversal, LedgerKind
<1> QED
  BY <1>2, <1>3, <1>4, <1>5, <1>6 DEF Write

-----------------------------------------------------------------------------
(* The handlers of the money actions keep the invariant. *)

(* A new handler of session s at a step that promises nothing yet.         *)
LEMMA EnterKeeps ==
    ASSUME DeskInv, NEW s \in Sessions, NEW order \in Orders, NEW amount \in Int,
           NEW at \in {"ask", "refund", "find", "release", "write", "charge"},
           NEW as \in AskState,
           Enter(s, at, order, as, amount), UNCHANGED <<rows, flushed, asks, paid>>,
           NEW w \in Entry \cup {NoEntry}, writing' = [writing EXCEPT ![s] = w],
           at = "ask" => HasRow(rows, "CAPTURE", order),
           at = "release" => amount \in Amounts,
           at = "refund" => as = "approved" /\ w \in Entry /\ w.kind = "REFUND" /\ w.order = order,
           at = "find" => as = "declined"
    PROVE  DeskInv'
<1> DEFINE d == [at |-> at, order |-> order, ask |-> NoAsk, as |-> as, amount |-> amount]
<1>1. desk' = [desk EXCEPT ![s] = d]
  BY DEF Enter
<1>2. desk'[s] = d /\ writing'[s] = w
  BY <1>1 DEF DeskInv
<1>3. d \in Step
  BY DEF Step
<1>4. StepRight(s)'
  <2>1. at = "ask" => HasRow(rows, "CAPTURE", order)'
    BY DEF HasRow
  <2>2. /\ desk'[s] \in Step
        /\ desk'[s].at = at /\ desk'[s].order = order
        /\ desk'[s].as = as /\ desk'[s].amount = amount
    BY <1>2, <1>3
  <2>3. writing'[s] = NoEntry \/ writing'[s] \in Entry
    BY <1>2
  <2> QED
    BY <1>2, <2>1, <2>2, <2>3 DEF StepRight
<1>5. /\ flushed' = [x \in Sessions |-> flushed'[x]]
      /\ writing' = [x \in Sessions |-> writing'[x]]
      /\ desk' = [x \in Sessions |-> desk'[x]]
      /\ \A x \in Sessions : StepRight(x)'
  <2>1. flushed' = [flushed EXCEPT ![s] = flushed[s]]
    BY DEF DeskInv
  <2> QED
    BY <1>1, <1>4, <2>1, OthersKeep
<1>6. (\A q \in DOMAIN asks : AskRight(q))' /\ OneOpenAsk'
  BY QueueKeeps
<1>7. (\A o \in paid : HasRow(rows, "CAPTURE", o))'
  BY DEF DeskInv, HasRow
<1> QED
  BY <1>5, <1>6, <1>7 DEF DeskInv

(* A handler that moves on, with what it commits, and leaves the queue.    *)
LEMMA MoveKeeps ==
    ASSUME DeskInv, NEW s \in Sessions, rows \subseteq rows', UNCHANGED <<asks, paid>>,
           NEW d \in Step, desk' = [desk EXCEPT ![s] = d],
           NEW w \in Entry \cup {NoEntry}, writing' = [writing EXCEPT ![s] = w],
           NEW f, flushed' = [flushed EXCEPT ![s] = f],
           StepRight(s)'
    PROVE  DeskInv'
<1>1. /\ flushed' = [x \in Sessions |-> flushed'[x]]
      /\ writing' = [x \in Sessions |-> writing'[x]]
      /\ desk' = [x \in Sessions |-> desk'[x]]
      /\ \A x \in Sessions : StepRight(x)'
  BY OthersKeep
<1>2. (\A q \in DOMAIN asks : AskRight(q))' /\ OneOpenAsk'
  BY QueueKeeps
<1>3. (\A o \in paid : HasRow(rows, "CAPTURE", o))'
  BY RowsStay DEF DeskInv
<1> QED
  BY <1>1, <1>2, <1>3 DEF DeskInv

(* A handler that ends. *)
LEMMA ReplyKeeps ==
    ASSUME DeskInv, NEW s \in Sessions, rows \subseteq rows', UNCHANGED <<asks, paid>>,
           Reply(s),
           NEW w \in Entry \cup {NoEntry}, writing' = [writing EXCEPT ![s] = w],
           NEW f, flushed' = [flushed EXCEPT ![s] = f]
    PROVE  DeskInv'
<1> DEFINE d == [at |-> "idle", order |-> desk[s].order, ask |-> NoAsk,
                 as |-> "requested", amount |-> 0]
<1>1. desk[s] \in Step
  BY DEF DeskInv, StepRight
<1>2. d \in Step /\ d.at = "idle"
  BY <1>1 DEF Step, AskState
<1>3. desk' = [desk EXCEPT ![s] = d]
  BY DEF Reply
<1>4. desk'[s] = d /\ writing'[s] = w
  BY <1>3 DEF DeskInv
<1>5. StepRight(s)'
  BY <1>2, <1>4 DEF StepRight
<1> QED
  BY <1>2, <1>3, <1>5, MoveKeeps

LEMMA AskKeeps ==
    ASSUME DeskInv, NEW s \in Sessions, AskInsert(s)
    PROVE  DeskInv'
<1>0. StepRight(s) /\ desk[s].at = "ask" /\ UNCHANGED <<rows, flushed, writing, answer, paid>>
  BY DEF AskInsert, DeskInv, vars
<1> PICK o \in Orders : o = desk[s].order
  BY <1>0 DEF StepRight, Step
<1>1. /\ writing' = [writing EXCEPT ![s] = writing[s]] /\ writing[s] \in Entry \cup {NoEntry}
      /\ flushed' = [flushed EXCEPT ![s] = flushed[s]]
  BY <1>0 DEF DeskInv, StepRight
<1>2. CASE Open(o) = {}
  <2>1. PICK q \in RequestIds \ DOMAIN asks :
           /\ asks' = [r \in DOMAIN asks \cup {q} |->
                         IF r = q THEN [order |-> o, state |-> "requested"] ELSE asks[r]]
           /\ Reply(s)
    BY <1>2 DEF AskInsert
  <2>2. /\ DOMAIN asks' = DOMAIN asks \cup {q}
        /\ asks'[q] = [order |-> o, state |-> "requested"]
        /\ \A r \in DOMAIN asks : asks'[r] = asks[r]
    BY <2>1
  <2> DEFINE d == [at |-> "idle", order |-> o, ask |-> NoAsk, as |-> "requested", amount |-> 0]
  <2>3. desk' = [desk EXCEPT ![s] = d] /\ d \in Step
    BY <1>0, <2>1 DEF Reply, StepRight, Step, AskState
  <2>4. StepRight(s)'
    <3>1. desk'[s] = d /\ writing'[s] = writing[s]
      BY <1>1, <2>3 DEF DeskInv
    <3> QED
      BY <1>1, <2>3, <3>1 DEF StepRight
  <2>5. /\ flushed' = [x \in Sessions |-> flushed'[x]]
        /\ writing' = [x \in Sessions |-> writing'[x]]
        /\ desk' = [x \in Sessions |-> desk'[x]]
        /\ \A x \in Sessions : StepRight(x)'
    BY <1>0, <1>1, <2>2, <2>3, <2>4, OthersKeep
  <2>6. HasRow(rows, "CAPTURE", o)'
    BY <1>0 DEF StepRight, HasRow
  <2>7. (\A r \in DOMAIN asks : AskRight(r))'
    BY <1>0, <2>2, <2>6 DEF DeskInv, AskRight, Ask, AskState, HasRow
  <2>8. OneOpenAsk'
    BY <1>2, <2>2 DEF DeskInv, OneOpenAsk, Open
  <2> QED
    BY <1>0, <2>2, <2>5, <2>7, <2>8 DEF DeskInv, HasRow
<1>3. CASE Open(o) # {}
  <2> DEFINE d == [desk[s] EXCEPT !.at = "existing"]
  <2>1. d \in Step /\ d.at = "existing" /\ d.order = o
    BY <1>0 DEF StepRight, Step
  <2>2. desk' = [desk EXCEPT ![s] = d] /\ UNCHANGED asks
    BY <1>3 DEF AskInsert, GoTo
  <2>3. desk'[s] = d /\ writing'[s] = writing[s]
    BY <1>1, <2>2 DEF DeskInv
  <2>4. StepRight(s)'
    BY <1>0, <2>1, <2>3 DEF StepRight, HasRow
  <2> QED
    BY <1>0, <1>1, <2>1, <2>2, <2>4, MoveKeeps
<1> QED
  BY <1>2, <1>3

LEMMA ResolveKeeps ==
    ASSUME DeskInv, NEW s \in Sessions, ResolveFind(s) \/ ResolveUpdate(s)
    PROVE  DeskInv'
<1>0. StepRight(s) /\ View(s)' = View(s) /\ UNCHANGED <<rows, flushed, writing, answer, paid>>
  BY DEF ResolveFind, ResolveUpdate, DeskInv, View, vars
<1> PICK o \in Orders : o = desk[s].order
  BY <1>0 DEF StepRight, Step
<1>1. /\ writing' = [writing EXCEPT ![s] = writing[s]] /\ writing[s] \in Entry \cup {NoEntry}
      /\ flushed' = [flushed EXCEPT ![s] = flushed[s]]
  BY <1>0 DEF DeskInv, StepRight
<1>2. CASE Reply(s) /\ UNCHANGED asks
  BY <1>0, <1>1, <1>2, ReplyKeeps
<1>3. CASE ResolveFind(s) /\ Open(o) # {}
  <2>1. PICK q \in Open(o) : desk' = [desk EXCEPT ![s] = [@ EXCEPT !.at = "resolve", !.ask = q]]
    BY <1>3 DEF ResolveFind
  <2> DEFINE d == [desk[s] EXCEPT !.at = "resolve", !.ask = q]
  <2>2. q \in DOMAIN asks /\ asks[q].order = o /\ q \in RequestIds
    BY <2>1 DEF Open, DeskInv
  <2>3. d \in Step /\ d.at = "resolve" /\ d.ask = q /\ d.order = o /\ d.as = desk[s].as
    BY <1>0, <2>2 DEF StepRight, Step
  <2>4. desk' = [desk EXCEPT ![s] = d] /\ UNCHANGED asks
    BY <1>3, <2>1 DEF ResolveFind
  <2>5. desk'[s] = d /\ writing'[s] = writing[s]
    BY <1>1, <2>4 DEF DeskInv
  <2>6. StepRight(s)'
    <3>1. desk[s].at = "find"
      BY <1>3 DEF ResolveFind
    <3>2. /\ d.as \in {"approved", "declined"}
          /\ d.as = "approved" => HasRow(View(s)', "REFUND", o)
      BY <1>0, <2>3, <3>1 DEF StepRight, HasRow
    <3> QED
      BY <1>0, <1>1, <2>2, <2>3, <2>4, <2>5, <3>2 DEF StepRight
  <2> QED
    BY <1>0, <1>1, <2>3, <2>4, <2>6, MoveKeeps
<1>4. CASE ResolveUpdate(s) /\ asks[desk[s].ask].state = "requested"
  <2> PICK q : q = desk[s].ask
    OBVIOUS
  <2> DEFINE d == [at |-> "idle", order |-> o, ask |-> NoAsk, as |-> "requested", amount |-> 0]
  <2>1. /\ desk[s].at = "resolve" /\ q \in DOMAIN asks /\ asks[q].order = o
        /\ desk[s].as \in {"approved", "declined"}
    BY <1>0, <1>4 DEF ResolveUpdate, StepRight
  <2>2. asks' = [asks EXCEPT ![q].state = desk[s].as] /\ Reply(s)
    BY <1>4 DEF ResolveUpdate
  <2>3. AskRight(q) /\ asks[q] \in Ask
    BY <2>1 DEF DeskInv, AskRight
  <2>4. /\ DOMAIN asks' = DOMAIN asks
        /\ asks'[q] = [order |-> o, state |-> desk[s].as]
        /\ \A r \in DOMAIN asks : r # q => asks'[r] = asks[r]
    BY <2>1, <2>2, <2>3 DEF Ask
  <2>5. desk' = [desk EXCEPT ![s] = d] /\ d \in Step
    BY <1>0, <2>2 DEF Reply, StepRight, Step, AskState
  <2>6. StepRight(s)'
    <3>1. desk'[s] = d /\ writing'[s] = writing[s]
      BY <1>1, <2>5 DEF DeskInv
    <3> QED
      BY <1>1, <2>5, <3>1 DEF StepRight
  <2>7. /\ flushed' = [x \in Sessions |-> flushed'[x]]
        /\ writing' = [x \in Sessions |-> writing'[x]]
        /\ desk' = [x \in Sessions |-> desk'[x]]
        /\ \A x \in Sessions : StepRight(x)'
    <3>1. \A r \in DOMAIN asks : asks'[r].order = asks[r].order
      BY <2>1, <2>4
    <3> QED
      BY <1>0, <1>1, <2>4, <2>5, <2>6, <3>1, OthersKeep
  <2>8. (\A r \in DOMAIN asks : AskRight(r))'
    BY <1>0, <2>1, <2>3, <2>4 DEF DeskInv, AskRight, Ask, AskState
  <2>9. OneOpenAsk'
    BY <2>1, <2>4 DEF DeskInv, OneOpenAsk, Open
  <2> QED
    BY <1>0, <2>4, <2>7, <2>8, <2>9 DEF DeskInv, HasRow
<1> QED
  BY <1>2, <1>3, <1>4 DEF ResolveFind, ResolveUpdate

LEMMA MoneyActionKeeps ==
    ASSUME DeskInv, NEW s \in Sessions, NEW order \in Orders, NEW amount \in Amounts,
           \/ RefundCheck(s, order, amount)
           \/ Collect(s, order, amount)
           \/ RejectRead(s, order, amount)
           \/ CheckoutWrite(s, order, amount)
    PROVE  DeskInv'
<1> USE LedgerAssumption, DeskAssumption
<1>0. writing = [x \in Sessions |-> writing[x]] /\ amount \in Int /\ 0 \in Int
  BY DEF DeskInv
<1>1. CASE RefundCheck(s, order, amount)
  <2> DEFINE e == [kind |-> "REFUND", order |-> order, amount |-> amount,
                   ref |-> amount, closes |-> FALSE]
  <2>1. Prepare(s, "REFUND", order, amount, amount, FALSE)
    BY <1>1 DEF RefundCheck, Refund
  <2>2. e \in Entry
    BY <1>0, <2>1 DEF Prepare, Entry, LedgerKind
  <2>3. writing' = [writing EXCEPT ![s] = e] /\ UNCHANGED <<rows, flushed>>
    BY <2>1 DEF Prepare
  <2>4. Enter(s, "refund", order, "approved", 0) /\ UNCHANGED <<asks, paid>>
    BY <1>1 DEF RefundCheck
  <2>5. "approved" \in AskState
    BY DEF AskState
  <2> HIDE DEF e
  <2> QED
    BY <1>0, <2>2, <2>3, <2>4, <2>5, EnterKeeps DEF e
<1>2. ASSUME NEW at \in {"write", "charge"}, Write(s, order, amount),
             Enter(s, at, order, "requested", 0), UNCHANGED <<asks, paid>>
      PROVE  DeskInv'
  <2>1. PICK e \in Entry : writing' = [writing EXCEPT ![s] = e]
    BY <1>0, <1>2, LedgerCheck
  <2>2. UNCHANGED <<rows, flushed>>
    BY <1>0, <1>2, LedgerCheck
  <2>3. "requested" \in AskState
    BY DEF AskState
  <2> QED
    BY <1>0, <1>2, <2>1, <2>2, <2>3, EnterKeeps
<1>3. CASE Collect(s, order, amount)
  BY <1>2, <1>3 DEF Collect, Write
<1>4. CASE CheckoutWrite(s, order, amount)
  BY <1>2, <1>4 DEF CheckoutWrite, Write
<1>5. CASE RejectRead(s, order, amount)
  <2>1. Enter(s, "release", order, "requested", amount) /\ UNCHANGED <<rows, flushed, writing, asks, paid>>
    BY <1>5 DEF RejectRead, vars
  <2>2. writing[s] \in Entry \cup {NoEntry} /\ writing' = [writing EXCEPT ![s] = writing[s]]
    BY <1>0, <2>1 DEF DeskInv, StepRight
  <2>3. "requested" \in AskState
    BY DEF AskState
  <2> QED
    BY <1>0, <2>1, <2>2, <2>3, EnterKeeps
<1> QED
  BY <1>1, <1>3, <1>4, <1>5

LEMMA WriteKeeps ==
    ASSUME DeskInv, NEW s \in Sessions, RefundWrite(s) \/ WriteRow(s) \/ CheckoutInsert(s)
    PROVE  DeskInv'
<1>0. StepRight(s) /\ Insert(s) /\ UNCHANGED <<asks, paid>>
  BY DEF RefundWrite, WriteRow, CheckoutInsert, DeskInv
<1>1. PICK w : w = writing[s]
  OBVIOUS
<1>2. /\ rows \subseteq rows' /\ HasRow(View(s)', w.kind, w.order)
      /\ writing' = [writing EXCEPT ![s] = NoEntry]
      /\ \E f : flushed' = [flushed EXCEPT ![s] = f]
  BY <1>0, <1>1, InsertHasRow
<1>3. CASE WriteRow(s)
  BY <1>0, <1>2, <1>3, ReplyKeeps DEF WriteRow
<1>4. ASSUME NEW at \in {"find", "commit"}, GoTo(s, at), at = "find" => RefundWrite(s)
      PROVE  DeskInv'
  <2> DEFINE d == [desk[s] EXCEPT !.at = at]
  <2>1. d \in Step /\ d.at = at /\ d.order = desk[s].order /\ d.as = desk[s].as
    BY <1>0 DEF StepRight, Step
  <2>2. desk' = [desk EXCEPT ![s] = d]
    BY <1>4 DEF GoTo
  <2>3. desk'[s] = d /\ writing'[s] = NoEntry
    BY <1>2, <2>2 DEF DeskInv
  <2>4. at = "find" => /\ w.kind = "REFUND" /\ w.order = desk[s].order
                       /\ desk[s].as = "approved"
    BY <1>0, <1>1, <1>4 DEF RefundWrite, StepRight
  <2>5. StepRight(s)'
    BY <1>2, <2>1, <2>3, <2>4 DEF StepRight
  <2> QED
    BY <1>0, <1>2, <2>1, <2>2, <2>5, MoveKeeps
<1> QED
  BY <1>3, <1>4 DEF RefundWrite, CheckoutInsert

LEMMA RejectKeeps ==
    ASSUME DeskInv, NEW s \in Sessions, RejectRelease(s)
    PROVE  DeskInv'
<1>0. StepRight(s) /\ desk[s].at = "release" /\ UNCHANGED <<asks, paid>>
  BY DEF RejectRelease, DeskInv
<1>1. CASE Release(s, desk[s].order, desk[s].amount) /\ GoTo(s, "write")
  <2>0. desk[s].order \in Orders /\ desk[s].amount \in Amounts
    BY <1>0 DEF StepRight, Step
  <2>1. Write(s, desk[s].order, desk[s].amount)
    BY <1>1 DEF Write
  <2>2. PICK e \in Entry : writing' = [writing EXCEPT ![s] = e]
    BY <2>0, <2>1, LedgerCheck DEF DeskInv
  <2>3. UNCHANGED rows /\ flushed' = [flushed EXCEPT ![s] = flushed[s]]
    BY <2>0, <2>1, LedgerCheck DEF DeskInv
  <2> DEFINE d == [desk[s] EXCEPT !.at = "write"]
  <2>4. d \in Step /\ d.at = "write"
    BY <1>0 DEF StepRight, Step
  <2>5. desk' = [desk EXCEPT ![s] = d]
    BY <1>1 DEF GoTo
  <2>6. desk'[s] = d /\ writing'[s] = e
    BY <2>2, <2>5 DEF DeskInv
  <2>7. StepRight(s)'
    BY <2>4, <2>6 DEF StepRight
  <2> QED
    BY <1>0, <2>2, <2>3, <2>4, <2>5, <2>7, MoveKeeps
<1>2. CASE Reply(s) /\ UNCHANGED vars
  <2>1. /\ writing[s] \in Entry \cup {NoEntry} /\ writing' = [writing EXCEPT ![s] = writing[s]]
        /\ flushed' = [flushed EXCEPT ![s] = flushed[s]]
    BY <1>0, <1>2 DEF DeskInv, StepRight, vars
  <2> QED
    BY <1>0, <1>2, <2>1, ReplyKeeps DEF vars
<1> QED
  BY <1>1, <1>2 DEF RejectRelease

(* The end of a unit of work: its rows are everybody's, or gone. *)
LEMMA UnitKeeps ==
    ASSUME DeskInv, NEW s \in Sessions, UnitEnds(s) \/ CheckoutCommit(s)
    PROVE  DeskInv'
<1>0. StepRight(s) /\ UNCHANGED <<asks, paid>> /\ (Commit(s) \/ Rollback(s))
  BY DEF UnitEnds, CheckoutCommit, DeskInv
<1>1. rows \subseteq rows' /\ flushed' = [flushed EXCEPT ![s] = {}]
  BY <1>0 DEF Commit, Rollback, View
<1>2. PICK w \in Entry \cup {NoEntry} : writing' = [writing EXCEPT ![s] = w]
  <2>1. writing' = [writing EXCEPT ![s] = writing[s]] \/ writing' = [writing EXCEPT ![s] = NoEntry]
    BY <1>0 DEF Commit, Rollback, DeskInv
  <2> QED
    BY <1>0, <2>1 DEF StepRight
<1>3. CASE CheckoutCommit(s)
  BY <1>0, <1>1, <1>2, <1>3, ReplyKeeps DEF CheckoutCommit
<1>4. CASE UnitEnds(s)
  <2>1. desk[s].at = "idle" /\ desk' = [desk EXCEPT ![s] = desk[s]] /\ desk[s] \in Step
    BY <1>0, <1>4 DEF UnitEnds, Free, Idle, DeskInv, StepRight
  <2>2. StepRight(s)'
    <3>1. desk'[s] = desk[s] /\ writing'[s] = w
      BY <1>2, <2>1 DEF DeskInv
    <3> QED
      BY <2>1, <3>1 DEF StepRight
  <2> QED
    BY <1>0, <1>1, <1>2, <2>1, <2>2, MoveKeeps
<1> QED
  BY <1>3, <1>4

LEMMA DeskNextKeeps == DeskInv /\ [DeskNext]_allVars => DeskInv'
<1> SUFFICES ASSUME DeskInv, [DeskNext]_allVars PROVE DeskInv'
  OBVIOUS
<1>w. ASSUME NEW s \in Sessions, UNCHANGED writing
      PROVE  /\ writing[s] \in Entry \cup {NoEntry}
             /\ writing' = [writing EXCEPT ![s] = writing[s]]
  BY <1>w DEF DeskInv, StepRight
<1>f. ASSUME NEW s \in Sessions, UNCHANGED flushed
      PROVE  flushed' = [flushed EXCEPT ![s] = flushed[s]]
  BY <1>f DEF DeskInv
<1>1. ASSUME NEW s \in Sessions, NEW order \in Orders, AskRead(s, order) \/ Decline(s, order)
      PROVE  DeskInv'
  <2>1. UNCHANGED <<rows, flushed, writing, asks, paid>>
    BY <1>1 DEF AskRead, Decline, vars
  <2>2. /\ "requested" \in AskState /\ "declined" \in AskState /\ 0 \in Int
    BY DEF AskState
  <2>3. CASE AskRead(s, order)
    <3>1. HasRow(rows, "CAPTURE", order) /\ Enter(s, "ask", order, "requested", 0)
      BY <2>3 DEF AskRead, DeskInv
    <3> QED
      BY <1>w, <2>1, <2>2, <3>1, EnterKeeps
  <2>4. CASE Decline(s, order)
    <3>1. Enter(s, "find", order, "declined", 0)
      BY <2>4 DEF Decline
    <3> QED
      BY <1>w, <2>1, <2>2, <3>1, EnterKeeps
  <2> QED
    BY <1>1, <2>3, <2>4
<1>2. ASSUME NEW s \in Sessions, AskExisting(s)
      PROVE  DeskInv'
  BY <1>2, <1>f, <1>w, ReplyKeeps DEF AskExisting, vars
<1>3. ASSUME NEW s \in Sessions, Die(s)
      PROVE  DeskInv'
  <2>1. Reply(s) /\ UNCHANGED <<rows, asks, paid>>
    BY <1>3 DEF Die, Rollback, Abandon, vars
  <2>2. \E f : flushed' = [flushed EXCEPT ![s] = f]
    BY <1>3, <1>f DEF Die, Rollback, Abandon, vars
  <2>3. \E w \in Entry \cup {NoEntry} : writing' = [writing EXCEPT ![s] = w]
    BY <1>3, <1>w DEF Die, Rollback, Abandon, vars
  <2> QED
    BY <2>1, <2>2, <2>3, ReplyKeeps
<1>4. ASSUME NEW order \in Orders, ShopPaid(order)
      PROVE  DeskInv'
  <2>1. UNCHANGED <<rows, flushed, writing, asks, desk>> /\ HasRow(rows, "CAPTURE", order)
    BY <1>4 DEF ShopPaid, HasRow, vars
  <2>2. ASSUME NEW s \in Sessions PROVE StepRight(s)'
    BY <2>1 DEF DeskInv, StepRight, HasRow, View
  <2>3. (\A q \in DOMAIN asks : AskRight(q))' /\ OneOpenAsk'
    BY <2>1, QueueKeeps
  <2>4. (\A o \in paid : HasRow(rows, "CAPTURE", o))'
    BY <1>4, <2>1 DEF ShopPaid, DeskInv, HasRow
  <2> QED
    BY <2>1, <2>2, <2>3, <2>4 DEF DeskInv
<1>5. CASE UNCHANGED allVars
  <2>1. UNCHANGED <<rows, flushed, writing, answer, asks, desk, paid>>
    BY <1>5 DEF allVars
  <2> QED
    BY <2>1 DEF DeskInv, StepRight, AskRight, HasRow, View, OneOpenAsk, Open
<1> QED
  BY <1>1, <1>2, <1>3, <1>4, <1>5, AskKeeps, ResolveKeeps, MoneyActionKeeps, WriteKeeps,
     RejectKeeps, UnitKeeps DEF DeskNext

LEMMA DeskCorrect == DeskSpec => []DeskInv
<1>1. DeskInit => DeskInv
  <2> SUFFICES ASSUME DeskInit PROVE DeskInv
    OBVIOUS
  <2>1. DOMAIN asks = {} /\ paid = {}
    BY DEF DeskInit
  <2>2. ASSUME NEW s \in Sessions PROVE StepRight(s)
    BY DEF DeskInit, Init, StepRight, Step, AskState
  <2>3. /\ desk = [s \in Sessions |-> desk[s]] /\ writing = [s \in Sessions |-> writing[s]]
        /\ flushed = [s \in Sessions |-> flushed[s]]
    BY DEF DeskInit, Init
  <2> QED
    BY <2>1, <2>2, <2>3 DEF DeskInv, OneOpenAsk, Open
<1> QED
  BY <1>1, DeskNextKeeps, PTL DEF DeskSpec

-----------------------------------------------------------------------------
(* However agents and consoles race, an order has at most one open ask.    *)
THEOREM OneAsk == DeskSpec => []OneOpenAsk
<1>1. DeskInv => OneOpenAsk
  BY DEF DeskInv
<1> QED
  BY <1>1, DeskCorrect, PTL

(* An ask is approved by nobody who has not written its order's refund, or *)
(* found it written, in the unit of work that is still open or committed.  *)
THEOREM RefundBeforeApproval == DeskSpec => ApprovedAfterRefund
<1> DEFINE After ==
      \A q \in DOMAIN asks :
          asks[q].state = "requested" /\ asks'[q].state = "approved" =>
             \E s \in Sessions :
                /\ desk[s].at = "resolve" /\ desk[s].ask = q
                /\ \E e \in View(s) : e.kind = "REFUND" /\ e.order = asks[q].order
<1>1. ASSUME DeskInv, [DeskNext]_allVars PROVE [After]_allVars
  <2>1. ASSUME NEW s \in Sessions, AskInsert(s) PROVE After
    BY <2>1 DEF AskInsert
  <2>2. ASSUME NEW s \in Sessions, ResolveUpdate(s) PROVE After
    <3> SUFFICES ASSUME NEW q \in DOMAIN asks, asks[q].state = "requested",
                        asks'[q].state = "approved"
                 PROVE  /\ desk[s].at = "resolve" /\ desk[s].ask = q
                        /\ HasRow(View(s), "REFUND", asks[q].order)
      BY DEF HasRow
    <3>0. StepRight(s) /\ AskRight(q)
      BY <1>1 DEF DeskInv
    <3>1. desk[s].at = "resolve" /\ StepRight(s) /\ AskRight(q)
      BY <2>2, <3>0 DEF ResolveUpdate
    <3>2. /\ asks' = [asks EXCEPT ![desk[s].ask].state = desk[s].as]
          /\ desk[s].ask \in DOMAIN asks
      BY <2>2, <3>1 DEF ResolveUpdate, StepRight
    <3>3. desk[s].ask = q /\ desk[s].as = "approved"
      BY <3>1, <3>2 DEF AskRight, Ask
    <3> QED
      BY <3>1, <3>3 DEF StepRight
  <2>3. CASE UNCHANGED asks
    BY <2>3
  <2> QED
    BY <1>1, <2>1, <2>2, <2>3
    DEF DeskNext, AskRead, AskExisting, RefundCheck, RefundWrite, Decline, ResolveFind, Collect,
        RejectRead, RejectRelease, CheckoutWrite, CheckoutInsert, CheckoutCommit, UnitEnds,
        WriteRow, ShopPaid, Die, allVars
<1> QED
  BY <1>1, DeskCorrect, PTL DEF DeskSpec, ApprovedAfterRefund

(* Nobody asks for money that never arrived. *)
THEOREM AsksAreBacked == DeskSpec => []AskHasMoney
<1>1. DeskInv => AskHasMoney
  BY DEF DeskInv, AskRight, AskHasMoney, HasRow
<1> QED
  BY <1>1, DeskCorrect, PTL

(* A Merchant's decision about an ask is never overwritten. *)
THEOREM DecisionsStand == DeskSpec => ResolvedStays
<1> DEFINE Stays == \A q \in DOMAIN asks :
                       /\ q \in DOMAIN asks'
                       /\ asks[q].state # "requested" => asks'[q] = asks[q]
<1>1. ASSUME DeskInv, [DeskNext]_allVars PROVE [Stays]_allVars
  <2>1. ASSUME NEW s \in Sessions, AskInsert(s) PROVE Stays
    BY <2>1 DEF AskInsert
  <2>2. ASSUME NEW s \in Sessions, ResolveUpdate(s) PROVE Stays
    BY <2>2 DEF ResolveUpdate
  <2>3. CASE UNCHANGED asks
    BY <2>3
  <2> QED
    BY <1>1, <2>1, <2>2, <2>3
    DEF DeskNext, AskRead, AskExisting, RefundCheck, RefundWrite, Decline, ResolveFind, Collect,
        RejectRead, RejectRelease, CheckoutWrite, CheckoutInsert, CheckoutCommit, UnitEnds,
        WriteRow, ShopPaid, Die, allVars
<1> QED
  BY <1>1, DeskCorrect, PTL DEF DeskSpec, ResolvedStays

(* Every step of a handler is a step of the Ledger, or none: what the       *)
(* Ledger keeps however its sessions interleave, it keeps under the desk.   *)
THEOREM DeskUsesLedger == DeskSpec => Spec
<1>1. DeskInit => Init
  BY DEF DeskInit
<1>2. DeskInv /\ [DeskNext]_allVars => [Next]_vars
  <2> SUFFICES ASSUME DeskInv, [DeskNext]_allVars PROVE [Next]_vars
    OBVIOUS
  <2>1. ASSUME NEW s \in Sessions, NEW order \in Orders, NEW amount \in Amounts,
               RefundCheck(s, order, amount) \/ Collect(s, order, amount)
                 \/ CheckoutWrite(s, order, amount)
        PROVE  Next
    BY <2>1, DeskAssumption DEF RefundCheck, Collect, CheckoutWrite, Next, Write
  <2>2. ASSUME NEW s \in Sessions, RefundWrite(s) \/ WriteRow(s) \/ CheckoutInsert(s)
                                      \/ CheckoutCommit(s) \/ UnitEnds(s)
        PROVE  Next
    BY <2>2 DEF RefundWrite, WriteRow, CheckoutInsert, CheckoutCommit, UnitEnds, Next
  <2>3. ASSUME NEW s \in Sessions, RejectRelease(s)
        PROVE  [Next]_vars
    <3>1. desk[s].order \in Orders /\ desk[s].amount \in Amounts
      BY <2>3 DEF RejectRelease, DeskInv, StepRight, Step
    <3> QED
      BY <2>3, <3>1 DEF RejectRelease, Next, Write
  <2>4. ASSUME NEW s \in Sessions, Die(s)
        PROVE  [Next]_vars
    BY <2>4 DEF Die, Next
  <2>5. CASE UNCHANGED vars
    BY <2>5
  <2> QED
    BY <2>1, <2>2, <2>3, <2>4, <2>5
    DEF DeskNext, AskRead, AskInsert, AskExisting, Decline, ResolveFind, ResolveUpdate,
        RejectRead, ShopPaid, allVars, vars
<1> QED
  BY <1>1, <1>2, DeskCorrect, PTL DEF DeskSpec, Spec
-----------------------------------------------------------------------------
(* A session is between its check and its insert exactly when its handler  *)
(* is, and knows an ask only where it is about to resolve it.              *)
StepHolds(s) ==
    /\ writing[s] # NoEntry <=> desk[s].at \in {"refund", "write", "charge"}
    /\ IF desk[s].at = "resolve" THEN desk[s].ask \in DOMAIN asks ELSE desk[s].ask = NoAsk

LEMMA StepHoldsKeeps ==
    ASSUME DeskInv, TypeOK, \A s \in Sessions : StepHolds(s), [DeskNext]_allVars
    PROVE  (\A s \in Sessions : StepHolds(s))'
<1>0. /\ writing \in [Sessions -> Entry \cup {NoEntry}] /\ desk \in [Sessions -> Step]
      /\ NoEntry \notin Entry
  BY LedgerAssumption DEF DeskInv, TypeOK, StepRight, Entry, LedgerKind
<1>1. ASSUME NEW s \in Sessions, NEW d \in Step, desk' = [desk EXCEPT ![s] = d],
             NEW w, writing' = [writing EXCEPT ![s] = w],
             DOMAIN asks \subseteq DOMAIN asks',
             w # NoEntry <=> d.at \in {"refund", "write", "charge"},
             IF d.at = "resolve" THEN d.ask \in DOMAIN asks ELSE d.ask = NoAsk
      PROVE  (\A x \in Sessions : StepHolds(x))'
  <2> SUFFICES ASSUME NEW x \in Sessions PROVE StepHolds(x)'
    OBVIOUS
  <2>1. CASE x = s
    BY <1>0, <1>1, <2>1 DEF StepHolds
  <2>2. CASE x # s
    BY <1>0, <1>1, <2>2 DEF StepHolds
  <2> QED
    BY <2>1, <2>2
<1>e. ASSUME NEW s \in Sessions, NEW at \in {"ask", "refund", "find", "release", "write", "charge"},
             NEW order \in Orders, NEW as \in AskState, NEW amount \in Int,
             Enter(s, at, order, as, amount), UNCHANGED asks,
             NEW w, writing' = [writing EXCEPT ![s] = w],
             w # NoEntry <=> at \in {"refund", "write", "charge"}
      PROVE  (\A x \in Sessions : StepHolds(x))'
  <2> DEFINE d == [at |-> at, order |-> order, ask |-> NoAsk, as |-> as, amount |-> amount]
  <2>1. d \in Step /\ desk' = [desk EXCEPT ![s] = d] /\ d.at = at /\ d.ask = NoAsk
    BY <1>e DEF Enter, Step
  <2> QED
    BY <1>1, <1>e, <2>1
<1>r. ASSUME NEW s \in Sessions, Reply(s), DOMAIN asks \subseteq DOMAIN asks',
             writing' = [writing EXCEPT ![s] = NoEntry]
      PROVE  (\A x \in Sessions : StepHolds(x))'
  <2> DEFINE d == [at |-> "idle", order |-> desk[s].order, ask |-> NoAsk,
                   as |-> "requested", amount |-> 0]
  <2>1. d \in Step /\ desk' = [desk EXCEPT ![s] = d]
    BY <1>0, <1>r DEF Reply, Step, AskState
  <2> QED
    BY <1>1, <1>r, <2>1
<1>q. ASSUME NEW s \in Sessions, desk[s].at \notin {"refund", "write", "charge"}, UNCHANGED writing
      PROVE  writing[s] = NoEntry /\ writing' = [writing EXCEPT ![s] = NoEntry]
  BY <1>0, <1>q DEF StepHolds
<1>f. ASSUME NEW s \in Sessions, Free(s), UNCHANGED writing
      PROVE  writing' = [writing EXCEPT ![s] = NoEntry]
  BY <1>0, <1>f DEF Free
<1>c. /\ "requested" \in AskState /\ "approved" \in AskState /\ "declined" \in AskState
      /\ 0 \in Int
  BY DEF AskState
<1>2. ASSUME NEW s \in Sessions, NEW order \in Orders, AskRead(s, order) \/ Decline(s, order)
      PROVE  (\A x \in Sessions : StepHolds(x))'
  <2>1. Free(s) /\ UNCHANGED <<asks, writing>>
    BY <1>2 DEF AskRead, Decline, Enter, vars
  <2> QED
    BY <1>2, <1>c, <1>e, <1>f, <2>1 DEF AskRead, Decline
<1>3. ASSUME NEW s \in Sessions, NEW order \in Orders, NEW amount \in Amounts,
             RefundCheck(s, order, amount) \/ Collect(s, order, amount)
               \/ CheckoutWrite(s, order, amount)
      PROVE  (\A x \in Sessions : StepHolds(x))'
  <2>1. Write(s, order, amount) /\ UNCHANGED asks
    BY <1>3, DeskAssumption DEF RefundCheck, Collect, CheckoutWrite, Write
  <2>2. PICK e \in Entry : writing' = [writing EXCEPT ![s] = e]
    BY <2>1, WriteEntry
  <2> QED
    BY <1>0, <1>3, <1>c, <1>e, <2>1, <2>2 DEF RefundCheck, Collect, CheckoutWrite
<1>4. ASSUME NEW s \in Sessions, NEW order \in Orders, NEW amount \in Amounts,
             RejectRead(s, order, amount)
      PROVE  (\A x \in Sessions : StepHolds(x))'
  <2>1. Free(s) /\ UNCHANGED <<asks, writing>> /\ amount \in Int
    BY <1>4, LedgerAssumption DEF RejectRead, Enter, vars
  <2> QED
    BY <1>4, <1>c, <1>e, <1>f, <2>1 DEF RejectRead
<1>5. ASSUME NEW s \in Sessions, AskInsert(s)
      PROVE  (\A x \in Sessions : StepHolds(x))'
  <2>1. desk[s].at = "ask" /\ UNCHANGED writing /\ desk[s].ask = NoAsk
    BY <1>5 DEF AskInsert, vars, StepHolds
  <2>2. CASE Open(desk[s].order) = {}
    BY <1>5, <1>q, <1>r, <2>1, <2>2 DEF AskInsert
  <2>3. CASE Open(desk[s].order) # {}
    <3> DEFINE d == [desk[s] EXCEPT !.at = "existing"]
    <3>1. d \in Step /\ d.at = "existing" /\ d.ask = NoAsk
      BY <1>0, <2>1 DEF Step
    <3>2. desk' = [desk EXCEPT ![s] = d] /\ UNCHANGED asks
      BY <1>5, <2>3 DEF AskInsert, GoTo
    <3> QED
      BY <1>1, <1>q, <2>1, <3>1, <3>2
  <2> QED
    BY <2>2, <2>3
<1>6. ASSUME NEW s \in Sessions, AskExisting(s)
      PROVE  (\A x \in Sessions : StepHolds(x))'
  BY <1>6, <1>q, <1>r DEF AskExisting, vars
<1>7. ASSUME NEW s \in Sessions, Insert(s), UNCHANGED asks,
             Reply(s) \/ GoTo(s, "find") \/ GoTo(s, "commit"), desk[s].at # "resolve"
      PROVE  (\A x \in Sessions : StepHolds(x))'
  <2>1. writing' = [writing EXCEPT ![s] = NoEntry] /\ desk[s].ask = NoAsk
    BY <1>7 DEF Insert, StepHolds
  <2>2. CASE Reply(s)
    BY <1>7, <1>r, <2>1, <2>2
  <2>3. ASSUME NEW at \in {"find", "commit"}, GoTo(s, at)
        PROVE  (\A x \in Sessions : StepHolds(x))'
    <3> DEFINE d == [desk[s] EXCEPT !.at = at]
    <3>1. d \in Step /\ d.at = at /\ d.ask = NoAsk
      BY <1>0, <2>1 DEF Step
    <3>2. desk' = [desk EXCEPT ![s] = d]
      BY <2>3 DEF GoTo
    <3> QED
      BY <1>1, <1>7, <2>1, <3>1, <3>2
  <2> QED
    BY <1>7, <2>2, <2>3
<1>8. ASSUME NEW s \in Sessions, ResolveFind(s)
      PROVE  (\A x \in Sessions : StepHolds(x))'
  <2>1. desk[s].at = "find" /\ UNCHANGED <<writing, asks>>
    BY <1>8 DEF ResolveFind, vars
  <2>2. CASE Reply(s)
    BY <1>q, <1>r, <2>1, <2>2
  <2>3. CASE Open(desk[s].order) # {}
    <3>1. PICK q \in Open(desk[s].order) :
             desk' = [desk EXCEPT ![s] = [@ EXCEPT !.at = "resolve", !.ask = q]]
      BY <1>8, <2>3 DEF ResolveFind
    <3> DEFINE d == [desk[s] EXCEPT !.at = "resolve", !.ask = q]
    <3>2. q \in DOMAIN asks /\ q \in RequestIds
      BY <3>1 DEF Open, DeskInv
    <3>3. d \in Step /\ d.at = "resolve" /\ d.ask = q
      BY <1>0, <3>2 DEF Step
    <3>4. desk' = [desk EXCEPT ![s] = d]
      BY <3>1
    <3>5. /\ writing' = [writing EXCEPT ![s] = NoEntry] /\ DOMAIN asks \subseteq DOMAIN asks'
          /\ IF d.at = "resolve" THEN d.ask \in DOMAIN asks ELSE d.ask = NoAsk
          /\ ~(d.at \in {"refund", "write", "charge"})
      BY <1>q, <2>1, <3>2, <3>3
    <3> HIDE DEF d
    <3> QED
      BY <1>1, <3>3, <3>4, <3>5
  <2> QED
    BY <1>8, <2>2, <2>3 DEF ResolveFind
<1>9. ASSUME NEW s \in Sessions, ResolveUpdate(s)
      PROVE  (\A x \in Sessions : StepHolds(x))'
  <2>1. /\ desk[s].at = "resolve" /\ UNCHANGED writing /\ Reply(s)
        /\ DOMAIN asks' = DOMAIN asks
    BY <1>9 DEF ResolveUpdate, vars
  <2> QED
    BY <1>q, <1>r, <2>1
<1>10. ASSUME NEW s \in Sessions, RejectRelease(s)
       PROVE  (\A x \in Sessions : StepHolds(x))'
  <2>1. desk[s].at = "release" /\ UNCHANGED asks /\ desk[s].ask = NoAsk
    BY <1>10 DEF RejectRelease, StepHolds
  <2>2. CASE Release(s, desk[s].order, desk[s].amount) /\ GoTo(s, "write")
    <3>1. desk[s].order \in Orders /\ desk[s].amount \in Amounts
      BY <1>0, <2>1 DEF DeskInv, StepRight, Step
    <3>2. PICK e \in Entry : writing' = [writing EXCEPT ![s] = e]
      BY <2>2, <3>1, WriteEntry DEF Write
    <3> DEFINE d == [desk[s] EXCEPT !.at = "write"]
    <3>3. d \in Step /\ d.at = "write" /\ d.ask = NoAsk
      BY <1>0, <2>1 DEF Step
    <3>4. desk' = [desk EXCEPT ![s] = d]
      BY <2>2 DEF GoTo
    <3> QED
      BY <1>0, <1>1, <2>1, <3>2, <3>3, <3>4
  <2>3. CASE Reply(s) /\ UNCHANGED vars
    BY <1>q, <1>r, <2>1, <2>3 DEF vars
  <2> QED
    BY <1>10, <2>2, <2>3 DEF RejectRelease
<1>11. ASSUME NEW s \in Sessions, Die(s)
       PROVE  (\A x \in Sessions : StepHolds(x))'
  <2>1. Reply(s) /\ UNCHANGED asks
    BY <1>11 DEF Die
  <2>2. writing' = [writing EXCEPT ![s] = NoEntry]
    BY <1>11, <1>q DEF Die, Rollback, Abandon, vars
  <2> QED
    BY <1>r, <2>1, <2>2
<1>12. CASE UNCHANGED <<writing, desk, asks>>
  BY <1>12 DEF StepHolds
<1>14. ASSUME NEW s \in Sessions, UnitEnds(s)
       PROVE  UNCHANGED <<writing, desk, asks>>
  <2>1. writing[s] = NoEntry /\ UNCHANGED <<desk, asks>>
    BY <1>14 DEF UnitEnds, Free
  <2> QED
    BY <1>0, <1>14, <2>1 DEF UnitEnds, Commit, Rollback
<1>15. ASSUME NEW s \in Sessions, CheckoutCommit(s)
       PROVE  (\A x \in Sessions : StepHolds(x))'
  <2>1. desk[s].at = "commit" /\ Reply(s) /\ UNCHANGED <<writing, asks>>
    BY <1>15 DEF CheckoutCommit, Commit
  <2> QED
    BY <1>q, <1>r, <2>1
<1>13. ASSUME NEW order \in Orders, ShopPaid(order)
       PROVE  UNCHANGED <<writing, desk, asks>>
  BY <1>13 DEF ShopPaid, vars
<1> QED
  BY <1>2, <1>3, <1>4, <1>5, <1>6, <1>7, <1>8, <1>9, <1>10, <1>11, <1>12, <1>13,
     <1>14, <1>15
  DEF DeskNext, RefundWrite, WriteRow, CheckoutInsert, allVars

LEMMA StepsHold == DeskSpec => []\A s \in Sessions : StepHolds(s)
<1>1. DeskInit => \A s \in Sessions : StepHolds(s)
  BY DEF DeskInit, Init, StepHolds
<1>2. DeskInv /\ TypeOK /\ (\A s \in Sessions : StepHolds(s)) /\ [DeskNext]_allVars
        => (\A s \in Sessions : StepHolds(s))'
  BY StepHoldsKeeps
<1>3. Spec => []TypeOK
  <2>1. LedgerInv => TypeOK
    BY DEF LedgerInv
  <2> QED
    BY <2>1, LedgerCorrect, PTL
<1> QED
  BY <1>1, <1>2, <1>3, DeskUsesLedger, DeskCorrect, PTL DEF DeskSpec

(* The desk's table and its handlers have their types; a session checks an *)
(* entry only inside a handler that is going to insert it.                 *)
THEOREM DeskTypes == DeskSpec => []DeskTypeOK
<1>1. LedgerInv /\ DeskInv /\ (\A s \in Sessions : StepHolds(s)) => DeskTypeOK
  <2> SUFFICES ASSUME LedgerInv, DeskInv, \A s \in Sessions : StepHolds(s) PROVE DeskTypeOK
    OBVIOUS
  <2>1. TypeOK /\ desk \in [Sessions -> Step]
    BY DEF LedgerInv, DeskInv, StepRight
  <2>2. paid \subseteq Orders
    BY <2>1 DEF DeskInv, HasRow, TypeOK, Entry
  <2>3. DOMAIN asks \subseteq RequestIds /\ \A q \in DOMAIN asks : asks[q] \in Ask
    BY DEF DeskInv, AskRight
  <2> QED
    BY <2>1, <2>2, <2>3 DEF DeskTypeOK, StepHolds
<1> QED
  BY <1>1, StepsHold, DeskCorrect, LedgerCorrect, DeskUsesLedger, PTL

(* However many handlers race, a row that closes a hold has a hold to      *)
(* close; with one handler at a time the order's money balances.           *)
THEOREM MoneyIsBounded == MCSpec => []MoneyBounds
<1> DEFINE Lane1 == lanes = 1 => OneHandler
           IInv  == lanes = 1 => Bounded
<1>1. MCSpec => DeskSpec
  <2>1. MCInit => DeskInit
    BY DEF MCInit
  <2>2. [MCNext]_<<allVars, lanes>> => [DeskNext]_allVars
    BY DEF MCNext
  <2> QED
    BY <2>1, <2>2, PTL DEF MCSpec, DeskSpec
<1>2. MCSpec => []Lane1
  <2>1. MCInit => Lane1
    BY DEF MCInit, DeskInit, Init, OneHandler, Busy, Idle
  <2>2. Lane1 /\ [MCNext]_<<allVars, lanes>> => Lane1'
    <3> SUFFICES ASSUME Lane1, [MCNext]_<<allVars, lanes>> PROVE Lane1'
      OBVIOUS
    <3>1. CASE MCNext
      BY <3>1 DEF MCNext
    <3>2. CASE UNCHANGED <<allVars, lanes>>
      BY <3>2 DEF allVars, OneHandler, Busy, Idle
    <3> QED
      BY <3>1, <3>2
  <2> QED
    BY <2>1, <2>2, PTL DEF MCSpec
<1>3. (\A s \in Sessions : StepHolds(s)) /\ OneHandler => OneWriter
  BY DEF StepHolds, OneHandler, OneWriter, Unfinished, Busy, Idle
<1>4. MCSpec => [](lanes = 1 => OneWriter)
  BY <1>1, <1>2, <1>3, StepsHold, PTL
<1>5. MCInit => IInv
  BY BoundedInit DEF MCInit, DeskInit
<1>6. /\ HoldInv /\ IInv /\ (lanes = 1 => OneWriter) /\ (lanes = 1 => OneWriter)'
      /\ [Next]_vars /\ [MCNext]_<<allVars, lanes>>
      => IInv'
  <2> SUFFICES ASSUME HoldInv, IInv, lanes = 1 => OneWriter, (lanes = 1 => OneWriter)',
                      [Next]_vars, [MCNext]_<<allVars, lanes>>, lanes' = 1
               PROVE  Bounded'
    OBVIOUS
  <2>1. lanes = 1
    BY DEF MCNext
  <2> QED
    BY <2>1, BoundedKeeps
<1>7. HoldInv /\ IInv => MoneyBounds
  BY DEF HoldInv, Checked, Bounded, Balanced, MoneyBounds, ClosingNeedsReserve,
         EscrowNeverNegative, RefundsBounded
<1>8. MCSpec => Spec
  BY <1>1, DeskUsesLedger, PTL
<1>9. MCSpec => []IInv
  <2> HIDE DEF IInv
  <2> QED
    BY <1>4, <1>5, <1>6, <1>8, HoldCorrect, PTL DEF MCSpec, Spec
<1> QED
  BY <1>7, <1>8, <1>9, HoldCorrect, PTL
===============================================================================

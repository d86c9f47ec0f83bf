-------------------------------- MODULE Ledger --------------------------------
(***************************************************************************)
(* The Ledger, sidecar/ledger/entries.py: an append-only table with one    *)
(* row per money event, written by concurrent database sessions.           *)
(*                                                                         *)
(* Every write is two awaits: the session reads the order's position and   *)
(* checks it, then inserts.  What it checked may be stale when it inserts; *)
(* only the unique idempotency key is enforced by the insert itself.  The  *)
(* insert commits nothing: the row is the session's own until the unit of  *)
(* work, which is the caller's, commits.                                   *)
(***************************************************************************)
EXTENDS Integers, FiniteSets, Functions

CONSTANTS Sessions,    \* database sessions that write
          Orders,
          Amounts,     \* the amounts callers ask for, in paise
          RefundIds,
          ReversalIds,
          Attempt,     \* the attempt number every caller passes
          NoEntry      \* no entry in hand

ASSUME LedgerAssumption ==
    /\ Amounts \subseteq Int
    /\ NoEntry \notin [kind : {"RESERVE", "CAPTURE", "RELEASE", "REFUND", "REVERSAL"},
                       order : Orders, amount : Nat,
                       ref : RefundIds \cup ReversalIds \cup {Attempt}, closes : BOOLEAN]

VARIABLES rows,     \* the committed rows
          flushed,  \* the rows each session's open unit of work has inserted
          writing,  \* the entry each session has checked and not yet inserted
          answer    \* the entry each session's last write returned

vars == <<rows, flushed, writing, answer>>

LedgerKind == {"RESERVE", "CAPTURE", "RELEASE", "REFUND", "REVERSAL"}

Entry == [kind : LedgerKind, order : Orders, amount : Nat,
          ref : RefundIds \cup ReversalIds \cup {Attempt}, closes : BOOLEAN]

(* order:kind:attempt, or order:kind:id for what the Provider names. *)
KeyOf(e) == <<e.order, e.kind, e.ref>>

Init ==
    /\ rows = {}
    /\ flushed = [s \in Sessions |-> {}]
    /\ writing = [s \in Sessions |-> NoEntry]
    /\ answer = [s \in Sessions |-> NoEntry]

-----------------------------------------------------------------------------
(* The position of an order, summed from the rows every time: the rows a   *)
(* session reads are the committed ones and its own.                       *)

View(s) == rows \cup flushed[s]

SumOf(entries) == SumFunction([e \in entries |-> e.amount])

Total(book, order, kind) == SumOf({e \in book : e.order = order /\ e.kind = kind})
Closing(book, order)     == SumOf({e \in book : e.order = order /\ e.closes})

OpenHolds(book, order)  == Total(book, order, "RESERVE") - Closing(book, order)
Refundable(book, order) == Total(book, order, "CAPTURE") - Total(book, order, "REFUND")

-----------------------------------------------------------------------------
(* The writes: what each checks of the position it read.                   *)

\* mutant: the sign of the amount is not looked at
PrepareUnchecked(s, kind, order, amount, ref, closes) ==
    /\ writing[s] = NoEntry
    /\ writing' = [writing EXCEPT ![s] = [kind |-> kind, order |-> order, amount |-> amount,
                                          ref |-> ref, closes |-> closes]]
    /\ answer' = [answer EXCEPT ![s] = NoEntry]
    /\ UNCHANGED <<rows, flushed>>

(* _append, as far as the insert: a negative amount is refused. *)
Prepare(s, kind, order, amount, ref, closes) ==
    /\ writing[s] = NoEntry
    /\ amount >= 0
    /\ writing' = [writing EXCEPT ![s] = [kind |-> kind, order |-> order, amount |-> amount,
                                          ref |-> ref, closes |-> closes]]
    /\ answer' = [answer EXCEPT ![s] = NoEntry]
    /\ UNCHANGED <<rows, flushed>>

Reserve(s, order, amount) ==
    /\ OpenHolds(View(s), order) <= 0
    /\ Prepare(s, "RESERVE", order, amount, Attempt, FALSE)

\* mutant: the amount is not compared with what is held
CaptureUnbounded(s, order, amount, cod) ==
    /\ OpenHolds(View(s), order) > 0 \/ cod
    /\ Prepare(s, "CAPTURE", order, amount, Attempt, OpenHolds(View(s), order) > 0)

\* mutant: a capture always claims to close a hold
CaptureClosing(s, order, amount, cod) ==
    /\ OpenHolds(View(s), order) > 0 \/ cod
    /\ OpenHolds(View(s), order) > 0 => amount <= OpenHolds(View(s), order)
    /\ Prepare(s, "CAPTURE", order, amount, Attempt, TRUE)

(* cod is allow_without_reserve: cash that never passed through a hold, and *)
(* then closes none.                                                        *)
Capture(s, order, amount, cod) ==
    LET held == OpenHolds(View(s), order)
    IN /\ held > 0 \/ cod
       /\ held > 0 => amount <= held
       /\ Prepare(s, "CAPTURE", order, amount, Attempt, held > 0)

Release(s, order, amount) ==
    LET held == OpenHolds(View(s), order)
    IN /\ held > 0
       /\ amount <= held
       /\ Prepare(s, "RELEASE", order, amount, Attempt, TRUE)

\* mutant: bounded by what was captured, earlier refunds forgotten
RefundOfCaptured(s, order, amount, id) ==
    /\ amount > 0
    /\ amount <= Total(View(s), order, "CAPTURE")
    /\ Prepare(s, "REFUND", order, amount, id, FALSE)

Refund(s, order, amount, id) ==
    /\ amount > 0
    /\ amount <= Refundable(View(s), order)
    /\ Prepare(s, "REFUND", order, amount, id, FALSE)

(* Bounded by nothing: the money has already left. *)
Reversal(s, order, amount, id) ==
    /\ amount > 0
    /\ Prepare(s, "REVERSAL", order, amount, id, FALSE)

\* mutant: the key is left off the table
InsertAlways(s) ==
    /\ writing[s] # NoEntry
    /\ flushed' = [flushed EXCEPT ![s] = @ \cup {writing[s]}]
    /\ answer' = [answer EXCEPT ![s] = writing[s]]
    /\ writing' = [writing EXCEPT ![s] = NoEntry]
    /\ UNCHANGED rows

\* mutant: a retry is answered with the entry it built
InsertEchoing(s) ==
    /\ writing[s] # NoEntry
    /\ \A t \in Sessions \ {s} : \A e \in flushed[t] : KeyOf(e) # KeyOf(writing[s])
    /\ flushed' = IF \E e \in View(s) : KeyOf(e) = KeyOf(writing[s])
                  THEN flushed ELSE [flushed EXCEPT ![s] = @ \cup {writing[s]}]
    /\ answer' = [answer EXCEPT ![s] = writing[s]]
    /\ writing' = [writing EXCEPT ![s] = NoEntry]
    /\ UNCHANGED rows

(* The insert, in a savepoint of the session.  It waits for another unit    *)
(* that has the key and is not over; where the key is taken the savepoint   *)
(* is rolled back and the row that is there is the answer.                  *)
Insert(s) ==
    LET taken == {e \in View(s) : KeyOf(e) = KeyOf(writing[s])}
    IN /\ writing[s] # NoEntry
       /\ \A t \in Sessions \ {s} : \A e \in flushed[t] : KeyOf(e) # KeyOf(writing[s])
       /\ IF taken = {}
          THEN /\ flushed' = [flushed EXCEPT ![s] = @ \cup {writing[s]}]
               /\ answer' = [answer EXCEPT ![s] = writing[s]]
          ELSE /\ \E e \in taken : answer' = [answer EXCEPT ![s] = e]
               /\ UNCHANGED flushed
       /\ writing' = [writing EXCEPT ![s] = NoEntry]
       /\ UNCHANGED rows

(* The unit of work commits. *)
Commit(s) ==
    /\ writing[s] = NoEntry
    /\ rows' = View(s)
    /\ flushed' = [flushed EXCEPT ![s] = {}]
    /\ UNCHANGED <<writing, answer>>

(* The unit of work fails, or the process dies, before its commit: its rows *)
(* are gone, and what it answered with them.                                *)
Rollback(s) ==
    /\ writing' = [writing EXCEPT ![s] = NoEntry]
    /\ flushed' = [flushed EXCEPT ![s] = {}]
    /\ answer' = [answer EXCEPT ![s] = NoEntry]
    /\ UNCHANGED rows

(* The caller fails between the check and the insert, and its unit of work  *)
(* goes on without the row.                                                 *)
Abandon(s) ==
    /\ writing[s] # NoEntry
    /\ writing' = [writing EXCEPT ![s] = NoEntry]
    /\ UNCHANGED <<rows, flushed, answer>>

Write(s, order, amount) ==
    \/ Reserve(s, order, amount)
    \/ \E cod \in BOOLEAN : Capture(s, order, amount, cod)
    \/ Release(s, order, amount)
    \/ \E id \in RefundIds : Refund(s, order, amount, id)
    \/ \E id \in ReversalIds : Reversal(s, order, amount, id)

Next ==
    \E s \in Sessions :
        \/ \E order \in Orders, amount \in Amounts : Write(s, order, amount)
        \/ Insert(s)
        \/ Commit(s)
        \/ Rollback(s)
        \/ Abandon(s)

Spec == Init /\ [][Next]_vars

-----------------------------------------------------------------------------
(* Properties *)

(* Types: rows, committed or not, are entries of natural amounts. *)
TypeOK ==
    /\ rows \subseteq Entry
    /\ flushed \in [Sessions -> SUBSET Entry]
    /\ writing \in [Sessions -> Entry \cup {NoEntry}]
    /\ answer \in [Sessions -> Entry \cup {NoEntry}]

(* A refund or a capture that was retried, or raced, was written once: no   *)
(* two rows, of whatever units of work, carry the same idempotency key.     *)
Written == rows \cup UNION {flushed[s] : s \in Sessions}

KeysUnique == \A d, e \in Written : KeyOf(d) = KeyOf(e) => d = e

(* What a write told its caller is a row of the ledger, even when another   *)
(* session's write of the same key got there first: its unit's until that   *)
(* is over, and there for good once it is committed.                        *)
AnswersAreRows == \A s \in Sessions : answer[s] # NoEntry => answer[s] \in View(s)

(* One key, one row, one answer: retries and races of a write are safe      *)
(* (uq_ledger_idempotency, and _append's reading of the row that won).      *)
WritesStand == KeysUnique /\ AnswersAreRows

(* Only money that was held is said to close a hold: cash on delivery never *)
(* balances a RESERVE that does not exist.                                  *)
ClosingNeedsReserve ==
    \A e \in rows : e.closes =>
        \E r \in rows : r.kind = "RESERVE" /\ r.order = e.order /\ r.amount >= e.amount

(* No hold is closed by more than it held (assert_invariants, first part).  *)
EscrowNeverNegative == \A order \in Orders : OpenHolds(rows, order) >= 0

(* Refunds are bounded by captures (assert_invariants, second part).        *)
RefundsBounded == \A order \in Orders : Refundable(rows, order) >= 0

(* Both parts of assert_invariants hold as long as no write is checked      *)
(* while another unit of work is between its check and its end.             *)
Unfinished(s) == writing[s] # NoEntry \/ flushed[s] # {}

OneWriter == \A s, t \in Sessions : Unfinished(s) /\ Unfinished(t) => s = t
==============================================================================

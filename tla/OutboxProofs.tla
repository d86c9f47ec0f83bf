---------------------------- MODULE OutboxProofs ----------------------------
(***************************************************************************)
(* No agent is told what did not happen, and what a row says of its         *)
(* delivery happened, for any agents, orders, queue and restarts.           *)
(***************************************************************************)
EXTENDS Outbox, SumProofs, TLAPS

EventRows == [order : Orders, kind : Statuses, state : {"pending", "delivered", "parked"},
              attempts : Nat, due : BOOLEAN]

(* The Merchant has taken what a handler is about to announce, and what any *)
(* row announces; it takes nothing back.                                    *)
OutboxInv ==
    /\ DOMAIN taken = Orders
    /\ handler \in [Orders -> [at : {"rest", "publish", "save"}, to : Statuses]]
    /\ events \in Seq(EventRows)
    /\ \A o \in Orders : handler[o].at = "publish" => handler[o].to \in taken[o]
    /\ ToldIsTrue

LEMMA InitOutbox == Init => OutboxInv
BY DEF Init, OutboxInv, ToldIsTrue, Rest, Statuses

(* What a row announces is not written again.                               *)
LEMMA AttemptKeeps ==
    ASSUME OutboxInv, NEW i, NEW e \in EventRows,
           i \in DOMAIN events => e.order = events[i].order /\ e.kind = events[i].kind,
           events' = [events EXCEPT ![i] = e], UNCHANGED <<taken, handler>>
    PROVE  OutboxInv'
<1>1. /\ events' \in Seq(EventRows) /\ DOMAIN events' = DOMAIN events
      /\ \A j \in DOMAIN events : j # i => events'[j] = events[j]
      /\ i \in DOMAIN events => events'[i] = e
  <2>1. events \in Seq(EventRows) /\ DOMAIN events = 1..Len(events)
    BY DEF OutboxInv
  <2>2. CASE i \in DOMAIN events
    BY <2>1, <2>2
  <2>3. CASE i \notin DOMAIN events
    <3>1. events' = events
      BY <2>1, <2>3
    <3> QED
      BY <2>1, <2>3, <3>1
  <2> QED
    BY <2>2, <2>3
<1> QED
  BY <1>1 DEF OutboxInv, ToldIsTrue

LEMMA SetStatusKeeps ==
    ASSUME OutboxInv, NEW o \in Orders, NEW to \in Statuses, SetStatus(o, to)
    PROVE  OutboxInv'
<1>1. /\ taken' = [taken EXCEPT ![o] = @ \cup {to}] /\ events' = events
      /\ \/ handler' = handler
         \/ handler' = [handler EXCEPT ![o] = [at |-> "publish", to |-> to]]
  BY DEF SetStatus, Takes, queue
<1>2. /\ DOMAIN taken' = Orders /\ to \in taken'[o]
      /\ \A p \in Orders : taken[p] \subseteq taken'[p]
  BY <1>1 DEF OutboxInv
<1>3. handler' \in [Orders -> [at : {"rest", "publish", "save"}, to : Statuses]]
  BY <1>1 DEF OutboxInv
<1>4. \A p \in Orders : handler'[p].at = "publish" => handler'[p].to \in taken'[p]
  BY <1>1, <1>2 DEF OutboxInv
<1>5. \A i \in DOMAIN events : events[i].order \in Orders
  <2>1. \A i \in DOMAIN events : events[i] \in EventRows
    BY DEF OutboxInv
  <2> QED
    BY <2>1 DEF EventRows
<1>6. ToldIsTrue'
  BY <1>1, <1>2, <1>5 DEF OutboxInv, ToldIsTrue
<1> QED
  BY <1>1, <1>2, <1>3, <1>4, <1>6 DEF OutboxInv

LEMMA PublishKeeps ==
    ASSUME OutboxInv, NEW o \in Orders, Publish(o)
    PROVE  OutboxInv'
<1> DEFINE e == [order |-> o, kind |-> handler[o].to, state |-> "pending", attempts |-> 0,
                 due |-> TRUE]
<1>1. /\ handler[o].at = "publish" /\ handler' = [handler EXCEPT ![o].at = "save"]
      /\ taken' = taken /\ (events' = events \/ events' = Append(events, e))
  BY DEF Publish
<1>2. e \in EventRows /\ e.order = o /\ e.kind \in taken[o]
  BY <1>1 DEF EventRows, OutboxInv
<1>3. /\ handler' \in [Orders -> [at : {"rest", "publish", "save"}, to : Statuses]]
      /\ \A p \in Orders : handler'[p].at = "publish" => handler'[p].to \in taken[p]
  BY <1>1 DEF OutboxInv
<1> HIDE DEF e
<1>4. events' \in Seq(EventRows) /\ ToldIsTrue'
  <2>1. CASE events' = events
    BY <1>1, <2>1 DEF OutboxInv, ToldIsTrue
  <2>2. CASE events' = Append(events, e)
    <3>1. /\ events' \in Seq(EventRows) /\ DOMAIN events' = DOMAIN events \cup {Len(events) + 1}
          /\ \A i \in DOMAIN events : events'[i] = events[i]
          /\ events'[Len(events) + 1] = e
      BY <1>2, <2>2 DEF OutboxInv
    <3> QED
      BY <1>1, <1>2, <3>1 DEF OutboxInv, ToldIsTrue
  <2> QED
    BY <1>1, <2>1, <2>2
<1> QED
  BY <1>1, <1>3, <1>4 DEF OutboxInv

LEMMA StepKeeps == OutboxInv /\ [Next]_vars => OutboxInv'
<1> SUFFICES ASSUME OutboxInv, [Next]_vars PROVE OutboxInv'
  OBVIOUS
<1>1. CASE UNCHANGED <<taken, events, handler>>
  BY <1>1 DEF OutboxInv, ToldIsTrue
<1>2. ASSUME NEW o \in Orders, NEW to \in Statuses, SetStatus(o, to) PROVE OutboxInv'
  BY <1>2, SetStatusKeeps
<1>3. ASSUME NEW o \in Orders, Publish(o) PROVE OutboxInv'
  BY <1>3, PublishKeeps
<1>4. CASE Restart
  BY <1>4 DEF Restart, OutboxInv, ToldIsTrue, Rest, Statuses
<1>5. ASSUME NEW o \in Orders, SaveRow(o) PROVE OutboxInv'
  BY <1>5 DEF SaveRow, queue, OutboxInv, ToldIsTrue, Rest, Statuses
<1>6. ASSUME NEW i, NEW e \in EventRows,
             i \in DOMAIN events => e.order = events[i].order /\ e.kind = events[i].kind,
             events' = [events EXCEPT ![i] = e], UNCHANGED <<taken, handler>>
      PROVE  OutboxInv'
  BY <1>6, AttemptKeeps
<1>7. \A i \in DOMAIN events : events[i] \in EventRows
  BY DEF OutboxInv
<1>8. CASE Delivered \/ DeliverFails \/ \E i \in 1..MaxEvents : BackoffEnds(i)
  <2>1. PICK i, e : /\ events' = [events EXCEPT ![i] = e] /\ UNCHANGED <<taken, handler>>
                    /\ e = Failed(events[i]) \/ e = [events[i] EXCEPT !.state = "delivered", !.due = FALSE]
                         \/ e = [events[i] EXCEPT !.due = TRUE]
    <3>1. CASE Delivered
      BY <3>1 DEF Delivered
    <3>2. CASE DeliverFails
      BY <3>2 DEF DeliverFails
    <3>3. CASE \E i \in 1..MaxEvents : BackoffEnds(i)
      BY <3>3 DEF BackoffEnds
    <3> QED
      BY <1>8, <3>1, <3>2, <3>3
  <2>2. CASE i \in DOMAIN events
    <3>1. events[i] \in EventRows
      BY <1>7, <2>2
    <3>2. e \in EventRows /\ e.order = events[i].order /\ e.kind = events[i].kind
      <4>1. CASE e = Failed(events[i])
        <5> DEFINE f(x) == [[[events[i] EXCEPT !.attempts = @ + 1] EXCEPT !.state = x] EXCEPT !.due = FALSE]
        <5>1. events[i].attempts + 1 \in Nat /\ events[i].state \in {"pending", "delivered", "parked"}
          BY <3>1 DEF EventRows
        <5>2. e = f("parked") \/ e = f(events[i].state)
          BY <3>1, <4>1 DEF Failed, EventRows
        <5>3. \A x \in {"pending", "delivered", "parked"} :
                f(x) \in EventRows /\ f(x).order = events[i].order /\ f(x).kind = events[i].kind
          BY <3>1, <5>1 DEF EventRows
        <5> QED
          BY <5>1, <5>2, <5>3
      <4>2. CASE e = [events[i] EXCEPT !.state = "delivered", !.due = FALSE]
        BY <3>1, <4>2 DEF EventRows
      <4>3. CASE e = [events[i] EXCEPT !.due = TRUE]
        BY <3>1, <4>3 DEF EventRows
      <4> QED
        BY <2>1, <4>1, <4>2, <4>3
    <3> QED
      BY <1>6, <2>1, <3>2
  <2>3. CASE i \notin DOMAIN events
    <3>1. events' = events
      BY <2>1, <2>3 DEF OutboxInv
    <3> QED
      BY <1>1, <2>1, <3>1
  <2> QED
    BY <2>2, <2>3
<1> QED
  <2>1. \/ UNCHANGED <<taken, events, handler>> \/ Restart
        \/ Delivered \/ DeliverFails \/ \E i \in 1..MaxEvents : BackoffEnds(i)
        \/ \E o \in Orders : \E to \in Statuses : SetStatus(o, to)
        \/ \E o \in Orders : Publish(o) \/ SaveRow(o)
    BY DEF Next, Tick, vars, queue, Register, Resync, ReadDue, Deliver, CutShort
  <2> QED
    BY <1>1, <1>2, <1>3, <1>4, <1>5, <1>8, <2>1

(* checkout.py:320: an agent is never told of a change the Merchant did not *)
(* take, however door 8, the queue, the tick and restarts interleave.       *)
THEOREM NothingUntrueIsTold == Spec => []ToldIsTrue
<1>1. OutboxInv => ToldIsTrue
  BY DEF OutboxInv
<1> QED
  BY <1>1, InitOutbox, StepKeeps, PTL DEF Spec
-----------------------------------------------------------------------------
(* What a row says of its delivery.  A row that is posted and not yet       *)
(* written, or delivered, was sent once more than it failed and than the    *)
(* process or the database lost an attempt; any other at most as often.     *)

RowHonest(i) ==
    /\ events[i].state = "parked" <=> events[i].attempts = MAX_ATTEMPTS
    /\ events[i].state = "delivered" => got[i] > 0
    /\ got[i] <= events[i].attempts + crashes + 1
    /\ got[i] = events[i].attempts + crashes + 1 =>
         events[i].state = "delivered" \/ (posted /\ i = Turn)

QueueInv ==
    /\ keyring \in BOOLEAN
    /\ seen \in [Agents -> {"unknown", "known", "callback"}]
    /\ status \in [Orders -> Statuses] /\ row \in [Orders -> Statuses]
    /\ taken \in [Orders -> SUBSET Statuses]
    /\ \A o \in Orders : handler[o].at = "publish" => handler[o].to # "pending"
    /\ events \in Seq(Rows) /\ got \in Seq(Nat) /\ Len(got) = Len(events)
    /\ \A i \in drain : i \in DOMAIN events /\ events[i].state = "pending"
    /\ posted \in BOOLEAN /\ crashes \in 0..MaxCrashes
    /\ posted => drain # {} /\ got[Turn] > 0
    /\ \A i \in DOMAIN events : RowHonest(i)

LEMMA InitQueue == Init => QueueInv
<1> SUFFICES ASSUME Init PROVE QueueInv
  OBVIOUS
<1>1. 0 \in 0..MaxCrashes
  BY OutboxAssumption
<1>2. /\ keyring \in BOOLEAN /\ drain = {} /\ posted = FALSE /\ crashes = 0
      /\ status = [o \in Orders |-> "pending"] /\ row = status
      /\ taken = [o \in Orders |-> {}] /\ handler = [o \in Orders |-> Rest]
  BY DEF Init
<1>3. status \in [Orders -> Statuses] /\ row \in [Orders -> Statuses]
  BY <1>2 DEF Statuses
<1>4. taken \in [Orders -> SUBSET Statuses]
  BY <1>2
<1>5. \A o \in Orders : handler[o].at = "publish" => handler[o].to # "pending"
  BY <1>2 DEF Rest
<1>6. seen \in [Agents -> {"unknown", "known", "callback"}]
  BY DEF Init
<1>7. /\ events \in Seq(Rows) /\ got \in Seq(Nat) /\ Len(got) = Len(events)
      /\ DOMAIN events = {}
  BY DEF Init
<1> QED
  BY <1>1, <1>2, <1>3, <1>4, <1>5, <1>6, <1>7 DEF QueueInv

LEMMA TurnIsDrained ==
    ASSUME QueueInv, drain # {}
    PROVE  Turn \in drain /\ Turn \in DOMAIN events /\ events[Turn].state = "pending"
<1>1. drain \in SUBSET Nat
  BY DEF QueueInv
<1>2. \E n \in drain : \A m \in drain : n <= m
  BY <1>1, Least
<1>3. Turn \in drain
  BY <1>2 DEF Turn
<1> QED
  BY <1>3 DEF QueueInv

LEMMA RowAt ==
    ASSUME QueueInv, NEW i \in DOMAIN events
    PROVE  /\ events[i] \in Rows /\ got[i] \in Nat /\ i \in DOMAIN got /\ RowHonest(i)
           /\ crashes \in Nat /\ events[i].attempts \in Nat
<1>1. events[i] \in Rows /\ got[i] \in Nat /\ i \in DOMAIN got /\ RowHonest(i) /\ crashes \in Nat
  BY DEF QueueInv
<1>2. events[i].attempts \in Nat
  BY <1>1, OutboxAssumption DEF Rows
<1> QED
  BY <1>1, <1>2

LEMMA RowWritten ==
    ASSUME QueueInv, NEW i \in DOMAIN events, NEW e \in Rows, events' = [events EXCEPT ![i] = e]
    PROVE  /\ events' \in Seq(Rows) /\ Len(events') = Len(events) /\ DOMAIN events' = DOMAIN events
           /\ events'[i] = e /\ \A j \in DOMAIN events : j # i => events'[j] = events[j]
BY DEF QueueInv

(* What the steps of the tick leave alone. *)
Aside == <<keyring, seen, status, taken, row, handler, crashes>>

LEMMA DeliverKeeps == ASSUME QueueInv, Deliver PROVE QueueInv'
<1>1. /\ drain # {} /\ ~posted /\ posted' /\ UNCHANGED <<Aside, events, drain>>
      /\ got' = [got EXCEPT ![Turn] = @ + 1] /\ posted' \in BOOLEAN
  BY DEF Deliver, Aside
<1>2. Turn \in DOMAIN events /\ got[Turn] \in Nat /\ Turn \in DOMAIN got /\ Turn' = Turn
  BY <1>1, TurnIsDrained, RowAt DEF Turn
<1>3. /\ got' \in Seq(Nat) /\ Len(got') = Len(got)
      /\ \A i \in DOMAIN events : got'[i] = IF i = Turn THEN got[i] + 1 ELSE got[i]
  BY <1>1, <1>2 DEF QueueInv
<1>4. ASSUME NEW i \in DOMAIN events PROVE RowHonest(i)'
  <2>1. /\ events[i] \in Rows /\ got[i] \in Nat /\ RowHonest(i) /\ crashes \in Nat
        /\ events[i].attempts \in Nat
    BY RowAt
  <2>2. CASE i = Turn
    <3>1. events[i].state = "pending"
      BY <1>1, <2>2, TurnIsDrained
    <3>2. got[i] <= events[i].attempts + crashes
      BY <1>1, <2>1, <3>1 DEF RowHonest
    <3> QED
      BY <1>1, <1>2, <1>3, <2>1, <2>2, <3>1, <3>2 DEF RowHonest, Aside
  <2>3. CASE i # Turn
    BY <1>1, <1>2, <1>3, <2>1, <2>3 DEF RowHonest, Aside
  <2> QED
    BY <2>2, <2>3
<1>5. got'[Turn'] > 0
  BY <1>2, <1>3
<1> QED
  BY <1>1, <1>3, <1>4, <1>5 DEF QueueInv, Aside

(* A row whose turn it is is written and leaves the batch.                  *)
LEMMA DealtWith ==
    ASSUME QueueInv, drain # {}, NEW e \in Rows, events' = [events EXCEPT ![Turn] = e],
           drain' = drain \ {Turn}, UNCHANGED <<Aside, got>>, ~posted', posted' \in BOOLEAN,
           e.state = "parked" <=> e.attempts = MAX_ATTEMPTS,
           IF e.state = "delivered" THEN posted /\ e.attempts = events[Turn].attempts
                                    ELSE e.attempts = events[Turn].attempts + 1
    PROVE  QueueInv'
<1>1. /\ events' \in Seq(Rows) /\ Len(events') = Len(events) /\ DOMAIN events' = DOMAIN events
      /\ events'[Turn] = e /\ \A j \in DOMAIN events : j # Turn => events'[j] = events[j]
      /\ Turn \in DOMAIN events /\ events[Turn].state = "pending"
  BY TurnIsDrained, RowWritten
<1>2. ASSUME NEW i \in DOMAIN events PROVE RowHonest(i)'
  <2>1. /\ events[i] \in Rows /\ got[i] \in Nat /\ RowHonest(i) /\ crashes \in Nat
        /\ events[i].attempts \in Nat
    BY RowAt
  <2>2. CASE i = Turn
    <3>1. posted => got[i] > 0
      BY <2>2 DEF QueueInv
    <3>2. events'[i] = e /\ got[i] <= events[i].attempts + crashes + 1
      BY <1>1, <2>1, <2>2 DEF RowHonest
    <3>3. got[i] <= e.attempts + crashes + 1
      BY <2>1, <2>2, <3>2
    <3>4. got[i] = e.attempts + crashes + 1 => e.state = "delivered"
      BY <2>1, <2>2, <3>2
    <3> QED
      BY <2>2, <3>1, <3>2, <3>3, <3>4 DEF RowHonest, Aside
  <2>3. CASE i # Turn
    <3>1. events'[i] = events[i]
      BY <1>1, <2>3
    <3> QED
      BY <2>1, <2>3, <3>1 DEF RowHonest, Aside
  <2> QED
    BY <2>2, <2>3
<1>3. \A i \in drain' : i \in DOMAIN events' /\ events'[i].state = "pending"
  BY <1>1 DEF QueueInv
<1> QED
  BY <1>1, <1>2, <1>3 DEF QueueInv, Aside

LEMMA TickKeeps == ASSUME QueueInv, Tick PROVE QueueInv'
<1>1. CASE ReadDue
  <2>1. /\ drain = {} /\ UNCHANGED <<Aside, events, posted, got>> /\ ~posted
        /\ drain' \subseteq Due
    BY <1>1 DEF ReadDue, Oldest, Aside, QueueInv
  <2>2. \A i \in DOMAIN events : RowHonest(i)'
    BY <2>1 DEF QueueInv, RowHonest, Aside
  <2> QED
    BY <2>1, <2>2 DEF QueueInv, Aside, Due
<1>2. CASE Deliver
  BY <1>2, DeliverKeeps
<1>t. ASSUME drain # {}
      PROVE  /\ Turn \in DOMAIN events /\ events[Turn].state = "pending" /\ events[Turn] \in Rows
             /\ RowHonest(Turn)
  BY <1>t, TurnIsDrained, RowAt
<1>3. CASE Delivered
  <2> DEFINE e == [[events[Turn] EXCEPT !.state = "delivered"] EXCEPT !.due = FALSE]
  <2>1. /\ drain # {} /\ posted /\ drain' = drain \ {Turn} /\ ~posted' /\ posted' \in BOOLEAN
        /\ UNCHANGED <<Aside, got>>
    BY <1>3 DEF Delivered, Aside
  <2>2. events' = [events EXCEPT ![Turn] = e]
    BY <1>3 DEF Delivered
  <2>3. e \in Rows /\ e.state = "delivered" /\ e.attempts # MAX_ATTEMPTS /\ e.attempts = events[Turn].attempts
    BY <1>t, <2>1 DEF Rows, RowHonest
  <2> HIDE DEF e
  <2> QED
    BY <2>1, <2>2, <2>3, DealtWith
<1>4. CASE DeliverFails
  <2> DEFINE x == events[Turn]
             f(s) == [[[x EXCEPT !.attempts = @ + 1] EXCEPT !.state = s] EXCEPT !.due = FALSE]
  <2>1. /\ drain # {} /\ ~posted' /\ drain' = drain \ {Turn} /\ UNCHANGED <<Aside, got>>
        /\ events' = [events EXCEPT ![Turn] = Failed(x)] /\ posted' \in BOOLEAN
    BY <1>4 DEF DeliverFails, Aside, QueueInv
  <2>2. /\ x \in Rows /\ x.state = "pending" /\ x.attempts \in 0..MAX_ATTEMPTS
        /\ x.attempts # MAX_ATTEMPTS
    BY <1>t, <2>1 DEF RowHonest, Rows
  <2>3. x.attempts + 1 \in 0..MAX_ATTEMPTS /\ (x.attempts + 1 >= MAX_ATTEMPTS <=> x.attempts + 1 = MAX_ATTEMPTS)
    BY <2>2, OutboxAssumption
  <2>4. Failed(x) = IF x.attempts + 1 >= MAX_ATTEMPTS THEN f("parked") ELSE f("pending")
    BY <2>2 DEF Failed, Rows
  <2>5. \A s \in {"pending", "parked"} :
           f(s) \in Rows /\ f(s).state = s /\ f(s).attempts = x.attempts + 1
    BY <2>2, <2>3 DEF Rows
  <2>6. /\ Failed(x) \in Rows /\ Failed(x).state \in {"pending", "parked"}
        /\ Failed(x).state = "parked" <=> Failed(x).attempts = MAX_ATTEMPTS
        /\ Failed(x).attempts = x.attempts + 1
    BY <2>3, <2>4, <2>5
  <2> QED
    BY <2>1, <2>6, DealtWith
<1> QED
  BY <1>1, <1>2, <1>3, <1>4 DEF Tick

LEMMA BackoffKeeps == ASSUME QueueInv, NEW n, BackoffEnds(n) PROVE QueueInv'
<1> DEFINE e == [events[n] EXCEPT !.due = TRUE]
<1>1. /\ n \in DOMAIN events /\ events[n].state = "pending"
      /\ events' = [events EXCEPT ![n] = e] /\ UNCHANGED <<Aside, drain, posted, got>>
  BY DEF BackoffEnds, Aside
<1>2. e \in Rows /\ e.state = "pending" /\ e.attempts = events[n].attempts
  BY <1>1, RowAt DEF Rows
<1> HIDE DEF e
<1>3. /\ events' \in Seq(Rows) /\ Len(events') = Len(events) /\ DOMAIN events' = DOMAIN events
      /\ events'[n] = e /\ \A j \in DOMAIN events : j # n => events'[j] = events[j]
  BY <1>1, <1>2, RowWritten
<1>4. Turn' = Turn
  BY <1>1 DEF Turn
<1>5. ASSUME NEW i \in DOMAIN events PROVE RowHonest(i)'
  <2>1. /\ RowHonest(i) /\ events'[i].state = events[i].state
        /\ events'[i].attempts = events[i].attempts
    BY <1>1, <1>2, <1>3, RowAt
  <2> QED
    BY <1>1, <1>4, <2>1 DEF RowHonest, Aside
<1>6. \A i \in drain : i \in DOMAIN events' /\ events'[i].state = "pending"
  BY <1>1, <1>2, <1>3 DEF QueueInv
<1> QED
  BY <1>1, <1>3, <1>4, <1>5, <1>6 DEF QueueInv, Aside

LEMMA PublishQueues ==
    ASSUME QueueInv, OutboxInv, NEW o \in Orders, Publish(o) PROVE QueueInv'
<1> DEFINE to == handler[o].to
           e == [order |-> o, kind |-> to, state |-> "pending", attempts |-> 0, due |-> TRUE]
<1>1. /\ handler[o].at = "publish" /\ handler' = [handler EXCEPT ![o].at = "save"]
      /\ UNCHANGED <<keyring, seen, status, taken, row, drain, posted, crashes>>
  BY DEF Publish
<1>2. \A p \in Orders : handler'[p].at = "publish" => handler'[p].to # "pending"
  BY <1>1 DEF QueueInv, OutboxInv
<1>3. Turn' = Turn
  BY <1>1 DEF Turn
<1>4. CASE UNCHANGED <<events, got>>
  <2>1. \A i \in DOMAIN events : RowHonest(i)'
    BY <1>1, <1>3, <1>4 DEF QueueInv, RowHonest
  <2> QED
    BY <1>1, <1>2, <1>3, <1>4, <2>1 DEF QueueInv
<1>5. CASE Addressee(to) /\ events' = Append(events, e) /\ got' = Append(got, 0)
  <2>1. to \in Statuses /\ to # "pending" /\ to # "expired"
    BY <1>1, <1>5 DEF OutboxInv, QueueInv, Addressee
  <2>2. e \in Rows /\ e.state = "pending" /\ e.attempts = 0 /\ 0 # MAX_ATTEMPTS
    BY <2>1, OutboxAssumption DEF Rows
  <2> HIDE DEF e
  <2>3. /\ events' \in Seq(Rows) /\ Len(events') = Len(events) + 1
        /\ DOMAIN events' = DOMAIN events \cup {Len(events) + 1}
        /\ Len(events) + 1 \notin DOMAIN events
        /\ \A i \in DOMAIN events : events'[i] = events[i]
        /\ events'[Len(events) + 1] = e
    BY <1>5, <2>2 DEF QueueInv
  <2>4. /\ got' \in Seq(Nat) /\ Len(got') = Len(got) + 1
        /\ \A i \in DOMAIN events : got'[i] = got[i]
        /\ got'[Len(events) + 1] = 0
    BY <1>5 DEF QueueInv
  <2>5. ASSUME NEW i \in DOMAIN events' PROVE RowHonest(i)'
    <3>1. CASE i \in DOMAIN events
      <4>1. RowHonest(i) /\ events'[i] = events[i] /\ got'[i] = got[i]
        BY <2>3, <2>4, <3>1, RowAt
      <4> QED
        BY <1>1, <1>3, <4>1 DEF RowHonest
    <3>2. CASE i = Len(events) + 1
      <4>1. crashes \in Nat /\ crashes' = crashes
        BY <1>1 DEF QueueInv
      <4>2. events'[i] = e /\ got'[i] = 0
        BY <2>3, <2>4, <3>2
      <4> QED
        BY <2>2, <4>1, <4>2 DEF RowHonest
    <3> QED
      BY <2>3, <3>1, <3>2
  <2>6. \A i \in drain : i \in DOMAIN events' /\ events'[i].state = "pending"
    BY <2>3 DEF QueueInv
  <2>7. posted => drain # {} /\ got'[Turn] > 0
    BY <2>4, TurnIsDrained DEF QueueInv
  <2> QED
    BY <1>1, <1>2, <1>3, <2>3, <2>4, <2>5, <2>6, <2>7 DEF QueueInv
<1> QED
  BY <1>4, <1>5 DEF Publish

(* A step that leaves the queue alone. *)
LEMMA QueueStays ==
    ASSUME QueueInv, UNCHANGED <<queue, crashes>>
    PROVE  /\ events' \in Seq(Rows) /\ got' \in Seq(Nat) /\ Len(got') = Len(events')
           /\ \A i \in drain' : i \in DOMAIN events' /\ events'[i].state = "pending"
           /\ posted' \in BOOLEAN /\ crashes' \in 0..MaxCrashes
           /\ posted' => drain' # {} /\ got'[Turn'] > 0
           /\ \A i \in DOMAIN events' : RowHonest(i)'
<1>1. UNCHANGED <<events, drain, posted, got, crashes>> /\ Turn' = Turn
  BY DEF queue, Turn
<1>2. \A i \in DOMAIN events : RowHonest(i)'
  BY <1>1 DEF QueueInv, RowHonest
<1> QED
  BY <1>1, <1>2 DEF QueueInv

LEMMA RestartKeeps == ASSUME QueueInv, Restart PROVE QueueInv'
<1>1. /\ crashes' = crashes + 1 /\ crashes < MaxCrashes /\ drain' = {} /\ posted' = FALSE
      /\ UNCHANGED <<keyring, status, taken, row, events, got>>
  BY DEF Restart
<1>a. crashes \in Nat /\ crashes' \in 0..MaxCrashes
  <2>1. crashes \in 0..MaxCrashes
    BY DEF QueueInv
  <2> QED
    BY <1>1, <2>1, OutboxAssumption
<1>2. ASSUME NEW i \in DOMAIN events PROVE RowHonest(i)'
  <2>1. RowHonest(i) /\ got[i] \in Nat /\ events[i].attempts \in Nat
    BY RowAt
  <2> QED
    BY <1>1, <1>a, <2>1 DEF RowHonest
<1>3. /\ seen' \in [Agents -> {"unknown", "known", "callback"}]
      /\ \A o \in Orders : handler'[o].at # "publish"
  BY DEF Restart, Rest
<1> QED
  BY <1>1, <1>a, <1>2, <1>3 DEF QueueInv

LEMMA CutShortKeeps == ASSUME QueueInv, CutShort PROVE QueueInv'
<1>1. /\ crashes' = crashes + 1 /\ crashes < MaxCrashes /\ drain' = {} /\ posted' = FALSE
      /\ UNCHANGED <<keyring, seen, status, taken, row, handler, events, got>>
  BY DEF CutShort
<1>2. crashes \in Nat /\ crashes' \in 0..MaxCrashes
  <2>1. crashes \in 0..MaxCrashes
    BY DEF QueueInv
  <2> QED
    BY <1>1, <2>1, OutboxAssumption
<1>3. ASSUME NEW i \in DOMAIN events PROVE RowHonest(i)'
  <2>1. RowHonest(i) /\ got[i] \in Nat /\ events[i].attempts \in Nat
    BY RowAt
  <2> QED
    BY <1>1, <1>2, <2>1 DEF RowHonest
<1> QED
  BY <1>1, <1>2, <1>3 DEF QueueInv

LEMMA QueueKeeps == QueueInv /\ OutboxInv /\ [Next]_vars => QueueInv'
<1> SUFFICES ASSUME QueueInv, OutboxInv, [Next]_vars PROVE QueueInv'
  OBVIOUS
<1>1. ASSUME NEW a \in Agents, NEW callback \in BOOLEAN, Register(a, callback) PROVE QueueInv'
  <2>1. seen' \in [Agents -> {"unknown", "known", "callback"}]
    BY <1>1 DEF Register, Note, QueueInv
  <2> QED
    BY <1>1, <2>1, QueueStays DEF Register, QueueInv
<1>2. ASSUME NEW o \in Orders, NEW to \in Statuses, SetStatus(o, to) PROVE QueueInv'
  <2>1. to # "pending"
    BY <1>2 DEF SetStatus, Calls, Moves
  <2>2. /\ taken' \in [Orders -> SUBSET Statuses] /\ status' \in [Orders -> Statuses]
        /\ \A p \in Orders : handler'[p].at = "publish" => handler'[p].to # "pending"
        /\ UNCHANGED <<keyring, seen, row, queue, crashes>>
    <3>1. Takes(o, to) /\ UNCHANGED <<keyring, seen, row, queue, crashes>>
      BY <1>2 DEF SetStatus
    <3>2. taken' \in [Orders -> SUBSET Statuses]
      BY <3>1 DEF Takes, QueueInv
    <3>3. status' \in [Orders -> Statuses]
      BY <3>1 DEF Takes, QueueInv
    <3>4. handler' = [handler EXCEPT ![o] = [at |-> "publish", to |-> to]] \/ handler' = handler
      BY <1>2 DEF SetStatus
    <3>5. \A p \in Orders : handler'[p].at = "publish" => handler'[p].to # "pending"
      <4>1. /\ DOMAIN handler = Orders
            /\ \A p \in Orders : handler[p].at = "publish" => handler[p].to # "pending"
        BY DEF QueueInv, OutboxInv
      <4>2. \A p \in Orders : handler'[p] = handler[p] \/ handler'[p] = [at |-> "publish", to |-> to]
        BY <3>4, <4>1
      <4>3. [at |-> "publish", to |-> to].to # "pending"
        BY <2>1
      <4> QED
        BY <4>1, <4>2, <4>3
    <3> QED
      BY <3>1, <3>2, <3>3, <3>5
  <2> QED
    BY <2>2, QueueStays DEF QueueInv
<1>3. ASSUME NEW o \in Orders, SaveRow(o) PROVE QueueInv'
  <2>1. /\ row' \in [Orders -> Statuses]
        /\ \A p \in Orders : handler'[p].at = "publish" => handler'[p].to # "pending"
        /\ UNCHANGED <<keyring, seen, status, taken, queue, crashes>>
    BY <1>3 DEF SaveRow, QueueInv, OutboxInv, Rest
  <2> QED
    BY <2>1, QueueStays DEF QueueInv
<1>4. ASSUME NEW o \in Orders, Resync(o) PROVE QueueInv'
  <2>1. /\ row' \in [Orders -> Statuses]
        /\ UNCHANGED <<keyring, seen, status, taken, handler, queue, crashes>>
    BY <1>4 DEF Resync, QueueInv
  <2> QED
    BY <2>1, QueueStays DEF QueueInv
<1>5. CASE UNCHANGED vars
  <2>1. UNCHANGED <<keyring, seen, status, taken, row, handler, queue, crashes>>
    BY <1>5 DEF vars
  <2> QED
    BY <2>1, QueueStays DEF QueueInv
<1> QED
  BY <1>1, <1>2, <1>3, <1>4, <1>5, PublishQueues, TickKeeps, BackoffKeeps, CutShortKeeps,
     RestartKeeps DEF Next

LEMMA OutboxInvariant == Spec => [](OutboxInv /\ QueueInv)
<1>1. OutboxInv /\ QueueInv /\ [Next]_vars => (OutboxInv /\ QueueInv)'
  BY StepKeeps, QueueKeeps
<1> QED
  BY <1>1, InitOutbox, InitQueue, PTL DEF Spec

(* The columns of order_events, and a batch of rows that are still pending  *)
(* (events.py:57, :182).                                                    *)
THEOREM OutboxTypes == Spec => []TypeOK
<1>1. OutboxInv /\ QueueInv => TypeOK
  BY DEF OutboxInv, QueueInv, TypeOK
<1> QED
  BY <1>1, OutboxInvariant, PTL

(* A row is given up after exactly MAX_ATTEMPTS failures (events.py:189),   *)
(* says delivered only of what the agent received, and counts every time    *)
(* the agent received it, but for those a restart or the database lost      *)
(* (sweeper.py:299): for any agents, orders, batches, attempts, restarts.   *)
THEOREM RowsAreHonest == Spec => []DeliveryIsHonest
<1>1. QueueInv => DeliveryIsHonest
  <2> SUFFICES ASSUME QueueInv PROVE DeliveryIsHonest
    OBVIOUS
  <2>1. DOMAIN got = DOMAIN events
    BY DEF QueueInv
  <2>2. \A i \in DOMAIN events : /\ RowHonest(i) /\ got[i] \in Nat /\ crashes \in Nat
                                 /\ events[i].attempts \in Nat
    BY RowAt
  <2>3. EverySendIsCounted
    BY <2>1, <2>2 DEF RowHonest, EverySendIsCounted
  <2> QED
    BY <2>2, <2>3 DEF RowHonest, DeliveryIsHonest, ParkedWasTried, DeliveredWasReceived
<1> QED
  BY <1>1, OutboxInvariant, PTL
=============================================================================

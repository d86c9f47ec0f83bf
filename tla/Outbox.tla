------------------------------- MODULE Outbox -------------------------------
(***************************************************************************)
(* Order events: admission remembers where an agent wants to be told        *)
(* (admission/oauth.py), every status change queues an event for the agent  *)
(* of the order (checkout.py set_status, publish_order_event), and the      *)
(* sweeper's tick delivers what is due (sweeper.py drain_events,            *)
(* protocols/events.py).                                                    *)
(*                                                                         *)
(* The queue is a table; the admission records live in the process.  A      *)
(* status change is three steps: door 8, the event, the sidecar's own copy. *)
(***************************************************************************)
EXTENDS Integers, Sequences, FiniteSets

CONSTANTS Agents, Orders,
          AgentOf,      \* who placed the order: [Orders -> Agents]
          MAX_ATTEMPTS, \* events.py:45, 6 in the code
          Limit,        \* rows one drain takes, 50 in the code
          MaxEvents, MaxCrashes  \* bounds: rows, restarts and passes cut short

ASSUME OutboxAssumption ==
    /\ AgentOf \in [Orders -> Agents]
    /\ MAX_ATTEMPTS \in Nat \ {0} /\ Limit \in Nat \ {0}
    /\ MaxEvents \in Nat /\ MaxCrashes \in Nat

VARIABLES keyring,  \* the deploy has a signing key
          seen,     \* admission records: unknown, known, with a callback
          status,   \* the Merchant's order
          taken,    \* the changes door 8 has made, and answers again
          row,      \* the sidecar's copy
          handler,  \* the status change under way for an order
          events,   \* the order_events table, by creation
          drain,    \* the rows the tick has read and not dealt with: a set,
                    \* dealt with by age
          posted,   \* the agent has the event whose turn it is, the row does
                    \* not say so yet
          got,      \* how often the agent received each event
          crashes   \* restarts and passes the database cut short

queue == <<events, drain, posted, got>>
vars  == <<keyring, seen, status, taken, row, handler, queue, crashes>>

Statuses == {"pending", "confirmed", "paid", "cancelled", "expired", "failed"}
Moves == {<<"pending", "confirmed">>, <<"pending", "cancelled">>, <<"pending", "expired">>,
          <<"confirmed", "paid">>, <<"confirmed", "failed">>, <<"confirmed", "cancelled">>,
          <<"confirmed", "expired">>}
Rest == [at |-> "rest", to |-> "pending"]

Init ==
    /\ keyring \in BOOLEAN
    /\ seen = [a \in Agents |-> "unknown"]
    /\ status = [o \in Orders |-> "pending"] /\ row = status
    /\ taken = [o \in Orders |-> {}]
    /\ handler = [o \in Orders |-> Rest]
    /\ events = <<>> /\ drain = {} /\ posted = FALSE /\ got = <<>>
    /\ crashes = 0

-----------------------------------------------------------------------------
(* Admission. *)

(* _note: a registration that names no callback takes none away. *)
Note(old, callback) == IF callback \/ (old = "callback") THEN "callback" ELSE "known"

(* A stranger registers with its profile, which may name a callback; an     *)
(* allowlisted client is issued a token without one.                        *)
Register(a, callback) ==
    /\ seen' = [seen EXCEPT ![a] = Note(@, callback)]
    /\ UNCHANGED <<keyring, status, taken, row, handler, queue, crashes>>

-----------------------------------------------------------------------------
(* A status change. *)

(* Who a change is announced to: the sweep's expire names no agent. *)
Addressee(to) == to # "expired"

Takes(o, to) ==
    /\ taken' = [taken EXCEPT ![o] = @ \cup {to}]
    /\ status' = IF to \in taken[o] THEN status ELSE [status EXCEPT ![o] = to]

Calls(o, to) ==
    /\ handler[o].at = "rest" /\ <<row[o], to>> \in Moves
    /\ to \in taken[o] => to \in {"cancelled", "expired"}

\* mutant: the event is queued although the Merchant did not answer
SetStatusHoping(o, to) ==
    /\ Calls(o, to)
    /\ Takes(o, to) \/ UNCHANGED <<status, taken>>
    /\ handler' = [handler EXCEPT ![o] = [at |-> "publish", to |-> to]]
    /\ UNCHANGED <<keyring, seen, row, queue, crashes>>

(* Door 8, called on the word of the sidecar's copy.  The Merchant takes    *)
(* what it is told, once; a cancel or an expiry that was cut short is made  *)
(* again and answered again.  The answer may be lost, the call too.         *)
SetStatus(o, to) ==
    /\ Calls(o, to)
    /\ \/ /\ Takes(o, to)
          /\ handler' = [handler EXCEPT ![o] = [at |-> "publish", to |-> to]]
       \/ Takes(o, to) /\ UNCHANGED handler
    /\ UNCHANGED <<keyring, seen, row, queue, crashes>>

(* publish_order_event: every reason to skip is a quiet one. *)
Publish(o) ==
    /\ handler[o].at = "publish"
    /\ handler' = [handler EXCEPT ![o].at = "save"]
    /\ IF seen[AgentOf[o]] = "callback" /\ Addressee(handler[o].to)
       THEN /\ Len(events) < MaxEvents
            /\ events' = Append(events, [order |-> o, kind |-> handler[o].to,
                                         state |-> "pending", attempts |-> 0, due |-> TRUE])
            /\ got' = Append(got, 0)
       ELSE UNCHANGED <<events, got>>
    /\ UNCHANGED <<keyring, seen, status, taken, row, drain, posted, crashes>>

SaveRow(o) ==
    /\ handler[o].at = "save"
    /\ row' = [row EXCEPT ![o] = handler[o].to]
    /\ handler' = [handler EXCEPT ![o] = Rest]
    /\ UNCHANGED <<keyring, seen, status, taken, queue, crashes>>

(* The sweep reads the order back and corrects the copy. *)
Resync(o) ==
    /\ row[o] \in {"pending", "confirmed"} /\ row[o] # status[o]
    /\ row' = [row EXCEPT ![o] = status[o]]
    /\ UNCHANGED <<keyring, seen, status, taken, handler, queue, crashes>>

-----------------------------------------------------------------------------
(* Delivery: one tick at a time, one row at a time. *)

\* mutant: rows are read whatever their state
DueAnyhow == DOMAIN events

Due == {i \in DOMAIN events : events[i].state = "pending" /\ events[i].due}

(* The oldest rows that are due, at most Limit of them. *)
Oldest(n) == {i \in Due : Cardinality({j \in Due : j < i}) < n}

ReadDue ==
    /\ keyring /\ drain = {} /\ Due # {}
    /\ drain' = Oldest(Limit)
    /\ UNCHANGED <<keyring, seen, status, taken, row, handler, events, posted, got, crashes>>

(* The row whose turn it is. *)
Turn == CHOOSE i \in drain : \A j \in drain : i <= j

\* mutant: a row is delivered before anything is posted
DeliverUnasked ==
    /\ drain # {} /\ ~posted
    /\ posted' = TRUE
    /\ UNCHANGED <<keyring, seen, status, taken, row, handler, events, drain, got, crashes>>

(* deliver: the address is checked on every attempt, then the POST, which   *)
(* reaches the agent.                                                       *)
Deliver ==
    /\ drain # {} /\ ~posted
    /\ posted' = TRUE
    /\ got' = [got EXCEPT ![Turn] = @ + 1]
    /\ UNCHANGED <<keyring, seen, status, taken, row, handler, events, drain, crashes>>

\* mutant: the state of a delivered row is left alone
DeliveredPending ==
    /\ drain # {} /\ posted
    /\ events' = [events EXCEPT ![Turn].due = TRUE]
    /\ drain' = drain \ {Turn} /\ posted' = FALSE
    /\ UNCHANGED <<keyring, seen, status, taken, row, handler, got, crashes>>

Delivered ==
    /\ drain # {} /\ posted
    /\ events' = [events EXCEPT ![Turn].state = "delivered", ![Turn].due = FALSE]
    /\ drain' = drain \ {Turn} /\ posted' = FALSE
    /\ UNCHANGED <<keyring, seen, status, taken, row, handler, got, crashes>>

\* mutant: one attempt too many
FailedOnceMore(e) ==
    IF e.attempts + 1 > MAX_ATTEMPTS
    THEN [e EXCEPT !.attempts = @ + 1, !.state = "parked", !.due = FALSE]
    ELSE [e EXCEPT !.attempts = @ + 1, !.due = FALSE]

\* mutant: the attempt that just failed is not counted
FailedUncounted(e) ==
    IF e.attempts >= MAX_ATTEMPTS
    THEN [e EXCEPT !.state = "parked", !.due = FALSE]
    ELSE [e EXCEPT !.due = FALSE]

(* failed: the next attempt waits, or there is none. *)
Failed(e) ==
    IF e.attempts + 1 >= MAX_ATTEMPTS
    THEN [e EXCEPT !.attempts = @ + 1, !.state = "parked", !.due = FALSE]
    ELSE [e EXCEPT !.attempts = @ + 1, !.due = FALSE]

(* The POST does not reach the agent, or the agent has it and answers with  *)
(* 300 or more, or too late: a failure all the same.                        *)
DeliverFails ==
    /\ drain # {}
    /\ events' = [events EXCEPT ![Turn] = Failed(@)]
    /\ drain' = drain \ {Turn} /\ posted' = FALSE
    /\ UNCHANGED <<keyring, seen, status, taken, row, handler, got, crashes>>

(* The database does not take what became of an attempt: the pass is over,  *)
(* its rows are as they were, and the loop goes on.                         *)
CutShort ==
    /\ drain # {} /\ crashes < MaxCrashes
    /\ crashes' = crashes + 1
    /\ drain' = {} /\ posted' = FALSE
    /\ UNCHANGED <<keyring, seen, status, taken, row, handler, events, got>>

(* next_attempt_at comes. *)
BackoffEnds(i) ==
    /\ i \in DOMAIN events /\ events[i].state = "pending" /\ ~events[i].due
    /\ events' = [events EXCEPT ![i].due = TRUE]
    /\ UNCHANGED <<keyring, seen, status, taken, row, handler, drain, posted, got, crashes>>

-----------------------------------------------------------------------------

(* The process restarts: the tables stay, the records of who was admitted,  *)
(* the tick and every status change under way are gone.                     *)
Restart ==
    /\ crashes < MaxCrashes
    /\ crashes' = crashes + 1
    /\ seen' = [a \in Agents |-> "unknown"]
    /\ handler' = [o \in Orders |-> Rest]
    /\ drain' = {} /\ posted' = FALSE
    /\ UNCHANGED <<keyring, status, taken, row, events, got>>

Tick == ReadDue \/ Deliver \/ Delivered \/ DeliverFails
Next ==
    \/ \E a \in Agents, callback \in BOOLEAN : Register(a, callback)
    \/ \E o \in Orders : \/ \E to \in Statuses : SetStatus(o, to)
                         \/ Publish(o) \/ SaveRow(o) \/ Resync(o)
    \/ Tick \/ \E i \in 1..MaxEvents : BackoffEnds(i)
    \/ CutShort \/ Restart

(* The sweeper's loop outlives any one pass, time passes, and the process   *)
(* and the database fail only so often.                                     *)
Fairness == WF_vars(Tick) /\ \A i \in 1..MaxEvents : WF_vars(BackoffEnds(i))

Spec == Init /\ [][Next]_vars /\ Fairness

-----------------------------------------------------------------------------
(* Properties. *)

Rows == [order : Orders, kind : Statuses \ {"pending", "expired"},
         state : {"pending", "delivered", "parked"}, attempts : 0..MAX_ATTEMPTS, due : BOOLEAN]

(* The columns of order_events (events.py:57) and the rows the tick holds,  *)
(* which are rows of the table that are still pending.                      *)
TypeOK ==
    /\ keyring \in BOOLEAN
    /\ seen \in [Agents -> {"unknown", "known", "callback"}]
    /\ status \in [Orders -> Statuses] /\ row \in [Orders -> Statuses]
    /\ taken \in [Orders -> SUBSET Statuses]
    /\ handler \in [Orders -> [at : {"rest", "publish", "save"}, to : Statuses]]
    /\ events \in Seq(Rows) /\ Len(got) = Len(events)
    /\ \A i \in drain : i \in DOMAIN events /\ events[i].state = "pending"
    /\ posted \in BOOLEAN /\ crashes \in 0..MaxCrashes

(* checkout.py:320: an agent is never told of a change the Merchant did not *)
(* take.                                                                    *)
ToldIsTrue == \A i \in DOMAIN events : events[i].kind \in taken[events[i].order]

(* events.py:189: a row is parked after exactly MAX_ATTEMPTS failures and   *)
(* never given up earlier.                                                  *)
ParkedWasTried ==
    \A i \in DOMAIN events : events[i].state = "parked" <=> events[i].attempts = MAX_ATTEMPTS

(* events.py:217, sweeper.py:299: every time the agent received an event is *)
(* accounted for: as an attempt the row counts as failed, as its delivery,  *)
(* or as one that a restart or the database lost.                           *)
EverySendIsCounted ==
    \A i \in DOMAIN got :
      LET last == IF events[i].state = "delivered" \/ (posted /\ i = Turn) THEN 1 ELSE 0
      IN  got[i] <= events[i].attempts + crashes + last

(* No event says delivered that the agent did not receive. *)
DeliveredWasReceived == \A i \in DOMAIN events : events[i].state = "delivered" => got[i] > 0

(* What a row says of its delivery is what happened to it. *)
DeliveryIsHonest == ParkedWasTried /\ EverySendIsCounted /\ DeliveredWasReceived

(* events.py:14: with a signing key, every queued event is delivered or     *)
(* given up in the end, however the callbacks behave.                *)
Waiting(i) == i \in DOMAIN events /\ events[i].state = "pending"
QueueDrains == \A i \in 1..MaxEvents : (keyring /\ Waiting(i)) ~> ~Waiting(i)

Queued(o, s) == \E i \in DOMAIN events : events[i].order = o /\ events[i].kind = s
(* checkout.py:303: "an agent hears about every transition" true instead of *)
(* intended.  Here: without a restart, a change of an order whose agent had *)
(* registered a callback leaves an event.                                   *)
HearsEveryTransition ==
    [][\A o \in Orders :
         (handler[o].at = "publish" /\ handler'[o].at = "save" /\ seen[AgentOf[o]] = "callback")
            => Queued(o, handler[o].to)']_vars
=============================================================================

--------------------------- MODULE MoneyPathProofs ---------------------------
(***************************************************************************)
(* Theorems about MoneyPath, for every set of handlers and events and      *)
(* every value of the clock bounds.                                        *)
(***************************************************************************)
EXTENDS MoneyPath, FiniteSetTheorems, TLAPS

USE DEF Handlers, Closers

-----------------------------------------------------------------------------
(* What the helpers leave typed. *)

(* Moving a handler to a known step keeps at typed. *)
LEMMA GotoType ==
    ASSUME TypeOK, NEW h \in Handlers, NEW step \in Steps, Goto(h, step)
    PROVE  at' \in [Handlers -> Steps]
  BY DEF TypeOK, Goto

(* Finishing puts a handler to rest and forgets its copy. *)
LEMMA FinishType ==
    ASSUME TypeOK, NEW h \in Handlers, Finish(h)
    PROVE  at' \in [Handlers -> Steps] /\ copy' \in [Handlers -> Rows]
<1>1. Rest(h) \in Steps
  BY DEF Rest, Steps
<1>2. at' \in [Handlers -> Steps]
  BY <1>1, GotoType DEF Finish
<1>3. NoRow \in Rows
  BY DEF NoRow, Rows, Methods, Times, NoTime, Statuses
<1> QED
  BY <1>2, <1>3 DEF Finish, TypeOK

(* So does an exception, except that the sweeper goes on to recover. *)
LEMMA RaiseType ==
    ASSUME TypeOK, NEW h \in Handlers, Raise(h)
    PROVE  at' \in [Handlers -> Steps] /\ copy' \in [Handlers -> Rows]
<1>1. CASE h = Sweeper /\ at[h] \in CloseSteps
  <2>1. "recover" \in Steps
    BY DEF Steps, SweepSteps
  <2> QED
    BY <1>1, <2>1, GotoType DEF Raise, TypeOK
<1>2. CASE ~(h = Sweeper /\ at[h] \in CloseSteps)
  BY <1>2, FinishType DEF Raise
<1> QED
  BY <1>1, <1>2

(* Door 8 keeps the shop's order typed. *)
LEMMA SetStatusType ==
    ASSUME TypeOK, NEW status \in Statuses, SetStatus(status)
    PROVE  shop' \in Shops
  BY DEF TypeOK, SetStatus, Shops

(* The sweeper's helper keeps its step and its copy typed. *)
LEMMA SweepToType ==
    ASSUME TypeOK, NEW step \in Steps, NEW r \in Rows, SweepTo(step, r)
    PROVE  at' \in [Handlers -> Steps] /\ copy' \in [Handlers -> Rows]
<1>1. at' \in [Handlers -> Steps]
  BY GotoType DEF SweepTo
<1>2. NoRow \in Rows
  BY DEF NoRow, Rows, Methods, Times, NoTime, Statuses
<1> QED
  BY <1>1, <1>2 DEF SweepTo, TypeOK

(* The constants and the step names every type step relies on. *)
LEMMA Types ==
    /\ NoRow \in Rows
    /\ StartSteps \cup TapSteps \cup HookSteps \cup CloseSteps \cup SweepSteps \subseteq Steps
    /\ {"idle", "done"} \subseteq Steps
    /\ Sweeper \in Handlers
  BY DEF NoRow, Rows, Methods, Times, NoTime, Statuses, Steps

-----------------------------------------------------------------------------
(* TypeOK step by step, one lemma per component. *)

LEMMA StartType ==
    ASSUME TypeOK, NEW s \in Starts, Start(s)
    PROVE  TypeOK'
<1>1. CASE StartCreate(s)
  <2>1. at' \in [Handlers -> Steps]
    BY <1>1, GotoType, Types DEF StartCreate, StartSteps
  <2>2. shop' \in Shops
    BY <1>1 DEF StartCreate, TypeOK, Shops, Statuses
  <2> QED
    BY <1>1, <2>1, <2>2 DEF StartCreate, TypeOK
<1>2. CASE StartIssue(s)
  <2>1. at' \in [Handlers -> Steps]
    BY <1>2, GotoType, Types DEF StartIssue, StartSteps
  <2>2. tokens' \in [Starts -> TokenStates]
    BY <1>2, MoneyPathAssumption DEF StartIssue, TypeOK, TokenStates, Times
  <2> QED
    BY <1>2, <2>1, <2>2 DEF StartIssue, TypeOK
<1>3. CASE StartSave(s)
  <2>1. at' \in [Handlers -> Steps] /\ copy' \in [Handlers -> Rows]
    BY <1>3, FinishType DEF StartSave
  <2>2. row' \in Rows
    BY <1>3, Types DEF StartSave, Save, TypeOK, Rows, Statuses, Times
  <2> QED
    BY <1>3, <2>1, <2>2 DEF StartSave, TypeOK
<1> QED
  BY <1>1, <1>2, <1>3 DEF Start

LEMMA TapType ==
    ASSUME TypeOK, NEW t \in Taps, Tap(t)
    PROVE  TypeOK'
<1>1. CASE TapLoad(t)
  <2>1. at' \in [Handlers -> Steps]
    BY <1>1, GotoType, Types DEF TapLoad, TapSteps
  <2>2. copy' \in [Handlers -> Rows]
    BY <1>1, MoneyPathAssumption DEF TapLoad, TypeOK, Rows
  <2> QED
    BY <1>1, <2>1, <2>2 DEF TapLoad, TypeOK
<1>2. CASE TapVet(t)
  <2>1. at' \in [Handlers -> Steps] /\ copy' \in [Handlers -> Rows]
    BY <1>2, GotoType, RaiseType, Types DEF TapVet, TypeOK, TapSteps
  <2> QED
    BY <1>2, <2>1 DEF TapVet, TypeOK
<1>3. CASE TapSpend(t)
  <2>1. at' \in [Handlers -> Steps] /\ copy' \in [Handlers -> Rows]
    BY <1>3, GotoType, RaiseType, Types DEF TapSpend, TypeOK, TapSteps
  <2>2. tokens' \in [Starts -> TokenStates]
    BY <1>3 DEF TapSpend, TypeOK, TokenStates
  <2> QED
    BY <1>3, <2>1, <2>2 DEF TapSpend, TypeOK
<1>4. CASE TapRefuse(t)
  <2>1. at' \in [Handlers -> Steps] /\ copy' \in [Handlers -> Rows]
    BY <1>4, FinishType DEF TapRefuse
  <2> QED
    BY <1>4, <2>1 DEF TapRefuse, TypeOK
<1>5. CASE TapReserve(t)
  <2>1. at' \in [Handlers -> Steps] /\ copy' \in [Handlers -> Rows]
    BY <1>5, GotoType, RaiseType, Types DEF TapReserve, TypeOK, TapSteps
  <2>2. shop' \in Shops
    BY <1>5 DEF TapReserve, TypeOK, Shops
  <2> QED
    BY <1>5, <2>1, <2>2 DEF TapReserve, TypeOK
<1>6. CASE TapConfirm(t)
  <2>1. at' \in [Handlers -> Steps]
    BY <1>6, GotoType, Types DEF TapConfirm, TapSteps
  <2>2. shop' \in Shops
    BY <1>6, SetStatusType DEF TapConfirm, Statuses
  <2>3. [copy[t] EXCEPT !.status = "confirmed", !.confirmedAt = now] \in Rows
    BY <1>6 DEF TypeOK, Rows, Statuses, Times
  <2>4. copy' \in [Handlers -> Rows]
    BY <1>6, <2>3 DEF TapConfirm, TypeOK
  <2> QED
    BY <1>6, <2>1, <2>2, <2>3, <2>4 DEF TapConfirm, TypeOK
<1>7. CASE TapSaveCod(t)
  <2>1. at' \in [Handlers -> Steps] /\ copy' \in [Handlers -> Rows]
    BY <1>7, FinishType DEF TapSaveCod
  <2>2. row' \in Rows
    BY <1>7 DEF TapSaveCod, Save, TypeOK, Rows
  <2> QED
    BY <1>7, <2>1, <2>2 DEF TapSaveCod, TypeOK
<1>8. CASE TapHold(t)
  <2>1. at' \in [Handlers -> Steps] /\ copy' \in [Handlers -> Rows]
    BY <1>8, GotoType, RaiseType, Types DEF TapHold, TypeOK, TapSteps
  <2> QED
    BY <1>8, <2>1 DEF TapHold, TypeOK
<1>9. CASE TapReserveMoney(t)
  <2>1. at' \in [Handlers -> Steps]
    BY <1>9, GotoType, Types DEF TapReserveMoney, TapSteps
  <2>2. ledger' \subseteq Kinds
    BY <1>9 DEF TapReserveMoney, Append, TypeOK, Kinds
  <2> QED
    BY <1>9, <2>1, <2>2 DEF TapReserveMoney, TypeOK
<1>10. CASE TapLink(t)
  <2>1. at' \in [Handlers -> Steps]
    BY <1>10, GotoType, Types DEF TapLink, TapSteps
  <2>2. now + LinkLife \in Times
    BY <1>10, MoneyPathAssumption DEF TypeOK, Times
  <2>3. [link EXCEPT !.state = "open", !.until = now + LinkLife] \in Links
    BY <1>10, <2>2 DEF TypeOK, Links
  <2>4. link' \in Links
    BY <1>10, <2>3 DEF TapLink, TypeOK
  <2>5. [copy[t] EXCEPT !.link = TRUE, !.linkExpires = link'.until] \in Rows
    BY <1>10, <2>4 DEF TypeOK, Rows, Links
  <2>6. copy' \in [Handlers -> Rows]
    BY <1>10, <2>5 DEF TapLink, TypeOK
  <2> QED
    BY <1>10, <2>1, <2>2, <2>3, <2>4, <2>5, <2>6 DEF TapLink, TypeOK
<1>11. CASE TapSave(t)
  <2>1. at' \in [Handlers -> Steps] /\ copy' \in [Handlers -> Rows]
    BY <1>11, FinishType DEF TapSave
  <2>2. row' \in Rows
    BY <1>11 DEF TapSave, Save, TypeOK, Rows
  <2>3. link' \in Links
    BY <1>11, MoneyPathAssumption DEF TapSave, TypeOK, Links, Times
  <2> QED
    BY <1>11, <2>1, <2>2, <2>3 DEF TapSave, TypeOK
<1> QED
  BY <1>1, <1>2, <1>3, <1>4, <1>5, <1>6, <1>7, <1>8, <1>9, <1>10, <1>11 DEF Tap

LEMMA HookType ==
    ASSUME TypeOK, NEW h \in Hooks, HookStep(h)
    PROVE  TypeOK'
<1>1. CASE HookLoad(h)
  <2>1. at' \in [Handlers -> Steps] /\ copy' \in [Handlers -> Rows]
    BY <1>1, GotoType, RaiseType, Types DEF HookLoad, TypeOK, HookSteps
  <2> QED
    BY <1>1, <2>1 DEF HookLoad, TypeOK
<1>2. CASE HookCheck(h)
  <2>1. at' \in [Handlers -> Steps]
    BY <1>2, GotoType, Types DEF HookCheck, HookSteps
  <2> QED
    BY <1>2, <2>1 DEF HookCheck, TypeOK
<1>3. CASE HookSettle(h)
  <2>1. at' \in [Handlers -> Steps] /\ copy' \in [Handlers -> Rows]
    BY <1>3, GotoType, RaiseType, Types DEF HookSettle, TypeOK, HookSteps
  <2> QED
    BY <1>3, <2>1 DEF HookSettle, TypeOK
<1>4. CASE HookCapture(h)
  <2>1. at' \in [Handlers -> Steps]
    BY <1>4, GotoType, Types DEF HookCapture, HookSteps
  <2>2. ledger' \subseteq Kinds
    BY <1>4 DEF HookCapture, Append, TypeOK, Kinds
  <2> QED
    BY <1>4, <2>1, <2>2 DEF HookCapture, TypeOK
<1>5. CASE HookCommit(h)
  <2>1. at' \in [Handlers -> Steps] /\ copy' \in [Handlers -> Rows]
    BY <1>5, GotoType, RaiseType, Types DEF HookCommit, TypeOK, HookSteps
  <2>2. shop' \in Shops
    BY <1>5 DEF HookCommit, TypeOK, Shops
  <2> QED
    BY <1>5, <2>1, <2>2 DEF HookCommit, TypeOK
<1>6. CASE HookPaid(h)
  <2>1. at' \in [Handlers -> Steps]
    BY <1>6, GotoType, Types DEF HookPaid, HookSteps
  <2>2. shop' \in Shops
    BY <1>6, SetStatusType DEF HookPaid, Statuses
  <2>3. copy' \in [Handlers -> Rows]
    BY <1>6 DEF HookPaid, TypeOK, Rows, Statuses
  <2> QED
    BY <1>6, <2>1, <2>2, <2>3 DEF HookPaid, TypeOK
<1>7. CASE HookSave(h)
  <2>1. at' \in [Handlers -> Steps] /\ copy' \in [Handlers -> Rows]
    BY <1>7, FinishType DEF HookSave
  <2>2. row' \in Rows
    BY <1>7 DEF HookSave, Save, TypeOK, Rows
  <2> QED
    BY <1>7, <2>1, <2>2 DEF HookSave, TypeOK
<1>8. CASE HookFailRead(h)
  <2>1. at' \in [Handlers -> Steps]
    BY <1>8, GotoType, Types DEF HookFailRead, HookSteps
  <2> QED
    BY <1>8, <2>1 DEF HookFailRead, TypeOK
<1>9. CASE HookFailRecheck(h)
  <2>1. at' \in [Handlers -> Steps] /\ copy' \in [Handlers -> Rows]
    BY <1>9, GotoType, RaiseType, Types DEF HookFailRecheck, TypeOK, HookSteps
  <2> QED
    BY <1>9, <2>1 DEF HookFailRecheck, TypeOK
<1>10. CASE HookFailRelease(h)
  <2>1. at' \in [Handlers -> Steps]
    BY <1>10, GotoType, Types DEF HookFailRelease, HookSteps
  <2>2. ledger' \subseteq Kinds
    BY <1>10 DEF HookFailRelease, Append, TypeOK, Kinds
  <2> QED
    BY <1>10, <2>1, <2>2 DEF HookFailRelease, TypeOK
<1>11. CASE HookFailSave(h)
  <2>1. at' \in [Handlers -> Steps]
    BY <1>11, GotoType, Types DEF HookFailSave, HookSteps
  <2>2. copy' \in [Handlers -> Rows]
    BY <1>11 DEF HookFailSave, TypeOK, Rows, Statuses
  <2>3. row' \in Rows
    BY <1>11, <2>2 DEF HookFailSave, Save
  <2> QED
    BY <1>11, <2>1, <2>2, <2>3 DEF HookFailSave, TypeOK
<1>12. CASE HookFailStatus(h)
  <2>1. at' \in [Handlers -> Steps] /\ copy' \in [Handlers -> Rows]
    BY <1>12, FinishType DEF HookFailStatus
  <2>2. shop' \in Shops
    BY <1>12, SetStatusType DEF HookFailStatus, Statuses
  <2> QED
    BY <1>12, <2>1, <2>2 DEF HookFailStatus, TypeOK
<1> QED
  BY <1>1, <1>2, <1>3, <1>4, <1>5, <1>6, <1>7, <1>8, <1>9, <1>10, <1>11, <1>12 DEF HookStep

LEMMA CloseType ==
    ASSUME TypeOK, NEW h \in Closers, Close(h)
    PROVE  TypeOK'
<1>1. CASE CloseStock(h)
  <2>1. at' \in [Handlers -> Steps] /\ copy' \in [Handlers -> Rows]
    BY <1>1, GotoType, RaiseType, Types DEF CloseStock, TypeOK, CloseSteps
  <2>2. shop' \in Shops
    BY <1>1 DEF CloseStock, TypeOK, Shops
  <2> QED
    BY <1>1, <2>1, <2>2 DEF CloseStock, TypeOK
<1>2. CASE CloseRead(h)
  <2>1. at' \in [Handlers -> Steps]
    BY <1>2, GotoType, Types DEF CloseRead, CloseSteps
  <2> QED
    BY <1>2, <2>1 DEF CloseRead, TypeOK
<1>3. CASE CloseRecheck(h)
  <2>1. at' \in [Handlers -> Steps] /\ copy' \in [Handlers -> Rows]
    BY <1>3, GotoType, RaiseType, Types DEF CloseRecheck, TypeOK, CloseSteps
  <2> QED
    BY <1>3, <2>1 DEF CloseRecheck, TypeOK
<1>4. CASE CloseRelease(h)
  <2>1. at' \in [Handlers -> Steps]
    BY <1>4, GotoType, Types DEF CloseRelease, CloseSteps
  <2>2. ledger' \subseteq Kinds
    BY <1>4 DEF CloseRelease, Append, TypeOK, Kinds
  <2> QED
    BY <1>4, <2>1, <2>2 DEF CloseRelease, TypeOK
<1>5. CASE CloseStatus(h)
  <2>1. at' \in [Handlers -> Steps]
    BY <1>5, GotoType, Types DEF CloseStatus, CloseSteps
  <2>2. shop' \in Shops
    BY <1>5, SetStatusType DEF CloseStatus, ClosedAs, Statuses
  <2>3. copy' \in [Handlers -> Rows]
    BY <1>5 DEF CloseStatus, TypeOK, Rows, ClosedAs, Statuses
  <2> QED
    BY <1>5, <2>1, <2>2, <2>3 DEF CloseStatus, TypeOK
<1>6. CASE CloseStatusLost(h)
  <2>1. at' \in [Handlers -> Steps] /\ copy' \in [Handlers -> Rows]
    BY <1>6, RaiseType DEF CloseStatusLost
  <2>2. shop' \in Shops
    BY <1>6, SetStatusType DEF CloseStatusLost, ClosedAs, Statuses
  <2> QED
    BY <1>6, <2>1, <2>2 DEF CloseStatusLost, TypeOK
<1>7. CASE CloseLink(h)
  <2>1. at' \in [Handlers -> Steps]
    BY <1>7, GotoType, Types DEF CloseLink, CloseSteps
  <2>2. link' \in Links
    BY <1>7, MoneyPathAssumption DEF CloseLink, TypeOK, Links, Times
  <2>3. copy' \in [Handlers -> Rows]
    BY <1>7 DEF CloseLink, TypeOK, Rows
  <2> QED
    BY <1>7, <2>1, <2>2, <2>3 DEF CloseLink, TypeOK
<1>8. CASE CloseSave(h)
  <2>1. at' \in [Handlers -> Steps] /\ copy' \in [Handlers -> Rows]
    BY <1>8, FinishType DEF CloseSave
  <2>2. row' \in Rows
    BY <1>8 DEF CloseSave, Save, TypeOK, Rows
  <2> QED
    BY <1>8, <2>1, <2>2 DEF CloseSave, TypeOK
<1> QED
  BY <1>1, <1>2, <1>3, <1>4, <1>5, <1>6, <1>7, <1>8 DEF Close

LEMMA SweepType ==
    ASSUME TypeOK, Sweep
    PROVE  TypeOK'
<1>1. CASE SweepStart
  <2>1. at' \in [Handlers -> Steps] /\ copy' \in [Handlers -> Rows]
    BY <1>1, SweepToType, Types DEF SweepStart, TypeOK, SweepSteps
  <2> QED
    BY <1>1, <2>1 DEF SweepStart, TypeOK
<1>2. CASE SweepResync
  <2>1. \A r : SweepStep(r) \in Steps
    BY <1>2, Types DEF SweepStep, SweepSteps, CloseSteps
  <2>2. [copy[Sweeper] EXCEPT !.status = shop.status] \in Rows
    BY <1>2, Types DEF TypeOK, Rows, Shops
  <2>3. at' \in [Handlers -> Steps] /\ copy' \in [Handlers -> Rows]
    BY <1>2, <2>1, <2>2, SweepToType, Types DEF SweepResync, TypeOK, SweepSteps
  <2> QED
    BY <1>2, <2>1, <2>2, <2>3 DEF SweepResync, TypeOK
<1>3. CASE SweepResave
  <2>1. \A r : SweepStep(r) \in Steps
    BY <1>3, Types DEF SweepStep, SweepSteps, CloseSteps
  <2>2. at' \in [Handlers -> Steps] /\ copy' \in [Handlers -> Rows]
    BY <1>3, <2>1, SweepToType, Types DEF SweepResave, TypeOK
  <2>3. row' \in Rows
    BY <1>3, Types DEF SweepResave, Save, TypeOK
  <2> QED
    BY <1>3, <2>1, <2>2, <2>3 DEF SweepResave, TypeOK
<1>4. CASE SweepRecover
  <2>1. [copy[Sweeper] EXCEPT !.status = shop.status] \in Rows
    BY <1>4, Types DEF TypeOK, Rows, Shops
  <2>2. at' \in [Handlers -> Steps] /\ copy' \in [Handlers -> Rows]
    BY <1>4, <2>1, SweepToType, Types DEF SweepRecover, SweepSteps
  <2> QED
    BY <1>4, <2>1, <2>2 DEF SweepRecover, TypeOK
<1>5. CASE SweepRecoverSave
  <2>1. at' \in [Handlers -> Steps] /\ copy' \in [Handlers -> Rows]
    BY <1>5, SweepToType, Types DEF SweepRecoverSave
  <2>2. row' \in Rows
    BY <1>5, Types DEF SweepRecoverSave, Save, TypeOK
  <2> QED
    BY <1>5, <2>1, <2>2 DEF SweepRecoverSave, TypeOK
<1> QED
  BY <1>1, <1>2, <1>3, <1>4, <1>5 DEF Sweep

(* Every step keeps the types. *)
LEMMA NextType == TypeOK /\ [Next]_vars => TypeOK'
<1> SUFFICES ASSUME TypeOK, [Next]_vars PROVE TypeOK'
  OBVIOUS
<1>1. CASE \E s \in Starts : Start(s)
  BY <1>1, StartType
<1>2. CASE \E t \in Taps : Tap(t)
  BY <1>2, TapType
<1>3. CASE \E h \in Hooks : HookStep(h)
  BY <1>3, HookType
<1>4. CASE \E h \in Hooks : \E e \in Events : HookReceive(h, e)
  <2> PICK h \in Hooks, e \in Events : HookReceive(h, e)
    BY <1>4
  <2>1. at' \in [Handlers -> Steps]
    BY Types DEF HookReceive, TypeOK, HookSteps
  <2> QED
    BY <2>1 DEF HookReceive, TypeOK
<1>5. CASE \E c \in Cancels : CancelLoad(c)
  <2> PICK c \in Cancels : CancelLoad(c)
    BY <1>5
  <2>1. at' \in [Handlers -> Steps]
    BY GotoType, Types DEF CancelLoad, CloseSteps
  <2> QED
    BY <2>1 DEF CancelLoad, TypeOK
<1>6. CASE \E h \in Closers : Close(h)
  BY <1>6, CloseType
<1>7. CASE Sweep
  BY <1>7, SweepType
<1>8. CASE \E h \in Handlers : CallFails(h)
  BY <1>8, RaiseType DEF CallFails, TypeOK
<1>9. CASE Pay \/ LinkExpire
  BY <1>9 DEF Pay, LinkExpire, TypeOK, Links
<1>10. CASE \E e \in Events : Emit(e)
  BY <1>10 DEF Emit, TypeOK
<1>11. CASE Crash
  <2>1. \A h \in Handlers : Rest(h) \in Steps
    BY Types DEF Rest
  <2>2. at' \in [Handlers -> Steps] /\ copy' \in [Handlers -> Rows]
    BY <1>11, <2>1, Types DEF Crash, TypeOK
  <2> QED
    BY <1>11, <2>2 DEF Crash, TypeOK
<1>12. CASE Tick
  BY <1>12 DEF Tick, TypeOK
<1>13. CASE UNCHANGED vars
  BY <1>13 DEF vars, TypeOK
<1> QED
  BY <1>1, <1>2, <1>3, <1>4, <1>5, <1>6, <1>7, <1>8, <1>9, <1>10, <1>11, <1>12, <1>13
     DEF Next

(* Every variable keeps its type, for every instance. *)
THEOREM TypeCorrect == Spec => []TypeOK
<1>1. Init => TypeOK
  BY Types DEF Init, TypeOK, Rows, Shops, Links, TokenStates, Times, NoTime
<1> QED
  BY <1>1, NextType, PTL DEF Spec

-----------------------------------------------------------------------------
(* Paid is captured, and captured is backed by money.                      *)
(*                                                                         *)
(* Neither is inductive: a handler that has read the Provider's answer     *)
(* acts on it some awaits later, and a saved copy writes its own status.   *)
(* MoneyInv adds what a handler at each of those steps has established.    *)

FullyPaid == link.state = "full"
Captured  == "CAPTURE" \in ledger

(* What a webhook at this step knows of the money it is settling. *)
Honest(h) ==
    /\ at[h] \in {"paidFull", "capturing"} => FullyPaid
    /\ at[h] \in {"captured", "committed", "settled"} => Captured
    /\ copy[h].status = "paid" => Captured

PaidRecorded ==
    /\ shop.status = "paid" => "paid" \in shop.replied
    /\ "paid" \in shop.replied \/ row.status = "paid" => Captured

MoneyInv ==
    /\ Captured => FullyPaid
    /\ PaidRecorded
    /\ \A h \in Handlers : Honest(h)

(* Money and captures do not go away. *)
MoneyStays == (FullyPaid => FullyPaid') /\ (Captured => Captured')

(* A handler that comes to rest, or goes on with a copy that does not say  *)
(* paid, to a step that claims nothing of the money, stays honest.         *)
LEMMA FinishHonest ==
    ASSUME TypeOK, MoneyInv, MoneyStays, NEW h \in Handlers, Finish(h)
    PROVE  \A g \in Handlers : Honest(g)'
  BY DEF TypeOK, MoneyInv, MoneyStays, Honest, Finish, Goto, Rest, NoRow, FullyPaid, Captured

LEMMA RaiseHonest ==
    ASSUME TypeOK, MoneyInv, MoneyStays, NEW h \in Handlers, Raise(h)
    PROVE  \A g \in Handlers : Honest(g)'
<1>1. CASE Finish(h)
  BY <1>1, FinishHonest
<1>2. CASE Goto(h, "recover") /\ UNCHANGED copy
  BY <1>2 DEF TypeOK, MoneyInv, MoneyStays, Honest, Goto, FullyPaid, Captured
<1> QED
  BY <1>1, <1>2 DEF Raise

LEMMA GotoHonest ==
    ASSUME TypeOK, MoneyInv, MoneyStays, NEW h \in Handlers, NEW step, Goto(h, step),
           UNCHANGED copy \/ (\E r : r.status # "paid" /\ copy' = [copy EXCEPT ![h] = r]),
           step \notin {"paidFull", "capturing", "captured", "committed", "settled"}
    PROVE  \A g \in Handlers : Honest(g)'
  BY DEF TypeOK, MoneyInv, MoneyStays, Honest, Goto, FullyPaid, Captured

(* MoneyInv step by step. *)

LEMMA StartMoney ==
    ASSUME TypeOK, MoneyInv, NEW s \in Starts, Start(s)
    PROVE  MoneyInv'
<1>1. CASE StartCreate(s)
  <2>1. MoneyStays
    BY <1>1 DEF StartCreate, MoneyStays, FullyPaid, Captured, TypeOK, Append, Links
  <2>2. \A g \in Handlers : Honest(g)'
    BY <1>1, <2>1, GotoHonest DEF StartCreate
  <2> QED
    BY <1>1, <2>1, <2>2 DEF StartCreate, MoneyInv, PaidRecorded, FullyPaid, Captured, TypeOK, Shops
<1>2. CASE StartIssue(s)
  <2>1. MoneyStays
    BY <1>2 DEF StartIssue, MoneyStays, FullyPaid, Captured, TypeOK, Append, Links
  <2>2. \A g \in Handlers : Honest(g)'
    BY <1>2, <2>1, GotoHonest DEF StartIssue
  <2> QED
    BY <1>2, <2>1, <2>2 DEF StartIssue, MoneyInv, PaidRecorded, FullyPaid, Captured
<1>3. CASE StartSave(s)
  <2>1. MoneyStays
    BY <1>3 DEF StartSave, MoneyStays, FullyPaid, Captured, TypeOK, Append, Links
  <2>2. \A g \in Handlers : Honest(g)'
    BY <1>3, <2>1, FinishHonest DEF StartSave
  <2> QED
    BY <1>3, <2>1, <2>2 DEF StartSave, MoneyInv, PaidRecorded, FullyPaid, Captured, Save, NoRow
<1> QED
  BY <1>1, <1>2, <1>3 DEF Start

LEMMA TapMoney ==
    ASSUME TypeOK, MoneyInv, NEW t \in Taps, Tap(t)
    PROVE  MoneyInv'
<1>1. CASE TapLoad(t)
  <2>1. MoneyStays
    BY <1>1 DEF TapLoad, MoneyStays, FullyPaid, Captured, TypeOK, Append, Links
  <2>2. \A g \in Handlers : Honest(g)'
    BY <1>1, <2>1 DEF TapLoad, Honest, Goto, TypeOK, MoneyInv, MoneyStays, FullyPaid, Captured, PaidRecorded, Rows
  <2> QED
    BY <1>1, <2>1, <2>2 DEF TapLoad, MoneyInv, PaidRecorded, FullyPaid, Captured
<1>2. CASE TapVet(t)
  <2>1. MoneyStays
    BY <1>2 DEF TapVet, MoneyStays, FullyPaid, Captured, TypeOK, Append, Links
  <2>2. \A g \in Handlers : Honest(g)'
    BY <1>2, <2>1, RaiseHonest, GotoHonest DEF TapVet
  <2> QED
    BY <1>2, <2>1, <2>2 DEF TapVet, MoneyInv, PaidRecorded, FullyPaid, Captured
<1>3. CASE TapSpend(t)
  <2>1. MoneyStays
    BY <1>3 DEF TapSpend, MoneyStays, FullyPaid, Captured, TypeOK, Append, Links
  <2>2. \A g \in Handlers : Honest(g)'
    BY <1>3, <2>1, RaiseHonest, GotoHonest DEF TapSpend
  <2> QED
    BY <1>3, <2>1, <2>2 DEF TapSpend, MoneyInv, PaidRecorded, FullyPaid, Captured
<1>4. CASE TapRefuse(t)
  <2>1. MoneyStays
    BY <1>4 DEF TapRefuse, MoneyStays, FullyPaid, Captured, TypeOK, Append, Links
  <2>2. \A g \in Handlers : Honest(g)'
    BY <1>4, <2>1, FinishHonest DEF TapRefuse
  <2> QED
    BY <1>4, <2>1, <2>2 DEF TapRefuse, MoneyInv, PaidRecorded, FullyPaid, Captured
<1>5. CASE TapReserve(t)
  <2>1. MoneyStays
    BY <1>5 DEF TapReserve, MoneyStays, FullyPaid, Captured, TypeOK, Append, Links
  <2>2. \A g \in Handlers : Honest(g)'
    BY <1>5, <2>1, RaiseHonest, GotoHonest DEF TapReserve
  <2> QED
    BY <1>5, <2>1, <2>2 DEF TapReserve, MoneyInv, PaidRecorded, FullyPaid, Captured, TypeOK, Shops
<1>6. CASE TapConfirm(t)
  <2>1. MoneyStays
    BY <1>6 DEF TapConfirm, MoneyStays, FullyPaid, Captured, TypeOK, Append, Links
  <2>2. \A g \in Handlers : Honest(g)'
    BY <1>6, <2>1 DEF TapConfirm, Honest, Goto, TypeOK, MoneyInv, MoneyStays, FullyPaid, Captured, Rows
  <2> QED
    BY <1>6, <2>1, <2>2 DEF TapConfirm, MoneyInv, PaidRecorded, FullyPaid, Captured, SetStatus, TypeOK, Shops
<1>7. CASE TapSaveCod(t)
  <2>1. MoneyStays
    BY <1>7 DEF TapSaveCod, MoneyStays, FullyPaid, Captured, TypeOK, Append, Links
  <2>2. \A g \in Handlers : Honest(g)'
    BY <1>7, <2>1, FinishHonest DEF TapSaveCod
  <2> QED
    BY <1>7, <2>1, <2>2 DEF TapSaveCod, MoneyInv, PaidRecorded, FullyPaid, Captured, Save, Honest
<1>8. CASE TapHold(t)
  <2>1. MoneyStays
    BY <1>8 DEF TapHold, MoneyStays, FullyPaid, Captured, TypeOK, Append, Links
  <2>2. \A g \in Handlers : Honest(g)'
    BY <1>8, <2>1, RaiseHonest, GotoHonest DEF TapHold
  <2> QED
    BY <1>8, <2>1, <2>2 DEF TapHold, MoneyInv, PaidRecorded, FullyPaid, Captured
<1>9. CASE TapReserveMoney(t)
  <2>1. MoneyStays
    BY <1>9 DEF TapReserveMoney, MoneyStays, FullyPaid, Captured, TypeOK, Append, Links
  <2>2. \A g \in Handlers : Honest(g)'
    BY <1>9, <2>1, GotoHonest DEF TapReserveMoney
  <2> QED
    BY <1>9, <2>1, <2>2 DEF TapReserveMoney, MoneyInv, PaidRecorded, FullyPaid, Captured, Append
<1>10. CASE TapLink(t)
  <2>1. MoneyStays
    BY <1>10 DEF TapLink, MoneyStays, FullyPaid, Captured, TypeOK, Append, Links
  <2>2. \A g \in Handlers : Honest(g)'
    BY <1>10, <2>1 DEF TapLink, Honest, Goto, TypeOK, MoneyInv, MoneyStays, FullyPaid, Captured, Rows
  <2> QED
    BY <1>10, <2>1, <2>2 DEF TapLink, MoneyInv, PaidRecorded, FullyPaid, Captured, TypeOK, Links
<1>11. CASE TapSave(t)
  <2>1. MoneyStays
    BY <1>11 DEF TapSave, MoneyStays, FullyPaid, Captured, TypeOK, Append, Links
  <2>2. \A g \in Handlers : Honest(g)'
    BY <1>11, <2>1, FinishHonest DEF TapSave
  <2> QED
    BY <1>11, <2>1, <2>2 DEF TapSave, MoneyInv, PaidRecorded, FullyPaid, Captured, Save, Honest, TypeOK, Links
<1> QED
  BY <1>1, <1>2, <1>3, <1>4, <1>5, <1>6, <1>7, <1>8, <1>9, <1>10, <1>11 DEF Tap

LEMMA HookMoney ==
    ASSUME TypeOK, MoneyInv, NEW h \in Hooks, HookStep(h)
    PROVE  MoneyInv'
<1>1. CASE HookLoad(h)
  <2>1. MoneyStays
    BY <1>1 DEF HookLoad, MoneyStays, FullyPaid, Captured, TypeOK, Append, Links
  <2>2. \A g \in Handlers : Honest(g)'
    BY <1>1, <2>1, RaiseHonest DEF HookLoad, Honest, Goto, TypeOK, MoneyInv, PaidRecorded, MoneyStays, FullyPaid, Captured
  <2> QED
    BY <1>1, <2>1, <2>2 DEF HookLoad, MoneyInv, PaidRecorded, FullyPaid, Captured
<1>2. CASE HookCheck(h)
  <2>1. MoneyStays
    BY <1>2 DEF HookCheck, MoneyStays, FullyPaid, Captured, TypeOK, Append, Links
  <2>2. \A g \in Handlers : Honest(g)'
    BY <1>2, <2>1 DEF HookCheck, Honest, Goto, TypeOK, MoneyInv, MoneyStays, FullyPaid, Captured
  <2> QED
    BY <1>2, <2>1, <2>2 DEF HookCheck, MoneyInv, PaidRecorded, FullyPaid, Captured
<1>3. CASE HookSettle(h)
  <2>1. MoneyStays
    BY <1>3 DEF HookSettle, MoneyStays, FullyPaid, Captured, TypeOK, Append, Links
  <2>2. \A g \in Handlers : Honest(g)'
    BY <1>3, <2>1, RaiseHonest DEF HookSettle, Honest, Goto, TypeOK, MoneyInv, MoneyStays, FullyPaid, Captured
  <2> QED
    BY <1>3, <2>1, <2>2 DEF HookSettle, MoneyInv, PaidRecorded, FullyPaid, Captured
<1>4. CASE HookCapture(h)
  <2>1. MoneyStays
    BY <1>4 DEF HookCapture, MoneyStays, FullyPaid, Captured, TypeOK, Append, Links
  <2>2. \A g \in Handlers : Honest(g)'
    BY <1>4, <2>1 DEF HookCapture, Honest, Goto, TypeOK, MoneyInv, MoneyStays, FullyPaid, Captured, Append
  <2> QED
    BY <1>4, <2>1, <2>2 DEF HookCapture, MoneyInv, PaidRecorded, FullyPaid, Captured, Append, Honest
<1>5. CASE HookCommit(h)
  <2>1. MoneyStays
    BY <1>5 DEF HookCommit, MoneyStays, FullyPaid, Captured, TypeOK, Append, Links
  <2>2. \A g \in Handlers : Honest(g)'
    BY <1>5, <2>1, RaiseHonest DEF HookCommit, Honest, Goto, TypeOK, MoneyInv, MoneyStays, FullyPaid, Captured
  <2> QED
    BY <1>5, <2>1, <2>2 DEF HookCommit, MoneyInv, PaidRecorded, FullyPaid, Captured, TypeOK, Shops
<1>6. CASE HookPaid(h)
  <2>1. MoneyStays
    BY <1>6 DEF HookPaid, MoneyStays, FullyPaid, Captured, TypeOK, Append, Links
  <2>2. \A g \in Handlers : Honest(g)'
    BY <1>6, <2>1 DEF HookPaid, Honest, Goto, TypeOK, MoneyInv, MoneyStays, FullyPaid, Captured, Rows
  <2> QED
    BY <1>6, <2>1, <2>2 DEF HookPaid, MoneyInv, PaidRecorded, FullyPaid, Captured, SetStatus, TypeOK, Shops, Honest
<1>7. CASE HookSave(h)
  <2>1. MoneyStays
    BY <1>7 DEF HookSave, MoneyStays, FullyPaid, Captured, TypeOK, Append, Links
  <2>2. \A g \in Handlers : Honest(g)'
    BY <1>7, <2>1, FinishHonest DEF HookSave
  <2> QED
    BY <1>7, <2>1, <2>2 DEF HookSave, MoneyInv, PaidRecorded, FullyPaid, Captured, Save, Honest
<1>8. CASE HookFailRead(h)
  <2>1. MoneyStays
    BY <1>8 DEF HookFailRead, MoneyStays, FullyPaid, Captured, TypeOK, Append, Links
  <2>2. \A g \in Handlers : Honest(g)'
    BY <1>8, <2>1, GotoHonest DEF HookFailRead
  <2> QED
    BY <1>8, <2>1, <2>2 DEF HookFailRead, MoneyInv, PaidRecorded, FullyPaid, Captured
<1>9. CASE HookFailRecheck(h)
  <2>1. MoneyStays
    BY <1>9 DEF HookFailRecheck, MoneyStays, FullyPaid, Captured, TypeOK, Append, Links
  <2>2. \A g \in Handlers : Honest(g)'
    BY <1>9, <2>1, RaiseHonest, GotoHonest DEF HookFailRecheck
  <2> QED
    BY <1>9, <2>1, <2>2 DEF HookFailRecheck, MoneyInv, PaidRecorded, FullyPaid, Captured
<1>10. CASE HookFailRelease(h)
  <2>1. MoneyStays
    BY <1>10 DEF HookFailRelease, MoneyStays, FullyPaid, Captured, TypeOK, Append, Links
  <2>2. \A g \in Handlers : Honest(g)'
    BY <1>10, <2>1, GotoHonest DEF HookFailRelease
  <2> QED
    BY <1>10, <2>1, <2>2 DEF HookFailRelease, MoneyInv, PaidRecorded, FullyPaid, Captured, Append
<1>11. CASE HookFailSave(h)
  <2>1. MoneyStays
    BY <1>11 DEF HookFailSave, MoneyStays, FullyPaid, Captured, TypeOK, Append, Links
  <2>2. \A g \in Handlers : Honest(g)'
    BY <1>11, <2>1 DEF HookFailSave, Honest, Goto, TypeOK, MoneyInv, MoneyStays, FullyPaid, Captured, Rows
  <2> QED
    BY <1>11, <2>1, <2>2 DEF HookFailSave, MoneyInv, PaidRecorded, FullyPaid, Captured, Save, TypeOK, Rows
<1>12. CASE HookFailStatus(h)
  <2>1. MoneyStays
    BY <1>12 DEF HookFailStatus, MoneyStays, FullyPaid, Captured, TypeOK, Append, Links
  <2>2. \A g \in Handlers : Honest(g)'
    BY <1>12, <2>1, FinishHonest DEF HookFailStatus
  <2> QED
    BY <1>12, <2>1, <2>2 DEF HookFailStatus, MoneyInv, PaidRecorded, FullyPaid, Captured, SetStatus, TypeOK, Shops
<1> QED
  BY <1>1, <1>2, <1>3, <1>4, <1>5, <1>6, <1>7, <1>8, <1>9, <1>10, <1>11, <1>12 DEF HookStep

LEMMA CloseMoney ==
    ASSUME TypeOK, MoneyInv, NEW h \in Closers, Close(h)
    PROVE  MoneyInv'
<1>1. CASE CloseStock(h)
  <2>1. MoneyStays
    BY <1>1 DEF CloseStock, MoneyStays, FullyPaid, Captured, TypeOK, Append, Links
  <2>2. \A g \in Handlers : Honest(g)'
    BY <1>1, <2>1, RaiseHonest, GotoHonest DEF CloseStock
  <2> QED
    BY <1>1, <2>1, <2>2 DEF CloseStock, MoneyInv, PaidRecorded, FullyPaid, Captured, TypeOK, Shops
<1>2. CASE CloseRead(h)
  <2>1. MoneyStays
    BY <1>2 DEF CloseRead, MoneyStays, FullyPaid, Captured, TypeOK, Append, Links
  <2>2. \A g \in Handlers : Honest(g)'
    BY <1>2, <2>1, GotoHonest DEF CloseRead
  <2> QED
    BY <1>2, <2>1, <2>2 DEF CloseRead, MoneyInv, PaidRecorded, FullyPaid, Captured
<1>3. CASE CloseRecheck(h)
  <2>1. MoneyStays
    BY <1>3 DEF CloseRecheck, MoneyStays, FullyPaid, Captured, TypeOK, Append, Links
  <2>2. \A g \in Handlers : Honest(g)'
    BY <1>3, <2>1, RaiseHonest, GotoHonest DEF CloseRecheck
  <2> QED
    BY <1>3, <2>1, <2>2 DEF CloseRecheck, MoneyInv, PaidRecorded, FullyPaid, Captured
<1>4. CASE CloseRelease(h)
  <2>1. MoneyStays
    BY <1>4 DEF CloseRelease, MoneyStays, FullyPaid, Captured, TypeOK, Append, Links
  <2>2. \A g \in Handlers : Honest(g)'
    BY <1>4, <2>1, GotoHonest DEF CloseRelease
  <2> QED
    BY <1>4, <2>1, <2>2 DEF CloseRelease, MoneyInv, PaidRecorded, FullyPaid, Captured, Append
<1>5. CASE CloseStatus(h)
  <2>1. MoneyStays
    BY <1>5 DEF CloseStatus, MoneyStays, FullyPaid, Captured, TypeOK, Append, Links
  <2>2. \A g \in Handlers : Honest(g)'
    BY <1>5, <2>1 DEF CloseStatus, Honest, Goto, TypeOK, MoneyInv, MoneyStays, FullyPaid, Captured, Rows, ClosedAs
  <2> QED
    BY <1>5, <2>1, <2>2 DEF CloseStatus, MoneyInv, PaidRecorded, FullyPaid, Captured, SetStatus, ClosedAs, TypeOK, Shops
<1>6. CASE CloseStatusLost(h)
  <2>1. MoneyStays
    BY <1>6 DEF CloseStatusLost, MoneyStays, FullyPaid, Captured, TypeOK, Append, Links
  <2>2. \A g \in Handlers : Honest(g)'
    BY <1>6, <2>1, RaiseHonest DEF CloseStatusLost
  <2> QED
    BY <1>6, <2>1, <2>2 DEF CloseStatusLost, MoneyInv, PaidRecorded, FullyPaid, Captured, SetStatus, ClosedAs, TypeOK, Shops
<1>7. CASE CloseLink(h)
  <2>1. MoneyStays
    BY <1>7 DEF CloseLink, MoneyStays, FullyPaid, Captured, TypeOK, Append, Links
  <2>2. \A g \in Handlers : Honest(g)'
    BY <1>7, <2>1 DEF CloseLink, Honest, Goto, TypeOK, MoneyInv, MoneyStays, FullyPaid, Captured, Rows
  <2> QED
    BY <1>7, <2>1, <2>2 DEF CloseLink, MoneyInv, PaidRecorded, FullyPaid, Captured, TypeOK, Links
<1>8. CASE CloseSave(h)
  <2>1. MoneyStays
    BY <1>8 DEF CloseSave, MoneyStays, FullyPaid, Captured, TypeOK, Append, Links
  <2>2. \A g \in Handlers : Honest(g)'
    BY <1>8, <2>1, FinishHonest DEF CloseSave
  <2> QED
    BY <1>8, <2>1, <2>2 DEF CloseSave, MoneyInv, PaidRecorded, FullyPaid, Captured, Save, Honest, TypeOK, Rows
<1> QED
  BY <1>1, <1>2, <1>3, <1>4, <1>5, <1>6, <1>7, <1>8 DEF Close

LEMMA SweepMoney ==
    ASSUME TypeOK, MoneyInv, Sweep
    PROVE  MoneyInv'
<1>1. CASE SweepStart
  <2>1. MoneyStays
    BY <1>1 DEF SweepStart, MoneyStays, FullyPaid, Captured, TypeOK, Append, Links
  <2>2. \A g \in Handlers : Honest(g)'
    BY <1>1, <2>1, Types DEF SweepStart, SweepTo, SweepStep, Honest, Goto, TypeOK, MoneyInv, PaidRecorded, MoneyStays, FullyPaid, Captured, NoRow, Rows
  <2> QED
    BY <1>1, <2>1, <2>2 DEF SweepStart, MoneyInv, PaidRecorded, FullyPaid, Captured
<1>2. CASE SweepResync
  <2>1. MoneyStays
    BY <1>2 DEF SweepResync, MoneyStays, FullyPaid, Captured, TypeOK, Append, Links
  <2>2. \A g \in Handlers : Honest(g)'
    BY <1>2, <2>1, Types DEF SweepResync, SweepTo, SweepStep, Honest, Goto, TypeOK, MoneyInv, PaidRecorded, MoneyStays, FullyPaid, Captured, NoRow, Rows
  <2> QED
    BY <1>2, <2>1, <2>2 DEF SweepResync, MoneyInv, PaidRecorded, FullyPaid, Captured
<1>3. CASE SweepResave
  <2>1. MoneyStays
    BY <1>3 DEF SweepResave, MoneyStays, FullyPaid, Captured, TypeOK, Append, Links
  <2>2. \A g \in Handlers : Honest(g)'
    BY <1>3, <2>1, Types DEF SweepResave, SweepTo, SweepStep, Honest, Goto, TypeOK, MoneyInv, PaidRecorded, MoneyStays, FullyPaid, Captured, NoRow, Rows
  <2> QED
    BY <1>3, <2>1, <2>2 DEF SweepResave, MoneyInv, PaidRecorded, FullyPaid, Captured, Save, Honest
<1>4. CASE SweepRecover
  <2>1. MoneyStays
    BY <1>4 DEF SweepRecover, MoneyStays, FullyPaid, Captured, TypeOK, Append, Links
  <2>2. \A g \in Handlers : Honest(g)'
    BY <1>4, <2>1, Types DEF SweepRecover, SweepTo, SweepStep, Honest, Goto, TypeOK, MoneyInv, PaidRecorded, MoneyStays, FullyPaid, Captured, NoRow, Rows
  <2> QED
    BY <1>4, <2>1, <2>2 DEF SweepRecover, MoneyInv, PaidRecorded, FullyPaid, Captured
<1>5. CASE SweepRecoverSave
  <2>1. MoneyStays
    BY <1>5 DEF SweepRecoverSave, MoneyStays, FullyPaid, Captured, TypeOK, Append, Links
  <2>2. \A g \in Handlers : Honest(g)'
    BY <1>5, <2>1, Types DEF SweepRecoverSave, SweepTo, SweepStep, Honest, Goto, TypeOK, MoneyInv, PaidRecorded, MoneyStays, FullyPaid, Captured, NoRow, Rows
  <2> QED
    BY <1>5, <2>1, <2>2 DEF SweepRecoverSave, MoneyInv, PaidRecorded, FullyPaid, Captured, Save, Honest
<1> QED
  BY <1>1, <1>2, <1>3, <1>4, <1>5 DEF Sweep

(* Every step keeps MoneyInv. *)
LEMMA NextMoney == TypeOK /\ MoneyInv /\ [Next]_vars => MoneyInv'
<1> SUFFICES ASSUME TypeOK, MoneyInv, [Next]_vars PROVE MoneyInv'
  OBVIOUS
<1> USE DEF MoneyInv, PaidRecorded, Honest, FullyPaid, Captured
<1>1. CASE \E s \in Starts : Start(s)
  BY <1>1, StartMoney
<1>2. CASE \E t \in Taps : Tap(t)
  BY <1>2, TapMoney
<1>3. CASE \E h \in Hooks : HookStep(h)
  BY <1>3, HookMoney
<1>4. CASE \E h \in Hooks : \E e \in Events : HookReceive(h, e)
  BY <1>4 DEF HookReceive, TypeOK
<1>5. CASE \E c \in Cancels : CancelLoad(c)
  BY <1>5 DEF CancelLoad, Goto, TypeOK
<1>6. CASE \E h \in Closers : Close(h)
  BY <1>6, CloseMoney
<1>7. CASE Sweep
  BY <1>7, SweepMoney
<1>8. CASE \E h \in Handlers : CallFails(h)
  <2> PICK h \in Handlers : CallFails(h)
    BY <1>8
  <2>1. MoneyStays
    BY DEF CallFails, MoneyStays
  <2> QED
    BY <2>1, RaiseHonest DEF CallFails
<1>9. CASE Pay \/ LinkExpire
  BY <1>9 DEF Pay, LinkExpire, TypeOK, Links
<1>10. CASE \E e \in Events : Emit(e)
  BY <1>10 DEF Emit
<1>11. CASE Crash
  BY <1>11 DEF Crash, Rest, InFlight, NoRow, TypeOK
<1>12. CASE Tick
  BY <1>12 DEF Tick
<1>13. CASE UNCHANGED vars
  BY <1>13 DEF vars
<1> QED
  BY <1>1, <1>2, <1>3, <1>4, <1>5, <1>6, <1>7, <1>8, <1>9, <1>10, <1>11, <1>12, <1>13
     DEF Next

LEMMA MoneyCorrect == Spec => []MoneyInv
<1>1. Init => MoneyInv
  BY DEF Init, MoneyInv, PaidRecorded, Honest, FullyPaid, Captured, NoRow
<1> QED
  BY <1>1, NextMoney, TypeCorrect, PTL DEF Spec

(* An order nobody paid for is never called paid, at the shop or on the    *)
(* row, however webhooks, cancels, sweeps, failures and crashes interleave.*)
THEOREM NeverPaidUncaptured == Spec => []PaidIsCaptured
<1>1. MoneyInv => PaidIsCaptured
  BY DEF MoneyInv, PaidRecorded, PaidIsCaptured, Captured
<1> QED
  BY <1>1, MoneyCorrect, PTL

(* A CAPTURE is only ever written over money the Provider holds in full.   *)
THEOREM NeverCapturedUnpaid == Spec => []CaptureIsBacked
<1>1. MoneyInv => CaptureIsBacked
  BY DEF MoneyInv, CaptureIsBacked, Captured, FullyPaid
<1> QED
  BY <1>1, MoneyCorrect, PTL

-----------------------------------------------------------------------------
(* One tap per token.                                                      *)
(*                                                                         *)
(* A token is unminted until its start issues it, and once spent it stays  *)
(* spent; a tap past the spend holds a spent token that no other tap holds.*)

TokenInv ==
    /\ \A s \in Starts : at[s] \in {"idle", "raised", "created"} => tokens[s].state = "none"
    /\ \A t \in Taps : at[t] \in TapSteps => copy[t].token \in Starts
    /\ \A t \in Taps : at[t] \in PastSpend => tokens[copy[t].token].state = "spent"
    /\ OneTapPerToken

(* What a step of any other handler leaves alone. *)
TokensApart ==
    /\ UNCHANGED tokens
    /\ \A g \in Starts \cup Taps : at'[g] = at[g] /\ copy'[g] = copy[g]

LEMMA ApartTokens ==
    ASSUME TypeOK, TokenInv, TokensApart
    PROVE  TokenInv'
  BY DEF TokenInv, TokensApart, OneTapPerToken

(* A handler that comes to rest gives up its claim on a token. *)
LEMMA RestTokens ==
    ASSUME TypeOK, TokenInv, UNCHANGED tokens, NEW h \in Handlers, Raise(h)
    PROVE  TokenInv'
  BY MoneyPathAssumption
     DEF TypeOK, TokenInv, OneTapPerToken, Raise, Finish, Goto, Rest, TapSteps, PastSpend, CloseSteps

(* A tap that goes on with the token it has, no further than the spend or  *)
(* from beyond it, keeps its claim.                                        *)
LEMMA TapTokens ==
    ASSUME TypeOK, TokenInv, UNCHANGED tokens, NEW t \in Taps, NEW step, Goto(t, step),
           at[t] \in TapSteps, step \in PastSpend => at[t] \in PastSpend,
           \A g \in Starts \cup Taps : copy'[g].token = copy[g].token
    PROVE  TokenInv'
  BY MoneyPathAssumption
     DEF TypeOK, TokenInv, OneTapPerToken, Goto, TapSteps, PastSpend

LEMMA StartTokens ==
    ASSUME TypeOK, TokenInv, NEW s \in Starts, Start(s)
    PROVE  TokenInv'
<1>1. CASE StartCreate(s)
  BY <1>1, MoneyPathAssumption
     DEF StartCreate, Begin, Goto, TypeOK, TokenInv, OneTapPerToken
<1>2. CASE StartIssue(s)
  <2>1. tokens[s].state = "none"
    BY <1>2 DEF StartIssue, TokenInv
  <2>2. \A t \in Taps : at'[t] = at[t] /\ copy'[t] = copy[t]
    BY <1>2, MoneyPathAssumption DEF StartIssue, Goto, TypeOK
  <2>3. \A t \in Taps : at[t] \in PastSpend => copy[t].token # s
    BY <2>1 DEF TokenInv
  <2>4. \A t \in Taps : at[t] \in PastSpend => tokens'[copy[t].token].state = "spent"
    BY <1>2, <2>3 DEF StartIssue, TokenInv, TypeOK, TapSteps, PastSpend
  <2>5. \A u \in Starts : at'[u] \in {"idle", "raised", "created"} => tokens'[u].state = "none"
    BY <1>2 DEF StartIssue, Goto, TypeOK, TokenInv
  <2> QED
    BY <2>2, <2>4, <2>5 DEF TokenInv, OneTapPerToken
<1>3. CASE StartSave(s)
  BY <1>3, RestTokens, MoneyPathAssumption DEF StartSave, Raise
<1> QED
  BY <1>1, <1>2, <1>3 DEF Start

LEMMA TapTokensStep ==
    ASSUME TypeOK, TokenInv, NEW t \in Taps, Tap(t)
    PROVE  TokenInv'
<1>0. t # Sweeper /\ t \notin Starts
  BY MoneyPathAssumption
<1>1. CASE TapLoad(t)
  <2>1. copy'[t].token \in Starts
    BY <1>1, MoneyPathAssumption DEF TapLoad, TypeOK, Rows
  <2>2. at' = [at EXCEPT ![t] = "loaded"]
    BY <1>1 DEF TapLoad, Goto
  <2>3. \A g \in Starts \cup Taps : g # t => copy'[g] = copy[g]
    BY <1>1 DEF TapLoad, TypeOK
  <2> QED
    BY <1>0, <1>1, <2>1, <2>2, <2>3
       DEF TapLoad, TypeOK, TokenInv, OneTapPerToken, TapSteps, PastSpend
<1>2. CASE TapVet(t)
  BY <1>2, RestTokens, TapTokens DEF TapVet, TapSteps, PastSpend
<1>3. CASE TapSpend(t)
  <2> DEFINE token == copy[t].token
  <2>1. CASE tokens[token].state = "live"
    <3>1. token \in Starts
      BY <1>3 DEF TapSpend, TokenInv, TapSteps
    <3>2. \A u \in Taps : at[u] \in PastSpend => copy[u].token # token
      BY <2>1 DEF TokenInv
    <3>3. /\ tokens' = [tokens EXCEPT ![token].state = "spent"]
          /\ at' = [at EXCEPT ![t] = "spent"]
          /\ copy' = copy
      BY <1>3, <2>1 DEF TapSpend, Goto
    <3>4. tokens'[token].state = "spent"
      BY <3>1, <3>3 DEF TypeOK, TokenStates
    <3>5. \A u \in Starts : u # token => tokens'[u] = tokens[u]
      BY <3>3 DEF TypeOK
    <3>6. \A u \in Starts : at'[u] = at[u]
      BY <1>0, <3>3 DEF TypeOK
    <3>7. \A u \in Taps : at'[u] = IF u = t THEN "spent" ELSE at[u]
      BY <3>3 DEF TypeOK
    <3>8. \A u \in Taps : at'[u] \in TapSteps => copy'[u].token \in Starts
      BY <3>1, <3>3, <3>7 DEF TokenInv
    <3>9. \A u \in Taps : at'[u] \in PastSpend => tokens'[copy'[u].token].state = "spent"
      BY <3>3, <3>4, <3>5, <3>7, <3>8 DEF TokenInv, PastSpend, TapSteps
    <3>10. OneTapPerToken'
      BY <3>2, <3>3, <3>7 DEF TokenInv, OneTapPerToken
    <3>11. tokens[token].state # "none"
      BY <2>1
    <3>12. \A u \in Starts : at'[u] \in {"idle", "raised", "created"} => tokens'[u].state = "none"
      BY <3>5, <3>6, <3>11 DEF TokenInv
    <3> QED
      BY <3>8, <3>9, <3>10, <3>12 DEF TokenInv
  <2>2. CASE tokens[token].state # "live"
    BY <1>3, <2>2, RestTokens DEF TapSpend
  <2> QED
    BY <2>1, <2>2
<1>4. CASE TapRefuse(t)
  BY <1>0, <1>4, RestTokens DEF TapRefuse, Raise
<1>5. CASE TapReserve(t)
  BY <1>5, RestTokens, TapTokens DEF TapReserve, TapSteps, PastSpend
<1>6. CASE TapConfirm(t)
  <2>1. \A g \in Starts \cup Taps : copy'[g].token = copy[g].token
    BY <1>6 DEF TapConfirm, TypeOK, Rows
  <2> QED
    BY <1>6, <2>1, TapTokens DEF TapConfirm, TapSteps, PastSpend
<1>7. CASE TapSaveCod(t)
  BY <1>0, <1>7, RestTokens DEF TapSaveCod, Raise
<1>8. CASE TapHold(t)
  BY <1>8, RestTokens, TapTokens DEF TapHold, TapSteps, PastSpend
<1>9. CASE TapReserveMoney(t)
  BY <1>9, TapTokens DEF TapReserveMoney, TapSteps, PastSpend
<1>10. CASE TapLink(t)
  <2>1. \A g \in Starts \cup Taps : copy'[g].token = copy[g].token
    BY <1>10 DEF TapLink, TypeOK, Rows
  <2> QED
    BY <1>10, <2>1, TapTokens DEF TapLink, TapSteps, PastSpend
<1>11. CASE TapSave(t)
  BY <1>0, <1>11, RestTokens DEF TapSave, Raise
<1> QED
  BY <1>1, <1>2, <1>3, <1>4, <1>5, <1>6, <1>7, <1>8, <1>9, <1>10, <1>11 DEF Tap

(* No webhook, cancel or sweep touches a token, a start or a tap. *)
LEMMA HookApart ==
    ASSUME TypeOK, NEW h \in Hooks, HookStep(h)
    PROVE  TokensApart
<1>1. CASE HookLoad(h)
  BY <1>1, MoneyPathAssumption
     DEF HookLoad, TokensApart, TypeOK, Raise, Finish, Goto
<1>2. CASE HookCheck(h)
  BY <1>2, MoneyPathAssumption
     DEF HookCheck, TokensApart, TypeOK, Raise, Finish, Goto
<1>3. CASE HookSettle(h)
  BY <1>3, MoneyPathAssumption
     DEF HookSettle, TokensApart, TypeOK, Raise, Finish, Goto
<1>4. CASE HookCapture(h)
  BY <1>4, MoneyPathAssumption
     DEF HookCapture, TokensApart, TypeOK, Raise, Finish, Goto
<1>5. CASE HookCommit(h)
  BY <1>5, MoneyPathAssumption
     DEF HookCommit, TokensApart, TypeOK, Raise, Finish, Goto
<1>6. CASE HookPaid(h)
  BY <1>6, MoneyPathAssumption
     DEF HookPaid, TokensApart, TypeOK, Raise, Finish, Goto
<1>7. CASE HookSave(h)
  BY <1>7, MoneyPathAssumption
     DEF HookSave, TokensApart, TypeOK, Raise, Finish, Goto
<1>8. CASE HookFailRead(h)
  BY <1>8, MoneyPathAssumption
     DEF HookFailRead, TokensApart, TypeOK, Raise, Finish, Goto
<1>9. CASE HookFailRecheck(h)
  BY <1>9, MoneyPathAssumption
     DEF HookFailRecheck, TokensApart, TypeOK, Raise, Finish, Goto
<1>10. CASE HookFailRelease(h)
  BY <1>10, MoneyPathAssumption
     DEF HookFailRelease, TokensApart, TypeOK, Raise, Finish, Goto
<1>11. CASE HookFailSave(h)
  BY <1>11, MoneyPathAssumption
     DEF HookFailSave, TokensApart, TypeOK, Raise, Finish, Goto
<1>12. CASE HookFailStatus(h)
  BY <1>12, MoneyPathAssumption
     DEF HookFailStatus, TokensApart, TypeOK, Raise, Finish, Goto
<1> QED
  BY <1>1, <1>2, <1>3, <1>4, <1>5, <1>6, <1>7, <1>8, <1>9, <1>10, <1>11, <1>12 DEF HookStep

LEMMA CloseApart ==
    ASSUME TypeOK, NEW h \in Closers, Close(h)
    PROVE  TokensApart
<1>1. CASE CloseStock(h)
  BY <1>1, MoneyPathAssumption
     DEF CloseStock, TokensApart, TypeOK, Raise, Finish, Goto
<1>2. CASE CloseRead(h)
  BY <1>2, MoneyPathAssumption
     DEF CloseRead, TokensApart, TypeOK, Raise, Finish, Goto
<1>3. CASE CloseRecheck(h)
  BY <1>3, MoneyPathAssumption
     DEF CloseRecheck, TokensApart, TypeOK, Raise, Finish, Goto
<1>4. CASE CloseRelease(h)
  BY <1>4, MoneyPathAssumption
     DEF CloseRelease, TokensApart, TypeOK, Raise, Finish, Goto
<1>5. CASE CloseStatus(h)
  BY <1>5, MoneyPathAssumption
     DEF CloseStatus, TokensApart, TypeOK, Raise, Finish, Goto
<1>6. CASE CloseStatusLost(h)
  BY <1>6, MoneyPathAssumption
     DEF CloseStatusLost, TokensApart, TypeOK, Raise, Finish, Goto
<1>7. CASE CloseLink(h)
  BY <1>7, MoneyPathAssumption
     DEF CloseLink, TokensApart, TypeOK, Raise, Finish, Goto
<1>8. CASE CloseSave(h)
  BY <1>8, MoneyPathAssumption
     DEF CloseSave, TokensApart, TypeOK, Raise, Finish, Goto
<1> QED
  BY <1>1, <1>2, <1>3, <1>4, <1>5, <1>6, <1>7, <1>8 DEF Close

LEMMA SweepApart ==
    ASSUME TypeOK, Sweep
    PROVE  TokensApart
<1>1. CASE SweepStart
  BY <1>1, MoneyPathAssumption
     DEF SweepStart, TokensApart, TypeOK, Raise, Finish, Goto, SweepTo
<1>2. CASE SweepResync
  BY <1>2, MoneyPathAssumption
     DEF SweepResync, TokensApart, TypeOK, Raise, Finish, Goto, SweepTo
<1>3. CASE SweepResave
  BY <1>3, MoneyPathAssumption
     DEF SweepResave, TokensApart, TypeOK, Raise, Finish, Goto, SweepTo
<1>4. CASE SweepRecover
  BY <1>4, MoneyPathAssumption
     DEF SweepRecover, TokensApart, TypeOK, Raise, Finish, Goto, SweepTo
<1>5. CASE SweepRecoverSave
  BY <1>5, MoneyPathAssumption
     DEF SweepRecoverSave, TokensApart, TypeOK, Raise, Finish, Goto, SweepTo
<1> QED
  BY <1>1, <1>2, <1>3, <1>4, <1>5 DEF Sweep

(* Every step keeps TokenInv. *)
LEMMA NextTokens == TypeOK /\ TokenInv /\ [Next]_vars => TokenInv'
<1> SUFFICES ASSUME TypeOK, TokenInv, [Next]_vars PROVE TokenInv'
  OBVIOUS
<1>1. CASE \E s \in Starts : Start(s)
  BY <1>1, StartTokens
<1>2. CASE \E t \in Taps : Tap(t)
  BY <1>2, TapTokensStep
<1>3. CASE \E h \in Hooks : HookStep(h)
  BY <1>3, HookApart, ApartTokens
<1>4. CASE \E h \in Hooks : \E e \in Events : HookReceive(h, e)
  <2>1. TokensApart
    BY <1>4, MoneyPathAssumption DEF HookReceive, TypeOK, TokensApart
  <2> QED
    BY <2>1, ApartTokens
<1>5. CASE \E c \in Cancels : CancelLoad(c)
  <2>1. TokensApart
    BY <1>5, MoneyPathAssumption DEF CancelLoad, Goto, TypeOK, TokensApart
  <2> QED
    BY <2>1, ApartTokens
<1>6. CASE \E h \in Closers : Close(h)
  BY <1>6, CloseApart, ApartTokens
<1>7. CASE Sweep
  BY <1>7, SweepApart, ApartTokens
<1>8. CASE \E h \in Handlers : CallFails(h)
  BY <1>8, RestTokens DEF CallFails
<1>9. CASE Pay \/ LinkExpire \/ (\E e \in Events : Emit(e)) \/ Tick \/ UNCHANGED vars
  <2>1. TokensApart
    BY <1>9 DEF Pay, LinkExpire, Emit, Tick, vars, TokensApart
  <2> QED
    BY <2>1, ApartTokens
<1>10. CASE Crash
  BY <1>10, MoneyPathAssumption
     DEF Crash, InFlight, Rest, TypeOK, TokenInv, OneTapPerToken, TapSteps, PastSpend
<1> QED
  BY <1>1, <1>2, <1>3, <1>4, <1>5, <1>6, <1>7, <1>8, <1>9, <1>10 DEF Next

LEMMA TokenCorrect == Spec => []TokenInv
<1>1. Init => TokenInv
  BY DEF Init, TokenInv, OneTapPerToken, TapSteps, PastSpend
<1> QED
  BY <1>1, NextTokens, TypeCorrect, PTL DEF Spec

(* A tap token lets one approval through, however many times the Consumer  *)
(* submits it and whatever runs in between.                                *)
THEOREM OneTap == Spec => []OneTapPerToken
<1>1. TokenInv => OneTapPerToken
  BY DEF TokenInv
<1> QED
  BY <1>1, TokenCorrect, PTL

-----------------------------------------------------------------------------
(* The row never claims what the shop did not take.                        *)
(*                                                                         *)
(* A save writes a handler's copy, so every copy has to be known as well;  *)
(* and a resync copies the shop's own status, so that one too.             *)

Known(status) == status \in {"absent", "pending", "failed"} \cup shop.replied

RowInv ==
    /\ Known(shop.status)
    /\ Known(row.status)
    /\ \A h \in Handlers : Known(copy[h].status)

(* A handler that comes to rest forgets its copy; the others keep theirs. *)
LEMMA FinishKnown ==
    ASSUME TypeOK, RowInv, UNCHANGED shop, NEW h \in Handlers, Finish(h)
    PROVE  Known(shop.status)' /\ \A g \in Handlers : Known(copy[g].status)'
  BY DEF TypeOK, RowInv, Known, Finish, NoRow

(* RowInv step by step. *)

LEMMA StartRow ==
    ASSUME TypeOK, RowInv, NEW s \in Starts, Start(s)
    PROVE  RowInv'
<1>1. CASE StartCreate(s)
  BY <1>1
     DEF StartCreate, RowInv, Known, TypeOK, Shops, Rows, Raise, Finish, NoRow
<1>2. CASE StartIssue(s)
  BY <1>2
     DEF StartIssue, RowInv, Known, TypeOK, Shops, Rows, Raise, Finish, NoRow
<1>3. CASE StartSave(s)
  BY <1>3
     DEF StartSave, RowInv, Known, TypeOK, Shops, Rows, Save, NoRow, Raise, Finish
<1> QED
  BY <1>1, <1>2, <1>3 DEF Start

LEMMA TapRow ==
    ASSUME TypeOK, RowInv, NEW t \in Taps, Tap(t)
    PROVE  RowInv'
<1>1. CASE TapLoad(t)
  BY <1>1
     DEF TapLoad, RowInv, Known, TypeOK, Shops, Rows, Raise, Finish, NoRow
<1>2. CASE TapVet(t)
  BY <1>2
     DEF TapVet, RowInv, Known, TypeOK, Shops, Rows, Raise, Finish, NoRow
<1>3. CASE TapSpend(t)
  BY <1>3
     DEF TapSpend, RowInv, Known, TypeOK, Shops, Rows, Raise, Finish, NoRow
<1>4. CASE TapRefuse(t)
  BY <1>4
     DEF TapRefuse, RowInv, Known, TypeOK, Shops, Rows, Raise, Finish, NoRow
<1>5. CASE TapReserve(t)
  BY <1>5
     DEF TapReserve, RowInv, Known, TypeOK, Shops, Rows, Raise, Finish, NoRow
<1>6. CASE TapConfirm(t)
  BY <1>6
     DEF TapConfirm, SetStatus, RowInv, Known, TypeOK, Shops, Rows, Raise, Finish, NoRow
<1>7. CASE TapSaveCod(t)
  <2>1. Known(row.status)'
    BY <1>7 DEF TapSaveCod, Save, TypeOK, Rows, RowInv, Known
  <2>2. Known(shop.status)' /\ \A g \in Handlers : Known(copy[g].status)'
    BY <1>7, FinishKnown DEF TapSaveCod
  <2> QED
    BY <2>1, <2>2 DEF RowInv
<1>8. CASE TapHold(t)
  BY <1>8
     DEF TapHold, RowInv, Known, TypeOK, Shops, Rows, Raise, Finish, NoRow
<1>9. CASE TapReserveMoney(t)
  BY <1>9
     DEF TapReserveMoney, RowInv, Known, TypeOK, Shops, Rows, Raise, Finish, NoRow
<1>10. CASE TapLink(t)
  BY <1>10
     DEF TapLink, RowInv, Known, TypeOK, Shops, Rows, Raise, Finish, NoRow
<1>11. CASE TapSave(t)
  <2>1. Known(row.status)'
    BY <1>11 DEF TapSave, Save, TypeOK, Rows, RowInv, Known
  <2>2. Known(shop.status)' /\ \A g \in Handlers : Known(copy[g].status)'
    BY <1>11, FinishKnown DEF TapSave
  <2> QED
    BY <2>1, <2>2 DEF RowInv
<1> QED
  BY <1>1, <1>2, <1>3, <1>4, <1>5, <1>6, <1>7, <1>8, <1>9, <1>10, <1>11 DEF Tap

LEMMA HookRow ==
    ASSUME TypeOK, RowInv, NEW h \in Hooks, HookStep(h)
    PROVE  RowInv'
<1>1. CASE HookLoad(h)
  BY <1>1
     DEF HookLoad, RowInv, Known, TypeOK, Shops, Rows, Raise, Finish, NoRow
<1>2. CASE HookCheck(h)
  BY <1>2
     DEF HookCheck, RowInv, Known, TypeOK, Shops, Rows, Raise, Finish, NoRow
<1>3. CASE HookSettle(h)
  BY <1>3
     DEF HookSettle, RowInv, Known, TypeOK, Shops, Rows, Raise, Finish, NoRow
<1>4. CASE HookCapture(h)
  BY <1>4
     DEF HookCapture, RowInv, Known, TypeOK, Shops, Rows, Raise, Finish, NoRow
<1>5. CASE HookCommit(h)
  BY <1>5
     DEF HookCommit, RowInv, Known, TypeOK, Shops, Rows, Raise, Finish, NoRow
<1>6. CASE HookPaid(h)
  BY <1>6
     DEF HookPaid, SetStatus, RowInv, Known, TypeOK, Shops, Rows, Raise, Finish, NoRow
<1>7. CASE HookSave(h)
  <2>1. Known(row.status)'
    BY <1>7 DEF HookSave, Save, TypeOK, Rows, RowInv, Known
  <2>2. Known(shop.status)' /\ \A g \in Handlers : Known(copy[g].status)'
    BY <1>7, FinishKnown DEF HookSave
  <2> QED
    BY <2>1, <2>2 DEF RowInv
<1>8. CASE HookFailRead(h)
  BY <1>8
     DEF HookFailRead, RowInv, Known, TypeOK, Shops, Rows, Raise, Finish, NoRow
<1>9. CASE HookFailRecheck(h)
  BY <1>9
     DEF HookFailRecheck, RowInv, Known, TypeOK, Shops, Rows, Raise, Finish, NoRow
<1>10. CASE HookFailRelease(h)
  BY <1>10
     DEF HookFailRelease, RowInv, Known, TypeOK, Shops, Rows, Raise, Finish, NoRow
<1>11. CASE HookFailSave(h)
  <2>1. copy' = [copy EXCEPT ![h] = [copy[h] EXCEPT !.status = "failed"]]
    BY <1>11 DEF HookFailSave
  <2>2. row'.status = "failed"
    BY <1>11, <2>1 DEF HookFailSave, Save, TypeOK, Rows
  <2>3. \A g \in Handlers : Known(copy[g].status)'
    BY <1>11, <2>1 DEF HookFailSave, TypeOK, Rows, RowInv, Known
  <2> QED
    BY <1>11, <2>2, <2>3 DEF HookFailSave, RowInv, Known
<1>12. CASE HookFailStatus(h)
  BY <1>12
     DEF HookFailStatus, SetStatus, RowInv, Known, TypeOK, Shops, Rows, Raise, Finish, NoRow
<1> QED
  BY <1>1, <1>2, <1>3, <1>4, <1>5, <1>6, <1>7, <1>8, <1>9, <1>10, <1>11, <1>12 DEF HookStep

LEMMA CloseRow ==
    ASSUME TypeOK, RowInv, NEW h \in Closers, Close(h)
    PROVE  RowInv'
<1>1. CASE CloseStock(h)
  BY <1>1
     DEF CloseStock, RowInv, Known, TypeOK, Shops, Rows, Raise, Finish, NoRow
<1>2. CASE CloseRead(h)
  BY <1>2
     DEF CloseRead, RowInv, Known, TypeOK, Shops, Rows, Raise, Finish, NoRow
<1>3. CASE CloseRecheck(h)
  BY <1>3
     DEF CloseRecheck, RowInv, Known, TypeOK, Shops, Rows, Raise, Finish, NoRow
<1>4. CASE CloseRelease(h)
  BY <1>4
     DEF CloseRelease, RowInv, Known, TypeOK, Shops, Rows, Raise, Finish, NoRow
<1>5. CASE CloseStatus(h)
  BY <1>5
     DEF CloseStatus, SetStatus, ClosedAs, RowInv, Known, TypeOK, Shops, Rows, Raise, Finish, NoRow
<1>6. CASE CloseStatusLost(h)
  BY <1>6
     DEF CloseStatusLost, SetStatus, ClosedAs, RowInv, Known, TypeOK, Shops, Rows, Raise, Finish, NoRow
<1>7. CASE CloseLink(h)
  BY <1>7
     DEF CloseLink, RowInv, Known, TypeOK, Shops, Rows, Raise, Finish, NoRow
<1>8. CASE CloseSave(h)
  <2>1. Known(row.status)'
    BY <1>8 DEF CloseSave, Save, TypeOK, Rows, RowInv, Known
  <2>2. Known(shop.status)' /\ \A g \in Handlers : Known(copy[g].status)'
    BY <1>8, FinishKnown DEF CloseSave
  <2> QED
    BY <2>1, <2>2 DEF RowInv
<1> QED
  BY <1>1, <1>2, <1>3, <1>4, <1>5, <1>6, <1>7, <1>8 DEF Close

LEMMA SweepRow ==
    ASSUME TypeOK, RowInv, Sweep
    PROVE  RowInv'
<1>1. CASE SweepStart
  BY <1>1
     DEF SweepStart, RowInv, Known, TypeOK, Shops, Rows, SweepTo, NoRow, Raise, Finish
<1>2. CASE SweepResync
  BY <1>2
     DEF SweepResync, RowInv, Known, TypeOK, Shops, Rows, SweepTo, NoRow, Raise, Finish
<1>3. CASE SweepResave
  <2>1. Known(row.status)'
    BY <1>3 DEF SweepResave, Save, RowInv, Known
  <2>2. \A g \in Handlers : Known(copy[g].status)'
    BY <1>3 DEF SweepResave, SweepTo, NoRow, TypeOK, RowInv, Known
  <2> QED
    BY <1>3, <2>1, <2>2 DEF SweepResave, RowInv, Known
<1>4. CASE SweepRecover
  BY <1>4
     DEF SweepRecover, RowInv, Known, TypeOK, Shops, Rows, SweepTo, NoRow, Raise, Finish
<1>5. CASE SweepRecoverSave
  <2>1. Known(row.status)'
    BY <1>5 DEF SweepRecoverSave, Save, RowInv, Known
  <2>2. \A g \in Handlers : Known(copy[g].status)'
    BY <1>5 DEF SweepRecoverSave, SweepTo, NoRow, TypeOK, RowInv, Known
  <2> QED
    BY <1>5, <2>1, <2>2 DEF SweepRecoverSave, RowInv, Known
<1> QED
  BY <1>1, <1>2, <1>3, <1>4, <1>5 DEF Sweep

(* Every step keeps RowInv. *)
LEMMA NextRow == TypeOK /\ RowInv /\ [Next]_vars => RowInv'
<1> SUFFICES ASSUME TypeOK, RowInv, [Next]_vars PROVE RowInv'
  OBVIOUS
<1>1. CASE \E s \in Starts : Start(s)
  BY <1>1, StartRow
<1>2. CASE \E t \in Taps : Tap(t)
  BY <1>2, TapRow
<1>3. CASE \E h \in Hooks : HookStep(h)
  BY <1>3, HookRow
<1>4. CASE \E h \in Hooks : \E e \in Events : HookReceive(h, e)
  BY <1>4 DEF HookReceive, RowInv, Known
<1>5. CASE \E c \in Cancels : CancelLoad(c)
  BY <1>5 DEF CancelLoad, RowInv, Known, TypeOK
<1>6. CASE \E h \in Closers : Close(h)
  BY <1>6, CloseRow
<1>7. CASE Sweep
  BY <1>7, SweepRow
<1>8. CASE \E h \in Handlers : CallFails(h)
  BY <1>8 DEF CallFails, Raise, Finish, NoRow, RowInv, Known, TypeOK
<1>9. CASE Pay \/ LinkExpire \/ (\E e \in Events : Emit(e)) \/ Tick \/ UNCHANGED vars
  BY <1>9 DEF Pay, LinkExpire, Emit, Tick, vars, RowInv, Known
<1>10. CASE Crash
  BY <1>10 DEF Crash, NoRow, RowInv, Known
<1> QED
  BY <1>1, <1>2, <1>3, <1>4, <1>5, <1>6, <1>7, <1>8, <1>9, <1>10 DEF Next

(* Whatever copy a handler saves, however late, the row never claims a     *)
(* status the shop did not take, failed apart.                             *)
THEOREM RowNeverAhead == Spec => []RowFollowsShop
<1>1. Init => RowInv
  BY DEF Init, RowInv, Known, NoRow
<1>2. RowInv => RowFollowsShop
  BY DEF RowInv, Known, RowFollowsShop
<1> QED
  BY <1>1, <1>2, NextRow, TypeCorrect, PTL DEF Spec

-----------------------------------------------------------------------------
(* No hold without a tap, no link without a hold.                          *)
(*                                                                         *)
(* A tap past door 3 relies on the stock it found held, one past           *)
(* Ledger.reserve on the RESERVE, and a handler about to write a CAPTURE   *)
(* or a RELEASE on the RESERVE it saw: HoldInv says they may, whatever     *)
(* ran since, because neither is ever taken back.                          *)

Stocked  == shop.hold \in {"held", "released"}
Reserved == "RESERVE" \in ledger
SpentOne == \E s \in Starts : tokens[s].state = "spent"

HoldInv ==
    /\ shop.hold # "none" => SpentOne
    /\ ledger # {} => Reserved
    /\ Reserved => Stocked
    /\ link.state # "none" => Reserved
    /\ \A h \in Handlers :
          /\ at[h] \in {"reserved", "sealing", "confirmed", "holding", "held", "linked"} => Stocked
          /\ at[h] \in {"held", "linked", "capturing", "failRelease", "closeRelease"} => Reserved

(* HoldInv step by step. *)

LEMMA StartHoldInv ==
    ASSUME TypeOK, TokenInv, HoldInv, NEW s \in Starts, Start(s)
    PROVE  HoldInv'
<1>1. CASE StartCreate(s)
  BY <1>1
     DEF StartCreate, HoldInv, Stocked, Reserved, SpentOne, TypeOK, Goto, Raise, Finish, Rest, Shops
<1>2. CASE StartIssue(s)
  <2>1. tokens[s].state = "none"
    BY <1>2 DEF StartIssue, TokenInv
  <2>2. SpentOne => SpentOne'
    BY <1>2, <2>1 DEF StartIssue, SpentOne, TypeOK
  <2> QED
    BY <1>2, <2>2 DEF StartIssue, HoldInv, Stocked, Reserved, TypeOK, Goto
<1>3. CASE StartSave(s)
  BY <1>3
     DEF StartSave, HoldInv, Stocked, Reserved, SpentOne, TypeOK, Goto, Raise, Finish, Rest
<1> QED
  BY <1>1, <1>2, <1>3 DEF Start

LEMMA TapHoldInv ==
    ASSUME TypeOK, TokenInv, HoldInv, NEW t \in Taps, Tap(t)
    PROVE  HoldInv'
<1>1. CASE TapLoad(t)
  BY <1>1
     DEF TapLoad, HoldInv, Stocked, Reserved, SpentOne, TypeOK, Goto, Raise, Finish, Rest
<1>2. CASE TapVet(t)
  BY <1>2
     DEF TapVet, HoldInv, Stocked, Reserved, SpentOne, TypeOK, Goto, Raise, Finish, Rest
<1>3. CASE TapSpend(t)
  BY <1>3
     DEF TapSpend, HoldInv, Stocked, Reserved, SpentOne, TypeOK, Goto, Raise, Finish, Rest
<1>4. CASE TapRefuse(t)
  BY <1>4
     DEF TapRefuse, HoldInv, Stocked, Reserved, SpentOne, TypeOK, Goto, Raise, Finish, Rest
<1>5. CASE TapReserve(t)
  <2>1. SpentOne'
    BY <1>5 DEF TapReserve, TokenInv, SpentOne, TapSteps, PastSpend
  <2>2. Stocked => Stocked'
    BY <1>5 DEF TapReserve, Stocked, TypeOK, Shops
  <2>3. at'[t] = "reserved" => Stocked'
    BY <1>5, MoneyPathAssumption
       DEF TapReserve, Stocked, TypeOK, Shops, Goto, Raise, Finish, Rest
  <2>4. at'[t] \notin {"held", "linked", "capturing", "failRelease", "closeRelease"}
    BY <1>5 DEF TapReserve, TypeOK, Goto, Raise, Finish, Rest
  <2>5. at'[t] \notin {"sealing", "confirmed", "holding"}
    BY <1>5 DEF TapReserve, TypeOK, Goto, Raise, Finish, Rest
  <2>6. \A h \in Handlers \ {t} : at'[h] = at[h]
    BY <1>5 DEF TapReserve, TypeOK, Goto, Raise, Finish
  <2>7. UNCHANGED <<ledger, link>>
    BY <1>5 DEF TapReserve
  <2> QED
    BY <2>1, <2>2, <2>3, <2>4, <2>5, <2>6, <2>7 DEF HoldInv, Reserved
<1>6. CASE TapConfirm(t)
  BY <1>6
     DEF TapConfirm, SetStatus, HoldInv, Stocked, Reserved, SpentOne, TypeOK, Goto, Raise, Finish, Rest, Shops
<1>7. CASE TapSaveCod(t)
  BY <1>7
     DEF TapSaveCod, HoldInv, Stocked, Reserved, SpentOne, TypeOK, Goto, Raise, Finish, Rest
<1>8. CASE TapHold(t)
  BY <1>8
     DEF TapHold, HoldInv, Stocked, Reserved, SpentOne, TypeOK, Goto, Raise, Finish, Rest, OpenHold
<1>9. CASE TapReserveMoney(t)
  BY <1>9
     DEF TapReserveMoney, HoldInv, Stocked, Reserved, SpentOne, TypeOK, Goto, Raise, Finish, Rest, Append
<1>10. CASE TapLink(t)
  BY <1>10
     DEF TapLink, HoldInv, Stocked, Reserved, SpentOne, TypeOK, Goto, Raise, Finish, Rest, Links
<1>11. CASE TapSave(t)
  BY <1>11
     DEF TapSave, HoldInv, Stocked, Reserved, SpentOne, TypeOK, Goto, Raise, Finish, Rest, Links
<1> QED
  BY <1>1, <1>2, <1>3, <1>4, <1>5, <1>6, <1>7, <1>8, <1>9, <1>10, <1>11 DEF Tap

LEMMA HookHoldInv ==
    ASSUME TypeOK, TokenInv, HoldInv, NEW h \in Hooks, HookStep(h)
    PROVE  HoldInv'
<1>1. CASE HookLoad(h)
  BY <1>1
     DEF HookLoad, HoldInv, Stocked, Reserved, SpentOne, TypeOK, Goto, Raise, Finish, Rest
<1>2. CASE HookCheck(h)
  BY <1>2
     DEF HookCheck, HoldInv, Stocked, Reserved, SpentOne, TypeOK, Goto, Raise, Finish, Rest
<1>3. CASE HookSettle(h)
  BY <1>3
     DEF HookSettle, HoldInv, Stocked, Reserved, SpentOne, TypeOK, Goto, Raise, Finish, Rest, OpenHold
<1>4. CASE HookCapture(h)
  BY <1>4
     DEF HookCapture, HoldInv, Stocked, Reserved, SpentOne, TypeOK, Goto, Raise, Finish, Rest, Append
<1>5. CASE HookCommit(h)
  BY <1>5
     DEF HookCommit, HoldInv, Stocked, Reserved, SpentOne, TypeOK, Goto, Raise, Finish, Rest, Shops
<1>6. CASE HookPaid(h)
  BY <1>6
     DEF HookPaid, SetStatus, HoldInv, Stocked, Reserved, SpentOne, TypeOK, Goto, Raise, Finish, Rest, Shops
<1>7. CASE HookSave(h)
  BY <1>7
     DEF HookSave, HoldInv, Stocked, Reserved, SpentOne, TypeOK, Goto, Raise, Finish, Rest
<1>8. CASE HookFailRead(h)
  BY <1>8
     DEF HookFailRead, HoldInv, Stocked, Reserved, SpentOne, TypeOK, Goto, Raise, Finish, Rest, OpenHold
<1>9. CASE HookFailRecheck(h)
  BY <1>9
     DEF HookFailRecheck, HoldInv, Stocked, Reserved, SpentOne, TypeOK, Goto, Raise, Finish, Rest, OpenHold
<1>10. CASE HookFailRelease(h)
  BY <1>10
     DEF HookFailRelease, HoldInv, Stocked, Reserved, SpentOne, TypeOK, Goto, Raise, Finish, Rest, Append
<1>11. CASE HookFailSave(h)
  BY <1>11
     DEF HookFailSave, HoldInv, Stocked, Reserved, SpentOne, TypeOK, Goto, Raise, Finish, Rest
<1>12. CASE HookFailStatus(h)
  BY <1>12
     DEF HookFailStatus, SetStatus, HoldInv, Stocked, Reserved, SpentOne, TypeOK, Goto, Raise, Finish, Rest, Shops
<1> QED
  BY <1>1, <1>2, <1>3, <1>4, <1>5, <1>6, <1>7, <1>8, <1>9, <1>10, <1>11, <1>12 DEF HookStep

LEMMA CloseHoldInv ==
    ASSUME TypeOK, TokenInv, HoldInv, NEW h \in Closers, Close(h)
    PROVE  HoldInv'
<1>1. CASE CloseStock(h)
  BY <1>1
     DEF CloseStock, HoldInv, Stocked, Reserved, SpentOne, TypeOK, Goto, Raise, Finish, Rest, Shops
<1>2. CASE CloseRead(h)
  BY <1>2
     DEF CloseRead, HoldInv, Stocked, Reserved, SpentOne, TypeOK, Goto, Raise, Finish, Rest, OpenHold
<1>3. CASE CloseRecheck(h)
  BY <1>3
     DEF CloseRecheck, HoldInv, Stocked, Reserved, SpentOne, TypeOK, Goto, Raise, Finish, Rest, OpenHold
<1>4. CASE CloseRelease(h)
  BY <1>4
     DEF CloseRelease, HoldInv, Stocked, Reserved, SpentOne, TypeOK, Goto, Raise, Finish, Rest, Append
<1>5. CASE CloseStatus(h)
  BY <1>5
     DEF CloseStatus, SetStatus, ClosedAs, HoldInv, Stocked, Reserved, SpentOne, TypeOK, Goto, Raise, Finish, Rest, Shops
<1>6. CASE CloseStatusLost(h)
  BY <1>6
     DEF CloseStatusLost, SetStatus, ClosedAs, HoldInv, Stocked, Reserved, SpentOne, TypeOK, Goto, Raise, Finish, Rest, Shops
<1>7. CASE CloseLink(h)
  BY <1>7
     DEF CloseLink, HoldInv, Stocked, Reserved, SpentOne, TypeOK, Goto, Raise, Finish, Rest, Links
<1>8. CASE CloseSave(h)
  BY <1>8
     DEF CloseSave, HoldInv, Stocked, Reserved, SpentOne, TypeOK, Goto, Raise, Finish, Rest
<1> QED
  BY <1>1, <1>2, <1>3, <1>4, <1>5, <1>6, <1>7, <1>8 DEF Close

LEMMA SweepHoldInv ==
    ASSUME TypeOK, TokenInv, HoldInv, Sweep
    PROVE  HoldInv'
<1>1. CASE SweepStart
  BY <1>1
     DEF SweepStart, HoldInv, Stocked, Reserved, SpentOne, TypeOK, Goto, Raise, Finish, Rest, SweepTo, SweepStep
<1>2. CASE SweepResync
  BY <1>2
     DEF SweepResync, HoldInv, Stocked, Reserved, SpentOne, TypeOK, Goto, Raise, Finish, Rest, SweepTo, SweepStep
<1>3. CASE SweepResave
  BY <1>3
     DEF SweepResave, HoldInv, Stocked, Reserved, SpentOne, TypeOK, Goto, Raise, Finish, Rest, SweepTo, SweepStep
<1>4. CASE SweepRecover
  BY <1>4
     DEF SweepRecover, HoldInv, Stocked, Reserved, SpentOne, TypeOK, Goto, Raise, Finish, Rest, SweepTo, SweepStep
<1>5. CASE SweepRecoverSave
  BY <1>5
     DEF SweepRecoverSave, HoldInv, Stocked, Reserved, SpentOne, TypeOK, Goto, Raise, Finish, Rest, SweepTo, SweepStep
<1> QED
  BY <1>1, <1>2, <1>3, <1>4, <1>5 DEF Sweep

(* Every step keeps HoldInv. *)
LEMMA NextHold == TypeOK /\ TokenInv /\ HoldInv /\ [Next]_vars => HoldInv'
<1> SUFFICES ASSUME TypeOK, TokenInv, HoldInv, [Next]_vars PROVE HoldInv'
  OBVIOUS
<1>1. CASE \E s \in Starts : Start(s)
  BY <1>1, StartHoldInv
<1>2. CASE \E t \in Taps : Tap(t)
  BY <1>2, TapHoldInv
<1>3. CASE \E h \in Hooks : HookStep(h)
  BY <1>3, HookHoldInv
<1>4. CASE \E h \in Hooks : \E e \in Events : HookReceive(h, e)
  BY <1>4 DEF HookReceive, HoldInv, Stocked, Reserved, SpentOne, TypeOK
<1>5. CASE \E c \in Cancels : CancelLoad(c)
  BY <1>5 DEF CancelLoad, Goto, HoldInv, Stocked, Reserved, SpentOne, TypeOK
<1>6. CASE \E h \in Closers : Close(h)
  BY <1>6, CloseHoldInv
<1>7. CASE Sweep
  BY <1>7, SweepHoldInv
<1>8. CASE \E h \in Handlers : CallFails(h)
  BY <1>8 DEF CallFails, Raise, Finish, Goto, Rest, HoldInv, Stocked, Reserved, SpentOne, TypeOK
<1>9. CASE Pay \/ LinkExpire
  BY <1>9 DEF Pay, LinkExpire, Links, HoldInv, Stocked, Reserved, SpentOne, TypeOK
<1>10. CASE (\E e \in Events : Emit(e)) \/ Tick \/ UNCHANGED vars
  BY <1>10 DEF Emit, Tick, vars, HoldInv, Stocked, Reserved, SpentOne
<1>11. CASE Crash
  BY <1>11 DEF Crash, Rest, InFlight, HoldInv, Stocked, Reserved, SpentOne, TypeOK
<1> QED
  BY <1>1, <1>2, <1>3, <1>4, <1>5, <1>6, <1>7, <1>8, <1>9, <1>10, <1>11 DEF Next

LEMMA HoldCorrect == Spec => []HoldInv
<1>1. Init => HoldInv
  BY DEF Init, HoldInv, Stocked, Reserved
<1> QED
  BY <1>1, NextHold, TokenCorrect, TypeCorrect, PTL DEF Spec

(* Neither stock nor money is ever held for an order no human tapped.      *)
THEOREM NoHoldUntapped == Spec => []HoldImpliesTap
<1>1. HoldInv => HoldImpliesTap
  BY DEF HoldInv, HoldImpliesTap, Stocked, Reserved, SpentOne
<1> QED
  BY <1>1, HoldCorrect, PTL

(* A pay link exists only once the ledger holds the money it asks for.     *)
THEOREM NoLinkUnheld == Spec => []NoLinkWithoutHold
<1>1. HoldInv => NoLinkWithoutHold
  BY DEF HoldInv, NoLinkWithoutHold, Reserved
<1> QED
  BY <1>1, HoldCorrect, PTL

-----------------------------------------------------------------------------
(* A shown link stays findable, and a terminal row stays terminal.         *)
(*                                                                         *)
(* Neither survives a second start, which replaces the row, nor a cancel,  *)
(* which saves the row it loaded; Undisturbed leaves those two out, for    *)
(* any number of taps, webhooks, failures and restarts.  What is left is   *)
(* kept apart by the clock alone: a tap past its token runs before the     *)
(* token's expiry, the sweeper touches a pending row only at its deadline, *)
(* and five minutes are less than a day.  CourseInv says who may be        *)
(* running over which row, and what a copy may still claim.                *)

Undisturbed ==
    /\ \A s, u \in Starts : s = u
    /\ Cancels = {}
    /\ TapTTL < PendingTTL

QuoteEnds == row.createdAt + PendingTTL

Sweeping == at[Sweeper] \in CloseSteps \cup (SweepSteps \ {"raised"})

(* The steps of a handler that has loaded the row. *)
WithCopy == TapSteps \cup (HookSteps \ {"received"}) \cup CloseSteps
               \cup (SweepSteps \ {"raised"})

(* The copy still says the order is alive, as the sweeper is to save it.   *)
Reviving(c) == at[Sweeper] \in {"resync", "recoverSave"} /\ c.status \notin Terminal

(* Before the start saves the row, only the start runs. *)
BeforeRow ==
    /\ row.status = "absent" =>
          /\ row.token = NoToken /\ ~row.link /\ ~link.shown
          /\ shop.status \in {"absent", "pending"}
          /\ \A h \in Handlers \ Starts : at[h] \in {"idle", "done"}
    /\ \A s \in Starts :
          /\ at[s] \in {"idle", "created", "issued"} => row.status = "absent"
          /\ at[s] \in {"created", "issued"} => shop.status # "absent"
          /\ at[s] = "issued" => tokens[s].expires <= now + TapTTL
    /\ \A h \in Handlers \ {Sweeper} : at[h] # "raised"

(* After it, every copy is of this one quote, and a tap past the vetting   *)
(* is within the life of its token.                                        *)
AfterRow ==
    row.status # "absent" =>
        /\ shop.status # "absent"
        /\ row.createdAt \in Nat
        /\ \A s \in Starts : tokens[s].expires <= row.createdAt + TapTTL
        /\ \A h \in Handlers : at[h] \in WithCopy => copy[h].createdAt = row.createdAt
        /\ \A t \in Taps : at[t] \in PastSpend \cup {"vetted"} => now <= row.createdAt + TapTTL
        /\ \A s \in Starts : tokens[s].state = "live" /\ now < QuoteEnds => row.status = "pending"

(* A row that says pending has no link and no webhook on it, and no sweep  *)
(* before its deadline.                                                    *)
PendingRow ==
    /\ row.status = "pending" =>
          /\ ~row.link /\ ~link.shown
          /\ \A h \in Hooks : at[h] \notin HookSteps
          /\ now < QuoteEnds => ~Sweeping /\ shop.status \notin Terminal
    /\ \A t \in Taps : at[t] \in PastSpend => row.status = "pending"

(* What the shop has answered, while its order is alive. *)
LiveReplies ==
    /\ shop.status \in {"absent", "pending"} => shop.replied = {}
    /\ shop.status \notin Terminal => shop.replied \subseteq {"confirmed"}

(* What the sweeper's copy may say. *)
SweepCopy ==
    Sweeping =>
        /\ copy[Sweeper].status # "absent"
        /\ copy[Sweeper].status = "pending" \/ Reviving(copy[Sweeper])
              => row.status = "pending" /\ now >= QuoteEnds
        /\ copy[Sweeper].status \in Terminal => shop.status \in Terminal
        /\ link.shown /\ copy[Sweeper].status \notin Terminal => copy[Sweeper].link
        /\ at[Sweeper] \in {"unlinking", "saving"} => copy[Sweeper].status \in Terminal
        /\ at[Sweeper] \in {"resync", "recoverSave"} => copy[Sweeper].status # "pending"
        /\ at[Sweeper] = "due" => copy[Sweeper].status \notin Terminal

(* What the copies of the others say when they save them. *)
OtherCopies ==
    /\ \A h \in Handlers \ {Sweeper} : at[h] \notin CloseSteps \cup SweepSteps
    /\ \A h \in Hooks : at[h] = "settled" => copy[h].status = "paid"
    /\ \A t \in Taps :
          /\ at[t] \in {"sealing", "confirmed", "holding", "held", "linked"} =>
                copy[t].status = "confirmed"
          /\ at[t] = "linked" => copy[t].link

CourseInv ==
    /\ BeforeRow /\ AfterRow /\ PendingRow /\ LiveReplies /\ SweepCopy /\ OtherCopies
    /\ ShownLinkIsFindable

(* CourseInv step by step. *)
LEMMA StartCourse ==
    ASSUME TypeOK, TokenInv, RowInv, CourseInv, Undisturbed, NEW s \in Starts, Start(s)
    PROVE  CourseInv'
<1> USE MoneyPathAssumption, LifecycleAssumption
    DEF CourseInv, BeforeRow, AfterRow, PendingRow, LiveReplies, SweepCopy,
        OtherCopies, ShownLinkIsFindable, QuoteEnds, Sweeping,
        WithCopy, Reviving, PastSpend, TapSteps, HookSteps,
        CloseSteps, SweepSteps, Terminal, Goto, Raise, Finish, Rest,
        TypeOK, Rows, Shops, NoRow, Save
<1>1. CASE StartCreate(s)
  <2>a. at[s] \in {"idle", "raised"}
    BY <1>1 DEF StartCreate, Begin
  <2>1. BeforeRow'
    BY <1>1, <2>a DEF StartCreate
  <2>2. AfterRow'
    BY <1>1, <2>a DEF StartCreate
  <2>3. PendingRow'
    BY <1>1, <2>a DEF StartCreate
  <2>4. LiveReplies'
    BY <1>1, <2>a DEF StartCreate
  <2>5. SweepCopy'
    BY <1>1, <2>a DEF StartCreate
  <2>6. OtherCopies'
    BY <1>1, <2>a DEF StartCreate
  <2>7. ShownLinkIsFindable'
    BY <1>1, <2>a DEF StartCreate
  <2> QED
    BY <2>1, <2>2, <2>3, <2>4, <2>5, <2>6, <2>7
<1>2. CASE StartIssue(s)
  BY <1>2 DEF StartIssue
<1>3. CASE StartSave(s)
  <2>a. row'.status = "pending" /\ ~row'.link /\ row'.createdAt = now
    BY <1>3 DEF StartSave
  <2>b. at[s] = "issued" /\ at'[s] = "done" /\ UNCHANGED <<now, tokens, shop, link>>
    BY <1>3 DEF StartSave
  <2>c. \A g \in Handlers \ {s} : at'[g] = at[g] /\ copy'[g] = copy[g]
    BY <1>3 DEF StartSave
  <2>d. \A u \in Starts : u = s
    BY DEF Undisturbed
  <2>1. BeforeRow'
    BY <2>a, <2>b, <2>c, <2>d
  <2>2. AfterRow'
    BY <2>a, <2>b, <2>c, <2>d
  <2>3. PendingRow'
    BY <1>3, <2>a, <2>b, <2>c, <2>d DEF StartSave
  <2>4. LiveReplies'
    BY <1>3, <2>a, <2>b, <2>c, <2>d DEF StartSave
  <2>5. SweepCopy'
    BY <1>3, <2>a, <2>b, <2>c, <2>d DEF StartSave
  <2>6. OtherCopies'
    BY <1>3, <2>a, <2>b, <2>c, <2>d DEF StartSave
  <2>7. ShownLinkIsFindable'
    BY <1>3, <2>a, <2>b, <2>c, <2>d DEF StartSave
  <2> QED
    BY <2>1, <2>2, <2>3, <2>4, <2>5, <2>6, <2>7
<1> QED
  BY <1>1, <1>2, <1>3 DEF Start

LEMMA TapCourse ==
    ASSUME TypeOK, TokenInv, RowInv, CourseInv, Undisturbed, NEW t \in Taps, Tap(t)
    PROVE  CourseInv'
<1> USE MoneyPathAssumption, LifecycleAssumption
    DEF CourseInv, BeforeRow, AfterRow, PendingRow, LiveReplies, SweepCopy,
        OtherCopies, ShownLinkIsFindable, QuoteEnds, Sweeping,
        WithCopy, Reviving, PastSpend, TapSteps, HookSteps,
        CloseSteps, SweepSteps, Terminal, Goto, Raise, Finish, Rest,
        TypeOK, Rows, Shops, NoRow, Save
<1>1. CASE TapLoad(t)
  BY <1>1 DEF TapLoad
<1>2. CASE TapVet(t)
  <2>a. copy[t].token \in Starts /\ row.status # "absent"
    BY <1>2 DEF TapVet, TokenInv
  <2>b. tokens[copy[t].token].expires \in Int /\ row.createdAt \in Int /\ now \in Int
    BY <2>a DEF TokenStates, Times, NoTime
  <2>1. BeforeRow'
    BY <1>2, <2>a, <2>b DEF TapVet
  <2>2. AfterRow'
    BY <1>2, <2>a, <2>b DEF TapVet
  <2>3. PendingRow'
    BY <1>2, <2>a, <2>b DEF TapVet
  <2>4. LiveReplies'
    BY <1>2, <2>a, <2>b DEF TapVet
  <2>5. SweepCopy'
    BY <1>2, <2>a, <2>b DEF TapVet
  <2>6. OtherCopies'
    BY <1>2, <2>a, <2>b DEF TapVet
  <2>7. ShownLinkIsFindable'
    BY <1>2, <2>a, <2>b DEF TapVet
  <2> QED
    BY <2>1, <2>2, <2>3, <2>4, <2>5, <2>6, <2>7
<1>3. CASE TapSpend(t)
  <2>a. copy[t].token \in Starts /\ row.status # "absent"
    BY <1>3 DEF TapSpend, TokenInv
  <2>b. tokens[copy[t].token].expires \in Int /\ row.createdAt \in Int /\ now \in Int
    BY <2>a DEF TokenStates, Times, NoTime
  <2>c. \A s \in Starts : tokens'[s].expires = tokens[s].expires
    BY <1>3, <2>a DEF TapSpend, TokenStates
  <2>d. \A s \in Starts : tokens'[s].state = "live" => tokens[s].state = "live"
    BY <1>3, <2>a DEF TapSpend, TokenStates
  <2>e. UNCHANGED <<now, row, shop, link>>
    BY <1>3 DEF TapSpend
  <2>f. tokens[copy[t].token].state = "live" => row.status = "pending"
    BY <1>3, <2>a, <2>b DEF TapSpend, Undisturbed
  <2>g. (at'[t] = "spent" /\ tokens[copy[t].token].state = "live") \/ at'[t] = "done"
    BY <1>3 DEF TapSpend
  <2>h. \A g \in Handlers \ {t} : at'[g] = at[g]
    BY <1>3 DEF TapSpend
  <2>1. BeforeRow'
    BY <1>3, <2>a, <2>b, <2>c, <2>d, <2>e, <2>f, <2>g, <2>h DEF TapSpend
  <2>i. \A g \in Handlers : at'[g] \in WithCopy => at[g] \in WithCopy /\ copy'[g] = copy[g]
    BY <1>3 DEF TapSpend
  <2>j. \A u \in Taps : at'[u] \in PastSpend \cup {"vetted"} => at[u] \in PastSpend \cup {"vetted"}
    BY <1>3 DEF TapSpend
  <2>2. AfterRow'
    BY <2>c, <2>d, <2>e, <2>i, <2>j
  <2>3. PendingRow'
    BY <2>e, <2>f, <2>g, <2>h
  <2>4. LiveReplies'
    BY <1>3, <2>a, <2>b, <2>c, <2>d, <2>e, <2>f, <2>g, <2>h DEF TapSpend
  <2>5. SweepCopy'
    BY <1>3, <2>a, <2>b, <2>c, <2>d, <2>e, <2>f, <2>g, <2>h DEF TapSpend
  <2>6. OtherCopies'
    BY <1>3, <2>a, <2>b, <2>c, <2>d, <2>e, <2>f, <2>g, <2>h DEF TapSpend
  <2>7. ShownLinkIsFindable'
    BY <1>3, <2>a, <2>b, <2>c, <2>d, <2>e, <2>f, <2>g, <2>h DEF TapSpend
  <2> QED
    BY <2>1, <2>2, <2>3, <2>4, <2>5, <2>6, <2>7
<1>4. CASE TapRefuse(t)
  BY <1>4 DEF TapRefuse
<1>5. CASE TapReserve(t)
  BY <1>5 DEF TapReserve
<1>6. CASE TapConfirm(t)
  <2>a. row.status = "pending" /\ now < QuoteEnds /\ row.createdAt \in Nat
    BY <1>6 DEF TapConfirm, Undisturbed
  <2>b. ~Sweeping /\ shop.status \notin Terminal
    BY <2>a
  <2>1. BeforeRow'
    BY <1>6, <2>a, <2>b DEF TapConfirm, SetStatus, Statuses
  <2>2. AfterRow'
    BY <1>6, <2>a, <2>b DEF TapConfirm, SetStatus, Statuses
  <2>3. PendingRow'
    BY <1>6, <2>a, <2>b DEF TapConfirm, SetStatus, Statuses
  <2>4. LiveReplies'
    BY <1>6, <2>a, <2>b DEF TapConfirm, SetStatus, Statuses
  <2>5. SweepCopy'
    BY <1>6, <2>b DEF TapConfirm
  <2>6. OtherCopies'
    BY <1>6, <2>a, <2>b DEF TapConfirm, SetStatus, Statuses
  <2>7. ShownLinkIsFindable'
    BY <1>6, <2>a, <2>b DEF TapConfirm, SetStatus, Statuses
  <2> QED
    BY <2>1, <2>2, <2>3, <2>4, <2>5, <2>6, <2>7
<1>7. CASE TapSaveCod(t)
  <2>c. row.status = "pending" /\ ~Sweeping
    BY <1>7 DEF TapSaveCod, Undisturbed
  <2>a. \A u \in Taps : at[u] \in PastSpend => u = t
    BY <1>7 DEF TapSaveCod, TokenInv, OneTapPerToken, Undisturbed
  <2>b. \A s \in Starts : tokens[s].state = "spent"
    BY <1>7 DEF TapSaveCod, TokenInv, Undisturbed
  <2>1. BeforeRow'
    BY <1>7, <2>c, <2>a, <2>b DEF TapSaveCod
  <2>2. AfterRow'
    BY <1>7, <2>c, <2>a, <2>b DEF TapSaveCod
  <2>3. PendingRow'
    BY <1>7, <2>c, <2>a, <2>b DEF TapSaveCod
  <2>4. LiveReplies'
    BY <1>7, <2>c, <2>a, <2>b DEF TapSaveCod
  <2>5. SweepCopy'
    BY <1>7, <2>c DEF TapSaveCod
  <2>6. OtherCopies'
    BY <1>7, <2>c, <2>a, <2>b DEF TapSaveCod
  <2>7. ShownLinkIsFindable'
    BY <1>7, <2>c, <2>a, <2>b DEF TapSaveCod
  <2> QED
    BY <2>1, <2>2, <2>3, <2>4, <2>5, <2>6, <2>7
<1>8. CASE TapHold(t)
  BY <1>8 DEF TapHold
<1>9. CASE TapReserveMoney(t)
  BY <1>9 DEF TapReserveMoney
<1>10. CASE TapLink(t)
  BY <1>10 DEF TapLink
<1>11. CASE TapSave(t)
  <2>c. row.status = "pending" /\ ~Sweeping
    BY <1>11 DEF TapSave, Undisturbed
  <2>a. \A u \in Taps : at[u] \in PastSpend => u = t
    BY <1>11 DEF TapSave, TokenInv, OneTapPerToken, Undisturbed
  <2>b. \A s \in Starts : tokens[s].state = "spent"
    BY <1>11 DEF TapSave, TokenInv, Undisturbed
  <2>1. BeforeRow'
    BY <1>11, <2>c, <2>a, <2>b DEF TapSave
  <2>2. AfterRow'
    BY <1>11, <2>c, <2>a, <2>b DEF TapSave
  <2>3. PendingRow'
    BY <1>11, <2>c, <2>a, <2>b DEF TapSave
  <2>4. LiveReplies'
    BY <1>11, <2>c, <2>a, <2>b DEF TapSave
  <2>5. SweepCopy'
    BY <1>11, <2>c DEF TapSave
  <2>6. OtherCopies'
    BY <1>11, <2>c, <2>a, <2>b DEF TapSave
  <2>7. ShownLinkIsFindable'
    BY <1>11, <2>c, <2>a, <2>b DEF TapSave
  <2> QED
    BY <2>1, <2>2, <2>3, <2>4, <2>5, <2>6, <2>7
<1> QED
  BY <1>1, <1>2, <1>3, <1>4, <1>5, <1>6, <1>7, <1>8, <1>9, <1>10, <1>11 DEF Tap

LEMMA HookCourse ==
    ASSUME TypeOK, TokenInv, RowInv, CourseInv, Undisturbed, NEW h \in Hooks, HookStep(h)
    PROVE  CourseInv'
<1> USE MoneyPathAssumption, LifecycleAssumption
    DEF CourseInv, BeforeRow, AfterRow, PendingRow, LiveReplies, SweepCopy,
        OtherCopies, ShownLinkIsFindable, QuoteEnds, Sweeping,
        WithCopy, Reviving, PastSpend, TapSteps, HookSteps,
        CloseSteps, SweepSteps, Terminal, Goto, Raise, Finish, Rest,
        TypeOK, Rows, Shops, NoRow, Save
<1>1. CASE HookLoad(h)
  BY <1>1 DEF HookLoad
<1>2. CASE HookCheck(h)
  BY <1>2 DEF HookCheck
<1>3. CASE HookSettle(h)
  BY <1>3 DEF HookSettle
<1>4. CASE HookCapture(h)
  BY <1>4 DEF HookCapture
<1>5. CASE HookCommit(h)
  BY <1>5 DEF HookCommit
<1>6. CASE HookPaid(h)
  BY <1>6 DEF HookPaid, SetStatus, Statuses
<1>7. CASE HookSave(h)
  BY <1>7 DEF HookSave
<1>8. CASE HookFailRead(h)
  BY <1>8 DEF HookFailRead
<1>9. CASE HookFailRecheck(h)
  BY <1>9 DEF HookFailRecheck
<1>10. CASE HookFailRelease(h)
  BY <1>10 DEF HookFailRelease
<1>11. CASE HookFailSave(h)
  BY <1>11 DEF HookFailSave
<1>12. CASE HookFailStatus(h)
  BY <1>12 DEF HookFailStatus, SetStatus, Statuses
<1> QED
  BY <1>1, <1>2, <1>3, <1>4, <1>5, <1>6, <1>7, <1>8, <1>9, <1>10, <1>11, <1>12 DEF
     HookStep

LEMMA CloseCourse ==
    ASSUME TypeOK, TokenInv, RowInv, CourseInv, Undisturbed, NEW h \in Closers, Close(h)
    PROVE  CourseInv'
<1> USE MoneyPathAssumption, LifecycleAssumption
    DEF CourseInv, BeforeRow, AfterRow, PendingRow, LiveReplies, SweepCopy,
        OtherCopies, ShownLinkIsFindable, QuoteEnds, Sweeping,
        WithCopy, Reviving, PastSpend, TapSteps, HookSteps,
        CloseSteps, SweepSteps, Terminal, Goto, Raise, Finish, Rest,
        TypeOK, Rows, Shops, NoRow, Save
<1>1. CASE CloseStock(h)
  BY <1>1 DEF CloseStock
<1>2. CASE CloseRead(h)
  BY <1>2 DEF CloseRead
<1>3. CASE CloseRecheck(h)
  BY <1>3 DEF CloseRecheck
<1>4. CASE CloseRelease(h)
  BY <1>4 DEF CloseRelease
<1>5. CASE CloseStatus(h)
  BY <1>5 DEF CloseStatus, SetStatus, Statuses, ClosedAs
<1>6. CASE CloseStatusLost(h)
  BY <1>6 DEF CloseStatusLost, SetStatus, Statuses, ClosedAs
<1>7. CASE CloseLink(h)
  BY <1>7 DEF CloseLink
<1>8. CASE CloseSave(h)
  <2>a. h = Sweeper /\ at[h] = "saving"
    BY <1>8 DEF CloseSave, Undisturbed
  <2>b. row'.status = copy[h].status /\ copy[h].status \in Terminal
    BY <1>8, <2>a DEF CloseSave
  <2>c. row.status # "absent" /\ (row.status = "pending" => now >= QuoteEnds)
    BY <2>a
  <2>d. \A t \in Taps : at[t] \notin PastSpend
    BY <2>a, <2>c DEF Undisturbed
  <2>e. \A g \in Handlers \ {h} : at'[g] = at[g]
    BY <1>8 DEF CloseSave
  <2>1. BeforeRow'
    BY <1>8, <2>a, <2>b, <2>c, <2>d, <2>e DEF CloseSave
  <2>2. AfterRow'
    BY <1>8, <2>a, <2>b, <2>c, <2>d, <2>e DEF CloseSave
  <2>3. PendingRow'
    BY <2>b, <2>d, <2>e
  <2>4. LiveReplies'
    BY <1>8, <2>a, <2>b, <2>c, <2>d, <2>e DEF CloseSave
  <2>5. SweepCopy'
    BY <1>8, <2>a, <2>b, <2>c, <2>d, <2>e DEF CloseSave
  <2>6. OtherCopies'
    BY <1>8, <2>a, <2>b, <2>c, <2>d, <2>e DEF CloseSave
  <2>7. ShownLinkIsFindable'
    BY <1>8, <2>a, <2>b, <2>c, <2>d, <2>e DEF CloseSave
  <2> QED
    BY <2>1, <2>2, <2>3, <2>4, <2>5, <2>6, <2>7
<1> QED
  BY <1>1, <1>2, <1>3, <1>4, <1>5, <1>6, <1>7, <1>8 DEF Close

LEMMA SweepCourse ==
    ASSUME TypeOK, TokenInv, RowInv, CourseInv, Undisturbed, Sweep
    PROVE  CourseInv'
<1> USE MoneyPathAssumption, LifecycleAssumption
    DEF CourseInv, BeforeRow, AfterRow, PendingRow, LiveReplies, SweepCopy,
        OtherCopies, ShownLinkIsFindable, QuoteEnds, Sweeping,
        WithCopy, Reviving, PastSpend, TapSteps, HookSteps,
        CloseSteps, SweepSteps, Terminal, Goto, Raise, Finish, Rest,
        TypeOK, Rows, Shops, NoRow, Save, SweepTo, SweepStep, IsDue,
        Unanswerable, DeadlineOf, Sweepable, Known, RowInv, Statuses,
        Begin
<1>1. CASE SweepStart
  BY <1>1 DEF SweepStart
<1>2. CASE SweepResync
  BY <1>2 DEF SweepResync
<1>3. CASE SweepResave
  <2>a. \A g \in Handlers \ {Sweeper} : at'[g] = at[g] /\ copy'[g] = copy[g]
    BY <1>3 DEF SweepResave, SweepTo
  <2>b. row' = copy[Sweeper] /\ UNCHANGED <<now, shop, link, tokens>>
    BY <1>3 DEF SweepResave
  <2>c. copy[Sweeper].status # "pending" /\ row.status # "absent"
    BY <1>3 DEF SweepResave
  <2>d. \A t \in Taps : at[t] \notin PastSpend
    BY <1>3, <2>c DEF SweepResave, Undisturbed
  <2>e. at'[Sweeper] \in {"raised", "idle", "closing", "closed"}
    BY <1>3 DEF SweepResave
  <2>f. at'[Sweeper] \in {"closing", "closed"} => copy'[Sweeper] = copy[Sweeper]
    BY <1>3, <2>e DEF SweepResave
  <2>g. at[Sweeper] = "resync"
    BY <1>3 DEF SweepResave
  <2>1. BeforeRow'
    BY <2>a, <2>b, <2>c, <2>g
  <2>2. AfterRow'
    BY <2>a, <2>b, <2>c, <2>d, <2>e, <2>f, <2>g
  <2>3. PendingRow'
    BY <2>a, <2>b, <2>c, <2>d
  <2>4. LiveReplies'
    BY <1>3, <2>a, <2>b, <2>c, <2>d, <2>e, <2>f, <2>g DEF SweepResave
  <2>5. SweepCopy'
    BY <2>b, <2>c, <2>e, <2>f, <2>g
  <2>6. OtherCopies'
    BY <2>a
  <2>7. ShownLinkIsFindable'
    BY <1>3, <2>a, <2>b, <2>c, <2>d, <2>e, <2>f, <2>g DEF SweepResave
  <2> QED
    BY <2>1, <2>2, <2>3, <2>4, <2>5, <2>6, <2>7
<1>4. CASE SweepRecover
  BY <1>4 DEF SweepRecover
<1>5. CASE SweepRecoverSave
  <2>a. \A g \in Handlers \ {Sweeper} : at'[g] = at[g] /\ copy'[g] = copy[g]
    BY <1>5 DEF SweepRecoverSave, SweepTo
  <2>b. row' = copy[Sweeper] /\ UNCHANGED <<now, shop, link, tokens>>
    BY <1>5 DEF SweepRecoverSave
  <2>c. copy[Sweeper].status # "pending" /\ row.status # "absent"
    BY <1>5 DEF SweepRecoverSave
  <2>d. \A t \in Taps : at[t] \notin PastSpend
    BY <1>5, <2>c DEF SweepRecoverSave, Undisturbed
  <2>1. BeforeRow'
    BY <1>5, <2>a, <2>b, <2>c, <2>d DEF SweepRecoverSave
  <2>2. AfterRow'
    BY <1>5, <2>a, <2>b, <2>c, <2>d DEF SweepRecoverSave
  <2>3. PendingRow'
    BY <2>a, <2>b, <2>c, <2>d
  <2>4. LiveReplies'
    BY <1>5, <2>a, <2>b, <2>c, <2>d DEF SweepRecoverSave
  <2>5. SweepCopy'
    BY <1>5, <2>a, <2>b, <2>c, <2>d DEF SweepRecoverSave
  <2>6. OtherCopies'
    BY <1>5, <2>a, <2>b, <2>c, <2>d DEF SweepRecoverSave
  <2>7. ShownLinkIsFindable'
    BY <1>5, <2>a, <2>b, <2>c, <2>d DEF SweepRecoverSave
  <2> QED
    BY <2>1, <2>2, <2>3, <2>4, <2>5, <2>6, <2>7
<1> QED
  BY <1>1, <1>2, <1>3, <1>4, <1>5 DEF Sweep

(* What runs in no handler's own code: deliveries, failures, the Provider   *)
(* and the Consumer, restarts and the clock.                                *)
Outside ==
    \/ \E h \in Hooks : \E e \in Events : HookReceive(h, e)
    \/ \E h \in Handlers : CallFails(h)
    \/ Pay \/ LinkExpire
    \/ \E e \in Events : Emit(e)
    \/ Crash \/ Tick
    \/ UNCHANGED vars

LEMMA OutsideCourse ==
    ASSUME TypeOK, TokenInv, RowInv, CourseInv, Undisturbed, Outside
    PROVE  CourseInv'
<1> USE MoneyPathAssumption, LifecycleAssumption
    DEF CourseInv, BeforeRow, AfterRow, PendingRow, LiveReplies, SweepCopy,
        OtherCopies, ShownLinkIsFindable, QuoteEnds, Sweeping,
        WithCopy, Reviving, PastSpend, TapSteps, HookSteps,
        CloseSteps, SweepSteps, Terminal, Goto, Raise, Finish, Rest,
        TypeOK, Rows, Shops, NoRow, Save
<1>1. CASE \E h \in Hooks : \E e \in Events : HookReceive(h, e)
  BY <1>1 DEF HookReceive
<1>2. CASE \E h \in Handlers : CallFails(h)
  BY <1>2 DEF CallFails, InFlight
<1>3. CASE Pay \/ LinkExpire
  BY <1>3 DEF Pay, LinkExpire, Links
<1>4. CASE Crash
  BY <1>4 DEF Crash, InFlight
<1>5. CASE Tick
  BY <1>5 DEF Tick, InFlight
<1>6. CASE (\E e \in Events : Emit(e)) \/ UNCHANGED vars
  BY <1>6 DEF Emit, vars
<1> QED
  BY <1>1, <1>2, <1>3, <1>4, <1>5, <1>6 DEF Outside

(* Every step keeps CourseInv. *)
LEMMA NextCourse ==
    ASSUME TypeOK, TokenInv, RowInv, CourseInv, Undisturbed, [Next]_vars
    PROVE  CourseInv'
<1>1. CASE \E s \in Starts : Start(s)
  BY <1>1, StartCourse
<1>2. CASE \E t \in Taps : Tap(t)
  BY <1>2, TapCourse
<1>3. CASE \E h \in Hooks : HookStep(h)
  BY <1>3, HookCourse
<1>4. CASE \E h \in Closers : Close(h)
  BY <1>4, CloseCourse
<1>5. CASE Sweep
  BY <1>5, SweepCourse
<1>6. CASE \E c \in Cancels : CancelLoad(c)
  BY <1>6 DEF Undisturbed
<1>7. CASE Outside
  BY <1>7, OutsideCourse
<1> QED
  BY <1>1, <1>2, <1>3, <1>4, <1>5, <1>6, <1>7 DEF Next, Outside

(* The invariant holds from the start. *)
LEMMA CourseCorrect == ASSUME Undisturbed PROVE Spec => [](CourseInv /\ RowInv)
<1>1. Init => CourseInv
  BY MoneyPathAssumption
     DEF Init, NoRow, CourseInv, BeforeRow, AfterRow, PendingRow, LiveReplies,
         SweepCopy, OtherCopies, ShownLinkIsFindable, QuoteEnds,
         Sweeping, WithCopy, Reviving, PastSpend, TapSteps,
         HookSteps, CloseSteps, SweepSteps, Terminal
<1>2. Init => RowInv
  BY DEF Init, RowInv, Known, NoRow
<1>3. TypeOK /\ TokenInv /\ RowInv /\ CourseInv /\ [Next]_vars => CourseInv'
  BY NextCourse
<1> QED
  BY <1>1, <1>2, <1>3, NextRow, TokenCorrect, TypeCorrect, PTL DEF Spec

(* A link its payer has seen leads the callback back to the row for as     *)
(* long as the order is live, whichever stale copies are saved, as long as *)
(* nobody starts or cancels the checkout meanwhile (checkout.py:536).      *)
THEOREM ShownLinkStays == ASSUME Undisturbed PROVE Spec => []ShownLinkIsFindable
<1>1. CourseInv => ShownLinkIsFindable
  BY DEF CourseInv
<1> QED
  BY <1>1, CourseCorrect, PTL

(* A step that saves the row saves no live status over a terminal one.     *)
LEMMA TerminalStep ==
    ASSUME TypeOK, TokenInv, RowInv, CourseInv, Undisturbed, [Next]_vars,
           row.status \in Terminal
    PROVE  row'.status \in Terminal
<1> USE DEF CourseInv, Terminal, Save
<1>1. CASE \E s \in Starts : Start(s)
  BY <1>1 DEF Start, StartCreate, StartIssue, StartSave, BeforeRow
<1>2. CASE \E t \in Taps : Tap(t)
  BY <1>2 DEF Tap, TapLoad, TapVet, TapSpend, TapRefuse, TapReserve, TapConfirm, TapSaveCod,
              TapHold, TapReserveMoney, TapLink, TapSave, PendingRow, PastSpend
<1>3. CASE \E h \in Hooks : HookStep(h)
  BY <1>3 DEF HookStep, HookLoad, HookCheck, HookSettle, HookCapture, HookCommit, HookPaid,
              HookSave, HookFailRead, HookFailRecheck, HookFailRelease, HookFailSave,
              HookFailStatus, OtherCopies, TypeOK, Rows
<1>4. CASE \E h \in Closers : Close(h)
  BY <1>4 DEF Close, CloseStock, CloseRead, CloseRecheck, CloseRelease, CloseStatus,
              CloseStatusLost, CloseLink, CloseSave, SweepCopy, Sweeping, CloseSteps,
              TypeOK, Rows, Undisturbed
<1>5. CASE Sweep
  BY <1>5 DEF Sweep, SweepStart, SweepResync, SweepResave, SweepRecover, SweepRecoverSave,
              SweepCopy, Sweeping, SweepSteps, Reviving
<1>6. CASE \E c \in Cancels : CancelLoad(c)
  BY <1>6 DEF Undisturbed
<1>7. CASE Outside
  BY <1>7 DEF Outside, HookReceive, CallFails, Pay, LinkExpire, Emit, Crash, Tick, vars
<1> QED
  BY <1>1, <1>2, <1>3, <1>4, <1>5, <1>6, <1>7 DEF Next, Outside

(* A row that reached a terminal status never comes back to life, whatever *)
(* copy a webhook, a tap or the sweeper saves over it, as long as nobody   *)
(* starts or cancels it again (provider/routes.py:135, sweeper.py:210).    *)
THEOREM TerminalStays == ASSUME Undisturbed PROVE Spec => TerminalRowStays
<1>1. TypeOK /\ TokenInv /\ RowInv /\ CourseInv /\ [Next]_vars
        => [row.status \in Terminal => row'.status \in Terminal]_vars
  BY TerminalStep
<1> QED
  BY <1>1, CourseCorrect, TokenCorrect, TypeCorrect, PTL DEF Spec, TerminalRowStays

-----------------------------------------------------------------------------
(* Run one handler at a time, the money path implements OrderLifecycle.    *)
(*                                                                         *)
(* Serially is the execution the code was written for: requests do not     *)
(* overlap, calls do not fail, nothing restarts, the checkout is started   *)
(* once and not cancelled.  SerialInv says what the row, the shop and the  *)
(* ledger agree on at every step of the one handler that may be running;   *)
(* every step then maps to a step of OrderLifecycle or to none.  Outside   *)
(* this scenario the mapping fails (README, section 6).                    *)

Serially ==
    /\ MaxInFlight = 1
    /\ Faults = FALSE
    /\ MaxCrashes = 0
    /\ Cancels = {}
    /\ \A s, u \in Starts : s = u

Escrowed == {"RESERVE"}
Sold     == {"RESERVE", "CAPTURE"}
GivenUp  == {"RESERVE", "RELEASE"}

(* The stages an order rests at. *)
Unstarted == row.status = "absent" /\ shop.status = "absent"

Offered ==
    /\ row.status = "pending" /\ ~row.link
    /\ shop.status = "pending" /\ shop.hold \in {"none", "refused"}
    /\ ledger = {}

CashDue ==
    /\ row.status = "confirmed" /\ row.method = "cod" /\ ~row.link /\ row.confirmedAt # NoTime
    /\ shop.status = "confirmed" /\ shop.hold = "held"
    /\ ledger = {}

OnLink == row.status = "confirmed" /\ row.method = "upi" /\ row.link /\ row.confirmedAt # NoTime

Awaited == OnLink /\ shop.status = "confirmed" /\ shop.hold = "held" /\ ledger = Escrowed

Settled ==
    /\ row.status = "paid" => ledger = Sold
    /\ row.status = "failed" => ledger = GivenUp
    /\ row.status = "expired" => shop.hold # "held" /\ ledger \in {{}, GivenUp}

Ended == row.status \in {"paid", "failed", "expired"} /\ shop.status = row.status /\ Settled

Resting == Offered \/ CashDue \/ Awaited \/ Ended

SameQuote(h) == copy[h].token = row.token

(* A tap's own copy, once the shop has confirmed it and the row has not. *)
Confirming(t) ==
    /\ row.status = "pending" /\ shop.status = "confirmed" /\ shop.hold = "held"
    /\ copy[t].status = "confirmed" /\ copy[t].confirmedAt # NoTime /\ SameQuote(t)

(* What stands while a handler is at a step. *)
StartStage(s) ==
    at[s] \in StartSteps => row.status = "absent" /\ shop.status = "pending"

TapStage(t) ==
    /\ at[t] \in TapSteps => SameQuote(t) /\ copy[t].token \in Starts
    /\ at[t] = "loaded" => Resting /\ copy[t].link = row.link
    /\ at[t] \in {"vetted", "spent"} => Offered /\ ~copy[t].link
    /\ at[t] = "reserved" =>
          /\ row.status = "pending" /\ shop.status = "pending" /\ shop.hold = "held"
          /\ ledger = {} /\ ~copy[t].link
    /\ at[t] = "sealing" =>
          Confirming(t) /\ copy[t].method = "cod" /\ ~copy[t].link /\ ledger = {}
    /\ at[t] \in {"confirmed", "holding"} =>
          Confirming(t) /\ copy[t].method = "upi" /\ ledger = {}
    /\ at[t] \in {"held", "linked"} =>
          Confirming(t) /\ copy[t].method = "upi" /\ ledger = Escrowed
    /\ at[t] = "linked" => copy[t].link

HookStage(h) ==
    /\ at[h] \in HookSteps \ {"received"} => SameQuote(h)
    /\ at[h] \in {"received", "checking", "paidFull", "notPaid", "capturing",
                  "failHeld", "failRelease"} => Awaited
    /\ at[h] \in {"captured", "committed"} =>
          OnLink /\ shop.status = "confirmed" /\ shop.hold = "held" /\ ledger = Sold
    /\ at[h] = "settled" =>
          OnLink /\ shop.status = "paid" /\ ledger = Sold /\ copy[h].status = "paid"
    /\ at[h] = "failing" => OnLink /\ shop.status = "confirmed" /\ ledger = GivenUp
    /\ at[h] = "failSaved" =>
          row.status = "failed" /\ shop.status = "confirmed" /\ ledger = GivenUp

SweepStage ==
    /\ at[Sweeper] \in {"due", "closing", "stockBack", "closeHeld", "closeRelease", "closed"} =>
          copy[Sweeper] = row
    /\ at[Sweeper] = "due" => Offered \/ CashDue \/ Awaited
    /\ at[Sweeper] = "closing" => Awaited
    /\ at[Sweeper] \in {"stockBack", "closeHeld", "closeRelease"} =>
          OnLink /\ shop.status = "confirmed" /\ shop.hold = "released" /\ ledger = Escrowed
    /\ at[Sweeper] = "closed" =>
          \/ Offered
          \/ OnLink /\ shop.status = "confirmed" /\ shop.hold = "released" /\ ledger = GivenUp
    /\ at[Sweeper] \in {"unlinking", "saving"} =>
          /\ row.status \in {"pending", "confirmed"} /\ copy[Sweeper].status = "expired"
          /\ shop.status = "expired" /\ shop.hold # "held" /\ ledger \in {{}, GivenUp}
    /\ at[Sweeper] \notin {"resync", "recover", "recoverSave"}

(* Handlers run only code of their own kind, one of them at a time, and    *)
(* none of them ends on an unanswerable row.                               *)
OneRuns ==
    /\ \A g, h \in Handlers : InFlight(g) /\ InFlight(h) => g = h
    /\ \A h \in Handlers : at[h] # "raised"
    /\ \A s \in Starts : at[s] \in StartSteps \cup {"idle", "done"}
    /\ \A t \in Taps : at[t] \in TapSteps \cup {"idle", "done"}
    /\ \A h \in Hooks : at[h] \in HookSteps \cup {"idle"}
    /\ at[Sweeper] \in CloseSteps \cup SweepSteps \cup {"idle"}

(* What holds whoever runs. *)
Standing ==
    /\ row.status = "absent" =>
          row.token = NoToken /\ ~row.link /\ shop.hold = "none" /\ ledger = {}
    /\ \A s \in Starts : at[s] = "idle" => Unstarted
    /\ \A s \in Starts : tokens[s].state = "live" /\ row.token # NoToken => row.status = "pending"
    /\ shop.status \in {"absent", "pending"} => shop.replied = {}
    /\ shop.status = "confirmed" => shop.replied = {"confirmed"}
    /\ (\A h \in Handlers : ~InFlight(h)) => Unstarted \/ Resting

SerialInv ==
    /\ OneRuns /\ Standing
    /\ \A s \in Starts : StartStage(s)
    /\ \A t \in Taps : TapStage(t)
    /\ \A h \in Hooks : HookStage(h)
    /\ SweepStage

(* When a handler begins, nothing else runs. *)
LEMMA BeginsAlone ==
    ASSUME Serially, SerialInv, NEW h \in Handlers, Begin(h)
    PROVE  \A g \in Handlers : ~InFlight(g)
<1> DEFINE running == {g \in Handlers : InFlight(g)}
<1>1. SUFFICES ASSUME NEW g \in Handlers, InFlight(g) PROVE FALSE
  OBVIOUS
<1>2. running = {g}
  BY <1>1 DEF SerialInv, OneRuns
<1>3. Cardinality(running) = 1
  BY <1>2, FS_Singleton
<1>4. Cardinality(running) < MaxInFlight
  BY DEF Begin
<1> QED
  BY <1>3, <1>4 DEF Serially

(* While one runs, the others rest. *)
LEMMA OthersRest ==
    ASSUME SerialInv, NEW h \in Handlers, InFlight(h)
    PROVE  \A g \in Handlers \ {h} : at[g] \in {"idle", "done"}
  BY DEF SerialInv, OneRuns, InFlight

(* SerialInv step by step. *)
LEMMA StartSerial ==
    ASSUME TypeOK, TokenInv, SerialInv, Serially, NEW s \in Starts, Start(s)
    PROVE  SerialInv'
<1> USE MoneyPathAssumption
    DEF Unstarted, Offered, CashDue, OnLink, Awaited, Settled, Ended, Resting,
        SameQuote, Confirming, StartStage, TapStage, HookStage,
        SweepStage, OneRuns, Standing, SerialInv, Escrowed, Sold,
        GivenUp, StartSteps, TapSteps, HookSteps, CloseSteps,
        SweepSteps, InFlight, Goto, Raise, Finish, Rest, TypeOK, Rows,
        Shops, NoRow, Save, OpenHold, Append
<1>1. CASE StartCreate(s)
  <2>1. \A g \in Handlers : ~InFlight(g)
    BY <1>1, BeginsAlone DEF StartCreate
  <2>2. at[s] = "idle"
    BY <1>1 DEF StartCreate, Begin
  <2>a. \A u \in Starts : u = s
    BY DEF Serially
  <2>3. OneRuns'
    BY <1>1, <2>1, <2>2 DEF StartCreate
  <2>4. Standing'
    BY <1>1, <2>1, <2>2, <2>a DEF StartCreate
  <2>5. \A u \in Starts : StartStage(u)'
    BY <1>1, <2>1, <2>2 DEF StartCreate
  <2>6. \A u \in Taps : TapStage(u)'
    BY <1>1, <2>1, <2>2 DEF StartCreate
  <2>7. \A g \in Hooks : HookStage(g)'
    BY <1>1, <2>1, <2>2 DEF StartCreate
  <2>8. SweepStage'
    BY <1>1, <2>1, <2>2 DEF StartCreate
  <2> QED
    BY <2>3, <2>4, <2>5, <2>6, <2>7, <2>8
<1>2. CASE StartIssue(s)
  <2>1. \A g \in Handlers \ {s} : at[g] \in {"idle", "done"}
    BY <1>2, OthersRest DEF StartIssue
  <2>2. \A g \in Handlers \ {s} : at'[g] = at[g] /\ copy'[g] = copy[g]
    BY <1>2 DEF StartIssue
  <2> QED
    BY <1>2, <2>1, <2>2 DEF StartIssue
<1>3. CASE StartSave(s)
  <2>1. \A g \in Handlers \ {s} : at[g] \in {"idle", "done"}
    BY <1>3, OthersRest DEF StartSave
  <2>2. \A g \in Handlers \ {s} : at'[g] = at[g] /\ copy'[g] = copy[g]
    BY <1>3 DEF StartSave
  <2>3. OneRuns'
    BY <1>3, <2>1, <2>2 DEF StartSave
  <2>4. Standing'
    BY <1>3, <2>1, <2>2 DEF StartSave
  <2>5. \A u \in Starts : StartStage(u)'
    BY <1>3, <2>1, <2>2 DEF StartSave
  <2>6. \A u \in Taps : TapStage(u)'
    BY <2>1, <2>2
  <2>7. \A g \in Hooks : HookStage(g)'
    BY <1>3, <2>1, <2>2 DEF StartSave
  <2>8. SweepStage'
    BY <1>3, <2>1, <2>2 DEF StartSave
  <2> QED
    BY <2>3, <2>4, <2>5, <2>6, <2>7, <2>8
<1> QED
  BY <1>1, <1>2, <1>3 DEF Start

LEMMA TapSerial ==
    ASSUME TypeOK, TokenInv, SerialInv, Serially, NEW t \in Taps, Tap(t)
    PROVE  SerialInv'
<1> USE MoneyPathAssumption
    DEF Unstarted, Offered, CashDue, OnLink, Awaited, Settled, Ended, Resting,
        SameQuote, Confirming, StartStage, TapStage, HookStage,
        SweepStage, OneRuns, Standing, SerialInv, Escrowed, Sold,
        GivenUp, StartSteps, TapSteps, HookSteps, CloseSteps,
        SweepSteps, InFlight, Goto, Raise, Finish, Rest, TypeOK, Rows,
        Shops, NoRow, Save, OpenHold, Append
<1>1. CASE TapLoad(t)
  <2>1. \A g \in Handlers : ~InFlight(g)
    BY <1>1, BeginsAlone DEF TapLoad
  <2>2. at[t] = "idle"
    BY <1>1 DEF TapLoad, Begin
  <2> QED
    BY <1>1, <2>1, <2>2 DEF TapLoad
<1>2. CASE TapVet(t)
  <2>1. \A g \in Handlers \ {t} : at[g] \in {"idle", "done"}
    BY <1>2, OthersRest DEF TapVet
  <2>2. \A g \in Handlers \ {t} : at'[g] = at[g] /\ copy'[g] = copy[g]
    BY <1>2 DEF TapVet
  <2>a. at'[t] = "vetted" => Offered /\ ~copy[t].link
    BY <1>2, <2>1 DEF TapVet
  <2>3. OneRuns'
    BY <1>2, <2>1, <2>2, <2>a DEF TapVet
  <2>4. Standing'
    BY <1>2, <2>1, <2>2, <2>a DEF TapVet
  <2>5. \A u \in Starts : StartStage(u)'
    BY <1>2, <2>1, <2>2, <2>a DEF TapVet
  <2>6. \A u \in Taps : TapStage(u)'
    BY <1>2, <2>1, <2>2, <2>a DEF TapVet
  <2>7. \A g \in Hooks : HookStage(g)'
    BY <1>2, <2>1, <2>2, <2>a DEF TapVet
  <2>8. SweepStage'
    BY <1>2, <2>1, <2>2, <2>a DEF TapVet
  <2> QED
    BY <2>3, <2>4, <2>5, <2>6, <2>7, <2>8
<1>3. CASE TapSpend(t)
  <2>1. \A g \in Handlers \ {t} : at[g] \in {"idle", "done"}
    BY <1>3, OthersRest DEF TapSpend
  <2>2. \A g \in Handlers \ {t} : at'[g] = at[g] /\ copy'[g] = copy[g]
    BY <1>3 DEF TapSpend
  <2>3. OneRuns'
    BY <1>3, <2>1, <2>2 DEF TapSpend
  <2>4. Standing'
    BY <1>3, <2>1, <2>2 DEF TapSpend
  <2>5. \A u \in Starts : StartStage(u)'
    BY <1>3, <2>1, <2>2 DEF TapSpend
  <2>6. \A u \in Taps : TapStage(u)'
    BY <1>3, <2>1, <2>2 DEF TapSpend
  <2>7. \A g \in Hooks : HookStage(g)'
    BY <1>3, <2>1, <2>2 DEF TapSpend
  <2>8. SweepStage'
    BY <1>3, <2>1, <2>2 DEF TapSpend
  <2> QED
    BY <2>3, <2>4, <2>5, <2>6, <2>7, <2>8
<1>4. CASE TapRefuse(t)
  <2>1. \A g \in Handlers \ {t} : at[g] \in {"idle", "done"}
    BY <1>4, OthersRest DEF TapRefuse
  <2>2. \A g \in Handlers \ {t} : at'[g] = at[g] /\ copy'[g] = copy[g]
    BY <1>4 DEF TapRefuse
  <2> QED
    BY <1>4, <2>1, <2>2 DEF TapRefuse
<1>5. CASE TapReserve(t)
  <2>1. \A g \in Handlers \ {t} : at[g] \in {"idle", "done"}
    BY <1>5, OthersRest DEF TapReserve
  <2>2. \A g \in Handlers \ {t} : at'[g] = at[g] /\ copy'[g] = copy[g]
    BY <1>5 DEF TapReserve
  <2> QED
    BY <1>5, <2>1, <2>2 DEF TapReserve
<1>6. CASE TapConfirm(t)
  <2>1. \A g \in Handlers \ {t} : at[g] \in {"idle", "done"}
    BY <1>6, OthersRest DEF TapConfirm
  <2>2. \A g \in Handlers \ {t} : at'[g] = at[g] /\ copy'[g] = copy[g]
    BY <1>6 DEF TapConfirm, SetStatus, Statuses
  <2>a. at'[t] = (IF copy[t].method = "cod" THEN "sealing" ELSE "confirmed")
    BY <1>6 DEF TapConfirm
  <2>b. shop'.status = "confirmed" /\ shop'.hold = "held"
    BY <1>6 DEF TapConfirm, SetStatus
  <2>c. copy'[t] = [copy[t] EXCEPT !.status = "confirmed", !.confirmedAt = now]
    BY <1>6 DEF TapConfirm
  <2>d. /\ copy'[t].status = "confirmed" /\ copy'[t].confirmedAt = now /\ copy'[t].link = copy[t].link
        /\ copy'[t].token = copy[t].token /\ copy'[t].method = copy[t].method
    BY <2>c
  <2>e. UNCHANGED <<row, ledger>> /\ row.status = "pending" /\ ledger = {} /\ ~copy[t].link
    BY <1>6 DEF TapConfirm
  <2>f. SameQuote(t) /\ copy[t].token \in Starts /\ copy[t].method \in {"upi", "cod"}
    BY <1>6 DEF TapConfirm, Methods
  <2>3. OneRuns'
    BY <1>6, <2>1, <2>2 DEF TapConfirm, SetStatus, Statuses
  <2>4. Standing'
    BY <1>6, <2>1, <2>2 DEF TapConfirm, SetStatus, Statuses
  <2>5. \A u \in Starts : StartStage(u)'
    BY <1>6, <2>1, <2>2 DEF TapConfirm, SetStatus, Statuses
  <2>6. \A u \in Taps : TapStage(u)'
    BY <2>1, <2>2, <2>a, <2>b, <2>d, <2>e, <2>f DEF NoTime
  <2>7. \A g \in Hooks : HookStage(g)'
    BY <1>6, <2>1, <2>2 DEF TapConfirm, SetStatus, Statuses
  <2>8. SweepStage'
    BY <1>6, <2>1, <2>2 DEF TapConfirm, SetStatus, Statuses
  <2> QED
    BY <2>3, <2>4, <2>5, <2>6, <2>7, <2>8
<1>7. CASE TapSaveCod(t)
  <2>1. \A g \in Handlers \ {t} : at[g] \in {"idle", "done"}
    BY <1>7, OthersRest DEF TapSaveCod
  <2>2. \A g \in Handlers \ {t} : at'[g] = at[g] /\ copy'[g] = copy[g]
    BY <1>7 DEF TapSaveCod
  <2>a. \A s \in Starts : tokens[s].state = "spent"
    BY <1>7 DEF TapSaveCod, TokenInv, PastSpend, Serially
  <2>b. row' = copy[t] /\ UNCHANGED <<tokens, shop, ledger>>
    BY <1>7 DEF TapSaveCod
  <2>c. CashDue'
    BY <1>7, <2>b DEF TapSaveCod
  <2>3. OneRuns'
    BY <1>7, <2>1, <2>2, <2>a, <2>b, <2>c DEF TapSaveCod
  <2>4. Standing'
    BY <1>7, <2>1, <2>2, <2>a, <2>b, <2>c DEF TapSaveCod
  <2>5. \A u \in Starts : StartStage(u)'
    BY <1>7, <2>1, <2>2, <2>a, <2>b, <2>c DEF TapSaveCod
  <2>6. \A u \in Taps : TapStage(u)'
    BY <1>7, <2>1, <2>2, <2>a, <2>b, <2>c DEF TapSaveCod
  <2>7. \A g \in Hooks : HookStage(g)'
    BY <1>7, <2>1, <2>2, <2>a, <2>b, <2>c DEF TapSaveCod
  <2>8. SweepStage'
    BY <1>7, <2>1, <2>2, <2>a, <2>b, <2>c DEF TapSaveCod
  <2> QED
    BY <2>3, <2>4, <2>5, <2>6, <2>7, <2>8
<1>8. CASE TapHold(t)
  <2>1. \A g \in Handlers \ {t} : at[g] \in {"idle", "done"}
    BY <1>8, OthersRest DEF TapHold
  <2>2. \A g \in Handlers \ {t} : at'[g] = at[g] /\ copy'[g] = copy[g]
    BY <1>8 DEF TapHold
  <2> QED
    BY <1>8, <2>1, <2>2 DEF TapHold
<1>9. CASE TapReserveMoney(t)
  <2>1. \A g \in Handlers \ {t} : at[g] \in {"idle", "done"}
    BY <1>9, OthersRest DEF TapReserveMoney
  <2>2. \A g \in Handlers \ {t} : at'[g] = at[g] /\ copy'[g] = copy[g]
    BY <1>9 DEF TapReserveMoney
  <2> QED
    BY <1>9, <2>1, <2>2 DEF TapReserveMoney
<1>10. CASE TapLink(t)
  <2>1. \A g \in Handlers \ {t} : at[g] \in {"idle", "done"}
    BY <1>10, OthersRest DEF TapLink
  <2>2. \A g \in Handlers \ {t} : at'[g] = at[g] /\ copy'[g] = copy[g]
    BY <1>10 DEF TapLink
  <2> QED
    BY <1>10, <2>1, <2>2 DEF TapLink
<1>11. CASE TapSave(t)
  <2>1. \A g \in Handlers \ {t} : at[g] \in {"idle", "done"}
    BY <1>11, OthersRest DEF TapSave
  <2>2. \A g \in Handlers \ {t} : at'[g] = at[g] /\ copy'[g] = copy[g]
    BY <1>11 DEF TapSave
  <2>a. \A s \in Starts : tokens[s].state = "spent"
    BY <1>11 DEF TapSave, TokenInv, PastSpend, Serially
  <2>b. row' = copy[t] /\ UNCHANGED <<tokens, shop, ledger>>
    BY <1>11 DEF TapSave
  <2>c. Awaited'
    BY <1>11, <2>b DEF TapSave
  <2>d. at'[t] = "done"
    BY <1>11 DEF TapSave
  <2>3. OneRuns'
    BY <1>11, <2>1, <2>2, <2>a, <2>b, <2>c DEF TapSave
  <2>4. Standing'
    BY <1>11, <2>1, <2>2, <2>a, <2>b, <2>c DEF TapSave
  <2>5. \A u \in Starts : StartStage(u)'
    BY <1>11, <2>1, <2>2, <2>a, <2>b, <2>c DEF TapSave
  <2>6. \A u \in Taps : TapStage(u)'
    BY <2>1, <2>2, <2>d
  <2>7. \A g \in Hooks : HookStage(g)'
    BY <1>11, <2>1, <2>2, <2>a, <2>b, <2>c DEF TapSave
  <2>8. SweepStage'
    BY <1>11, <2>1, <2>2, <2>a, <2>b, <2>c DEF TapSave
  <2> QED
    BY <2>3, <2>4, <2>5, <2>6, <2>7, <2>8
<1> QED
  BY <1>1, <1>2, <1>3, <1>4, <1>5, <1>6, <1>7, <1>8, <1>9, <1>10, <1>11 DEF Tap

LEMMA HookSerial ==
    ASSUME TypeOK, TokenInv, SerialInv, Serially, NEW h \in Hooks, HookStep(h)
    PROVE  SerialInv'
<1> USE MoneyPathAssumption
    DEF Unstarted, Offered, CashDue, OnLink, Awaited, Settled, Ended, Resting,
        SameQuote, Confirming, StartStage, TapStage, HookStage,
        SweepStage, OneRuns, Standing, SerialInv, Escrowed, Sold,
        GivenUp, StartSteps, TapSteps, HookSteps, CloseSteps,
        SweepSteps, InFlight, Goto, Raise, Finish, Rest, TypeOK, Rows,
        Shops, NoRow, Save, OpenHold, Append
<1>1. CASE HookLoad(h)
  <2>1. \A g \in Handlers \ {h} : at[g] \in {"idle", "done"}
    BY <1>1, OthersRest DEF HookLoad
  <2>2. \A g \in Handlers \ {h} : at'[g] = at[g] /\ copy'[g] = copy[g]
    BY <1>1 DEF HookLoad
  <2> QED
    BY <1>1, <2>1, <2>2 DEF HookLoad
<1>2. CASE HookCheck(h)
  <2>1. \A g \in Handlers \ {h} : at[g] \in {"idle", "done"}
    BY <1>2, OthersRest DEF HookCheck
  <2>2. \A g \in Handlers \ {h} : at'[g] = at[g] /\ copy'[g] = copy[g]
    BY <1>2 DEF HookCheck
  <2> QED
    BY <1>2, <2>1, <2>2 DEF HookCheck
<1>3. CASE HookSettle(h)
  <2>1. \A g \in Handlers \ {h} : at[g] \in {"idle", "done"}
    BY <1>3, OthersRest DEF HookSettle
  <2>2. \A g \in Handlers \ {h} : at'[g] = at[g] /\ copy'[g] = copy[g]
    BY <1>3 DEF HookSettle
  <2> QED
    BY <1>3, <2>1, <2>2 DEF HookSettle
<1>4. CASE HookCapture(h)
  <2>1. \A g \in Handlers \ {h} : at[g] \in {"idle", "done"}
    BY <1>4, OthersRest DEF HookCapture
  <2>2. \A g \in Handlers \ {h} : at'[g] = at[g] /\ copy'[g] = copy[g]
    BY <1>4 DEF HookCapture
  <2> QED
    BY <1>4, <2>1, <2>2 DEF HookCapture
<1>5. CASE HookCommit(h)
  <2>1. \A g \in Handlers \ {h} : at[g] \in {"idle", "done"}
    BY <1>5, OthersRest DEF HookCommit
  <2>2. \A g \in Handlers \ {h} : at'[g] = at[g] /\ copy'[g] = copy[g]
    BY <1>5 DEF HookCommit
  <2>3. OneRuns'
    BY <1>5, <2>1, <2>2 DEF HookCommit
  <2>4. Standing'
    BY <1>5, <2>1, <2>2 DEF HookCommit
  <2>5. \A u \in Starts : StartStage(u)'
    BY <1>5, <2>1, <2>2 DEF HookCommit
  <2>6. \A u \in Taps : TapStage(u)'
    BY <1>5, <2>1, <2>2 DEF HookCommit
  <2>7. \A g \in Hooks : HookStage(g)'
    BY <1>5, <2>1, <2>2 DEF HookCommit
  <2>8. SweepStage'
    BY <1>5, <2>1, <2>2 DEF HookCommit
  <2> QED
    BY <2>3, <2>4, <2>5, <2>6, <2>7, <2>8
<1>6. CASE HookPaid(h)
  <2>1. \A g \in Handlers \ {h} : at[g] \in {"idle", "done"}
    BY <1>6, OthersRest DEF HookPaid
  <2>2. \A g \in Handlers \ {h} : at'[g] = at[g] /\ copy'[g] = copy[g]
    BY <1>6 DEF HookPaid, SetStatus, Statuses
  <2> QED
    BY <1>6, <2>1, <2>2 DEF HookPaid, SetStatus, Statuses
<1>7. CASE HookSave(h)
  <2>1. \A g \in Handlers \ {h} : at[g] \in {"idle", "done"}
    BY <1>7, OthersRest DEF HookSave
  <2>2. \A g \in Handlers \ {h} : at'[g] = at[g] /\ copy'[g] = copy[g]
    BY <1>7 DEF HookSave
  <2> QED
    BY <1>7, <2>1, <2>2 DEF HookSave
<1>8. CASE HookFailRead(h)
  <2>1. \A g \in Handlers \ {h} : at[g] \in {"idle", "done"}
    BY <1>8, OthersRest DEF HookFailRead
  <2>2. \A g \in Handlers \ {h} : at'[g] = at[g] /\ copy'[g] = copy[g]
    BY <1>8 DEF HookFailRead
  <2> QED
    BY <1>8, <2>1, <2>2 DEF HookFailRead
<1>9. CASE HookFailRecheck(h)
  <2>1. \A g \in Handlers \ {h} : at[g] \in {"idle", "done"}
    BY <1>9, OthersRest DEF HookFailRecheck
  <2>2. \A g \in Handlers \ {h} : at'[g] = at[g] /\ copy'[g] = copy[g]
    BY <1>9 DEF HookFailRecheck
  <2> QED
    BY <1>9, <2>1, <2>2 DEF HookFailRecheck
<1>10. CASE HookFailRelease(h)
  <2>1. \A g \in Handlers \ {h} : at[g] \in {"idle", "done"}
    BY <1>10, OthersRest DEF HookFailRelease
  <2>2. \A g \in Handlers \ {h} : at'[g] = at[g] /\ copy'[g] = copy[g]
    BY <1>10 DEF HookFailRelease
  <2> QED
    BY <1>10, <2>1, <2>2 DEF HookFailRelease
<1>11. CASE HookFailSave(h)
  <2>1. \A g \in Handlers \ {h} : at[g] \in {"idle", "done"}
    BY <1>11, OthersRest DEF HookFailSave
  <2>2. \A g \in Handlers \ {h} : at'[g] = at[g] /\ copy'[g] = copy[g]
    BY <1>11 DEF HookFailSave
  <2> QED
    BY <1>11, <2>1, <2>2 DEF HookFailSave
<1>12. CASE HookFailStatus(h)
  <2>1. \A g \in Handlers \ {h} : at[g] \in {"idle", "done"}
    BY <1>12, OthersRest DEF HookFailStatus
  <2>2. \A g \in Handlers \ {h} : at'[g] = at[g] /\ copy'[g] = copy[g]
    BY <1>12 DEF HookFailStatus, SetStatus, Statuses
  <2> QED
    BY <1>12, <2>1, <2>2 DEF HookFailStatus, SetStatus, Statuses
<1> QED
  BY <1>1, <1>2, <1>3, <1>4, <1>5, <1>6, <1>7, <1>8, <1>9, <1>10, <1>11, <1>12 DEF
     HookStep

LEMMA CloseSerial ==
    ASSUME TypeOK, TokenInv, SerialInv, Serially, NEW h \in Closers, Close(h)
    PROVE  SerialInv'
<1> USE MoneyPathAssumption
    DEF Unstarted, Offered, CashDue, OnLink, Awaited, Settled, Ended, Resting,
        SameQuote, Confirming, StartStage, TapStage, HookStage,
        SweepStage, OneRuns, Standing, SerialInv, Escrowed, Sold,
        GivenUp, StartSteps, TapSteps, HookSteps, CloseSteps,
        SweepSteps, InFlight, Goto, Raise, Finish, Rest, TypeOK, Rows,
        Shops, NoRow, Save, OpenHold, Append
<1>0. h = Sweeper
  BY DEF Serially
<1>1. CASE CloseStock(h)
  <2>1. \A g \in Handlers \ {h} : at[g] \in {"idle", "done"}
    BY <1>1, OthersRest DEF CloseStock
  <2>2. \A g \in Handlers \ {h} : at'[g] = at[g] /\ copy'[g] = copy[g]
    BY <1>1 DEF CloseStock
  <2>3. OneRuns'
    BY <1>1, <2>1, <2>2, <1>0 DEF CloseStock
  <2>4. Standing'
    BY <1>1, <2>1, <2>2, <1>0 DEF CloseStock
  <2>5. \A u \in Starts : StartStage(u)'
    BY <1>1, <2>1, <2>2, <1>0 DEF CloseStock
  <2>6. \A u \in Taps : TapStage(u)'
    BY <1>1, <2>1, <2>2, <1>0 DEF CloseStock
  <2>7. \A g \in Hooks : HookStage(g)'
    BY <1>1, <2>1, <2>2, <1>0 DEF CloseStock
  <2>8. SweepStage'
    BY <1>1, <2>1, <2>2, <1>0 DEF CloseStock
  <2> QED
    BY <2>3, <2>4, <2>5, <2>6, <2>7, <2>8
<1>2. CASE CloseRead(h)
  <2>1. \A g \in Handlers \ {h} : at[g] \in {"idle", "done"}
    BY <1>2, OthersRest DEF CloseRead
  <2>2. \A g \in Handlers \ {h} : at'[g] = at[g] /\ copy'[g] = copy[g]
    BY <1>2 DEF CloseRead
  <2> QED
    BY <1>2, <2>1, <2>2 DEF CloseRead
<1>3. CASE CloseRecheck(h)
  <2>1. \A g \in Handlers \ {h} : at[g] \in {"idle", "done"}
    BY <1>3, OthersRest DEF CloseRecheck
  <2>2. \A g \in Handlers \ {h} : at'[g] = at[g] /\ copy'[g] = copy[g]
    BY <1>3 DEF CloseRecheck
  <2>3. OneRuns'
    BY <1>3, <2>1, <2>2, <1>0 DEF CloseRecheck
  <2>4. Standing'
    BY <1>3, <2>1, <2>2, <1>0 DEF CloseRecheck
  <2>5. \A u \in Starts : StartStage(u)'
    BY <1>3, <2>1, <2>2, <1>0 DEF CloseRecheck
  <2>6. \A u \in Taps : TapStage(u)'
    BY <1>3, <2>1, <2>2, <1>0 DEF CloseRecheck
  <2>7. \A g \in Hooks : HookStage(g)'
    BY <1>3, <2>1, <2>2, <1>0 DEF CloseRecheck
  <2>8. SweepStage'
    BY <1>3, <2>1, <2>2, <1>0 DEF CloseRecheck
  <2> QED
    BY <2>3, <2>4, <2>5, <2>6, <2>7, <2>8
<1>4. CASE CloseRelease(h)
  <2>1. \A g \in Handlers \ {h} : at[g] \in {"idle", "done"}
    BY <1>4, OthersRest DEF CloseRelease
  <2>2. \A g \in Handlers \ {h} : at'[g] = at[g] /\ copy'[g] = copy[g]
    BY <1>4 DEF CloseRelease
  <2>3. OneRuns'
    BY <1>4, <2>1, <2>2, <1>0 DEF CloseRelease
  <2>4. Standing'
    BY <1>4, <2>1, <2>2, <1>0 DEF CloseRelease
  <2>5. \A u \in Starts : StartStage(u)'
    BY <1>4, <2>1, <2>2, <1>0 DEF CloseRelease
  <2>6. \A u \in Taps : TapStage(u)'
    BY <1>4, <2>1, <2>2, <1>0 DEF CloseRelease
  <2>7. \A g \in Hooks : HookStage(g)'
    BY <1>4, <2>1, <2>2, <1>0 DEF CloseRelease
  <2>8. SweepStage'
    BY <1>4, <2>1, <2>2, <1>0 DEF CloseRelease
  <2> QED
    BY <2>3, <2>4, <2>5, <2>6, <2>7, <2>8
<1>5. CASE CloseStatus(h)
  <2>1. \A g \in Handlers \ {h} : at[g] \in {"idle", "done"}
    BY <1>5, OthersRest DEF CloseStatus
  <2>2. \A g \in Handlers \ {h} : at'[g] = at[g] /\ copy'[g] = copy[g]
    BY <1>5 DEF CloseStatus, SetStatus, Statuses, ClosedAs
  <2>3. OneRuns'
    BY <1>5, <2>1, <2>2, <1>0 DEF CloseStatus, SetStatus, Statuses, ClosedAs
  <2>4. Standing'
    BY <1>5, <2>1, <2>2, <1>0 DEF CloseStatus, SetStatus, Statuses, ClosedAs
  <2>5. \A u \in Starts : StartStage(u)'
    BY <1>5, <2>1, <2>2, <1>0 DEF CloseStatus, SetStatus, Statuses, ClosedAs
  <2>6. \A u \in Taps : TapStage(u)'
    BY <1>5, <2>1, <2>2, <1>0 DEF CloseStatus, SetStatus, Statuses, ClosedAs
  <2>7. \A g \in Hooks : HookStage(g)'
    BY <1>5, <2>1, <2>2, <1>0 DEF CloseStatus, SetStatus, Statuses, ClosedAs
  <2>8. SweepStage'
    BY <1>5, <2>1, <2>2, <1>0 DEF CloseStatus, SetStatus, Statuses, ClosedAs
  <2> QED
    BY <2>3, <2>4, <2>5, <2>6, <2>7, <2>8
<1>6. CASE CloseStatusLost(h)
  BY <1>6 DEF CloseStatusLost, Serially
<1>7. CASE CloseLink(h)
  <2>1. \A g \in Handlers \ {h} : at[g] \in {"idle", "done"}
    BY <1>7, OthersRest DEF CloseLink
  <2>2. \A g \in Handlers \ {h} : at'[g] = at[g] /\ copy'[g] = copy[g]
    BY <1>7 DEF CloseLink
  <2> QED
    BY <1>7, <2>1, <2>2 DEF CloseLink
<1>8. CASE CloseSave(h)
  <2>1. \A g \in Handlers \ {h} : at[g] \in {"idle", "done"}
    BY <1>8, OthersRest DEF CloseSave
  <2>2. \A g \in Handlers \ {h} : at'[g] = at[g] /\ copy'[g] = copy[g]
    BY <1>8 DEF CloseSave
  <2>3. OneRuns'
    BY <1>8, <2>1, <2>2, <1>0 DEF CloseSave
  <2>4. Standing'
    BY <1>8, <2>1, <2>2, <1>0 DEF CloseSave
  <2>5. \A u \in Starts : StartStage(u)'
    BY <1>8, <2>1, <2>2, <1>0 DEF CloseSave
  <2>6. \A u \in Taps : TapStage(u)'
    BY <1>8, <2>1, <2>2, <1>0 DEF CloseSave
  <2>7. \A g \in Hooks : HookStage(g)'
    BY <1>8, <2>1, <2>2, <1>0 DEF CloseSave
  <2>8. SweepStage'
    BY <1>8, <2>1, <2>2, <1>0 DEF CloseSave
  <2> QED
    BY <2>3, <2>4, <2>5, <2>6, <2>7, <2>8
<1> QED
  BY <1>1, <1>2, <1>3, <1>4, <1>5, <1>6, <1>7, <1>8 DEF Close

LEMMA SweepSerial ==
    ASSUME TypeOK, TokenInv, SerialInv, Serially, Sweep
    PROVE  SerialInv'
<1> USE MoneyPathAssumption
    DEF Unstarted, Offered, CashDue, OnLink, Awaited, Settled, Ended, Resting,
        SameQuote, Confirming, StartStage, TapStage, HookStage,
        SweepStage, OneRuns, Standing, SerialInv, Escrowed, Sold,
        GivenUp, StartSteps, TapSteps, HookSteps, CloseSteps,
        SweepSteps, InFlight, Goto, Raise, Finish, Rest, TypeOK, Rows,
        Shops, NoRow, Save, OpenHold, Append, SweepTo, SweepStep,
        IsDue, Unanswerable, Sweepable, AlertsOnly, ReleasesStock,
        Begin
<1>1. CASE SweepStart
  <2>1. \A g \in Handlers : ~InFlight(g)
    BY <1>1, BeginsAlone DEF SweepStart
  <2>2. at[Sweeper] = "idle"
    BY <1>1 DEF SweepStart, Begin
  <2> QED
    BY <1>1, <2>1, <2>2 DEF SweepStart
<1>2. CASE SweepResync
  <2>1. \A g \in Handlers \ {Sweeper} : at[g] \in {"idle", "done"}
    BY <1>2, OthersRest DEF SweepResync
  <2>2. \A g \in Handlers \ {Sweeper} : at'[g] = at[g] /\ copy'[g] = copy[g]
    BY <1>2 DEF SweepResync
  <2> QED
    BY <1>2, <2>1, <2>2 DEF SweepResync
<1>3. CASE SweepResave
  BY <1>3 DEF SweepResave
<1>4. CASE SweepRecover
  BY <1>4 DEF SweepRecover
<1>5. CASE SweepRecoverSave
  BY <1>5 DEF SweepRecoverSave
<1> QED
  BY <1>1, <1>2, <1>3, <1>4, <1>5 DEF Sweep

(* Every step keeps SerialInv. *)
LEMMA NextSerial ==
    ASSUME TypeOK, TokenInv, SerialInv, Serially, [Next]_vars
    PROVE  SerialInv'
<1> USE MoneyPathAssumption
    DEF Unstarted, Offered, CashDue, OnLink, Awaited, Settled, Ended, Resting,
        SameQuote, Confirming, StartStage, TapStage, HookStage,
        SweepStage, OneRuns, Standing, SerialInv, Escrowed, Sold,
        GivenUp, StartSteps, TapSteps, HookSteps, CloseSteps,
        SweepSteps, InFlight, Goto, Raise, Finish, Rest, TypeOK, Rows,
        Shops, NoRow, Save, OpenHold, Append
<1>1. CASE \E s \in Starts : Start(s)
  BY <1>1, StartSerial
<1>2. CASE \E t \in Taps : Tap(t)
  BY <1>2, TapSerial
<1>3. CASE \E h \in Hooks : HookStep(h)
  BY <1>3, HookSerial
<1>4. CASE \E h \in Closers : Close(h)
  BY <1>4, CloseSerial
<1>5. CASE Sweep
  BY <1>5, SweepSerial
<1>6. CASE \E c \in Cancels : CancelLoad(c)
  BY <1>6 DEF Serially
<1>7. CASE \E h \in Hooks : \E e \in Events : HookReceive(h, e)
  <2> PICK h \in Hooks, e \in Events : HookReceive(h, e)
    BY <1>7
  <2>1. \A g \in Handlers : ~InFlight(g)
    BY BeginsAlone DEF HookReceive
  <2> QED
    BY <2>1 DEF HookReceive, Terminal
<1>8. CASE \E h \in Handlers : CallFails(h)
  BY <1>8 DEF CallFails, Serially
<1>9. CASE Pay \/ LinkExpire
  BY <1>9 DEF Pay, LinkExpire
<1>10. CASE Crash
  BY <1>10 DEF Crash, Serially
<1>11. CASE Tick \/ (\E e \in Events : Emit(e)) \/ UNCHANGED vars
  BY <1>11 DEF Tick, Emit, vars
<1> QED
  BY <1>1, <1>2, <1>3, <1>4, <1>5, <1>6, <1>7, <1>8, <1>9, <1>10, <1>11 DEF Next

LEMMA SerialCorrect == ASSUME Serially PROVE Spec => []SerialInv
<1>1. Init => SerialInv
  BY MoneyPathAssumption
     DEF Init, NoRow, Unstarted, Offered, Resting, SerialInv, OneRuns, Standing, StartStage,
         TapStage, HookStage, SweepStage, InFlight, StartSteps, TapSteps, HookSteps, CloseSteps
<1>2. TypeOK /\ TokenInv /\ SerialInv /\ [Next]_vars => SerialInv'
  BY NextSerial
<1> QED
  BY <1>1, <1>2, TokenCorrect, TypeCorrect, PTL DEF Spec

(* Run one handler at a time, an order that expired holds neither stock    *)
(* nor money (sweeper.py:177).                                             *)
THEOREM SerialClosesAll == ASSUME Serially PROVE Spec => []ClosedOrderHoldsNothing
<1>1. SerialInv /\ TypeOK => ClosedOrderHoldsNothing
  <2> SUFFICES ASSUME SerialInv, TypeOK, row.status \in {"expired", "cancelled"}
               PROVE  shop.hold # "held" /\ ~OpenHold
    BY DEF ClosedOrderHoldsNothing
  <2> USE DEF SerialInv, Unstarted, Offered, CashDue, OnLink, Awaited, Settled, Ended, Resting,
              Confirming, Escrowed, Sold, GivenUp
  <2>1. Resting => shop.hold # "held" /\ ~OpenHold
    BY DEF OpenHold
  <2>2. CASE \A h \in Handlers : ~InFlight(h)
    BY <2>1, <2>2 DEF Standing
  <2>3. CASE \E h \in Handlers : InFlight(h)
    <3> PICK h \in Handlers : InFlight(h)
      BY <2>3
    <3>1. CASE h \in Starts
      BY <3>1 DEF OneRuns, StartStage, InFlight
    <3>2. CASE h \in Taps
      BY <3>2, <2>1 DEF OneRuns, TapStage, InFlight, TapSteps
    <3>3. CASE h \in Hooks
      BY <3>3 DEF OneRuns, HookStage, InFlight, HookSteps
    <3>4. CASE h = Sweeper
      BY <3>4 DEF OneRuns, SweepStage, InFlight, CloseSteps, SweepSteps
    <3>5. CASE h \in Cancels
      BY <3>5 DEF Serially
    <3> QED
      BY <3>1, <3>2, <3>3, <3>4, <3>5
  <2> QED
    BY <2>2, <2>3
<1> QED
  BY <1>1, SerialCorrect, TypeCorrect, PTL

(* The money the entries stand for. *)
LEMMA MoneyStages ==
    /\ ledger = {} => MoneyOf = "none"
    /\ ledger = Escrowed => MoneyOf = "held"
    /\ ledger = Sold => MoneyOf = "captured"
    /\ ledger = GivenUp => MoneyOf = "released"
  BY DEF MoneyOf, Escrowed, Sold, GivenUp

(* A step that changes neither the shop's status nor the ledger stutters. *)
LEMMA AbstractStutter ==
    ASSUME shop'.status = shop.status, UNCHANGED ledger
    PROVE  UNCHANGED <<shop.status, MoneyOf>>
  BY DEF MoneyOf

(* Every step of the money path is a step of OrderLifecycle or none. *)
LEMMA SerialStep ==
    ASSUME TypeOK, SerialInv, SerialInv', Serially, [Next]_vars
    PROVE  [Abstract!AbstractNext]_<<shop.status, MoneyOf>>
<1> USE DEF SerialInv, Abstract!AbstractNext, Offered, OnLink, Awaited, Confirming,
            Escrowed, Sold, GivenUp
<1>1. CASE \E s \in Starts : Start(s)
  <2> PICK s \in Starts : Start(s)
    BY <1>1
  <2>1. CASE StartCreate(s)
    <3>1. Abstract!Create \/ (shop'.status = shop.status /\ UNCHANGED ledger)
      BY <2>1, AbstractStutter DEF StartCreate, Abstract!Create, TypeOK, Shops, MoneyOf
    <3> QED
      BY <3>1, AbstractStutter
  <2>2. CASE StartIssue(s) \/ StartSave(s)
    BY <2>2, AbstractStutter DEF StartIssue, StartSave
  <2> QED
    BY <2>1, <2>2 DEF Start
<1>2. CASE \E t \in Taps : Tap(t)
  <2> PICK t \in Taps : Tap(t)
    BY <1>2
  <2>1. CASE TapConfirm(t)
    <3>1. shop.status = "pending" /\ shop'.status = "confirmed" /\ UNCHANGED ledger
      BY <2>1 DEF TapConfirm, SetStatus, Standing, TapStage, TypeOK, Shops
    <3>2. Abstract!Confirm
      BY <3>1 DEF Abstract!Confirm, Abstract!CanTransition, Abstract!Transitions, MoneyOf
    <3> QED
      BY <3>2
  <2>2. CASE TapReserveMoney(t)
    <3>1. shop.status = "confirmed" /\ ledger = {} /\ ledger' = Escrowed /\ UNCHANGED shop
      BY <2>2 DEF TapReserveMoney, Append, TapStage
    <3>2. MoneyOf = "none" /\ MoneyOf' = "held"
      BY <3>1, MoneyStages DEF MoneyOf
    <3> QED
      BY <3>1, <3>2 DEF Abstract!Hold
  <2>3. CASE ~TapConfirm(t) /\ ~TapReserveMoney(t)
    <3>1. shop'.status = shop.status /\ UNCHANGED ledger
      BY <2>3 DEF Tap, TapLoad, TapVet, TapSpend, TapRefuse, TapReserve, TapSaveCod, TapHold,
                  TapLink, TapSave, TypeOK, Shops
    <3> QED
      BY <3>1, AbstractStutter
  <2> QED
    BY <2>1, <2>2, <2>3
<1>3. CASE \E h \in Hooks : HookStep(h)
  <2> PICK h \in Hooks : HookStep(h)
    BY <1>3
  <2>1. CASE HookCapture(h)
    <3>1. shop.status = "confirmed" /\ ledger = Escrowed /\ ledger' = Sold /\ UNCHANGED shop
      BY <2>1 DEF HookCapture, Append, HookStage
    <3>2. MoneyOf = "held" /\ MoneyOf' = "captured"
      BY <3>1, MoneyStages DEF MoneyOf
    <3> QED
      BY <3>1, <3>2 DEF Abstract!Capture
  <2>2. CASE HookFailRelease(h)
    <3>1. shop.status = "confirmed" /\ ledger = Escrowed /\ ledger' = GivenUp /\ UNCHANGED shop
      BY <2>2 DEF HookFailRelease, Append, HookStage
    <3>2. MoneyOf = "held" /\ MoneyOf' = "released"
      BY <3>1, MoneyStages DEF MoneyOf
    <3> QED
      BY <3>1, <3>2 DEF Abstract!Release
  <2>3. CASE HookPaid(h)
    <3>1. shop.status = "confirmed" /\ shop'.status = "paid" /\ ledger = Sold /\ UNCHANGED ledger
      BY <2>3 DEF HookPaid, SetStatus, Standing, HookStage, TypeOK, Shops
    <3>2. Abstract!Pay
      BY <3>1, MoneyStages
         DEF Abstract!Pay, Abstract!CanTransition, Abstract!Transitions, MoneyOf
    <3> QED
      BY <3>2
  <2>4. CASE HookFailStatus(h)
    <3>1. shop.status = "confirmed" /\ shop'.status = "failed" /\ ledger = GivenUp /\ UNCHANGED ledger
      BY <2>4 DEF HookFailStatus, SetStatus, Standing, HookStage, TypeOK, Shops
    <3>2. Abstract!EndUnpaid("failed")
      BY <3>1, MoneyStages
         DEF Abstract!EndUnpaid, Abstract!CanTransition, Abstract!Transitions, MoneyOf
    <3> QED
      BY <3>2 DEF Abstract!Statuses
  <2>5. CASE ~HookCapture(h) /\ ~HookFailRelease(h) /\ ~HookPaid(h) /\ ~HookFailStatus(h)
    <3>1. shop'.status = shop.status /\ UNCHANGED ledger
      BY <2>5 DEF HookStep, HookLoad, HookCheck, HookSettle, HookCommit, HookSave, HookFailRead,
                  HookFailRecheck, HookFailSave, TypeOK, Shops
    <3> QED
      BY <3>1, AbstractStutter
  <2> QED
    BY <2>1, <2>2, <2>3, <2>4, <2>5
<1>4. CASE \E h \in Closers : Close(h)
  <2>1. Close(Sweeper)
    BY <1>4 DEF Serially
  <2>2. CASE CloseRelease(Sweeper)
    <3>1. shop.status = "confirmed" /\ ledger = Escrowed /\ ledger' = GivenUp /\ UNCHANGED shop
      BY <2>2 DEF CloseRelease, Append, SweepStage
    <3>2. MoneyOf = "held" /\ MoneyOf' = "released"
      BY <3>1, MoneyStages DEF MoneyOf
    <3> QED
      BY <3>1, <3>2 DEF Abstract!Release
  <2>3. CASE CloseStatus(Sweeper)
    <3>0. \/ shop.status = "pending" /\ ledger = {}
          \/ shop.status = "confirmed" /\ ledger = GivenUp
      BY <2>3 DEF CloseStatus, SweepStage
    <3>1. shop'.status = "expired" /\ UNCHANGED ledger
      BY <2>3, <3>0 DEF CloseStatus, ClosedAs, SetStatus, Standing, TypeOK, Shops
    <3>2. Abstract!EndUnpaid("expired")
      BY <3>0, <3>1, MoneyStages
         DEF Abstract!EndUnpaid, Abstract!CanTransition, Abstract!Transitions, MoneyOf
    <3> QED
      BY <3>2 DEF Abstract!Statuses
  <2>4. CASE ~CloseRelease(Sweeper) /\ ~CloseStatus(Sweeper)
    <3>1. shop'.status = shop.status /\ UNCHANGED ledger
      BY <2>1, <2>4 DEF Close, CloseStock, CloseRead, CloseRecheck, CloseStatusLost, CloseLink,
                        CloseSave, Serially, TypeOK, Shops
    <3> QED
      BY <3>1, AbstractStutter
  <2> QED
    BY <2>2, <2>3, <2>4
<1>5. CASE Sweep
  BY <1>5, AbstractStutter
     DEF Sweep, SweepStart, SweepResync, SweepResave, SweepRecover, SweepRecoverSave
<1>6. CASE \E c \in Cancels : CancelLoad(c)
  BY <1>6 DEF Serially
<1>7. CASE \/ \E h \in Hooks : \E e \in Events : HookReceive(h, e)
           \/ \E h \in Handlers : CallFails(h)
           \/ Pay \/ LinkExpire \/ \E e \in Events : Emit(e)
           \/ Crash \/ Tick \/ UNCHANGED vars
  BY <1>7, AbstractStutter
     DEF HookReceive, CallFails, Pay, LinkExpire, Emit, Crash, Tick, vars
<1> QED
  BY <1>1, <1>2, <1>3, <1>4, <1>5, <1>6, <1>7 DEF Next

(* Run one handler at a time, the money path keeps the promise of          *)
(* OrderLifecycle: legal transitions only, paid by captured money only,    *)
(* one hold, settled once and before the order ends.                       *)
THEOREM SerialRefines == ASSUME Serially PROVE Spec => KeepsLifecycle
<1>1. Init => Abstract!AbstractInit
  BY MoneyStages DEF Init, Abstract!AbstractInit
<1>2. TypeOK /\ SerialInv /\ SerialInv' /\ [Next]_vars
        => [Abstract!AbstractNext]_Abstract!abstractVars
  BY SerialStep DEF Abstract!abstractVars
<1> QED
  BY <1>1, <1>2, SerialCorrect, TypeCorrect, PTL DEF Spec, KeepsLifecycle, Abstract!AbstractSpec
==============================================================================

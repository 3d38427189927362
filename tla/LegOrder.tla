------------------------------ MODULE LegOrder ------------------------------
(***************************************************************************)
(* One call of _place_and_monitor_leg (lifecycle/zerodha_executor.py): the *)
(* executor sends one leg to Kite, waits for it, reprices it, falls back   *)
(* to a MARKET order, and reports what filled.  The exchange runs beside   *)
(* it and may fill or kill a live order between any two calls.             *)
(*                                                                         *)
(* The order placed by attempt a (0-based) is order a + 1.  REJECTED and   *)
(* CANCELLED, which the code keeps together in _TERMINAL_FAIL, are one     *)
(* status, "DEAD".  Prices, quotes and tags are left out.                  *)
(***************************************************************************)
EXTENDS Integers

CONSTANTS
  Qty,          \* planned quantity of the leg, in lots
  MaxRetries,   \* ExecutionProfile.max_retries
  AllowMarket   \* ExecutionProfile.allow_market_fallback

ASSUME LegOrderAssumption ==
  /\ Qty \in Nat \ {0}
  /\ MaxRetries \in Nat
  /\ AllowMarket \in BOOLEAN

VARIABLES
  ord,      \* the leg's orders at the exchange
  pc,       \* where the call is
  attempt,  \* loop variable of the retry loop
  oid,      \* local order_id, 0 is None
  last,     \* filled_quantity of the last non-terminal row polled
  row,      \* the leg's row in options_broker_orders
  out,      \* what the call returned or raised
  lost      \* history: a call about a live order raised although it took,
            \* or a cancel of a live order raised and was swallowed

vars == <<ord, pc, attempt, oid, last, row, out, lost>>

OrderId  == 1 .. MaxRetries + 1
Pending  == {"PENDING", "OPEN"}
Final    == {"COMPLETE", "PARTIAL", "FAILED"}
NoOrder  == [st |-> "none", filled |-> 0]
NewOrder == [st |-> "OPEN", filled |-> 0]

TypeOK ==
  /\ ord \in [OrderId -> [st : {"none", "OPEN", "COMPLETE", "DEAD"}, filled : 0 .. Qty]]
  /\ pc \in {"insert", "send", "wait", "failed", "cancel", "done"}
  /\ attempt \in 0 .. MaxRetries
  /\ oid \in 0 .. MaxRetries + 1
  /\ last \in 0 .. Qty
  /\ row \in [st : Pending \cup Final \cup {"DEAD"}, kite : 0 .. MaxRetries + 1, filled : 0 .. Qty]
  /\ out \in [res : {"none", "filled", "partial", "failed"}, filled : 0 .. Qty]
  /\ lost \in BOOLEAN

Init ==
  /\ ord = [o \in OrderId |-> NoOrder]
  /\ pc = "insert"
  /\ attempt = 0
  /\ oid = 0
  /\ last = 0
  /\ row = [st |-> "PENDING", kite |-> 0, filled |-> 0]
  /\ out = [res |-> "none", filled |-> 0]
  /\ lost = FALSE

-----------------------------------------------------------------------------
(* The exchange: the environment, as the executor meets it. *)

Fill(o) ==
  /\ ord[o].st = "OPEN"
  /\ LET n == ord[o].filled + 1
     IN  ord' = [ord EXCEPT ![o] = [st |-> IF n = Qty THEN "COMPLETE" ELSE "OPEN", filled |-> n]]
  /\ UNCHANGED <<pc, attempt, oid, last, row, out, lost>>

\* Rejected by risk management, cancelled in the Kite app, or an IOC remainder.
Kill(o) ==
  /\ ord[o].st = "OPEN"
  /\ ord' = [ord EXCEPT ![o].st = "DEAD"]
  /\ UNCHANGED <<pc, attempt, oid, last, row, out, lost>>

\* cancel_order inside try/except: a live order dies, or the call raises and
\* the exception is swallowed; an order already final is left alone.
AfterCancel(o) ==
  {ord, [ord EXCEPT ![o].st = IF @ = "OPEN" THEN "DEAD" ELSE @]}

-----------------------------------------------------------------------------
(* The executor. *)

UseMarket == AllowMarket /\ attempt = MaxRetries

\* Mutant: the failure path forgets to settle the row.
ReturnUnsettled(st, res, n) ==
  /\ row' = IF st = "FAILED" THEN row ELSE [row EXCEPT !.st = st, !.filled = n]
  /\ out' = [res |-> res, filled |-> n]
  /\ pc' = "done"
  /\ UNCHANGED <<attempt, oid, last>>

Return(st, res, n) ==
  /\ row' = [row EXCEPT !.st = st, !.filled = IF st = "FAILED" THEN @ ELSE n]
  /\ out' = [res |-> res, filled |-> n]
  /\ pc' = "done"
  /\ UNCHANGED <<attempt, oid, last>>

\* A fresh order of the whole quantity, whatever earlier orders filled.
Sent(orders) == [orders EXCEPT ![attempt + 1] = NewOrder]

AwaitNew ==
  /\ oid' = attempt + 1
  /\ row' = [row EXCEPT !.st = "OPEN", !.kite = attempt + 1]
  /\ last' = 0
  /\ pc' = "wait"
  /\ UNCHANGED <<attempt, out>>

\* The PENDING row is committed, then committed again as OPEN.
InsertRow ==
  /\ pc = "insert"
  /\ row' = [row EXCEPT !.st = "OPEN"]
  /\ pc' = "send"
  /\ UNCHANGED <<ord, attempt, oid, last, out, lost>>

PlaceOrder ==
  /\ pc = "send" /\ oid = 0
  /\ ord' = Sent(ord)
  /\ AwaitNew
  /\ UNCHANGED lost

\* place_order raises: refused, or accepted with the reply lost.
PlaceRaises ==
  /\ pc = "send" /\ oid = 0
  /\ \E accepted \in BOOLEAN :
       /\ ord' = IF accepted THEN Sent(ord) ELSE ord
       /\ lost' = (lost \/ accepted)
  /\ Return("FAILED", "failed", 0)

\* Last attempt of a profile with a market fallback: cancel, then a new order.
MarketFallback ==
  /\ pc = "send" /\ oid # 0 /\ UseMarket
  /\ \E cancelled \in AfterCancel(oid) :
       /\ ord' = Sent(cancelled)
       /\ lost' = (lost \/ cancelled[oid].st = "OPEN")
  /\ AwaitNew

\* ... whose place_order raises; the handler cancels the old order again.
MarketRaises ==
  /\ pc = "send" /\ oid # 0 /\ UseMarket
  /\ \E cancelled \in AfterCancel(oid), accepted \in BOOLEAN :
       /\ ord' = IF accepted THEN Sent(cancelled) ELSE cancelled
       /\ lost' = (lost \/ accepted \/ cancelled[oid].st = "OPEN")
  /\ Return("FAILED", "failed", 0)

ModifyOrder ==
  /\ pc = "send" /\ oid # 0 /\ ~UseMarket
  /\ ord[oid].st = "OPEN"
  /\ row' = [row EXCEPT !.st = "OPEN"]
  /\ last' = 0
  /\ pc' = "wait"
  /\ UNCHANGED <<ord, attempt, oid, out, lost>>

\* modify_order raises (a network error, or the order is final): the call ends.
ModifyRaises ==
  /\ pc = "send" /\ oid # 0 /\ ~UseMarket
  /\ \E cancelled \in AfterCancel(oid) :
       /\ ord' = cancelled
       /\ lost' = (lost \/ cancelled[oid].st = "OPEN")
  /\ Return("FAILED", "failed", 0)

Poll ==
  /\ pc = "wait" /\ ord[oid].st = "OPEN"
  /\ last' = ord[oid].filled
  /\ UNCHANGED <<ord, pc, attempt, oid, row, out, lost>>

SeeComplete ==
  /\ pc = "wait" /\ ord[oid].st = "COMPLETE"
  /\ Return("COMPLETE", "filled", ord[oid].filled)
  /\ UNCHANGED <<ord, lost>>

\* Mutant: any fill of a dead order counts as the leg filled.
SeeDeadAsFilled ==
  /\ pc = "wait" /\ ord[oid].st = "DEAD" /\ ord[oid].filled > 0
  /\ Return("COMPLETE", "filled", ord[oid].filled)
  /\ UNCHANGED <<ord, lost>>

SeeDeadPartial ==
  /\ pc = "wait" /\ ord[oid].st = "DEAD" /\ ord[oid].filled > 0
  /\ Return("PARTIAL", "partial", ord[oid].filled)
  /\ UNCHANGED <<ord, lost>>

SeeDeadUnfilled ==
  /\ pc = "wait" /\ ord[oid].st = "DEAD" /\ ord[oid].filled = 0
  /\ row' = [row EXCEPT !.st = "DEAD", !.filled = 0]
  /\ pc' = "failed"
  /\ UNCHANGED <<ord, attempt, oid, last, out, lost>>

\* Mutant: the planned quantity is reported for a partial fill.
DeadlineReportsPlanned ==
  /\ pc = "wait" /\ last > 0
  /\ \E cancelled \in AfterCancel(oid) :
       /\ ord' = cancelled
       /\ lost' = (lost \/ cancelled[oid].st = "OPEN")
  /\ Return("PARTIAL", "partial", Qty)

\* order_max_wait_sec elapsed; the last row polled showed a fill.
DeadlinePartial ==
  /\ pc = "wait" /\ last > 0
  /\ \E cancelled \in AfterCancel(oid) :
       /\ ord' = cancelled
       /\ lost' = (lost \/ cancelled[oid].st = "OPEN")
  /\ Return("PARTIAL", "partial", last)

\* Mutant: the deadline is renewed instead of ending the wait.
DeadlineRenewed ==
  /\ pc = "wait" /\ last = 0
  /\ UNCHANGED vars

\* ... it showed none, or every poll failed: TimeoutError.
DeadlineUnfilled ==
  /\ pc = "wait" /\ last = 0
  /\ pc' = "failed"
  /\ UNCHANGED <<ord, attempt, oid, last, row, out, lost>>

\* Mutant: an order whose history can be read counts as dead.
IsKnown(o) == ord[o].st \in {"OPEN", "COMPLETE", "DEAD"}

\* _kite_order_is_dead: a COMPLETE order counts as dead too.
IsDead(o) == ord[o].st \in {"COMPLETE", "DEAD"}

Retry ==
  /\ pc = "failed" /\ attempt < MaxRetries
  /\ \E readable \in BOOLEAN : oid' = IF readable /\ IsDead(oid) THEN 0 ELSE oid
  /\ attempt' = attempt + 1
  /\ row' = [row EXCEPT !.st = "OPEN"]
  /\ pc' = "send"
  /\ UNCHANGED <<ord, last, out, lost>>

\* Last attempt spent: the row is FAILED, then the history is read once more.
GiveUpFilled ==
  /\ pc = "failed" /\ attempt = MaxRetries
  /\ ord[oid].filled > 0
  /\ Return("FAILED", "partial", ord[oid].filled)
  /\ UNCHANGED <<ord, lost>>

GiveUpUnfilled ==
  /\ pc = "failed" /\ attempt = MaxRetries
  /\ ord[oid].filled = 0
  /\ row' = [row EXCEPT !.st = "FAILED"]
  /\ pc' = "cancel"
  /\ UNCHANGED <<ord, attempt, oid, last, out, lost>>

GiveUpUnreadable ==
  /\ pc = "failed" /\ attempt = MaxRetries
  /\ lost' = (lost \/ ord[oid].st = "OPEN")
  /\ Return("FAILED", "failed", 0)
  /\ UNCHANGED ord

\* Mutant: the last order is not cancelled.
ForgetLast ==
  /\ pc = "cancel"
  /\ Return("FAILED", "failed", 0)
  /\ UNCHANGED <<ord, lost>>

CancelLast ==
  /\ pc = "cancel"
  /\ \E cancelled \in AfterCancel(oid) :
       /\ ord' = cancelled
       /\ lost' = (lost \/ cancelled[oid].st = "OPEN")
  /\ Return("FAILED", "failed", 0)

-----------------------------------------------------------------------------
Executor ==
  \/ InsertRow \/ PlaceOrder \/ PlaceRaises \/ MarketFallback \/ MarketRaises
  \/ ModifyOrder \/ ModifyRaises \/ Poll \/ SeeComplete \/ SeeDeadPartial
  \/ SeeDeadUnfilled \/ DeadlinePartial \/ DeadlineUnfilled \/ Retry
  \/ GiveUpFilled \/ GiveUpUnfilled \/ GiveUpUnreadable \/ CancelLast

Exchange == \E o \in OrderId : Fill(o) \/ Kill(o)

Next == Executor \/ Exchange

\* The worker thread keeps running and every wait has a deadline; the exchange
\* owes nothing.
Spec == Init /\ [][Next]_vars /\ WF_vars(Executor)

-----------------------------------------------------------------------------
(* Properties. *)

\* When the call is over its row no longer counts as in flight: a row left
\* PENDING or OPEN would refuse every later entry and close of the target
\* (_assert_execution_not_in_flight) with nothing left to finish it.
RowSettled == pc = "done" => row.st \in Final

\* The caller sizes the reversal of a leg by the fill reported to it: it never
\* exceeds what the order named by the row filled, so flattening what was
\* reported cannot open the opposite position.
ReportedFillIsReal ==
  out.filled > 0 => row.kite # 0 /\ out.filled <= ord[row.kite].filled

\* The orphan guard reads COMPLETE rows only: a COMPLETE row is exactly a call
\* that returned a fill of the whole quantity, held by the order it names.
CompleteRowIsWhole ==
  /\ row.st = "COMPLETE" <=> out.res = "filled"
  /\ row.st = "COMPLETE" => ord[row.kite] = [st |-> "COMPLETE", filled |-> Qty]

\* A retry replaces an order only after it died: an earlier order is never
\* live beside the current one unless a call about it was lost.
OnlyCurrentOrderLive ==
  \A o \in OrderId : ord[o].st = "OPEN" /\ o # oid => lost

\* A call that is over leaves an order working at the exchange only if a call
\* about it was lost, or on the one path that forgets it: the partial fill
\* found by the last history read, whose remainder is not cancelled.
LiveOrderLeft ==
  pc = "done" /\ (\E o \in OrderId : ord[o].st = "OPEN")
    => lost \/ (row.st = "FAILED" /\ out.res = "partial")

\* Whatever the exchange does, the call returns: attempts are bounded and every
\* wait has a deadline.
Terminates == <>(pc = "done")

-----------------------------------------------------------------------------
(* Strengthening used by the proofs of LegOrder_proofs. *)

\* Orders exist only for attempts already sent, and at most Qty fills.
OrdersShape ==
  /\ \A o \in OrderId : o > attempt + 1 => ord[o] = NoOrder
  /\ \A o \in OrderId : ord[o].st = "COMPLETE" => ord[o].filled = Qty
  /\ \A o \in OrderId : ord[o].st = "OPEN" => ord[o].filled < Qty

\* The order the executor works on is the one its row names, and it was sent.
OrderTracked ==
  /\ oid # 0 => row.kite = oid /\ oid <= attempt + 1 /\ ord[oid].st # "none"
  /\ pc \in {"wait", "failed", "cancel"} => oid # 0
  /\ pc \in {"insert", "send"} => ord[attempt + 1] = NoOrder
  /\ pc = "wait" => last <= ord[oid].filled

OutcomeTracked ==
  /\ pc # "done" => out = [res |-> "none", filled |-> 0] /\ row.st \in Pending \cup {"DEAD", "FAILED"}
  /\ pc = "done" => out.res # "none"
  /\ row.st = "COMPLETE" => row.kite \in OrderId

IInv ==
  /\ TypeOK /\ OrdersShape /\ OrderTracked /\ OutcomeTracked
  /\ RowSettled /\ ReportedFillIsReal /\ CompleteRowIsWhole
  /\ OnlyCurrentOrderLive /\ LiveOrderLeft
=============================================================================

-------------------------- MODULE LegOrder_proofs --------------------------
(***************************************************************************)
(* Proofs about LegOrder, for every quantity, number of retries and        *)
(* execution profile.  IInv is inductive; the safety properties of the     *)
(* call are its conjuncts.                                                 *)
(***************************************************************************)
EXTENDS LegOrder, TLAPS

Order   == [st : {"none", "OPEN", "COMPLETE", "DEAD"}, filled : 0 .. Qty]
Row     == [st : Pending \cup Final \cup {"DEAD"}, kite : 0 .. MaxRetries + 1, filled : 0 .. Qty]
Outcome == [res : {"none", "filled", "partial", "failed"}, filled : 0 .. Qty]

\* f is ord with some live orders killed: what a cancel may leave behind.
Killed(f) ==
  /\ f \in [OrderId -> Order]
  /\ \A p \in OrderId :
       /\ f[p].filled = ord[p].filled
       /\ ord[p].st # "OPEN" => f[p] = ord[p]
       /\ f[p].st \in {ord[p].st, "DEAD"}

-----------------------------------------------------------------------------
(* The operators the actions are built from. *)

\* A cancel, whether it took or was swallowed, only kills the order it names.
LEMMA CancelFacts ==
  ASSUME TypeOK, NEW o \in OrderId, NEW c \in AfterCancel(o)
  PROVE  /\ Killed(c)
         /\ \A p \in OrderId : p # o => c[p] = ord[p]
BY DEF AfterCancel, TypeOK, Order, Killed

\* Sending an order adds it under the attempt's number and touches no other.
LEMMA SentFacts ==
  ASSUME NEW f \in [OrderId -> Order], attempt \in 0 .. MaxRetries
  PROVE  /\ Sent(f) \in [OrderId -> Order]
         /\ \A p \in OrderId : p # attempt + 1 => Sent(f)[p] = f[p]
         /\ Sent(f)[attempt + 1] = NewOrder
         /\ attempt + 1 \in OrderId
BY LegOrderAssumption DEF Sent, Order, NewOrder, OrderId

\* Returning writes the row and the outcome and ends the call.
LEMMA ReturnFacts ==
  ASSUME TypeOK, NEW st \in Final, NEW res \in {"filled", "partial", "failed"},
         NEW n \in 0 .. Qty, Return(st, res, n)
  PROVE  /\ row' \in Row /\ row'.st = st /\ row'.kite = row.kite
         /\ out' \in Outcome /\ out'.res = res /\ out'.filled = n
         /\ pc' = "done" /\ attempt' = attempt /\ oid' = oid /\ last' = last
BY DEF Return, TypeOK, Row, Outcome

\* The integers the invariants compare.
LEMMA Numbers ==
  ASSUME TypeOK
  PROVE  /\ attempt \in Nat /\ oid \in Nat /\ MaxRetries \in Nat /\ Qty \in Nat /\ Qty > 0
         /\ \A o \in OrderId : o \in Nat /\ ord[o].filled \in Nat
         /\ oid # 0 => oid \in OrderId
         /\ attempt + 1 \in OrderId
         /\ 0 \in 0 .. Qty /\ Qty \in 0 .. Qty
         /\ ord \in [OrderId -> Order]
BY LegOrderAssumption DEF TypeOK, OrderId, Order

\* Killing live orders keeps their shape.
LEMMA KilledShape ==
  ASSUME TypeOK, OrdersShape, Killed(ord'), attempt' = attempt
  PROVE  OrdersShape'
<1>1. \A o \in OrderId : o > attempt + 1 => ord'[o] = NoOrder
  BY DEF OrdersShape, Killed, NoOrder
<1>2. \A o \in OrderId : ord'[o].st = "COMPLETE" => ord'[o].filled = Qty
  BY DEF OrdersShape, Killed
<1>3. \A o \in OrderId : ord'[o].st = "OPEN" => ord'[o].filled < Qty
  BY DEF OrdersShape, Killed
<1> QED BY <1>1, <1>2, <1>3 DEF OrdersShape

-----------------------------------------------------------------------------
(* Groups of actions that end or continue the call the same way. *)

\* A call that ends without a whole fill, after at most a cancel attempt on its
\* current order.
LEMMA CancelReturn ==
  ASSUME IInv, oid # 0, NEW c \in AfterCancel(oid), ord' = c,
         lost' = (lost \/ c[oid].st = "OPEN"),
         NEW st \in {"PARTIAL", "FAILED"}, NEW res \in {"partial", "failed"},
         NEW n \in 0 .. Qty, n <= ord[oid].filled, Return(st, res, n)
  PROVE  IInv'
<1> USE DEF IInv
<1>1. oid \in OrderId /\ row.kite = oid
  BY Numbers DEF OrderTracked
<1>2. /\ Killed(ord')
      /\ \A p \in OrderId : p # oid => ord'[p] = ord[p]
  BY <1>1, CancelFacts
<1>3. /\ row' \in Row /\ row'.st = st /\ row'.kite = row.kite
      /\ out' \in Outcome /\ out'.res = res /\ out'.filled = n
      /\ pc' = "done" /\ attempt' = attempt /\ oid' = oid /\ last' = last
  BY ReturnFacts DEF Final
<1>4. TypeOK'
  BY <1>2, <1>3 DEF TypeOK, Order, Row, Outcome, Killed
<1>5. OrdersShape'
  BY <1>2, <1>3, KilledShape
<1>6. OrderTracked'
  BY <1>1, <1>2, <1>3 DEF OrderTracked, Killed
<1>7. OutcomeTracked' /\ RowSettled' /\ CompleteRowIsWhole'
  BY <1>1, <1>3 DEF OutcomeTracked, RowSettled, CompleteRowIsWhole, Final
<1>8. ReportedFillIsReal'
  BY <1>1, <1>2, <1>3 DEF ReportedFillIsReal, Killed
<1>9. OnlyCurrentOrderLive' /\ LiveOrderLeft'
  BY <1>1, <1>2, <1>3 DEF OnlyCurrentOrderLive, LiveOrderLeft
<1> QED BY <1>4, <1>5, <1>6, <1>7, <1>8, <1>9

\* A new order sent over f, every live order of which is already counted lost.
LEMMA SendNew ==
  ASSUME IInv, pc = "send", NEW f, Killed(f), ord' = Sent(f), AwaitNew,
         lost' \in BOOLEAN, \A p \in OrderId : f[p].st = "OPEN" => lost'
  PROVE  IInv'
<1> USE DEF IInv
<1>1. /\ ord' \in [OrderId -> Order]
      /\ \A p \in OrderId : p # attempt + 1 => ord'[p] = f[p]
      /\ ord'[attempt + 1] = NewOrder
      /\ attempt + 1 \in OrderId
  BY SentFacts DEF Killed, TypeOK
<1>2. /\ row' \in Row /\ row'.st = "OPEN" /\ row'.kite = attempt + 1
      /\ oid' = attempt + 1 /\ last' = 0 /\ pc' = "wait"
      /\ attempt' = attempt /\ out' = out
  <2>1. attempt + 1 \in 0 .. MaxRetries + 1
    BY LegOrderAssumption DEF TypeOK
  <2> QED BY <2>1 DEF AwaitNew, TypeOK, Row, Pending
<1>3. TypeOK'
  BY <1>1, <1>2, LegOrderAssumption DEF TypeOK, Order, Row, OrderId
<1>4. OrdersShape'
  BY <1>1, <1>2, Numbers DEF OrdersShape, Killed, NewOrder, NoOrder
<1>5. OrderTracked'
  BY <1>1, <1>2, Numbers DEF OrderTracked, NewOrder
<1>6. OutcomeTracked' /\ RowSettled' /\ CompleteRowIsWhole' /\ ReportedFillIsReal'
  BY <1>2 DEF OutcomeTracked, RowSettled, CompleteRowIsWhole, ReportedFillIsReal, Pending
<1>7. OnlyCurrentOrderLive' /\ LiveOrderLeft'
  BY <1>1, <1>2 DEF OnlyCurrentOrderLive, LiveOrderLeft
<1> QED BY <1>3, <1>4, <1>5, <1>6, <1>7

\* place_order raises over f: the order is there only if its reply was lost.
LEMMA SendRaises ==
  ASSUME IInv, pc = "send", NEW f, Killed(f), NEW accepted \in BOOLEAN,
         ord' = IF accepted THEN Sent(f) ELSE f, accepted => lost',
         lost' \in BOOLEAN, \A p \in OrderId : f[p].st = "OPEN" => lost',
         Return("FAILED", "failed", 0)
  PROVE  IInv'
<1> USE DEF IInv
<1>1. /\ row' \in Row /\ row'.st = "FAILED" /\ row'.kite = row.kite
      /\ out' \in Outcome /\ out'.res = "failed" /\ out'.filled = 0
      /\ pc' = "done" /\ attempt' = attempt /\ oid' = oid /\ last' = last
  BY ReturnFacts, Numbers DEF Final
<1>2. \A p \in OrderId : ord'[p].st = "OPEN" => lost'
  BY SentFacts DEF Killed, TypeOK
<1>3. OutcomeTracked' /\ RowSettled' /\ CompleteRowIsWhole' /\ ReportedFillIsReal'
  BY <1>1 DEF OutcomeTracked, RowSettled, CompleteRowIsWhole, ReportedFillIsReal, Final
<1>4. OnlyCurrentOrderLive' /\ LiveOrderLeft'
  BY <1>1, <1>2 DEF OnlyCurrentOrderLive, LiveOrderLeft
<1>5. CASE ~accepted
  <2>1. Killed(ord')
    BY <1>5
  <2>2. TypeOK'
    BY <1>1, <2>1 DEF TypeOK, Order, Row, Outcome, Killed
  <2>3. OrdersShape'
    BY <1>1, <2>1, KilledShape
  <2>4. OrderTracked'
    BY <1>1, <2>1, Numbers DEF OrderTracked, Killed
  <2> QED BY <1>3, <1>4, <2>2, <2>3, <2>4
<1>6. CASE accepted
  <2>1. /\ ord' \in [OrderId -> Order]
        /\ \A p \in OrderId : p # attempt + 1 => ord'[p] = f[p]
        /\ ord'[attempt + 1] = NewOrder
        /\ attempt + 1 \in OrderId
    BY <1>6, SentFacts DEF Killed, TypeOK
  <2>2. TypeOK'
    BY <1>1, <2>1 DEF TypeOK, Order, Row, Outcome
  <2>3. OrdersShape'
    BY <1>1, <2>1, Numbers DEF OrdersShape, Killed, NewOrder, NoOrder
  <2>4. OrderTracked'
    BY <1>1, <2>1, Numbers DEF OrderTracked, Killed, NewOrder
  <2> QED BY <1>3, <1>4, <2>2, <2>3, <2>4
<1> QED BY <1>5, <1>6

-----------------------------------------------------------------------------
(* The steps. *)

LEMMA InitIInv == ASSUME Init PROVE IInv
<1> USE LegOrderAssumption DEF Init
<1>1. TypeOK
  <2>1. ord \in [OrderId -> [st : {"none", "OPEN", "COMPLETE", "DEAD"}, filled : 0 .. Qty]]
    BY DEF NoOrder
  <2>2. row \in [st : Pending \cup Final \cup {"DEAD"}, kite : 0 .. MaxRetries + 1, filled : 0 .. Qty]
    BY DEF Pending
  <2>3. out \in [res : {"none", "filled", "partial", "failed"}, filled : 0 .. Qty]
    OBVIOUS
  <2>4. pc \in {"insert", "send", "wait", "failed", "cancel", "done"} /\ lost \in BOOLEAN
    OBVIOUS
  <2>5. attempt \in 0 .. MaxRetries /\ oid \in 0 .. MaxRetries + 1 /\ last \in 0 .. Qty
    OBVIOUS
  <2> QED BY ONLY <2>1, <2>2, <2>3, <2>4, <2>5 DEF TypeOK
<1>2. OrdersShape
  BY DEF OrdersShape, NoOrder
<1>3. OrderTracked
  BY DEF OrderTracked, OrderId
<1>4. OutcomeTracked /\ RowSettled
  BY DEF OutcomeTracked, RowSettled, Pending
<1>5. ReportedFillIsReal /\ CompleteRowIsWhole
  BY DEF ReportedFillIsReal, CompleteRowIsWhole
<1>6. OnlyCurrentOrderLive /\ LiveOrderLeft
  BY DEF OnlyCurrentOrderLive, LiveOrderLeft, NoOrder
<1> QED BY <1>1, <1>2, <1>3, <1>4, <1>5, <1>6 DEF IInv

LEMMA ExchangeIInv == ASSUME IInv, Exchange PROVE IInv'
<1> USE DEF IInv
<1>1. PICK o \in OrderId : Fill(o) \/ Kill(o)
  BY DEF Exchange
<1>2. /\ ord[o].st = "OPEN"
      /\ ord' \in [OrderId -> Order]
      /\ \A p \in OrderId : p # o => ord'[p] = ord[p]
      /\ ord'[o].filled \in ord[o].filled .. Qty
      /\ ord'[o].st = "COMPLETE" => ord'[o].filled = Qty
      /\ ord'[o].st = "OPEN" => ord'[o].filled < Qty
      /\ ord'[o].st # "none"
      /\ UNCHANGED <<pc, attempt, oid, last, row, out, lost>>
  <2>1. CASE Fill(o)
    <3>1. ord[o].filled + 1 \in 0 .. Qty
      BY <2>1, Numbers DEF Fill, OrdersShape
    <3> QED BY <2>1, <3>1, Numbers DEF Fill, Order
  <2>2. CASE Kill(o)
    BY <2>2, Numbers DEF Kill, Order, TypeOK
  <2> QED BY <1>1, <2>1, <2>2
<1>3. TypeOK'
  BY <1>2 DEF TypeOK, Order
<1>4. OrdersShape'
  BY <1>2, Numbers DEF OrdersShape, NoOrder
<1>5. OrderTracked'
  <2>1. \A p \in OrderId : ord[p].filled <= ord'[p].filled /\ ord'[p].filled \in Nat
    BY <1>2, Numbers DEF TypeOK
  <2>2. oid # 0 => row.kite = oid /\ oid <= attempt + 1 /\ ord'[oid].st # "none"
    BY <1>2, Numbers DEF OrderTracked
  <2>3. pc \in {"insert", "send"} => ord'[attempt + 1] = NoOrder
    BY <1>2, Numbers DEF OrderTracked, NoOrder
  <2>4. pc = "wait" => last <= ord'[oid].filled
    <3>1. last \in Nat
      BY LegOrderAssumption DEF TypeOK
    <3> QED BY <2>1, <3>1, Numbers DEF OrderTracked
  <2> QED BY <1>2, <2>2, <2>3, <2>4 DEF OrderTracked
<1>6. OutcomeTracked' /\ RowSettled'
  BY <1>2 DEF OutcomeTracked, RowSettled
<1>7. ReportedFillIsReal'
  <2>1. row.kite # 0 => row.kite \in OrderId
    BY LegOrderAssumption DEF TypeOK, OrderId
  <2>2. out.filled \in Nat /\ \A p \in OrderId : ord[p].filled \in Nat /\ ord'[p].filled \in Nat
    BY <1>2, LegOrderAssumption DEF TypeOK, Order
  <2>3. \A p \in OrderId : ord[p].filled <= ord'[p].filled
    BY <1>2, <2>2, LegOrderAssumption
  <2> QED BY <1>2, <2>1, <2>2, <2>3 DEF ReportedFillIsReal
<1>8. CompleteRowIsWhole'
  <2>1. row.st = "COMPLETE" => row.kite # o
    BY <1>2 DEF CompleteRowIsWhole
  <2>2. row.st = "COMPLETE" => row.kite \in OrderId
    BY DEF OutcomeTracked
  <2> QED BY <1>2, <2>1, <2>2 DEF CompleteRowIsWhole
<1>9. OnlyCurrentOrderLive' /\ LiveOrderLeft'
  BY <1>2 DEF OnlyCurrentOrderLive, LiveOrderLeft
<1> QED BY <1>3, <1>4, <1>5, <1>6, <1>7, <1>8, <1>9

LEMMA CallStarts == ASSUME IInv, InsertRow PROVE IInv'
<1> USE DEF IInv, InsertRow
<1>1. TypeOK'
  BY DEF TypeOK, Pending
<1>2. OrdersShape' /\ OrderTracked'
  BY DEF OrdersShape, OrderTracked, TypeOK
<1>3. OutcomeTracked' /\ RowSettled' /\ ReportedFillIsReal' /\ CompleteRowIsWhole'
  BY DEF OutcomeTracked, RowSettled, ReportedFillIsReal, CompleteRowIsWhole, TypeOK, Pending
<1>4. OnlyCurrentOrderLive' /\ LiveOrderLeft'
  BY DEF OnlyCurrentOrderLive, LiveOrderLeft
<1> QED BY <1>1, <1>2, <1>3, <1>4

LEMMA SendSteps ==
  ASSUME IInv, PlaceOrder \/ PlaceRaises \/ MarketFallback \/ MarketRaises
  PROVE  IInv'
<1> USE DEF IInv
<1>1. Killed(ord)
  BY Numbers DEF Killed
<1>2. ASSUME oid = 0, NEW p \in OrderId, ord[p].st = "OPEN" PROVE lost
  BY <1>2, LegOrderAssumption DEF OnlyCurrentOrderLive, OrderId
<1>3. ASSUME oid # 0, NEW c \in AfterCancel(oid), NEW p \in OrderId, c[p].st = "OPEN"
      PROVE  lost \/ c[oid].st = "OPEN"
  BY <1>3, CancelFacts, Numbers DEF OnlyCurrentOrderLive
<1>4. CASE PlaceOrder
  BY <1>1, <1>2, <1>4, SendNew DEF PlaceOrder, TypeOK
<1>5. CASE PlaceRaises
  <2>1. PICK accepted \in BOOLEAN :
          /\ ord' = IF accepted THEN Sent(ord) ELSE ord
          /\ lost' = (lost \/ accepted)
    BY <1>5 DEF PlaceRaises
  <2>2. pc = "send" /\ oid = 0 /\ Return("FAILED", "failed", 0)
    BY <1>5 DEF PlaceRaises
  <2>3. lost' \in BOOLEAN /\ (accepted => lost') /\ (lost => lost')
    BY <2>1 DEF TypeOK
  <2> QED BY <1>1, <1>2, <2>1, <2>2, <2>3, SendRaises
<1>6. CASE MarketFallback
  <2>1. PICK c \in AfterCancel(oid) :
          ord' = Sent(c) /\ lost' = (lost \/ c[oid].st = "OPEN")
    BY <1>6 DEF MarketFallback
  <2>2. pc = "send" /\ oid # 0 /\ AwaitNew
    BY <1>6 DEF MarketFallback
  <2>3. Killed(c)
    BY <2>2, CancelFacts, Numbers
  <2>4. \A p \in OrderId : c[p].st = "OPEN" => lost'
    BY <1>3, <2>1, <2>2
  <2> QED BY <2>1, <2>2, <2>3, <2>4, SendNew DEF TypeOK
<1>7. CASE MarketRaises
  <2>1. PICK c \in AfterCancel(oid), accepted \in BOOLEAN :
          /\ ord' = IF accepted THEN Sent(c) ELSE c
          /\ lost' = (lost \/ accepted \/ c[oid].st = "OPEN")
    BY <1>7 DEF MarketRaises
  <2>2. pc = "send" /\ oid # 0 /\ Return("FAILED", "failed", 0)
    BY <1>7 DEF MarketRaises
  <2>3. Killed(c)
    BY <2>2, CancelFacts, Numbers
  <2>4. \A p \in OrderId : c[p].st = "OPEN" => lost'
    BY <1>3, <2>1, <2>2
  <2>5. lost' \in BOOLEAN /\ (accepted => lost')
    BY <2>1 DEF TypeOK
  <2> QED BY <2>1, <2>2, <2>3, <2>4, <2>5, SendRaises
<1> QED BY <1>4, <1>5, <1>6, <1>7

\* Steps that leave the exchange alone and keep the call going.
LEMMA WaitSteps ==
  ASSUME IInv, ModifyOrder \/ Poll \/ SeeDeadUnfilled \/ DeadlineUnfilled \/ Retry \/ GiveUpUnfilled
  PROVE  IInv'
<1> USE DEF IInv
<1>1. ModifyOrder => IInv'
  BY LegOrderAssumption DEF ModifyOrder, TypeOK, OrdersShape, OrderTracked, OutcomeTracked, RowSettled,
     ReportedFillIsReal, CompleteRowIsWhole, OnlyCurrentOrderLive, LiveOrderLeft, OrderId, Pending, Final
<1>2. Poll => IInv'
  BY LegOrderAssumption DEF Poll, TypeOK, OrdersShape, OrderTracked, OutcomeTracked, RowSettled,
     ReportedFillIsReal, CompleteRowIsWhole, OnlyCurrentOrderLive, LiveOrderLeft, OrderId
<1>3. CASE SeeDeadUnfilled
  <2>1. /\ row' \in Row /\ row'.st = "DEAD" /\ row'.kite = row.kite
        /\ pc = "wait" /\ pc' = "failed" /\ UNCHANGED <<ord, attempt, oid, last, out, lost>>
    <3>1. row \in Row /\ 0 \in 0 .. Qty
      BY Numbers DEF TypeOK, Row
    <3>2. row' = [row EXCEPT !.st = "DEAD", !.filled = 0]
      BY <1>3 DEF SeeDeadUnfilled
    <3>3. row' \in Row /\ row'.st = "DEAD" /\ row'.kite = row.kite
      BY ONLY <3>1, <3>2 DEF Row
    <3> QED BY <1>3, <3>3 DEF SeeDeadUnfilled
  <2>2. TypeOK'
    BY <2>1 DEF TypeOK, Row
  <2>3. OrdersShape' /\ OrderTracked'
    BY <2>1 DEF OrdersShape, OrderTracked
  <2>4. OutcomeTracked' /\ RowSettled' /\ ReportedFillIsReal' /\ CompleteRowIsWhole'
    BY <2>1 DEF OutcomeTracked, RowSettled, ReportedFillIsReal, CompleteRowIsWhole
  <2>5. OnlyCurrentOrderLive' /\ LiveOrderLeft'
    BY <2>1 DEF OnlyCurrentOrderLive, LiveOrderLeft
  <2> QED BY <2>2, <2>3, <2>4, <2>5
<1>4. DeadlineUnfilled => IInv'
  BY DEF DeadlineUnfilled, TypeOK, OrdersShape, OrderTracked, OutcomeTracked, RowSettled,
     ReportedFillIsReal, CompleteRowIsWhole, OnlyCurrentOrderLive, LiveOrderLeft
<1>5. GiveUpUnfilled => IInv'
  BY DEF GiveUpUnfilled, TypeOK, OrdersShape, OrderTracked, OutcomeTracked, RowSettled,
     ReportedFillIsReal, CompleteRowIsWhole, OnlyCurrentOrderLive, LiveOrderLeft, Pending, Final
<1>6. CASE Retry
  <2> USE <1>6 DEF Retry
  <2>1. /\ oid' \in {0, oid} /\ (oid' = 0 => ord[oid].st # "OPEN")
        /\ attempt' = attempt + 1 /\ attempt' \in 0 .. MaxRetries
        /\ row'.st = "OPEN" /\ row'.kite = row.kite /\ row' \in Row
        /\ pc' = "send" /\ UNCHANGED <<ord, last, out, lost>>
    <3>1. attempt + 1 \in 0 .. MaxRetries
      BY LegOrderAssumption DEF TypeOK
    <3>2. oid # 0
      BY DEF OrderTracked
    <3>3. PICK readable \in BOOLEAN : oid' = IF readable /\ IsDead(oid) THEN 0 ELSE oid
      OBVIOUS
    <3>4. oid' \in {0, oid} /\ (oid' = 0 => ord[oid].st # "OPEN")
      BY <3>2, <3>3 DEF IsDead
    <3>5. row'.st = "OPEN" /\ row'.kite = row.kite /\ row' \in Row
      BY DEF TypeOK, Row, Pending
    <3> QED BY <3>1, <3>4, <3>5
  <2>2. TypeOK'
    <3>1. oid' \in 0 .. MaxRetries + 1
      BY ONLY <2>1, TypeOK, LegOrderAssumption DEF TypeOK
    <3> QED BY ONLY <2>1, <3>1, TypeOK DEF TypeOK, Row
  <2>3. OrdersShape'
    BY <2>1, Numbers DEF OrdersShape
  <2>4. OrderTracked'
    <3>1. attempt + 2 \in OrderId
      BY LegOrderAssumption DEF TypeOK, OrderId
    <3> QED BY <2>1, <3>1, Numbers DEF OrderTracked, OrdersShape
  <2>5. OutcomeTracked' /\ RowSettled' /\ ReportedFillIsReal' /\ CompleteRowIsWhole'
    BY <2>1 DEF OutcomeTracked, RowSettled, ReportedFillIsReal, CompleteRowIsWhole, Pending
  <2>6. OnlyCurrentOrderLive' /\ LiveOrderLeft'
    BY <2>1 DEF OnlyCurrentOrderLive, LiveOrderLeft, TypeOK
  <2> QED BY <2>2, <2>3, <2>4, <2>5, <2>6
<1> QED BY <1>1, <1>2, <1>3, <1>4, <1>5, <1>6

\* Steps that end the call.
LEMMA ReturnSteps ==
  ASSUME IInv, SeeComplete \/ SeeDeadPartial \/ DeadlinePartial \/ ModifyRaises
               \/ GiveUpFilled \/ GiveUpUnreadable \/ CancelLast
  PROVE  IInv'
<1> USE DEF IInv
<1>1. ord \in AfterCancel(oid)
  BY DEF AfterCancel
<1>2. ASSUME pc # "send" /\ pc # "insert" /\ pc # "done" PROVE oid # 0 /\ oid \in OrderId
  BY <1>2, Numbers DEF OrderTracked, TypeOK
<1>3. CASE SeeComplete
  <2>1. oid # 0 /\ oid \in OrderId /\ row.kite = oid /\ ord[oid] \in Order /\ ord[oid].filled = Qty
    BY <1>2, <1>3, Numbers DEF SeeComplete, OrderTracked, OrdersShape
  <2>2. /\ row' \in Row /\ row'.st = "COMPLETE" /\ row'.kite = row.kite
        /\ out' \in Outcome /\ out'.res = "filled" /\ out'.filled = Qty
        /\ pc' = "done" /\ attempt' = attempt /\ oid' = oid /\ last' = last
    BY <1>3, <2>1, ReturnFacts, Numbers DEF SeeComplete, Final
  <2>3. UNCHANGED <<ord, lost>> /\ ord[oid].st = "COMPLETE"
    BY <1>3 DEF SeeComplete
  <2>4. TypeOK' /\ OrdersShape'
    BY <2>2, <2>3 DEF TypeOK, Row, Outcome, OrdersShape
  <2>5. OrderTracked' /\ OutcomeTracked' /\ RowSettled'
    BY <2>1, <2>2, <2>3 DEF OrderTracked, OutcomeTracked, RowSettled, Final
  <2>6. ReportedFillIsReal'
    BY <2>1, <2>2, <2>3, Numbers DEF ReportedFillIsReal
  <2>7. CompleteRowIsWhole'
    BY <2>1, <2>2, <2>3 DEF CompleteRowIsWhole, Order
  <2>8. OnlyCurrentOrderLive' /\ LiveOrderLeft'
    BY <2>2, <2>3 DEF OnlyCurrentOrderLive, LiveOrderLeft
  <2> QED BY <2>4, <2>5, <2>6, <2>7, <2>8
<1>4. CASE GiveUpFilled
  <2>1. oid # 0 /\ oid \in OrderId /\ row.kite = oid /\ ord[oid].filled \in 0 .. Qty
    BY <1>2, <1>4, Numbers DEF GiveUpFilled, OrderTracked, Order
  <2>2. /\ row' \in Row /\ row'.st = "FAILED" /\ row'.kite = row.kite
        /\ out' \in Outcome /\ out'.res = "partial" /\ out'.filled = ord[oid].filled
        /\ pc' = "done" /\ attempt' = attempt /\ oid' = oid /\ last' = last
    BY <1>4, <2>1, ReturnFacts DEF GiveUpFilled, Final
  <2>3. UNCHANGED <<ord, lost>>
    BY <1>4 DEF GiveUpFilled
  <2>4. TypeOK' /\ OrdersShape'
    BY <2>2, <2>3 DEF TypeOK, Row, Outcome, OrdersShape
  <2>5. OrderTracked' /\ OutcomeTracked' /\ RowSettled'
    BY <2>1, <2>2, <2>3 DEF OrderTracked, OutcomeTracked, RowSettled, Final
  <2>6. ReportedFillIsReal' /\ CompleteRowIsWhole'
    BY <2>1, <2>2, <2>3, Numbers DEF ReportedFillIsReal, CompleteRowIsWhole
  <2>7. OnlyCurrentOrderLive' /\ LiveOrderLeft'
    BY <2>2, <2>3 DEF OnlyCurrentOrderLive, LiveOrderLeft
  <2> QED BY <2>4, <2>5, <2>6, <2>7
<1>5. CASE SeeDeadPartial
  <2>1. oid # 0 /\ ord[oid].filled \in 0 .. Qty /\ ord[oid].filled <= ord[oid].filled
    BY <1>2, <1>5, Numbers DEF SeeDeadPartial, Order
  <2>2. lost' = (lost \/ ord[oid].st = "OPEN")
    BY <1>5 DEF SeeDeadPartial, TypeOK
  <2> QED BY <1>1, <1>5, <2>1, <2>2, CancelReturn DEF SeeDeadPartial
<1>6. CASE DeadlinePartial
  <2>1. oid # 0 /\ last \in 0 .. Qty /\ last <= ord[oid].filled
    BY <1>2, <1>6 DEF DeadlinePartial, OrderTracked, TypeOK
  <2> QED BY <1>6, <2>1, CancelReturn DEF DeadlinePartial
<1>7. ASSUME oid # 0 PROVE 0 \in 0 .. Qty /\ 0 <= ord[oid].filled
  BY <1>7, Numbers
<1>8. CASE ModifyRaises
  BY <1>7, <1>8, CancelReturn DEF ModifyRaises
<1>9. CASE GiveUpUnreadable
  <2>1. oid # 0
    BY <1>2, <1>9 DEF GiveUpUnreadable
  <2> QED BY <1>1, <1>7, <1>9, <2>1, CancelReturn DEF GiveUpUnreadable
<1>10. CASE CancelLast
  <2>1. oid # 0
    BY <1>2, <1>10 DEF CancelLast
  <2> QED BY <1>7, <1>10, <2>1, CancelReturn DEF CancelLast
<1> QED BY <1>3, <1>4, <1>5, <1>6, <1>8, <1>9, <1>10

-----------------------------------------------------------------------------
LEMMA IInvInductive == IInv /\ [Next]_vars => IInv'
<1> SUFFICES ASSUME IInv, [Next]_vars PROVE IInv'
  OBVIOUS
<1>1. CASE Executor
  BY <1>1, CallStarts, SendSteps, WaitSteps, ReturnSteps DEF Executor
<1>2. CASE Exchange
  BY <1>2, ExchangeIInv
<1>3. CASE UNCHANGED vars
  BY <1>3 DEF vars, IInv, TypeOK, OrdersShape, OrderTracked, OutcomeTracked, RowSettled,
     ReportedFillIsReal, CompleteRowIsWhole, OnlyCurrentOrderLive, LiveOrderLeft
<1> QED BY <1>1, <1>2, <1>3 DEF Next

\* The inductive invariant holds throughout every call.
THEOREM InvariantHolds == Spec => []IInv
BY InitIInv, IInvInductive, PTL DEF Spec

\* Every variable of the call keeps its type.
THEOREM TypeCorrect == Spec => []TypeOK
<1>1. IInv => TypeOK
  BY DEF IInv
<1> QED BY <1>1, InvariantHolds, PTL

\* A finished call never leaves its row in flight.
THEOREM RowAlwaysSettled == Spec => []RowSettled
<1>1. IInv => RowSettled
  BY DEF IInv
<1> QED BY <1>1, InvariantHolds, PTL

\* The fill reported to the caller is never more than the order holds.
THEOREM ReportNeverOverstates == Spec => []ReportedFillIsReal
<1>1. IInv => ReportedFillIsReal
  BY DEF IInv
<1> QED BY <1>1, InvariantHolds, PTL

\* A COMPLETE row is a whole fill, and a whole fill a COMPLETE row.
THEOREM CompleteMeansWhole == Spec => []CompleteRowIsWhole
<1>1. IInv => CompleteRowIsWhole
  BY DEF IInv
<1> QED BY <1>1, InvariantHolds, PTL

\* Without a lost call only the current order works at the exchange.
THEOREM NoForgottenPredecessor == Spec => []OnlyCurrentOrderLive
<1>1. IInv => OnlyCurrentOrderLive
  BY DEF IInv
<1> QED BY <1>1, InvariantHolds, PTL

\* An order outlives its call only on the paths LiveOrderLeft names.
THEOREM LiveOrdersExplained == Spec => []LiveOrderLeft
<1>1. IInv => LiveOrderLeft
  BY DEF IInv
<1> QED BY <1>1, InvariantHolds, PTL
=============================================================================

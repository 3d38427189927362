------------------------ MODULE ZerodhaEntry_proofs ------------------------
(***************************************************************************)
(* Proofs about ZerodhaEntry, for every number of legs, lots, requests and *)
(* crashes.  IInv is inductive; the ledger and position invariants follow  *)
(* from it.                                                                *)
(***************************************************************************)
EXTENDS ZerodhaEntry, TLAPS

Labels == {"idle", "submit", "queued", "gate", "legs", "rollback",
           "book", "write", "attach", "finish", "done"}

\* The part of IInv about the holder's stage; the rest is typing and the lock.
StageInv ==
  /\ LocalsMeaning /\ StructureKept /\ LedgerKept
  /\ NoDoubleEntry /\ BookedIsHeld /\ KiteBookedOnce

-----------------------------------------------------------------------------
(* The lock. *)

\* A request past the lock is the holder, and the stage is its label.
LEMMA AtStage ==
  ASSUME TypeOK, LockHeld, NEW a \in Attempts, pc[a] \in Busy
  PROVE  holder = a /\ Stage = pc[a]
BY ZerodhaEntryAssumption DEF LockHeld, Stage

\* A holder is past the lock.
LEMMA HolderBusy ==
  ASSUME TypeOK, LockHeld
  PROVE  Stage \in Busy \cup {"free"} /\ (holder = None <=> Stage = "free")
BY ZerodhaEntryAssumption DEF TypeOK, LockHeld, Stage, Busy

\* The holder moves to another stage.
LEMMA HolderGoes ==
  ASSUME TypeOK, LockHeld, NEW a \in Attempts, pc[a] \in Busy,
         NEW label \in Busy, GoTo(a, label), holder' = holder
  PROVE  /\ pc' \in [Attempts -> Labels] /\ mpc' = mpc
         /\ LockHeld' /\ Stage' = label
<1>1. holder = a
  BY AtStage
<1>2. pc' = [pc EXCEPT ![a] = label] /\ mpc' = mpc
  BY DEF GoTo
<1>3. pc' \in [Attempts -> Labels]
  BY <1>2 DEF TypeOK, Labels, Busy
<1>4. LockHeld'
  BY <1>1, <1>2 DEF LockHeld, TypeOK
<1>5. Stage' = label
  BY <1>1, <1>2, ZerodhaEntryAssumption DEF Stage, TypeOK
<1> QED BY <1>2, <1>3, <1>4, <1>5

\* A request short of the lock moves without taking it.
LEMMA OutsiderGoes ==
  ASSUME TypeOK, LockHeld, NEW a \in Attempts, pc[a] \notin Busy,
         NEW label \in Labels \ Busy, GoTo(a, label), holder' = holder
  PROVE  /\ pc' \in [Attempts -> Labels] /\ mpc' = mpc
         /\ LockHeld' /\ Stage' = Stage
<1>1. holder # a
  BY DEF LockHeld
<1>2. pc' = [pc EXCEPT ![a] = label] /\ mpc' = mpc
  BY DEF GoTo
<1>3. pc' \in [Attempts -> Labels]
  BY <1>2 DEF TypeOK, Labels
<1>4. LockHeld'
  BY <1>1, <1>2 DEF LockHeld, TypeOK
<1>5. Stage' = Stage
  BY <1>1, <1>2 DEF Stage, TypeOK
<1> QED BY <1>2, <1>3, <1>4, <1>5

\* Leaving frees the lock if it is held, and nothing else.
LEMMA Leaves ==
  ASSUME TypeOK, LockHeld, NEW a \in Attempts, Leave(a)
  PROVE  /\ pc' \in [Attempts -> Labels] /\ mpc' = mpc /\ holder' \in Attempts \cup {None}
         /\ LockHeld' /\ Stage' = IF pc[a] \in Busy THEN "free" ELSE Stage
<1>1. PICK label \in {"finish", "done"} : pc' = [pc EXCEPT ![a] = label] /\ mpc' = mpc
  BY DEF Leave, GoTo
<1>2. holder' = IF holder = a THEN None ELSE holder
  BY DEF Leave
<1>3. pc' \in [Attempts -> Labels] /\ holder' \in Attempts \cup {None}
  BY <1>1, <1>2 DEF TypeOK, Labels
<1>4. pc[a] \in Busy <=> holder = a
  BY DEF LockHeld
<1>5. LockHeld'
  BY <1>1, <1>2, <1>4, ZerodhaEntryAssumption DEF LockHeld, TypeOK, Busy
<1>6. Stage' = IF holder = a THEN "free" ELSE Stage
  BY <1>1, <1>2, ZerodhaEntryAssumption DEF Stage, TypeOK
<1> QED BY <1>1, <1>3, <1>4, <1>5, <1>6

-----------------------------------------------------------------------------
(* Steps that move no lots. *)

\* What every step here leaves alone.
Still == UNCHANGED <<locals, inflight, unbooked, trades, alerted, pos, unseen>>

LEMMA StillStage ==
  ASSUME StageInv, Still,
         \/ Stage' = Stage
         \/ Stage \in {"free", "gate"} /\ Stage' \in {"free", "gate"}
         \/ Stage = "book" /\ Stage' = "write" /\ trades = {}
  PROVE  StageInv'
<1> USE DEF StageInv, Still, locals
<1>1. LocalsMeaning'
  BY DEF LocalsMeaning, Reversing, Target, Amount
<1>2. StructureKept'
  BY DEF StructureKept, Booked
<1>3. LedgerKept'
  BY DEF LedgerKept, Booked
<1>4. NoDoubleEntry' /\ BookedIsHeld' /\ KiteBookedOnce'
  BY DEF NoDoubleEntry, BookedIsHeld, KiteBookedOnce, Booked
<1> QED BY <1>1, <1>2, <1>3, <1>4

\* Requests that move up to the lock, leave it, pass the booking check, or
\* settle their job row.
LEMMA StillSteps ==
  ASSUME IInv, NEW a \in Attempts,
         \/ Preflight(a) \/ Submit(a) \/ TakeLock(a) \/ LockBusy(a) \/ Refused(a)
         \/ BookCheck(a) \/ FinishJob(a)
  PROVE  IInv'
<1> USE DEF IInv
<1>1. StageInv
  BY DEF StageInv
<1>2. CASE Preflight(a) \/ Submit(a) \/ FinishJob(a)
  <2>1. PICK label \in Labels \ Busy : GoTo(a, label)
    BY <1>2 DEF Preflight, Submit, FinishJob, Labels, Busy
  <2>2. pc[a] \notin Busy /\ holder' = holder
    BY <1>2 DEF Preflight, Submit, FinishJob, Busy
  <2>3. /\ pc' \in [Attempts -> Labels] /\ mpc' = mpc
        /\ LockHeld' /\ Stage' = Stage
    BY <2>1, <2>2, OutsiderGoes
  <2>4. running' \subseteq Attempts
    BY <1>2 DEF Preflight, Submit, FinishJob, TypeOK, database
  <2>5. Still /\ UNCHANGED <<reversed, status, aborted, crashes>>
    BY <1>2 DEF Preflight, Submit, FinishJob, Still, database, history, locals
  <2>6. TypeOK'
    BY <2>2, <2>3, <2>4, <2>5 DEF TypeOK, Still, locals, Labels
  <2> QED BY <1>1, <2>3, <2>5, <2>6, StillStage DEF StageInv
<1>3. CASE LockBusy(a) \/ Refused(a)
  <2>1. Leave(a) /\ pc[a] \in {"idle", "queued", "submit", "gate"}
    BY <1>3 DEF LockBusy, Refused
  <2>2. /\ pc' \in [Attempts -> Labels] /\ mpc' = mpc /\ holder' \in Attempts \cup {None}
        /\ LockHeld' /\ Stage' = IF pc[a] \in Busy THEN "free" ELSE Stage
    BY <2>1, Leaves
  <2>3. Stage' = Stage \/ (Stage = "gate" /\ Stage' = "free")
    BY <2>1, <2>2, AtStage DEF Busy
  <2>4. Still /\ UNCHANGED <<running, reversed, status, aborted, crashes>>
    BY <1>3 DEF LockBusy, Refused, Still, database, history, locals
  <2>5. TypeOK'
    BY <2>2, <2>4 DEF TypeOK, Still, locals, Labels
  <2> QED BY <1>1, <2>2, <2>3, <2>4, <2>5, StillStage DEF StageInv
<1>4. CASE TakeLock(a)
  <2>1. holder = None /\ holder' = a /\ pc' = [pc EXCEPT ![a] = "gate"] /\ mpc' = mpc
    BY <1>4 DEF TakeLock, GoTo
  <2>2. Stage = "free" /\ Stage' = "gate"
    BY <2>1, ZerodhaEntryAssumption DEF Stage, TypeOK
  <2>3. LockHeld'
    BY <2>1, ZerodhaEntryAssumption DEF LockHeld, TypeOK, Busy
  <2>4. Still /\ UNCHANGED <<running, reversed, status, aborted, crashes>>
    BY <1>4 DEF TakeLock, Still, database, history, locals
  <2>5. TypeOK'
    BY <2>1, <2>4 DEF TypeOK, Still, locals
  <2> QED BY <1>1, <2>2, <2>3, <2>4, <2>5, StillStage DEF StageInv
<1>5. CASE BookCheck(a)
  <2>1. pc[a] = "book" /\ GoTo(a, "write") /\ holder' = holder /\ trades = {}
    BY <1>5 DEF BookCheck, NotExecuted
  <2>2. /\ pc' \in [Attempts -> Labels] /\ mpc' = mpc
        /\ LockHeld' /\ Stage = "book" /\ Stage' = "write"
    BY <2>1, AtStage, HolderGoes DEF Busy
  <2>3. Still /\ UNCHANGED <<running, reversed, status, aborted, crashes>>
    BY <1>5 DEF BookCheck, Still, database, history, locals
  <2>4. TypeOK'
    BY <2>1, <2>2, <2>3 DEF TypeOK, Still, locals, Labels
  <2> QED BY <1>1, <2>1, <2>2, <2>3, <2>4, StillStage DEF StageInv
<1> QED BY <1>2, <1>3, <1>4, <1>5

\* Recording fills by hand, and the suggestion's end.
LEMMA OtherSteps ==
  ASSUME IInv, Lapse \/ \E m \in Manuals : ManualCheck(m) \/ ManualBook(m)
  PROVE  IInv'
<1> USE DEF IInv
<1>1. /\ UNCHANGED <<pc, holder, locals, running, inflight, unbooked, reversed, alerted, pos, history>>
      /\ mpc' \in [Manuals -> {"idle", "write", "done"}]
      /\ status' \in {"PENDING", "EXECUTED", "CLOSED"}
      /\ trades' \subseteq Attempts \cup Manuals
      /\ trades' \cap Attempts = trades \cap Attempts
  BY ZerodhaEntryAssumption DEF Lapse, ManualCheck, ManualBook, TypeOK, requests, database
<1>2. TypeOK' /\ LockHeld'
  BY <1>1 DEF TypeOK, LockHeld, locals, history
<1>3. Stage' = Stage /\ Booked' = Booked
  BY <1>1 DEF Stage, Booked
<1>4. LocalsMeaning' /\ StructureKept' /\ LedgerKept'
  BY <1>1, <1>3 DEF LocalsMeaning, StructureKept, LedgerKept, Reversing, Target, Amount, locals, history
<1>5. NoDoubleEntry' /\ BookedIsHeld' /\ KiteBookedOnce'
  BY <1>1, <1>3 DEF NoDoubleEntry, BookedIsHeld, KiteBookedOnce, history
<1> QED BY <1>2, <1>4, <1>5

-----------------------------------------------------------------------------
(* Placing the legs. *)

\* The gate lets a request start only on a clean slate.
LEMMA GateStep ==
  ASSUME IInv, NEW a \in Attempts, Gate(a)
  PROVE  IInv'
<1> USE DEF IInv
<1>1. pc[a] = "gate" /\ GoTo(a, "legs") /\ holder' = holder
  BY DEF Gate
<1>2. /\ pc' \in [Attempts -> Labels] /\ mpc' = mpc
      /\ LockHeld' /\ Stage = "gate" /\ Stage' = "legs"
  BY <1>1, AtStage, HolderGoes DEF Busy
<1>3. /\ filled' = 0 /\ part' = 0 /\ undo' = 0 /\ failed' = {}
      /\ UNCHANGED <<holder, database, pos, history>>
  BY DEF Gate
<1>4. /\ trades = {} /\ ~inflight
      /\ \A l \in Legs : unbooked[l] = 0
  BY DEF Gate, EntryAllowed, NotExecuted, NotInFlight, NoOrphans
<1>5. TypeOK'
  BY <1>2, <1>3, ZerodhaEntryAssumption DEF TypeOK, Labels, database, history
<1>6. LocalsMeaning' /\ StructureKept'
  BY <1>2, <1>3, <1>4, ZerodhaEntryAssumption DEF LocalsMeaning, StructureKept, Booked, database
<1>7. LedgerKept'
  <2>1. ~Booked /\ ~Booked'
    BY <1>3, <1>4 DEF Booked, database
  <2>2. \A l \in Legs \ (alerted \cup unseen) : pos[l] <= 0
    BY <1>2, <1>4, <2>1 DEF LedgerKept, TypeOK
  <2> QED BY <1>2, <1>3, <1>4, <2>2 DEF LedgerKept, database, history
<1>8. NoDoubleEntry' /\ BookedIsHeld' /\ KiteBookedOnce'
  BY <1>3 DEF NoDoubleEntry, BookedIsHeld, KiteBookedOnce, Booked, database, history
<1> QED BY <1>2, <1>5, <1>6, <1>7, <1>8

\* A row is sent, for a leg or for a reversal.
LEMMA SendSteps ==
  ASSUME IInv, NEW a \in Attempts, SendLeg(a) \/ SendReversal(a)
  PROVE  IInv'
<1> USE DEF IInv
<1>1. /\ pc[a] \in {"legs", "rollback"}
      /\ inflight' = TRUE
      /\ UNCHANGED <<requests, holder, locals, running, unbooked, reversed, status, trades, alerted, pos, history>>
      /\ pc[a] = "rollback" => Reversing /\ pos[Target] >= Amount
  BY DEF SendLeg, SendReversal
<1>2. LockHeld' /\ Stage = pc[a] /\ Stage' = Stage
  BY <1>1, AtStage DEF Busy, LockHeld, Stage, requests
<1>3. TypeOK'
  BY <1>1 DEF TypeOK, requests, locals, history
<1>4. LocalsMeaning'
  BY <1>1, <1>2 DEF LocalsMeaning, Reversing, Target, Amount, locals
<1>5. StructureKept' /\ LedgerKept'
  BY <1>1, <1>2 DEF StructureKept, LedgerKept, Booked, locals, history
<1>6. NoDoubleEntry' /\ BookedIsHeld' /\ KiteBookedOnce'
  BY <1>1 DEF NoDoubleEntry, BookedIsHeld, KiteBookedOnce, Booked, history
<1> QED BY <1>2, <1>3, <1>4, <1>5, <1>6

\* While the legs are placed, the leg in flight is flat or accounted for.
LEMMA NextLegFlat ==
  ASSUME IInv, Stage = "legs"
  PROVE  /\ filled + 1 \in Legs
         /\ filled + 1 \notin alerted \cup unseen => unbooked[filled + 1] = 0 /\ pos[filled + 1] = 0
<1>1. filled < NLegs /\ filled + 1 \in Legs
  BY ZerodhaEntryAssumption DEF IInv, LocalsMeaning, TypeOK, Legs
<1>2. ASSUME filled + 1 \notin alerted \cup unseen
      PROVE  unbooked[filled + 1] = 0 /\ pos[filled + 1] = 0
  <2>1. filled + 1 > filled /\ pos[filled + 1] \in Nat
    BY <1>1 DEF IInv, TypeOK
  <2> QED BY <1>1, <1>2, <2>1 DEF IInv, LedgerKept
<1> QED BY <1>1, <1>2

\* A leg is COMPLETE.
LEMMA LegFilledStep ==
  ASSUME IInv, NEW a \in Attempts, LegFilled(a)
  PROVE  IInv'
<1> USE DEF IInv
<1> DEFINE leg == filled + 1
<1>1. /\ pc[a] = "legs" /\ inflight /\ inflight' = FALSE
      /\ pos' = [pos EXCEPT ![leg] = @ + Qty]
      /\ unbooked' = [unbooked EXCEPT ![leg] = Qty]
      /\ filled' = leg
      /\ GoTo(a, IF leg = NLegs THEN "book" ELSE "legs")
      /\ UNCHANGED <<holder, part, undo, failed, running, reversed, status, trades, alerted, history>>
  BY DEF LegFilled
<1>2. Stage = "legs"
  BY <1>1, AtStage DEF Busy
<1>3. /\ pc' \in [Attempts -> Labels] /\ mpc' = mpc
      /\ LockHeld' /\ Stage' = IF leg = NLegs THEN "book" ELSE "legs"
  BY <1>1, HolderGoes DEF Busy
<1>4. leg \in Legs /\ (leg \notin alerted \cup unseen => unbooked[leg] = 0 /\ pos[leg] = 0)
  BY <1>2, NextLegFlat
<1>5. /\ pos'[leg] = pos[leg] + Qty /\ unbooked'[leg] = Qty
      /\ \A l \in Legs \ {leg} : pos'[l] = pos[l] /\ unbooked'[l] = unbooked[l]
  BY <1>1, <1>4 DEF TypeOK
<1>6. leg \in 0 .. NLegs /\ pos' \in [Legs -> Nat] /\ unbooked' \in [Legs -> 0 .. Qty]
  <2>1. Qty \in 0 .. Qty /\ Qty \in Nat
    BY ZerodhaEntryAssumption
  <2>2. pos[leg] + Qty \in Nat
    BY <1>4, <2>1 DEF TypeOK
  <2> QED BY <1>1, <1>4, <2>1, <2>2 DEF TypeOK, Legs
<1>7. TypeOK'
  BY <1>1, <1>3, <1>6 DEF TypeOK, Labels, history
<1>8. ~Booked /\ ~Booked'
  BY <1>1, <1>2 DEF StructureKept, Booked
<1>9. LocalsMeaning'
  BY <1>1, <1>2, <1>3, <1>4, ZerodhaEntryAssumption DEF LocalsMeaning, TypeOK, Legs
<1>10. StructureKept'
  <2>1. \A l \in 1 .. leg : pos'[l] >= Qty
    <3>1. \A l \in 1 .. filled : l \in Legs \ {leg} /\ pos[l] >= Qty
      <4>1. filled \in 0 .. NLegs /\ \A l \in 1 .. filled : pos[l] >= Qty
        BY <1>2 DEF StructureKept, TypeOK
      <4>2. \A l \in 1 .. filled : l \in 1 .. NLegs /\ l # filled + 1
        BY <4>1, ZerodhaEntryAssumption
      <4> QED BY <4>1, <4>2 DEF Legs
    <3>2. pos'[leg] >= Qty
      BY <1>4, <1>5, ZerodhaEntryAssumption DEF TypeOK
    <3>3. \A l \in 1 .. leg : l = leg \/ l \in 1 .. filled
      BY <1>4 DEF TypeOK
    <3> QED BY <1>5, <3>1, <3>2, <3>3
  <2> QED BY <1>1, <1>3, <1>8, <2>1 DEF StructureKept
<1>11. LedgerKept'
  <2>1. UNCHANGED <<alerted, unseen>>
    BY <1>1 DEF history
  <2>2. ASSUME NEW l \in Legs \ (alerted \cup unseen)
        PROVE  /\ l > leg => unbooked'[l] = 0
               /\ pos'[l] <= unbooked'[l]
    <3>1. CASE l = leg
      BY <1>4, <1>5, <2>2, <3>1, ZerodhaEntryAssumption DEF TypeOK
    <3>2. CASE l # leg
      <4>1. (l > filled => unbooked[l] = 0) /\ pos[l] <= unbooked[l]
        BY <1>2, <2>2 DEF LedgerKept
      <4>2. l > leg => l > filled
        BY <2>2 DEF TypeOK, Legs
      <4> QED BY <1>5, <2>2, <3>2, <4>1, <4>2
    <3> QED BY <3>1, <3>2
  <2> QED BY <1>1, <1>3, <1>6, <1>8, <2>1, <2>2 DEF LedgerKept
<1>12. NoDoubleEntry' /\ BookedIsHeld' /\ KiteBookedOnce'
  <2>1. NoDoubleEntry'
    BY <1>1, <1>4, <1>5, ZerodhaEntryAssumption DEF NoDoubleEntry, history
  <2> QED BY <1>1, <1>8, <2>1 DEF BookedIsHeld, KiteBookedOnce, Booked
<1> QED BY <1>3, <1>7, <1>9, <1>10, <1>11, <1>12

\* A leg fails, with or without lots filled.
LEMMA LegFailedStep ==
  ASSUME IInv, NEW a \in Attempts, LegFailed(a)
  PROVE  IInv'
<1> USE DEF IInv
<1> DEFINE leg == filled + 1
<1>1. PICK n \in 0 .. Qty : pos' = [pos EXCEPT ![leg] = @ + n] /\ part' = n
  BY DEF LegFailed
<1>2. /\ pc[a] = "legs" /\ inflight' = FALSE /\ undo' = filled
      /\ GoTo(a, "rollback")
      /\ UNCHANGED <<holder, filled, failed, running, unbooked, reversed, status, trades, alerted, history>>
  BY DEF LegFailed
<1>3. Stage = "legs"
  BY <1>2, AtStage DEF Busy
<1>4. /\ pc' \in [Attempts -> Labels] /\ mpc' = mpc
      /\ LockHeld' /\ Stage' = "rollback"
  BY <1>2, HolderGoes DEF Busy
<1>5. leg \in Legs /\ (leg \notin alerted \cup unseen => unbooked[leg] = 0 /\ pos[leg] = 0)
  BY <1>3, NextLegFlat
<1>6. pos'[leg] = pos[leg] + n /\ \A l \in Legs \ {leg} : pos'[l] = pos[l]
  BY <1>1, <1>5 DEF TypeOK
<1>7. pos' \in [Legs -> Nat]
  <2>1. pos[leg] + n \in Nat
    BY <1>5, ZerodhaEntryAssumption DEF TypeOK
  <2> QED BY <1>1, <1>5, <2>1 DEF TypeOK
<1>8. TypeOK'
  BY <1>1, <1>2, <1>4, <1>7 DEF TypeOK, Labels, history
<1>9. ~Booked /\ ~Booked'
  BY <1>2, <1>3 DEF StructureKept, Booked
<1>10. LocalsMeaning'
  BY <1>2, <1>3, <1>4 DEF LocalsMeaning, TypeOK
<1>11. StructureKept'
  BY <1>4, <1>9 DEF StructureKept
<1>12. LedgerKept'
  <2>1. UNCHANGED <<alerted, unseen>>
    BY <1>2 DEF history
  <2>2. ASSUME NEW l \in Legs \ (alerted \cup unseen)
        PROVE  /\ l > filled => unbooked[l] = 0
               /\ pos'[l] <= unbooked[l] \/ l = leg
               /\ l = leg => pos'[l] <= part'
    BY <1>1, <1>3, <1>5, <1>6, <2>2 DEF LedgerKept
  <2> QED BY <1>2, <1>4, <2>1, <2>2 DEF LedgerKept
<1>13. NoDoubleEntry' /\ BookedIsHeld' /\ KiteBookedOnce'
  <2>1. NoDoubleEntry'
    BY <1>1, <1>2, <1>5, <1>6, ZerodhaEntryAssumption DEF NoDoubleEntry, history
  <2> QED BY <1>2, <1>9, <2>1 DEF BookedIsHeld, KiteBookedOnce, Booked
<1> QED BY <1>4, <1>8, <1>10, <1>11, <1>12, <1>13

\* The next leg is not sent: the legs before it are reversed.
LEMMA LegRefusedStep ==
  ASSUME IInv, NEW a \in Attempts, LegRefused(a)
  PROVE  IInv'
<1> USE DEF IInv
<1>1. /\ pc[a] = "legs" /\ ~inflight /\ undo' = filled /\ GoTo(a, "rollback")
      /\ UNCHANGED <<holder, filled, part, failed, database, pos, history>>
  BY DEF LegRefused
<1>2. Stage = "legs"
  BY <1>1, AtStage DEF Busy
<1>3. /\ pc' \in [Attempts -> Labels] /\ mpc' = mpc
      /\ LockHeld' /\ Stage' = "rollback"
  BY <1>1, HolderGoes DEF Busy
<1>4. TypeOK'
  BY <1>1, <1>3 DEF TypeOK, Labels, database, history
<1>5. LocalsMeaning' /\ StructureKept'
  BY <1>1, <1>2, <1>3 DEF LocalsMeaning, StructureKept, Booked, TypeOK, database
<1>6. LedgerKept'
  <2>1. ASSUME NEW l \in Legs \ (alerted \cup unseen)
        PROVE  /\ l > filled => unbooked[l] = 0
               /\ pos[l] <= unbooked[l]
               /\ l = filled + 1 => pos[l] <= part
    BY <1>2, <2>1, NextLegFlat DEF LedgerKept, TypeOK
  <2> QED BY <1>1, <1>3, <2>1 DEF LedgerKept, database, history
<1>7. NoDoubleEntry' /\ BookedIsHeld' /\ KiteBookedOnce'
  BY <1>1 DEF NoDoubleEntry, BookedIsHeld, KiteBookedOnce, Booked, database, history
<1> QED BY <1>3, <1>4, <1>5, <1>6, <1>7

-----------------------------------------------------------------------------
(* The rollback. *)

\* What is being reversed.
LEMMA TargetMeans ==
  ASSUME IInv, Stage = "rollback", Reversing
  PROVE  /\ Target \in Legs /\ Amount \in 1 .. Qty
         /\ undo > 0 => Target <= filled /\ Target # filled + 1 /\ Amount = Qty
         /\ undo = 0 => Target = filled + 1 /\ Amount = part
         /\ undo \in 0 .. filled
BY ZerodhaEntryAssumption DEF IInv, TypeOK, LocalsMeaning, Reversing, Target, Amount, Legs

\* What every step of the rollback keeps, short of the ledger.
LEMMA RollbackKeeps ==
  ASSUME IInv, NEW a \in Attempts, pc[a] = "rollback", Reversing, NextReversal,
         UNCHANGED <<requests, holder, trades, alerted>>, inflight' = FALSE,
         failed' \in {failed, failed \cup {Target}}
  PROVE  /\ Stage = "rollback" /\ Stage' = "rollback" /\ ~Booked'
         /\ LockHeld' /\ LocalsMeaning' /\ StructureKept' /\ BookedIsHeld' /\ KiteBookedOnce'
         /\ UNCHANGED <<pc, mpc, filled>> /\ filled \in 0 .. NLegs
         /\ part' = (IF undo > 0 THEN part ELSE 0) /\ part' \in 0 .. Qty
         /\ undo' \in 0 .. NLegs /\ failed' \subseteq Legs
<1> USE DEF IInv
<1>1. Stage = "rollback" /\ LockHeld' /\ Stage' = Stage
  BY AtStage DEF Busy, LockHeld, Stage, requests
<1>2. ~Booked /\ ~Booked'
  BY <1>1 DEF StructureKept, Booked
<1>3. /\ Target \in Legs
      /\ undo > 0 => Target # filled + 1
      /\ undo \in 0 .. filled /\ filled \in 0 .. NLegs /\ part \in 0 .. Qty
  BY <1>1, TargetMeans DEF TypeOK
<1>4. filled' = filled /\ part' = IF undo > 0 THEN part ELSE 0
  BY DEF NextReversal
<1>5. undo' \in 0 .. filled /\ (undo' > 0 => undo > 0) /\ undo' \in 0 .. NLegs
  BY <1>3, ZerodhaEntryAssumption DEF NextReversal
<1>6. part' \in 0 .. Qty /\ (part' > 0 => part > 0)
  BY <1>3, <1>4, ZerodhaEntryAssumption
<1>7. LocalsMeaning'
  BY <1>1, <1>3, <1>4, <1>5, <1>6 DEF LocalsMeaning
<1>8. StructureKept' /\ BookedIsHeld' /\ KiteBookedOnce'
  BY <1>1, <1>2 DEF StructureKept, BookedIsHeld, KiteBookedOnce, Booked
<1> QED BY <1>1, <1>2, <1>3, <1>4, <1>5, <1>6, <1>7, <1>8 DEF TypeOK, requests

\* A leg is passed over: an earlier reversal counts, or none is possible.
LEMMA PassedOverSteps ==
  ASSUME IInv, NEW a \in Attempts, SkipReversal(a) \/ CannotReverse(a)
  PROVE  IInv'
<1> USE DEF IInv
<1>1. /\ pc[a] = "rollback" /\ Reversing /\ inflight = FALSE /\ NextReversal
      /\ UNCHANGED <<requests, holder, database, pos, aborted, crashes>>
      /\ \/ failed' = failed /\ unseen' = IF undo = 0 THEN unseen \cup {Target} ELSE unseen
         \/ failed' = failed \cup {Target} /\ unseen' = unseen
  BY DEF SkipReversal, CannotReverse, TypeOK, history
<1>2. /\ Stage = "rollback" /\ Stage' = "rollback" /\ ~Booked'
      /\ LockHeld' /\ LocalsMeaning' /\ StructureKept' /\ BookedIsHeld' /\ KiteBookedOnce'
      /\ UNCHANGED <<pc, mpc, filled>> /\ filled \in 0 .. NLegs
      /\ part' = (IF undo > 0 THEN part ELSE 0) /\ part' \in 0 .. Qty
      /\ undo' \in 0 .. NLegs /\ failed' \subseteq Legs
  BY <1>1, RollbackKeeps DEF database
<1>3. Target \in Legs /\ (undo = 0 => Target = filled + 1) /\ undo \in 0 .. filled
  BY <1>1, <1>2, TargetMeans
<1>4. TypeOK'
  BY <1>1, <1>2, <1>3 DEF TypeOK, database
<1>5. LedgerKept'
  BY <1>1, <1>2, <1>3 DEF LedgerKept, database
<1>6. NoDoubleEntry'
  BY <1>1 DEF NoDoubleEntry, database
<1> QED BY <1>2, <1>4, <1>5, <1>6

\* A reversal is COMPLETE.
LEMMA LegReversedStep ==
  ASSUME IInv, NEW a \in Attempts, LegReversed(a)
  PROVE  IInv'
<1> USE DEF IInv
<1>1. /\ pc[a] = "rollback" /\ inflight /\ inflight' = FALSE /\ NextReversal
      /\ pos' = [pos EXCEPT ![Target] = @ - Amount]
      /\ unbooked' = [unbooked EXCEPT ![Target] = IF @ > Amount THEN @ - Amount ELSE 0]
      /\ reversed' = reversed \cup {Target}
      /\ UNCHANGED <<requests, holder, failed, running, status, trades, alerted, history>>
  BY DEF LegReversed
<1>2. Reversing /\ pos[Target] >= Amount
  BY <1>1, AtStage DEF Busy, LocalsMeaning
<1>3. /\ Stage = "rollback" /\ Stage' = "rollback" /\ ~Booked'
      /\ LockHeld' /\ LocalsMeaning' /\ StructureKept' /\ BookedIsHeld' /\ KiteBookedOnce'
      /\ UNCHANGED <<pc, mpc, filled>> /\ filled \in 0 .. NLegs
      /\ part' = (IF undo > 0 THEN part ELSE 0) /\ part' \in 0 .. Qty
      /\ undo' \in 0 .. NLegs /\ failed' \subseteq Legs
  BY <1>1, <1>2, RollbackKeeps
<1>4. /\ Target \in Legs /\ Amount \in 1 .. Qty
      /\ undo > 0 => Target <= filled /\ Target # filled + 1 /\ Amount = Qty
      /\ undo = 0 => Target = filled + 1 /\ Amount = part
      /\ undo \in 0 .. filled
  BY <1>2, <1>3, TargetMeans
<1>5. /\ pos[Target] \in Nat /\ unbooked[Target] \in 0 .. Qty
      /\ pos'[Target] = pos[Target] - Amount
      /\ unbooked'[Target] = IF unbooked[Target] > Amount THEN unbooked[Target] - Amount ELSE 0
      /\ \A l \in Legs \ {Target} : pos'[l] = pos[l] /\ unbooked'[l] = unbooked[l]
  BY <1>1, <1>4 DEF TypeOK
<1>6. pos' \in [Legs -> Nat] /\ unbooked' \in [Legs -> 0 .. Qty]
  <2>1. /\ pos[Target] - Amount \in Nat
        /\ (IF unbooked[Target] > Amount THEN unbooked[Target] - Amount ELSE 0) \in 0 .. Qty
    BY <1>2, <1>4, <1>5, ZerodhaEntryAssumption
  <2> QED BY <1>1, <1>4, <2>1 DEF TypeOK
<1>7. TypeOK'
  BY <1>1, <1>3, <1>4, <1>6 DEF TypeOK, history
<1>8. LedgerKept'
  <2>1. UNCHANGED <<alerted, unseen>>
    BY <1>1 DEF history
  <2>2. ASSUME NEW l \in Legs \ (alerted \cup unseen)
        PROVE  /\ l > filled => unbooked'[l] = 0
               /\ pos'[l] <= unbooked'[l] \/ l = filled + 1
               /\ l = filled + 1 => pos'[l] <= part' \/ l \in failed
    <3>1. /\ l > filled => unbooked[l] = 0
          /\ pos[l] <= unbooked[l] \/ l = filled + 1
          /\ l = filled + 1 => pos[l] <= part \/ l \in failed
      BY <1>3, <2>2 DEF LedgerKept
    <3>2. CASE l # Target
      BY <1>3, <1>4, <1>5, <2>2, <3>1, <3>2
    <3>3. CASE l = Target /\ undo > 0
      BY <1>3, <1>4, <1>5, <2>2, <3>1, <3>3, ZerodhaEntryAssumption
    <3>4. CASE l = Target /\ undo = 0
      BY <1>3, <1>4, <1>5, <2>2, <3>1, <3>4, ZerodhaEntryAssumption
    <3> QED BY <1>4, <3>2, <3>3, <3>4
  <2> QED BY <1>1, <1>3, <2>1, <2>2 DEF LedgerKept
<1>9. NoDoubleEntry'
  BY <1>1, <1>4, <1>5, ZerodhaEntryAssumption DEF NoDoubleEntry, TypeOK, history
<1> QED BY <1>3, <1>7, <1>8, <1>9

\* A reversal fails, with some of its lots filled.
LEMMA ReversalFailedStep ==
  ASSUME IInv, NEW a \in Attempts, ReversalFailed(a)
  PROVE  IInv'
<1> USE DEF IInv
<1>1. /\ pc[a] = "rollback" /\ inflight /\ inflight' = FALSE /\ NextReversal
      /\ failed' = failed \cup {Target}
      /\ UNCHANGED <<requests, holder, running, unbooked, reversed, status, trades, alerted, history>>
  BY DEF ReversalFailed
<1>2. PICK n \in 0 .. Amount : pos' = [pos EXCEPT ![Target] = @ - n]
  BY DEF ReversalFailed
<1>3. Reversing /\ pos[Target] >= Amount
  BY <1>1, AtStage DEF Busy, LocalsMeaning
<1>4. /\ Stage = "rollback" /\ Stage' = "rollback" /\ ~Booked'
      /\ LockHeld' /\ LocalsMeaning' /\ StructureKept' /\ BookedIsHeld' /\ KiteBookedOnce'
      /\ UNCHANGED <<pc, mpc, filled>> /\ filled \in 0 .. NLegs
      /\ part' = (IF undo > 0 THEN part ELSE 0) /\ part' \in 0 .. Qty
      /\ undo' \in 0 .. NLegs /\ failed' \subseteq Legs
  BY <1>1, <1>3, RollbackKeeps
<1>5. /\ Target \in Legs /\ Amount \in 1 .. Qty
      /\ undo = 0 => Target = filled + 1
      /\ undo \in 0 .. filled
  BY <1>3, <1>4, TargetMeans
<1>6. /\ pos[Target] \in Nat /\ pos[Target] - n \in Nat /\ n >= 0
      /\ pos'[Target] = pos[Target] - n
      /\ \A l \in Legs \ {Target} : pos'[l] = pos[l]
  BY <1>2, <1>3, <1>5 DEF TypeOK
<1>7. pos' \in [Legs -> Nat] /\ \A l \in Legs : pos'[l] <= pos[l]
  <2>1. pos' \in [Legs -> Nat]
    BY <1>2, <1>5, <1>6 DEF TypeOK
  <2>2. \A l \in Legs : pos'[l] <= pos[l]
    BY <1>6 DEF TypeOK
  <2> QED BY <2>1, <2>2
<1>8. TypeOK'
  BY <1>1, <1>4, <1>7 DEF TypeOK, history
<1>9. LedgerKept'
  <2>1. UNCHANGED <<alerted, unseen, unbooked>>
    BY <1>1 DEF history
  <2>2. ASSUME NEW l \in Legs \ (alerted \cup unseen)
        PROVE  /\ l > filled => unbooked[l] = 0
               /\ pos'[l] <= unbooked[l] \/ l = filled + 1
               /\ l = filled + 1 => pos'[l] <= part' \/ l \in failed'
    <3>1. /\ l > filled => unbooked[l] = 0
          /\ pos[l] <= unbooked[l] \/ l = filled + 1
          /\ l = filled + 1 => pos[l] <= part \/ l \in failed
      BY <1>4, <2>2 DEF LedgerKept
    <3>2. pos'[l] <= pos[l] /\ pos[l] \in Nat /\ pos'[l] \in Nat /\ unbooked[l] \in Nat /\ part \in Nat
      BY <1>7, <2>2 DEF TypeOK
    <3>3. l = filled + 1 => part' = part \/ l \in failed'
      BY <1>1, <1>4, <1>5
    <3>4. failed \subseteq failed'
      BY <1>1
    <3> QED BY <3>1, <3>2, <3>3, <3>4
  <2> QED BY <1>1, <1>4, <2>1, <2>2 DEF LedgerKept
<1>10. NoDoubleEntry'
  BY <1>1, <1>7, ZerodhaEntryAssumption DEF NoDoubleEntry, TypeOK, history
<1> QED BY <1>4, <1>8, <1>9, <1>10

\* The rollback ends, with its alert, or by an exception.
LEMMA RollbackOverSteps ==
  ASSUME IInv, NEW a \in Attempts, RollbackEnds(a) \/ QuoteRaises(a)
  PROVE  IInv'
<1> USE DEF IInv
<1>1. /\ pc[a] = "rollback" /\ Leave(a)
      /\ UNCHANGED <<locals, running, inflight, unbooked, reversed, status, trades, pos, crashes>>
      /\ alerted \subseteq alerted' /\ unseen \subseteq unseen'
      /\ alerted' \in SUBSET Legs /\ aborted' \in BOOLEAN
  BY DEF RollbackEnds, QuoteRaises, database, history, TypeOK
<1>2. /\ pc' \in [Attempts -> Labels] /\ mpc' = mpc /\ holder' \in Attempts \cup {None}
      /\ LockHeld' /\ Stage = "rollback" /\ Stage' = "free"
  BY <1>1, Leaves, AtStage DEF Busy
<1>3. ~Booked /\ ~Booked'
  BY <1>1, <1>2 DEF StructureKept, Booked
<1>4. unseen' \subseteq Legs
  <2>1. part > 0 => filled + 1 \in Legs
    BY <1>2, ZerodhaEntryAssumption DEF LocalsMeaning, TypeOK, Legs
  <2>2. unseen \subseteq Legs /\ unseen' \in {unseen, IF part > 0 THEN unseen \cup {filled + 1} ELSE unseen}
    BY DEF RollbackEnds, QuoteRaises, TypeOK, history
  <2> QED BY <2>1, <2>2
<1>5. TypeOK'
  BY <1>1, <1>2, <1>4 DEF TypeOK, Labels, locals
<1>6. LocalsMeaning' /\ StructureKept' /\ BookedIsHeld' /\ KiteBookedOnce'
  BY <1>2, <1>3 DEF LocalsMeaning, StructureKept, BookedIsHeld, KiteBookedOnce, Booked
<1>7. LedgerKept'
  <2>1. ASSUME NEW l \in Legs \ (alerted' \cup unseen')
        PROVE  pos[l] <= unbooked[l]
    <3>1. /\ pos[l] <= unbooked[l] \/ l = filled + 1
          /\ l = filled + 1 => pos[l] <= part \/ l \in failed
      BY <1>1, <1>2, <2>1 DEF LedgerKept
    <3>2. l = filled + 1 => part = 0 /\ l \notin failed
      BY <1>2, <2>1 DEF RollbackEnds, QuoteRaises, Reversing, LocalsMeaning, TypeOK, history
    <3>3. unbooked[l] \in 0 .. Qty /\ pos[l] \in Nat
      BY <2>1 DEF TypeOK
    <3> QED BY <3>1, <3>2, <3>3, ZerodhaEntryAssumption
  <2> QED BY <1>1, <1>2, <1>3, <1>5, <2>1 DEF LedgerKept, TypeOK
<1>8. NoDoubleEntry'
  BY <1>1 DEF NoDoubleEntry
<1> QED BY <1>2, <1>5, <1>6, <1>7, <1>8

-----------------------------------------------------------------------------
(* Booking the trade. *)

\* The booking is refused: the whole structure is reversed.
LEMMA BookRefusedStep ==
  ASSUME IInv, NEW a \in Attempts, BookRefused(a)
  PROVE  IInv'
<1> USE DEF IInv
<1>1. /\ pc[a] \in {"book", "write"} /\ undo' = NLegs /\ GoTo(a, "rollback")
      /\ UNCHANGED <<holder, filled, part, failed, database, pos, history>>
  BY DEF BookRefused
<1>2. Stage \in {"book", "write"}
  BY <1>1, AtStage DEF Busy
<1>3. /\ pc' \in [Attempts -> Labels] /\ mpc' = mpc
      /\ LockHeld' /\ Stage' = "rollback"
  BY <1>1, HolderGoes DEF Busy
<1>4. filled = NLegs /\ part = 0 /\ ~inflight /\ failed \subseteq Legs /\ filled + 1 \notin Legs
  BY <1>2, ZerodhaEntryAssumption DEF LocalsMeaning, TypeOK, Legs
<1>5. ~Booked /\ ~Booked'
  BY <1>1, <1>2 DEF StructureKept, Booked, database
<1>6. TypeOK'
  BY <1>1, <1>3, ZerodhaEntryAssumption DEF TypeOK, Labels, database, history
<1>7. LocalsMeaning' /\ StructureKept' /\ BookedIsHeld' /\ KiteBookedOnce'
  BY <1>1, <1>3, <1>4, <1>5, ZerodhaEntryAssumption
     DEF LocalsMeaning, StructureKept, BookedIsHeld, KiteBookedOnce, Booked, database
<1>8. LedgerKept'
  <2>1. ASSUME NEW l \in Legs \ (alerted \cup unseen)
        PROVE  l <= NLegs /\ l # filled + 1 /\ pos[l] <= unbooked[l]
    <3>1. pos[l] <= unbooked[l] + 0 /\ unbooked[l] \in 0 .. Qty
      BY <1>2, <1>4, <1>5, <2>1 DEF LedgerKept, TypeOK
    <3> QED BY <1>4, <2>1, <3>1, ZerodhaEntryAssumption DEF Legs
  <2>2. \A l \in Legs : l \in 1 .. NLegs
    BY DEF Legs
  <2> QED BY <1>1, <1>3, <1>4, <2>1, <2>2, ZerodhaEntryAssumption DEF LedgerKept, database, history
<1>9. NoDoubleEntry'
  BY <1>1 DEF NoDoubleEntry, database, history
<1> QED BY <1>3, <1>6, <1>7, <1>8, <1>9

\* The trade is written.
LEMMA BookStep ==
  ASSUME IInv, NEW a \in Attempts, Book(a)
  PROVE  IInv'
<1> USE DEF IInv
<1>1. /\ pc[a] = "write" /\ GoTo(a, "attach")
      /\ trades' = trades \cup {a} /\ status' = "EXECUTED"
      /\ UNCHANGED <<holder, locals, running, inflight, unbooked, reversed, alerted, pos, history>>
  BY DEF Book
<1>2. Stage = "write"
  BY <1>1, AtStage DEF Busy
<1>3. /\ pc' \in [Attempts -> Labels] /\ mpc' = mpc
      /\ LockHeld' /\ Stage' = "attach"
  BY <1>1, HolderGoes DEF Busy
<1>4. ~Booked /\ Booked' /\ trades' \cap Attempts = {a}
  BY <1>1, <1>2 DEF StructureKept, Booked
<1>5. filled = NLegs /\ part = 0 /\ ~inflight
  BY <1>2 DEF LocalsMeaning
<1>6. \A l \in Legs : pos[l] >= Qty
  BY <1>2, <1>5 DEF StructureKept, Legs
<1>7. TypeOK'
  BY <1>1, <1>3 DEF TypeOK, Labels, locals, history
<1>8. LocalsMeaning' /\ StructureKept' /\ BookedIsHeld' /\ KiteBookedOnce'
  BY <1>1, <1>3, <1>4, <1>5, <1>6
     DEF LocalsMeaning, StructureKept, BookedIsHeld, KiteBookedOnce, Legs, locals
<1>9. LedgerKept'
  <2>1. ASSUME NEW l \in Legs \ (alerted \cup unseen)
        PROVE  pos[l] <= unbooked[l] + Qty
    <3>1. pos[l] <= unbooked[l] + 0 /\ unbooked[l] \in 0 .. Qty /\ pos[l] \in Nat
      BY <1>2, <1>4, <1>5, <2>1 DEF LedgerKept, TypeOK
    <3> QED BY <3>1, ZerodhaEntryAssumption
  <2> QED BY <1>1, <1>3, <1>4, <2>1 DEF LedgerKept, history
<1>10. NoDoubleEntry'
  BY <1>1 DEF NoDoubleEntry, history
<1> QED BY <1>3, <1>7, <1>8, <1>9, <1>10

\* The fills are attached to the trade.
LEMMA AttachStep ==
  ASSUME IInv, NEW a \in Attempts, Attach(a)
  PROVE  IInv'
<1> USE DEF IInv
<1>1. /\ pc[a] = "attach" /\ Leave(a) /\ unbooked' = [l \in Legs |-> 0]
      /\ UNCHANGED <<locals, running, inflight, reversed, status, trades, alerted, pos, history>>
  BY DEF Attach
<1>2. /\ pc' \in [Attempts -> Labels] /\ mpc' = mpc /\ holder' \in Attempts \cup {None}
      /\ LockHeld' /\ Stage = "attach" /\ Stage' = "free"
  BY <1>1, Leaves, AtStage DEF Busy
<1>3. Booked /\ Booked' /\ UNCHANGED <<alerted, unseen>>
  BY <1>1, <1>2 DEF StructureKept, Booked, history
<1>4. TypeOK'
  BY <1>1, <1>2, ZerodhaEntryAssumption DEF TypeOK, Labels, locals, history
<1>5. LocalsMeaning' /\ StructureKept' /\ BookedIsHeld' /\ KiteBookedOnce' /\ NoDoubleEntry'
  BY <1>1, <1>2, <1>3
     DEF LocalsMeaning, StructureKept, BookedIsHeld, KiteBookedOnce, NoDoubleEntry, Booked
<1>6. LedgerKept'
  <2>1. ASSUME NEW l \in Legs \ (alerted \cup unseen)
        PROVE  pos[l] <= unbooked'[l] + Qty
    BY <1>1, <2>1, ZerodhaEntryAssumption DEF NoDoubleEntry, TypeOK
  <2> QED BY <1>1, <1>2, <1>3, <2>1 DEF LedgerKept
<1> QED BY <1>2, <1>4, <1>5, <1>6

-----------------------------------------------------------------------------
(* The process dies. *)

LEMMA CrashStep ==
  ASSUME IInv, Crash
  PROVE  IInv'
<1> USE DEF IInv
<1>1. /\ crashes' \in 0 .. MaxCrashes
      /\ pc' \in [Attempts -> {"idle", "done"}] /\ mpc' \in [Manuals -> {"idle", "done"}]
      /\ holder' = None
      /\ unseen' = IF Stage = "rollback" /\ PartialOpen THEN unseen \cup {filled + 1} ELSE unseen
      /\ UNCHANGED <<locals, database, aborted>>
  BY ZerodhaEntryAssumption DEF Crash, TypeOK
<1>2. Stage' = "free" /\ LockHeld'
  BY <1>1, ZerodhaEntryAssumption DEF Stage, LockHeld, Busy
<1>3. Booked' = Booked
  BY <1>1 DEF Booked, database
<1>4. Stage = "legs" => filled + 1 \in Legs /\ (filled + 1 \notin alerted \cup unseen => pos[filled + 1] = 0)
  BY NextLegFlat
<1>5. /\ pos' \in [Legs -> Nat]
      /\ ~inflight => pos' = pos
      /\ Booked => pos' = pos
      /\ \A l \in Legs : pos'[l] <= pos[l] \/ (pos'[l] <= Qty \/ l \in alerted \cup unseen)
  <2>1. CASE Stage = "legs" /\ inflight /\ \E n \in 0 .. Qty : pos' = [pos EXCEPT ![filled + 1] = @ + n]
    <3>1. PICK n \in 0 .. Qty : pos' = [pos EXCEPT ![filled + 1] = @ + n]
      BY <2>1
    <3>2. pos'[filled + 1] = pos[filled + 1] + n /\ \A l \in Legs \ {filled + 1} : pos'[l] = pos[l]
      BY <1>4, <2>1, <3>1 DEF TypeOK
    <3>3. pos[filled + 1] + n \in Nat
      BY <1>4, <2>1, ZerodhaEntryAssumption DEF TypeOK
    <3>4. pos' \in [Legs -> Nat]
      BY <1>4, <2>1, <3>1, <3>3 DEF TypeOK
    <3>5. ~Booked
      BY <2>1 DEF StructureKept
    <3> QED BY <1>4, <2>1, <3>2, <3>4, <3>5, ZerodhaEntryAssumption DEF TypeOK
  <2>2. CASE Stage = "rollback" /\ inflight /\ \E n \in 0 .. Amount : pos' = [pos EXCEPT ![Target] = @ - n]
    <3>1. PICK n \in 0 .. Amount : pos' = [pos EXCEPT ![Target] = @ - n]
      BY <2>2
    <3>2. Target \in Legs /\ pos[Target] >= Amount /\ Amount \in 1 .. Qty
      BY <2>2, TargetMeans DEF LocalsMeaning
    <3>3. pos'[Target] = pos[Target] - n /\ \A l \in Legs \ {Target} : pos'[l] = pos[l]
      BY <3>1, <3>2 DEF TypeOK
    <3>4. pos[Target] - n \in Nat /\ pos[Target] - n <= pos[Target]
      BY <3>2, ZerodhaEntryAssumption DEF TypeOK
    <3>5. pos' \in [Legs -> Nat]
      BY <3>1, <3>2, <3>4 DEF TypeOK
    <3>6. ~Booked
      BY <2>2 DEF StructureKept
    <3>7. \A l \in Legs : pos'[l] <= pos[l]
      BY <3>3, <3>4 DEF TypeOK
    <3> QED BY <2>2, <3>5, <3>6, <3>7
  <2>3. CASE pos' = pos
    BY <2>3 DEF TypeOK
  <2> QED BY <2>1, <2>2, <2>3 DEF Crash
<1>6. unseen' \subseteq Legs /\ unseen \subseteq unseen'
  <2>1. Stage = "rollback" /\ PartialOpen => filled + 1 \in Legs
    BY ZerodhaEntryAssumption DEF PartialOpen, LocalsMeaning, TypeOK, Legs
  <2> QED BY <1>1, <2>1 DEF TypeOK
<1>7. TypeOK'
  BY <1>1, <1>5, <1>6 DEF TypeOK, locals, database
<1>8. LocalsMeaning' /\ StructureKept'
  BY <1>2 DEF LocalsMeaning, StructureKept
<1>9. LedgerKept'
  <2>1. ASSUME ~inflight, NEW l \in Legs \ (alerted \cup unseen')
        PROVE  pos[l] <= unbooked[l] + (IF Booked THEN Qty ELSE 0)
    <3>1. unbooked[l] \in 0 .. Qty /\ pos[l] \in Nat /\ l \in Legs \ (alerted \cup unseen)
      BY <1>6, <2>1 DEF TypeOK
    <3>2. CASE Stage = "legs"
      <4>1. ~Booked /\ pos[l] <= unbooked[l]
        BY <3>1, <3>2 DEF LedgerKept, StructureKept
      <4> QED BY <3>1, <4>1
    <3>3. CASE Stage = "rollback"
      <4>1. /\ ~Booked /\ (pos[l] <= unbooked[l] \/ l = filled + 1)
            /\ l = filled + 1 => pos[l] <= part \/ l \in failed
        BY <3>1, <3>3 DEF LedgerKept, StructureKept
      <4>2. l = filled + 1 => part = 0 /\ l \notin failed
        BY <1>1, <2>1, <3>3 DEF PartialOpen, TypeOK
      <4> QED BY <3>1, <4>1, <4>2, ZerodhaEntryAssumption
    <3>4. CASE Stage \notin {"legs", "rollback"}
      BY <2>1, <3>1, <3>4 DEF LedgerKept
    <3> QED BY <3>2, <3>3, <3>4
  <2>2. UNCHANGED <<alerted, inflight, unbooked>>
    BY <1>1 DEF database
  <2> QED BY <1>2, <1>3, <1>5, <2>1, <2>2 DEF LedgerKept
<1>10. NoDoubleEntry' /\ BookedIsHeld' /\ KiteBookedOnce'
  <2>1. UNCHANGED <<alerted, trades>>
    BY <1>1 DEF database
  <2>2. NoDoubleEntry'
    BY <1>5, <1>6, <2>1, ZerodhaEntryAssumption DEF NoDoubleEntry, TypeOK
  <2> QED BY <1>3, <1>5, <2>1, <2>2 DEF BookedIsHeld, KiteBookedOnce
<1> QED BY <1>2, <1>7, <1>8, <1>9, <1>10

-----------------------------------------------------------------------------
(* The invariant. *)

LEMMA InitIInv == Init => IInv
<1> SUFFICES ASSUME Init PROVE IInv
  OBVIOUS
<1> USE ZerodhaEntryAssumption DEF Init
<1>1. TypeOK
  <2>1. 0 \in 0 .. NLegs /\ 0 \in 0 .. Qty /\ 0 \in 0 .. MaxCrashes
    OBVIOUS
  <2> QED BY <2>1 DEF TypeOK
<1>2. Stage = "free" /\ ~Booked /\ LockHeld
  BY DEF Stage, Booked, LockHeld, Busy
<1>3. LocalsMeaning /\ StructureKept /\ LedgerKept
  BY <1>2 DEF LocalsMeaning, StructureKept, LedgerKept
<1>4. NoDoubleEntry /\ BookedIsHeld /\ KiteBookedOnce
  BY <1>2 DEF NoDoubleEntry, BookedIsHeld, KiteBookedOnce
<1> QED BY <1>1, <1>2, <1>3, <1>4 DEF IInv

LEMMA StutterKeeps ==
  ASSUME IInv, UNCHANGED vars
  PROVE  IInv'
<1> USE DEF IInv, vars, requests, locals, database, history
<1>1. TypeOK' /\ LockHeld' /\ Stage' = Stage /\ Booked' = Booked
  BY DEF TypeOK, LockHeld, Stage, Booked
<1>2. LocalsMeaning' /\ StructureKept' /\ LedgerKept'
  BY <1>1 DEF LocalsMeaning, StructureKept, LedgerKept, Reversing, Target, Amount
<1>3. NoDoubleEntry' /\ BookedIsHeld' /\ KiteBookedOnce'
  BY <1>1 DEF NoDoubleEntry, BookedIsHeld, KiteBookedOnce
<1> QED BY <1>1, <1>2, <1>3

LEMMA IInvInductive == IInv /\ [Next]_vars => IInv'
<1> SUFFICES ASSUME IInv, [Next]_vars PROVE IInv'
  OBVIOUS
<1>1. CASE UNCHANGED vars
  BY <1>1, StutterKeeps
<1>2. ASSUME NEW a \in Attempts, Attempt(a) PROVE IInv'
  <2>1. CASE Preflight(a) \/ TakeLock(a) \/ LockBusy(a) \/ Refused(a)
    BY <2>1, StillSteps
  <2>2. CASE Execute(a)
    BY <2>2, StillSteps, GateStep, SendSteps, LegFilledStep, LegFailedStep, LegRefusedStep,
       PassedOverSteps, LegReversedStep, ReversalFailedStep, RollbackOverSteps,
       BookRefusedStep, BookStep, AttachStep
    DEF Execute
  <2> QED BY <1>2, <2>1, <2>2 DEF Attempt
<1>3. CASE Lapse \/ \E m \in Manuals : ManualCheck(m) \/ ManualBook(m)
  BY <1>3, OtherSteps
<1>4. CASE Crash
  BY <1>4, CrashStep
<1> QED BY <1>1, <1>2, <1>3, <1>4 DEF Next

\* IInv holds in every reachable state.
THEOREM InvariantHolds == Spec => []IInv
BY InitIInv, IInvInductive, PTL DEF Spec

\* Every variable of the executor keeps its type; in particular no leg is ever
\* sold below flat by a reversal, and no reversal reaches past the legs.
THEOREM TypeCorrect == Spec => []TypeOK
<1>1. IInv => TypeOK
  BY DEF IInv
<1> QED BY <1>1, InvariantHolds, PTL

\* No sequence of requests, refusals, retries and crashes puts a second entry on
\* top of an open one, other than over a partial fill that was alerted or unseen
\* (NoDoubleEntry): the entry guards of _entry_context are enough.
THEOREM EntryNeverDoubled == Spec => []NoDoubleEntry
<1>1. IInv => NoDoubleEntry
  BY DEF IInv
<1> QED BY <1>1, InvariantHolds, PTL

\* Between requests, what is open at Zerodha is known to the database or named by
\* an alert (LedgerCovers): net_unbooked_entry_fills misses nothing else.
THEOREM LedgerAlwaysCovers == Spec => []LedgerCovers
<1>1. IInv => LedgerCovers
  <2> SUFFICES ASSUME IInv PROVE LedgerCovers
    OBVIOUS
  <2>1. holder = None => Stage \notin {"legs", "rollback"}
    BY DEF Stage
  <2> QED BY <2>1 DEF IInv, LedgerKept, LedgerCovers
<1> QED BY <1>1, InvariantHolds, PTL

\* A trade booked from Zerodha's fills stays whole at Zerodha (BookedIsHeld):
\* no rollback ever reverses a leg of a booked structure.
THEOREM BookedStaysWhole == Spec => []BookedIsHeld
<1>1. IInv => BookedIsHeld
  BY DEF IInv
<1> QED BY <1>1, InvariantHolds, PTL

\* The suggestion is booked from Zerodha's fills by one request (KiteBookedOnce).
THEOREM BookedByOneRequest == Spec => []KiteBookedOnce
<1>1. IInv => KiteBookedOnce
  BY DEF IInv
<1> QED BY <1>1, InvariantHolds, PTL

-----------------------------------------------------------------------------
(* The order of the legs. *)

\* While a request is at work, and once the trade is booked, what is held, what
\* was reversed and what failed give the order of the legs.
LEMMA CoveredAtWork ==
  IInv /\ ReversalsKept /\ RollbackOrder /\ (Stage \notin {"free", "gate"} \/ Booked)
    => ShortCovered
<1> SUFFICES ASSUME IInv, ReversalsKept, RollbackOrder, Stage \notin {"free", "gate"} \/ Booked,
                    NEW h \in Legs, NEW s \in Legs, h < s,
                    s \notin failed \cup alerted \cup unseen, ~(s = filled + 1 /\ part > 0)
             PROVE  pos[s] <= pos[h]
  BY DEF ShortCovered
<1> USE DEF IInv
<1>1. /\ pos[h] \in Nat /\ pos[s] \in Nat /\ unbooked[s] \in 0 .. Qty /\ Qty \in Nat \ {0}
      /\ filled \in 0 .. NLegs /\ undo \in 0 .. NLegs /\ part \in 0 .. Qty /\ NLegs \in Nat
      /\ h \in 1 .. NLegs /\ s \in 1 .. NLegs
  BY ZerodhaEntryAssumption DEF TypeOK, Legs
<1>2. pos[s] <= Qty
  BY <1>1 DEF NoDoubleEntry
<1>3. CASE Booked
  <2>1. pos[h] >= Qty
    BY <1>3 DEF BookedIsHeld
  <2> QED BY <1>1, <1>2, <2>1
<1>4. CASE Stage \in {"book", "write", "attach"}
  <2>1. h \in 1 .. filled
    BY <1>1, <1>4 DEF LocalsMeaning
  <2>2. pos[h] >= Qty
    BY <1>4, <2>1 DEF StructureKept
  <2> QED BY <1>1, <1>2, <2>2
<1>5. CASE Stage \in {"legs", "rollback"} /\ s > filled
  <2>1. /\ unbooked[s] = 0 /\ (pos[s] <= unbooked[s] \/ (Stage = "rollback" /\ s = filled + 1))
        /\ Stage = "rollback" /\ s = filled + 1 => pos[s] <= part \/ s \in failed
    BY <1>5 DEF LedgerKept
  <2> QED BY <1>1, <2>1
<1>6. CASE Stage = "legs" /\ s <= filled
  <2>1. h \in 1 .. filled
    BY <1>1, <1>6
  <2>2. pos[h] >= Qty
    BY <1>6, <2>1 DEF StructureKept
  <2> QED BY <1>1, <1>2, <2>2
<1>7. CASE Stage = "rollback" /\ s <= filled
  <2>1. CASE s <= undo
    <3>1. pos[h] >= Qty
      BY <1>1, <1>7, <2>1 DEF RollbackOrder
    <3> QED BY <1>1, <1>2, <3>1
  <2>2. CASE s > undo
    <3>1. s \in 1 .. filled /\ ~(s <= undo) /\ h \in 1 .. s - 1
      BY <1>1, <1>7, <2>2
    <3>2. pos[s] = 0 \/ pos[h] >= Qty
      BY <1>7, <3>1 DEF RollbackOrder
    <3> QED BY <1>1, <1>2, <3>2
  <2> QED BY <1>1, <2>1, <2>2
<1>8. Stage \in {"legs", "rollback", "book", "write", "attach", "gate", "free"}
  BY HolderBusy DEF Busy
<1> QED BY <1>1, <1>3, <1>4, <1>5, <1>6, <1>7, <1>8

LEMMA CoveredNext ==
  (IInv /\ ReversalsKept /\ RollbackOrder /\ (Stage \notin {"free", "gate"} \/ Booked)
    => ShortCovered)'
BY CoveredAtWork, PTL

\* Steps that move no lots and reverse no leg.
LEMMA NoLotsStep ==
  ASSUME ShortInv, IInv',
         UNCHANGED <<filled, part, undo, failed, reversed, pos>>,
         alerted \subseteq alerted', unseen \subseteq unseen', Booked => Booked',
         unbooked' = unbooked \/ (Booked' /\ Stage' = "free"),
         \/ Stage' = Stage
         \/ Stage' \in {"free", "gate", "attach"}
         \/ Stage = "book" /\ Stage' = "write",
         Stage' = "rollback" /\ inflight' => inflight \/ Target \notin reversed
  PROVE  ShortInv'
<1> USE DEF ShortInv
<1>1. ReversalsKept'
  BY DEF ReversalsKept
<1>2. RollbackOrder'
  <2> SUFFICES ASSUME Stage' = "rollback" PROVE RollbackOrder'
    BY DEF RollbackOrder
  <2>1. Stage = "rollback" /\ Target' = Target
    BY DEF Target
  <2> QED BY <2>1 DEF RollbackOrder
<1>3. ShortCovered'
  BY DEF ShortCovered
<1> QED BY <1>1, <1>2, <1>3

\* The requests up to the gate and after their work, the orders that are sent, the
\* fills recorded by hand, and the end of the suggestion.
LEMMA NoLotsSteps ==
  ASSUME ShortInv, IInv',
         \/ UNCHANGED vars
         \/ Lapse
         \/ \E m \in Manuals : ManualCheck(m) \/ ManualBook(m)
         \/ \E a \in Attempts :
              \/ Preflight(a) \/ Submit(a) \/ TakeLock(a) \/ LockBusy(a) \/ Refused(a)
              \/ SendLeg(a) \/ SendReversal(a) \/ QuoteRaises(a) \/ RollbackEnds(a)
              \/ BookCheck(a) \/ Book(a) \/ Attach(a) \/ FinishJob(a)
  PROVE  ShortInv'
<1> USE DEF ShortInv, IInv
<1>1. CASE UNCHANGED vars
  <2>1. Stage' = Stage /\ Booked' = Booked
    BY <1>1 DEF vars, requests, database, Stage, Booked
  <2> QED BY <1>1, <2>1, NoLotsStep DEF vars, locals, database, history
<1>2. CASE Lapse \/ \E m \in Manuals : ManualCheck(m) \/ ManualBook(m)
  <2>1. /\ UNCHANGED <<pc, holder, locals, inflight, unbooked, reversed, alerted, pos, unseen>>
        /\ trades \subseteq trades'
    BY <1>2 DEF Lapse, ManualCheck, ManualBook, requests, database, history
  <2>2. Stage' = Stage /\ (Booked => Booked')
    BY <2>1 DEF Stage, Booked
  <2> QED BY <2>1, <2>2, NoLotsStep DEF locals
<1>3. ASSUME NEW a \in Attempts, Preflight(a) \/ Submit(a) \/ FinishJob(a)
      PROVE  ShortInv'
  <2>1. PICK label \in Labels \ Busy : GoTo(a, label)
    BY <1>3 DEF Preflight, Submit, FinishJob, Labels, Busy
  <2>2. pc[a] \notin Busy /\ holder' = holder
    BY <1>3 DEF Preflight, Submit, FinishJob, Busy
  <2>3. Stage' = Stage
    BY <2>1, <2>2, OutsiderGoes
  <2>4. UNCHANGED <<locals, inflight, unbooked, reversed, trades, alerted, pos, unseen>>
    BY <1>3 DEF Preflight, Submit, FinishJob, database, history
  <2> QED BY <2>3, <2>4, NoLotsStep DEF locals, Booked
<1>4. ASSUME NEW a \in Attempts,
             LockBusy(a) \/ Refused(a) \/ QuoteRaises(a) \/ RollbackEnds(a) \/ Attach(a)
      PROVE  ShortInv'
  <2>1. /\ Leave(a) /\ UNCHANGED <<locals, inflight, reversed, trades, pos>>
        /\ alerted \subseteq alerted' /\ unseen \subseteq unseen'
        /\ unbooked' = unbooked \/ pc[a] = "attach"
    BY <1>4 DEF LockBusy, Refused, QuoteRaises, RollbackEnds, Attach, database, history
  <2>2. Stage' = IF pc[a] \in Busy THEN "free" ELSE Stage
    BY <2>1, Leaves
  <2>3. pc[a] = "attach" => Booked /\ pc[a] \in Busy
    BY AtStage DEF Busy, StructureKept
  <2> QED BY <2>1, <2>2, <2>3, NoLotsStep DEF locals, Booked
<1>5. ASSUME NEW a \in Attempts, TakeLock(a)
      PROVE  ShortInv'
  <2>1. Stage' = "gate"
    BY <1>5, ZerodhaEntryAssumption DEF TakeLock, GoTo, Stage, TypeOK
  <2> QED BY <1>5, <2>1, NoLotsStep DEF TakeLock, locals, database, history, Booked
<1>6. ASSUME NEW a \in Attempts, SendLeg(a) \/ SendReversal(a)
      PROVE  ShortInv'
  <2>1. /\ UNCHANGED <<pc, holder, locals, unbooked, reversed, trades, alerted, pos, unseen>>
        /\ pc[a] \in {"legs", "rollback"}
        /\ pc[a] = "rollback" => Target \notin reversed
    BY <1>6 DEF SendLeg, SendReversal, requests, history
  <2>2. Stage' = Stage /\ Stage = pc[a]
    BY <2>1, AtStage DEF Stage, Busy
  <2> QED BY <2>1, <2>2, NoLotsStep DEF locals, Booked
<1>7. ASSUME NEW a \in Attempts, BookCheck(a) \/ Book(a)
      PROVE  ShortInv'
  <2>1. /\ UNCHANGED <<holder, locals, inflight, unbooked, reversed, alerted, pos, unseen>>
        /\ trades \subseteq trades'
        /\ \/ pc[a] = "book" /\ GoTo(a, "write")
           \/ pc[a] = "write" /\ GoTo(a, "attach")
    BY <1>7 DEF BookCheck, Book, database, history
  <2>2. (Stage = "book" /\ Stage' = "write") \/ Stage' = "attach"
    BY <2>1, AtStage, HolderGoes DEF Busy
  <2> QED BY <2>1, <2>2, NoLotsStep DEF locals, Booked
<1> QED BY <1>1, <1>2, <1>3, <1>4, <1>5, <1>6, <1>7

\* A request that passes the gate starts with no unbooked fill: every reversed leg
\* was reversed with those before it.
LEMMA GateOrder ==
  ASSUME ShortInv, IInv', NEW a \in Attempts, Gate(a)
  PROVE  ShortInv'
<1> USE DEF ShortInv, IInv
<1>1. /\ pc[a] = "gate" /\ GoTo(a, "legs") /\ filled' = 0 /\ trades = {}
      /\ UNCHANGED <<holder, unbooked, reversed, trades>>
      /\ \A l \in Legs : unbooked[l] = 0
  BY DEF Gate, database, EntryAllowed, NotExecuted, NoOrphans
<1>2. Stage' = "legs" /\ ~Booked /\ ~Booked'
  BY <1>1, HolderGoes DEF Busy, Booked
<1>3. \A s \in reversed : \A h \in 1 .. s - 1 : h \in Legs
  BY ZerodhaEntryAssumption DEF TypeOK, Legs
<1>4. ReversalsKept'
  BY <1>1, <1>2, <1>3 DEF ReversalsKept
<1>5. RollbackOrder'
  BY <1>2 DEF RollbackOrder
<1> QED BY <1>2, <1>4, <1>5, CoveredNext

LEMMA LegFilledOrder ==
  ASSUME ShortInv, IInv', NEW a \in Attempts, LegFilled(a)
  PROVE  ShortInv'
<1> USE DEF ShortInv, IInv
<1>1. /\ pc[a] = "legs" /\ unbooked' = [unbooked EXCEPT ![filled + 1] = Qty]
      /\ filled' = filled + 1 /\ GoTo(a, IF filled + 1 = NLegs THEN "book" ELSE "legs")
      /\ UNCHANGED <<holder, reversed, trades>>
  BY DEF LegFilled
<1>2. Stage = "legs" /\ Stage' \in {"legs", "book"} /\ Booked' = Booked
  BY <1>1, AtStage, HolderGoes DEF Busy, Booked
<1>3. /\ filled \in Nat /\ filled + 1 \in Legs /\ Qty \in Nat \ {0} /\ DOMAIN unbooked = Legs
      /\ unbooked'[filled + 1] = Qty
      /\ \A l \in Legs \ {filled + 1} : unbooked'[l] = unbooked[l]
  BY <1>1, <1>2, NextLegFlat, ZerodhaEntryAssumption DEF TypeOK
<1>4. ReversalsKept'
  <2>1. \A s \in reversed : 1 .. s - 1 \subseteq reversed
    BY <1>2 DEF ReversalsKept
  <2>2. \A h \in 1 .. filled + 1 : unbooked'[h] = Qty
    <3>1. \A h \in 1 .. filled : unbooked[h] = Qty
      BY <1>2 DEF ReversalsKept
    <3>2. \A h \in 1 .. filled + 1 : h = filled + 1 \/ (h \in 1 .. filled /\ h \in Legs \ {filled + 1})
      BY <1>3, ZerodhaEntryAssumption DEF Legs
    <3> QED BY <1>3, <3>1, <3>2
  <2> QED BY <1>1, <1>2, <2>1, <2>2 DEF ReversalsKept
<1>5. RollbackOrder'
  BY <1>2 DEF RollbackOrder
<1> QED BY <1>2, <1>4, <1>5, CoveredNext

\* A rollback starts with every completed leg whole and none in flight.
LEMMA RollbackStarts ==
  ASSUME ShortInv, IInv', NEW a \in Attempts, LegFailed(a) \/ LegRefused(a) \/ BookRefused(a)
  PROVE  ShortInv'
<1> USE DEF ShortInv, IInv
<1>1. /\ pc[a] \in {"legs", "book", "write"} /\ GoTo(a, "rollback")
      /\ UNCHANGED <<holder, filled, reversed, unbooked, trades>>
      /\ pc[a] = "legs" => undo' = filled /\ ~inflight'
      /\ pc[a] # "legs" => undo' = NLegs /\ UNCHANGED <<pos, inflight>>
  BY DEF LegFailed, LegRefused, BookRefused, database
<1>2. Stage = pc[a] /\ Stage' = "rollback" /\ Booked' = Booked
  BY <1>1, AtStage, HolderGoes DEF Busy, Booked
<1>3. undo' = filled /\ ~inflight' /\ filled \in 0 .. NLegs /\ NLegs \in Nat
  BY <1>1, <1>2, ZerodhaEntryAssumption DEF LocalsMeaning, TypeOK
<1>4. \A h \in 1 .. filled : pos'[h] = pos[h]
  <2>1. CASE pos' = pos
    BY <2>1
  <2>2. ASSUME NEW n \in 0 .. Qty, pos' = [pos EXCEPT ![filled + 1] = @ + n]
        PROVE  \A h \in 1 .. filled : pos'[h] = pos[h]
    <3>1. \A h \in 1 .. filled : h \in Legs /\ h # filled + 1
      BY <1>3 DEF Legs
    <3> QED BY <2>2, <3>1 DEF TypeOK
  <2> QED BY <2>1, <2>2 DEF LegFailed, LegRefused, BookRefused
<1>5. ReversalsKept'
  BY <1>1, <1>2 DEF ReversalsKept
<1>6. RollbackOrder'
  <2>1. \A s \in reversed : 1 .. s - 1 \subseteq reversed
    BY <1>1, <1>2 DEF ReversalsKept
  <2>2. \A h \in 1 .. filled : pos'[h] >= Qty
    BY <1>1, <1>2, <1>4 DEF StructureKept
  <2>3. \A s \in 1 .. filled' : s <= undo'
    BY <1>1, <1>3
  <2> QED BY <1>1, <1>2, <1>3, <2>1, <2>2, <2>3 DEF RollbackOrder
<1> QED BY <1>2, <1>5, <1>6, CoveredNext

\* The rollback goes on to the next leg: this one keeps its ROLLBACK row, is named
\* as failed, or gets a row now.
LEMMA RollbackMoves ==
  ASSUME ShortInv, IInv', NEW a \in Attempts,
         SkipReversal(a) \/ CannotReverse(a) \/ LegReversed(a) \/ ReversalFailed(a)
  PROVE  ShortInv'
<1> USE DEF ShortInv, IInv
<1>1. /\ pc[a] = "rollback" /\ NextReversal /\ ~inflight'
      /\ UNCHANGED <<requests, holder, trades, alerted>>
      /\ failed \subseteq failed' /\ unseen \subseteq unseen'
  BY DEF SkipReversal, CannotReverse, LegReversed, ReversalFailed, database, history, TypeOK
<1>2. Stage = "rollback" /\ Stage' = "rollback" /\ ~Booked /\ ~Booked'
  BY <1>1, AtStage DEF Busy, Stage, requests, StructureKept, Booked
<1>3. Reversing /\ (inflight => Target \notin reversed /\ pos[Target] >= Amount)
  BY <1>2 DEF SkipReversal, CannotReverse, LegReversed, ReversalFailed, LocalsMeaning, RollbackOrder
<1>4. /\ Target \in 1 .. NLegs /\ NLegs \in Nat /\ Qty \in Nat \ {0}
      /\ filled \in 0 .. NLegs /\ filled' = filled /\ undo \in 0 .. filled
      /\ IF undo > 0 THEN Target = undo /\ undo' = undo - 1 /\ Amount = Qty
                     ELSE Target = filled + 1 /\ undo' = 0
  <2>1. Target \in Legs /\ undo \in 0 .. filled
    BY <1>2, <1>3, TargetMeans
  <2>2. IF undo > 0 THEN Target = undo /\ undo' = undo - 1 /\ Amount = Qty
                    ELSE Target = filled + 1 /\ undo' = 0
    BY <1>1 DEF Target, Amount, NextReversal
  <2> QED BY <1>1, <2>1, <2>2, ZerodhaEntryAssumption DEF NextReversal, Legs, TypeOK
<1>5. \/ Target \in reversed /\ UNCHANGED <<pos, unbooked, reversed>>
      \/ /\ Target \in failed' /\ UNCHANGED <<unbooked, reversed>>
         /\ pos' = pos \/ Target \notin reversed
      \/ /\ Target \notin reversed /\ reversed' = reversed \cup {Target}
         /\ undo > 0 => pos'[Target] = 0 \/ Target \in alerted \cup unseen
  <2>1. CASE SkipReversal(a) \/ CannotReverse(a)
    BY <2>1 DEF SkipReversal, CannotReverse, database
  <2>2. CASE ReversalFailed(a)
    BY <1>3, <2>2 DEF ReversalFailed
  <2>3. CASE LegReversed(a)
    <3>1. inflight /\ reversed' = reversed \cup {Target} /\ pos' = [pos EXCEPT ![Target] = @ - Amount]
      BY <2>3 DEF LegReversed
    <3>2. Target \in Legs /\ pos[Target] \in Nat /\ pos'[Target] = pos[Target] - Amount
      BY <1>4, <3>1 DEF TypeOK, Legs
    <3>3. Target \notin alerted \cup unseen => pos[Target] <= Qty
      BY <1>4, <3>2 DEF NoDoubleEntry
    <3> QED BY <1>3, <1>4, <3>1, <3>2, <3>3
  <2> QED BY <2>1, <2>2, <2>3
<1>6. /\ reversed \subseteq reversed' /\ reversed' \subseteq reversed \cup {Target}
      /\ \A l \in Legs \ {Target} : pos'[l] = pos[l] /\ unbooked'[l] = unbooked[l]
      /\ unbooked'[Target] = unbooked[Target] \/ Target \in reversed'
  <2>1. CASE SkipReversal(a) \/ CannotReverse(a)
    BY <2>1 DEF SkipReversal, CannotReverse, database
  <2>2. CASE ReversalFailed(a)
    BY <2>2 DEF ReversalFailed, TypeOK
  <2>3. CASE LegReversed(a)
    BY <2>3 DEF LegReversed, TypeOK
  <2> QED BY <2>1, <2>2, <2>3
<1>7. \A h \in 1 .. filled : unbooked[h] = Qty \/ h \in reversed
  BY <1>2 DEF ReversalsKept
<1>8. ReversalsKept'
  <2>1. ASSUME NEW s \in reversed', NEW h \in 1 .. s - 1
        PROVE  h \in reversed' \/ unbooked'[h] > 0
    <3>1. s \in 1 .. NLegs /\ h \in Legs /\ (s = Target => h \in 1 .. filled)
      BY <1>4, <1>6, <2>1 DEF TypeOK, Legs
    <3>2. h \in reversed \/ unbooked[h] > 0
      BY <1>2, <1>4, <1>6, <1>7, <2>1, <3>1 DEF ReversalsKept
    <3> QED BY <1>6, <3>1, <3>2
  <2>2. ASSUME NEW h \in 1 .. filled
        PROVE  unbooked'[h] = Qty \/ h \in reversed'
    <3>1. h \in Legs
      BY <2>2, ZerodhaEntryAssumption DEF Legs, TypeOK
    <3> QED BY <1>6, <1>7, <3>1
  <2> QED BY <1>2, <1>4, <2>1, <2>2 DEF ReversalsKept
<1>9. RollbackOrder'
  <2>1. ASSUME NEW s \in reversed', s <= undo'
        PROVE  1 .. s - 1 \subseteq reversed'
    <3>1. s \in 1 .. NLegs
      BY <1>4, <1>6, <2>1 DEF TypeOK, Legs
    <3>2. s # Target /\ s <= undo
      BY <1>4, <2>1, <3>1
    <3> QED BY <1>2, <1>6, <2>1, <3>2 DEF RollbackOrder
  <2>2. ASSUME NEW h \in 1 .. undo'
        PROVE  pos'[h] >= Qty
    <3>1. h \in 1 .. undo /\ h \in Legs \ {Target}
      BY <1>4, <2>2 DEF TypeOK, Legs
    <3> QED BY <1>2, <1>6, <3>1 DEF RollbackOrder
  <2>3. ASSUME NEW s \in 1 .. filled, ~(s <= undo')
        PROVE  \/ s \in failed' \cup alerted \cup unseen' \/ pos'[s] = 0
               \/ \A h \in 1 .. s - 1 : h \in reversed' /\ pos'[h] >= Qty
    <3>1. s \in Legs /\ \A h \in 1 .. s - 1 : h \in Legs
      <4>1. filled \in Nat /\ NLegs \in Nat /\ filled <= NLegs
        BY <1>4
      <4>2. s \in 1 .. NLegs
        BY <4>1
      <4> QED BY <4>1, <4>2 DEF Legs
    <3>2. CASE s = Target
      <4>1. undo > 0 /\ s = undo
        BY <1>4, <2>3, <3>2
      <4>2. CASE Target \in reversed /\ UNCHANGED <<pos, unbooked, reversed>>
        <5>1. \A h \in 1 .. s - 1 : h \in reversed /\ h \in 1 .. undo
          BY <1>2, <1>4, <3>2, <4>1, <4>2 DEF RollbackOrder
        <5> QED BY <1>2, <4>2, <5>1 DEF RollbackOrder
      <4> QED BY <1>1, <1>5, <3>2, <4>1, <4>2
    <3>3. CASE s # Target
      <4>1. s \in 1 .. filled /\ ~(s <= undo)
        BY <1>4, <2>3, <3>3
      <4>2. \/ s \in failed \cup alerted \cup unseen \/ pos[s] = 0
            \/ \A h \in 1 .. s - 1 : h \in reversed /\ pos[h] >= Qty
        BY <1>2, <4>1 DEF RollbackOrder
      <4>3. CASE \A h \in 1 .. s - 1 : h \in reversed /\ pos[h] >= Qty
        <5>1. Target \in 1 .. s - 1 => Target \in reversed
          BY <4>3
        <5>2. Target \in 1 .. s - 1 => pos'[Target] = pos[Target]
          BY <1>5, <5>1
        <5> QED BY <1>6, <3>1, <4>3, <5>2
      <4> QED BY <1>1, <1>6, <3>1, <3>3, <4>2, <4>3
    <3> QED BY <3>2, <3>3
  <2> QED BY <1>1, <1>4, <2>1, <2>2, <2>3 DEF RollbackOrder
<1> QED BY <1>2, <1>8, <1>9, CoveredNext

\* The process dies with an order in flight: a leg's, while the legs before it are
\* whole, or a reversal, while the legs after it are flat or named.
LEMMA CrashOrder ==
  ASSUME ShortInv, IInv', Crash
  PROVE  ShortInv'
<1> USE DEF ShortInv, IInv
<1>1. /\ holder' = None /\ UNCHANGED <<locals, unbooked, reversed, trades, alerted>>
      /\ unseen \subseteq unseen'
  BY DEF Crash, database
<1>2. Stage' = "free" /\ Booked' = Booked
  BY <1>1 DEF Stage, Booked
<1>3. ReversalsKept' /\ RollbackOrder'
  BY <1>1, <1>2 DEF ReversalsKept, RollbackOrder
<1>4. ASSUME NEW h \in Legs, NEW s \in Legs, h < s,
             s \notin failed \cup alerted \cup unseen, ~(s = filled + 1 /\ part > 0)
      PROVE  pos'[s] <= pos'[h]
  <2>1. /\ pos[h] \in Nat /\ pos[s] \in Nat /\ Qty \in Nat \ {0} /\ filled \in Nat /\ undo \in Nat
        /\ part \in Nat /\ unbooked[s] \in Nat /\ pos'[h] \in Nat /\ h \in Nat \ {0} /\ s \in Nat
    <3>1. /\ pos \in [Legs -> Nat] /\ pos' \in [Legs -> Nat] /\ unbooked \in [Legs -> 0 .. Qty]
          /\ filled \in Nat /\ undo \in Nat /\ part \in Nat
      BY ZerodhaEntryAssumption DEF TypeOK
    <3>2. h \in Nat \ {0} /\ s \in Nat
      BY ZerodhaEntryAssumption DEF Legs
    <3> QED BY <3>1, <3>2, ZerodhaEntryAssumption
  <2>2. pos[s] <= pos[h]
    BY <1>4 DEF ShortCovered
  <2>3. CASE pos' = pos
    BY <2>1, <2>2, <2>3
  <2>4. ASSUME Stage = "legs", NEW n \in 0 .. Qty, pos' = [pos EXCEPT ![filled + 1] = @ + n]
        PROVE  pos'[s] <= pos'[h]
    <3>1. CASE s = filled + 1
      <4>1. pos[s] = 0 /\ h \in 1 .. filled
        BY <1>4, <2>1, <2>4, <3>1, NextLegFlat
      <4>2. pos[h] >= Qty
        BY <2>4, <4>1 DEF StructureKept
      <4>3. pos'[s] = n /\ pos'[h] = pos[h]
        BY <1>4, <2>1, <2>4, <3>1, <4>1 DEF TypeOK
      <4> QED BY <2>1, <2>4, <4>2, <4>3
    <3>2. CASE s # filled + 1
      <4>1. pos'[s] = pos[s] /\ pos'[h] >= pos[h]
        BY <2>1, <2>4, <3>2 DEF TypeOK
      <4> QED BY <2>1, <2>2, <4>1
    <3> QED BY <3>1, <3>2
  <2>5. ASSUME Stage = "rollback", inflight, NEW n \in 0 .. Amount,
               pos' = [pos EXCEPT ![Target] = @ - n]
        PROVE  pos'[s] <= pos'[h]
    <3>1. /\ Reversing /\ Target \in Legs /\ n \in Nat /\ Target \notin reversed
          /\ pos[Target] \in Nat /\ pos'[Target] = pos[Target] - n
          /\ \A l \in Legs \ {Target} : pos'[l] = pos[l]
      BY <2>5, TargetMeans DEF LocalsMeaning, RollbackOrder, TypeOK
    <3>2. CASE h # Target
      <4>1. pos'[h] = pos[h] /\ pos'[s] <= pos[s]
        BY <2>1, <3>1, <3>2
      <4> QED BY <2>1, <2>2, <4>1, <3>1
    <3>3. CASE h = Target
      <4>1. pos'[s] = pos[s]
        BY <1>4, <2>1, <3>1, <3>3
      <4>2. CASE s > filled
        <5>1. /\ unbooked[s] = 0 /\ (pos[s] <= unbooked[s] \/ s = filled + 1)
              /\ s = filled + 1 => pos[s] <= part \/ s \in failed
          BY <1>4, <2>5, <4>2 DEF LedgerKept
        <5> QED BY <1>4, <2>1, <4>1, <5>1
      <4>3. CASE s <= filled
        <5>1. undo > 0 /\ Target = undo
          BY <1>4, <2>1, <3>3, <4>3 DEF Target
        <5>2. s \in 1 .. filled /\ ~(s <= undo) /\ h \in 1 .. s - 1
          BY <1>4, <2>1, <3>3, <4>3, <5>1
        <5>3. pos[s] = 0
          BY <1>4, <2>5, <3>1, <3>3, <5>2 DEF RollbackOrder
        <5> QED BY <2>1, <4>1, <5>3
      <4> QED BY <2>1, <4>2, <4>3
    <3> QED BY <3>2, <3>3
  <2> QED BY <2>3, <2>4, <2>5 DEF Crash
<1>5. ShortCovered'
  BY <1>1, <1>4 DEF ShortCovered, locals
<1> QED BY <1>3, <1>5

\* Hedges first in, last out: at no point of any sequence of requests, refusals,
\* reversals and deaths is a short larger than its hedge, unless an alert names it
\* or will, or its partial fill is still to be reversed or was left (ShortCovered).
THEOREM ShortsStayCovered == Spec => []ShortCovered
<1>1. Init => ShortInv
  <2> SUFFICES ASSUME Init PROVE ShortInv
    OBVIOUS
  <2>1. IInv /\ Stage = "free"
    BY InitIInv DEF Init, Stage
  <2> QED BY <2>1 DEF Init, ShortInv, ReversalsKept, RollbackOrder, ShortCovered
<1>2. ShortInv /\ [Next]_vars => ShortInv'
  <2> SUFFICES ASSUME ShortInv, [Next]_vars PROVE ShortInv'
    OBVIOUS
  <2>1. IInv'
    BY IInvInductive DEF ShortInv
  <2>2. CASE UNCHANGED vars \/ Lapse \/ \E m \in Manuals : ManualCheck(m) \/ ManualBook(m)
    BY <2>1, <2>2, NoLotsSteps
  <2>3. ASSUME NEW a \in Attempts, Attempt(a)
        PROVE  ShortInv'
    BY <2>1, <2>3, NoLotsSteps, GateOrder, LegFilledOrder, RollbackStarts, RollbackMoves
       DEF Attempt, Execute
  <2>4. CASE Crash
    BY <2>1, <2>4, CrashOrder
  <2> QED BY <2>2, <2>3, <2>4 DEF Next
<1>3. ShortInv => ShortCovered
  BY DEF ShortInv
<1> QED BY <1>1, <1>2, <1>3, PTL DEF Spec
=============================================================================

-------------------------- MODULE EodChain_proofs --------------------------
(***************************************************************************)
(* For every number of days, legs, deaths, time limits and requests: the   *)
(* type invariant of EodChain, that a closed trade has one author as long  *)
(* as no job is cut off, and that an ended trade is changed only by        *)
(* somebody who had read it open before.                                   *)
(***************************************************************************)
EXTENDS EodChain, TLAPS

-----------------------------------------------------------------------------
(* The values that the actions write. *)

LEMMA Limits ==
  /\ LastDay \in Nat /\ NLegs \in Nat /\ NLegs > 0 /\ Expiry \in Nat
  /\ 1 \in Days /\ MaxUpsets \in Nat /\ MaxCuts \in Nat /\ MaxHands \in Nat
BY EodAssumption DEF Days

LEMMA KeysSplit == Trade \in Keys /\ Trade \notin Legs /\ Legs \subseteq Keys
                   /\ \A k \in Keys : k = Trade \/ k \in Legs
BY DEF Keys, Legs, Trade

LEMMA RowTypes ==
  /\ Unwritten \notin TradeRows \cup LegRows
  /\ TradeRows \cap LegRows = {}
  /\ \A b \in Authors : /\ Row("ACTIVE", b) \in TradeRows /\ Row("CLOSED", b) \in TradeRows
                        /\ Row("EXECUTED", b) \in LegRows
BY DEF Unwritten, TradeRows, LegRows, Row, Authors

LEMMA CleanRows == Clean \in RowSets /\ \A k \in Keys : Clean[k] = Unwritten
BY KeysSplit DEF Clean, RowSets

LEMMA IdleJob == Idle \in Jobs /\ Idle.pc = "idle" /\ Idle.mine = Clean
BY CleanRows DEF Idle, Jobs, Pcs

LEMMA BegunJob ==
  ASSUME NEW j \in {"fo", "exit"}, NEW n \in Nat, NEW end \in Nat, NEW dated \in BOOLEAN,
         NEW early \in BOOLEAN
  PROVE  Begun(j, n, end, dated, early) \in Jobs
BY CleanRows DEF Begun, Jobs, Pcs

\* Rows under a transaction's writes are rows.
LEMMA OverRows ==
  ASSUME NEW m \in RowSets, TypeOK
  PROVE  Over(m, row) \in RowSets /\ \A k \in Keys : Over(m, row)[k] # Unwritten
BY KeysSplit DEF Over, RowSets, TypeOK

\* One more write of a transaction.
LEMMA WriteTrade ==
  ASSUME NEW m \in RowSets, NEW r \in TradeRows
  PROVE  [m EXCEPT ![Trade] = r] \in RowSets
BY KeysSplit DEF RowSets

LEMMA WriteLeg ==
  ASSUME NEW m \in RowSets, NEW l \in Legs, NEW r \in LegRows
  PROVE  [m EXCEPT ![l] = r] \in RowSets
BY KeysSplit DEF RowSets

-----------------------------------------------------------------------------
(* The type invariant. *)

LEMMA InitType == Init => TypeOK
BY Limits, IdleJob, RowTypes, KeysSplit
   DEF Init, TypeOK, Opened, RowSets, Authors, Row, TradeRows, LegRows, Unwritten, Days

WorkTyped ==
  /\ work \in [Slots -> Jobs]
  /\ \A o \in Slots : work[o].pc = "settle" => work[o].todo \subseteq Legs

\* The work of one slot changes to another job record.
LEMMA OneSlot ==
  ASSUME TypeOK, NEW s \in Slots, NEW j \in Jobs,
         j.pc = "settle" => j.todo \subseteq Legs, work' = [work EXCEPT ![s] = j]
  PROVE  WorkTyped'
BY DEF TypeOK, WorkTyped

\* The work of two slots changes.
LEMMA TwoSlots ==
  ASSUME TypeOK, NEW s \in Slots, NEW j \in Jobs, NEW i \in Jobs,
         j.pc = "settle" => j.todo \subseteq Legs, i.pc = "settle" => i.todo \subseteq Legs,
         s # "left", work' = [work EXCEPT ![s] = j, !["left"] = i]
  PROVE  WorkTyped'
BY DEF TypeOK, WorkTyped

LEMMA EndsType ==
  ASSUME TypeOK, NEW s \in Slots, NEW status \in {"SUCCESS", "NO_DATA", "FAILED"},
         Ends(s, status)
  PROVE  WorkTyped'
<1>1. work[s] \in Jobs
  BY DEF TypeOK
<1>2. [work[s] EXCEPT !.pc = status, !.todo = {}, !.mine = Clean] \in Jobs
  BY <1>1, CleanRows DEF Jobs, Pcs
<1> QED BY <1>1, <1>2, OneSlot, IdleJob DEF Ends, Jobs

\* A step of a worker.
LEMMA WorkerType ==
  ASSUME TypeOK, NEW s \in Slots, Worker(s)
  PROVE  TypeOK'
<1> USE Limits
<1> DEFINE w == work[s]
<1>w. w \in Jobs
  BY DEF TypeOK
<1>1. CASE FindDates(s)
  <2>1. DatesOf(w) \in SUBSET Nat
    BY <1>w DEF DatesOf, Days, Jobs
  <2>2. [w EXCEPT !.pc = "each", !.todo = DatesOf(w)] \in Jobs
    BY <1>w, <2>1 DEF Jobs, Pcs
  <2> QED BY <1>1, <2>2, <1>w, OneSlot DEF FindDates, counts, TypeOK, WorkTyped, Jobs
<1>2. CASE Download(s)
  <2>1. [w EXCEPT !.todo = @ \ Least(@)] \in Jobs /\ Least(w.todo) \subseteq Nat
    BY <1>w DEF Jobs, Least
  <2> QED BY <1>2, <2>1, <1>w, OneSlot DEF Download, counts, TypeOK, WorkTyped, Jobs
<1>3. CASE NoFile(s)
  <2>1. [w EXCEPT !.todo = @ \ Least(@)] \in Jobs
    BY <1>w DEF Jobs
  <2> QED BY <1>3, <2>1, <1>w, EndsType, OneSlot DEF NoFile, counts, TypeOK, WorkTyped, Jobs
<1>4. CASE DownloadRaises(s)
  BY <1>4, EndsType DEF DownloadRaises, counts, TypeOK, WorkTyped
<1>5. CASE AllDates(s)
  BY <1>5, EndsType DEF AllDates, counts, TypeOK, WorkTyped
<1>6. CASE ReadOpen(s)
  <2>1. [w EXCEPT !.pc = "look"] \in Jobs
    BY <1>w DEF Jobs, Pcs
  <2> QED BY <1>6, <2>1, <1>w, EndsType, OneSlot DEF ReadOpen, counts, TypeOK, WorkTyped, Jobs
<1>7. CASE Review(s)
  <2>1. Legs \in SUBSET Nat
    BY DEF Legs
  <2>2. /\ [w EXCEPT !.pc = "commit"] \in Jobs /\ [w EXCEPT !.pc = "mark"] \in Jobs
        /\ [w EXCEPT !.pc = "commit"].pc = "commit" /\ [w EXCEPT !.pc = "mark"].pc = "mark"
    BY <1>w DEF Jobs, Pcs
  <2>3. /\ [w EXCEPT !.pc = "settle", !.todo = Legs] \in Jobs
        /\ [w EXCEPT !.pc = "settle", !.todo = Legs].todo = Legs
    BY <1>w, <2>1 DEF Jobs, Pcs
  <2>4. \/ work' = [work EXCEPT ![s] = [w EXCEPT !.pc = "commit"]]
        \/ work' = [work EXCEPT ![s] = [w EXCEPT !.pc = "mark"]]
        \/ work' = [work EXCEPT ![s] = [w EXCEPT !.pc = "settle", !.todo = Legs]]
    BY <1>7 DEF Review
  <2>5. WorkTyped'
    BY <2>2, <2>3, <2>4, OneSlot
  <2> QED BY <1>7, <2>5 DEF Review, counts, TypeOK, WorkTyped
<1>8. CASE SettleLeg(s)
  <2>1. PICK l \in Least(w.todo) \ LockedFor(s) :
          work' = [work EXCEPT ![s].todo = @ \ {l}, ![s].mine[l] = Row("EXECUTED", "engine")]
    BY <1>8 DEF SettleLeg
  <2> DEFINE j == [w EXCEPT !.todo = @ \ {l}, !.mine = [@ EXCEPT ![l] = Row("EXECUTED", "engine")]]
  <2>2. l \in Legs
    BY <1>8, <2>1 DEF SettleLeg, Least, TypeOK
  <2>3. [w.mine EXCEPT ![l] = Row("EXECUTED", "engine")] \in RowSets
    BY <1>w, <2>2, WriteLeg, RowTypes DEF Jobs, Authors
  <2>4. j \in Jobs
    BY <1>w, <2>3 DEF Jobs
  <2>5. work' = [work EXCEPT ![s] = j] /\ (j.pc = "settle" => j.todo \subseteq Legs)
    BY <2>1, <1>w, <1>8 DEF TypeOK, Jobs
  <2> QED BY <1>8, <2>4, <2>5, OneSlot DEF SettleLeg, counts, TypeOK, WorkTyped
<1>9. CASE SettleTrade(s)
  <2> DEFINE j == [w EXCEPT !.pc = "commit", !.mine = [@ EXCEPT ![Trade] = Row("CLOSED", "engine")]]
  <2>1. [w.mine EXCEPT ![Trade] = Row("CLOSED", "engine")] \in RowSets
    BY <1>w, WriteTrade, RowTypes DEF Jobs, Authors
  <2>2. j \in Jobs
    BY <1>w, <2>1 DEF Jobs, Pcs
  <2>3. work' = [work EXCEPT ![s] = j] /\ j.pc = "commit"
    BY <1>w, <1>9 DEF SettleTrade, TypeOK, Jobs
  <2> QED BY <1>9, <2>2, <2>3, OneSlot DEF SettleTrade, counts, TypeOK, WorkTyped
<1>10. CASE MarkActive(s)
  <2> DEFINE r == Row("ACTIVE", row[Trade].by)
             j == [w EXCEPT !.pc = "commit", !.mine = [@ EXCEPT ![Trade] = r]]
  <2>1. r \in TradeRows
    BY KeysSplit, RowTypes DEF TypeOK, RowSets, TradeRows, LegRows
  <2>2. [w.mine EXCEPT ![Trade] = r] \in RowSets
    BY <1>w, <2>1, WriteTrade DEF Jobs
  <2>3. j \in Jobs
    BY <1>w, <2>2 DEF Jobs, Pcs
  <2>4. work' = [work EXCEPT ![s] = j] /\ j.pc = "commit"
    BY <1>w, <1>10 DEF MarkActive, TypeOK, Jobs
  <2> QED BY <1>10, <2>3, <2>4, OneSlot DEF MarkActive, counts, TypeOK, WorkTyped
<1>11. CASE SettlementFails(s)
  <2>1. [w EXCEPT !.pc = "mark", !.todo = {}] \in Jobs
    BY <1>w DEF Jobs, Pcs
  <2> QED BY <1>11, <2>1, <1>w, OneSlot DEF SettlementFails, counts, TypeOK, WorkTyped, Jobs
<1>12. CASE MarkFails(s)
  BY <1>12, EndsType DEF MarkFails, counts, TypeOK, WorkTyped
<1>13. CASE Commit(s)
  <2>1. row' \in RowSets /\ \A k \in Keys : row'[k] # Unwritten
    BY <1>13, <1>w, OverRows DEF Commit, Jobs
  <2>2. stale' \subseteq Slots \cup {"user"}
    BY <1>13 DEF Commit, Misled, Reading, TypeOK
  <2> QED BY <1>13, <2>1, <2>2, EndsType DEF Commit, counts, TypeOK, WorkTyped
<1>14. CASE Finish(s)
  BY <1>14, IdleJob, OneSlot DEF Finish, counts, TypeOK, WorkTyped
<1> QED BY <1>1, <1>2, <1>3, <1>4, <1>5, <1>6, <1>7, <1>8, <1>9, <1>10, <1>11, <1>12, <1>13,
           <1>14 DEF Worker

\* A step of the time limit or of the report after it.
LEMMA CutType ==
  ASSUME TypeOK, NEW s \in Slots, Cut(s) \/ Report(s)
  PROVE  TypeOK'
<1> USE Limits
<1> DEFINE w == work[s]
           v == work["left"]
<1>w. w \in Jobs /\ v \in Jobs /\ "left" \in Slots
  BY DEF TypeOK, Slots
<1>r. /\ Over(v.mine, row) \in RowSets
      /\ \A k \in Keys : Over(v.mine, row)[k] # Unwritten
  BY <1>w, OverRows DEF Jobs
<1>c. /\ [v EXCEPT !.mine = Clean] \in Jobs
      /\ [v EXCEPT !.mine = Clean].pc = "settle" => [v EXCEPT !.mine = Clean].todo \subseteq Legs
  BY <1>w, CleanRows DEF Jobs, TypeOK
<1>1. CASE Cut(s)
  <2>1. PICK left \in {w, IF w.pc = "settle" THEN [w EXCEPT !.pc = "mark", !.todo = {}]
                          ELSE Idle} :
          work' = [work EXCEPT !["left"] = [left EXCEPT !.mine = Clean],
                               ![s].pc = "rollback", ![s].todo = {}, ![s].mine = Clean]
    BY <1>1 DEF Cut
  <2>2. left \in Jobs /\ (left.pc = "settle" => left.todo \subseteq Legs)
    BY <1>w, IdleJob, ZenonT(60) DEF Jobs, Pcs, TypeOK
  <2>3. /\ [left EXCEPT !.mine = Clean] \in Jobs
        /\ [w EXCEPT !.pc = "rollback", !.todo = {}, !.mine = Clean] \in Jobs
    BY <1>w, <2>2, CleanRows DEF Jobs, Pcs
  <2>4. work' = [work EXCEPT ![s] = [w EXCEPT !.pc = "rollback", !.todo = {}, !.mine = Clean],
                             !["left"] = [left EXCEPT !.mine = Clean]]
    BY <1>1, <2>1, <1>w DEF Cut, TypeOK, Jobs
  <2>5. WorkTyped'
    BY <1>1, <2>2, <2>3, <2>4, <1>w, TwoSlots, ZenonT(60) DEF Cut, Jobs
  <2>6. stale' \subseteq Slots \cup {"user"} /\ cuts' \in Nat
    BY <1>1, <1>w DEF Cut, TypeOK
  <2> QED BY <1>1, <2>5, <2>6 DEF Cut, counts, TypeOK, WorkTyped
<1>2. CASE s # "left" /\ ReportRollsBack(s)
  <2>1. [w EXCEPT !.pc = "finish"] \in Jobs /\ [w EXCEPT !.pc = "finish"].pc = "finish"
    BY <1>w DEF Jobs, Pcs
  <2>2. work' = [work EXCEPT ![s] = [w EXCEPT !.pc = "finish"],
                             !["left"] = [v EXCEPT !.mine = Clean]]
    BY <1>2, <1>w DEF ReportRollsBack, TypeOK, Jobs
  <2>3. WorkTyped'
    BY <1>c, <1>w, <2>1, <2>2, TwoSlots, <1>2
  <2> QED BY <1>2, <2>3 DEF ReportRollsBack, counts, TypeOK, WorkTyped
<1>3. CASE s # "left" /\ ReportCommits(s)
  <2>1. PICK pc \in {"notify", "close"} :
          work' = [work EXCEPT ![s].pc = pc, !["left"].mine = Clean]
    BY <1>3 DEF ReportCommits
  <2>2. [w EXCEPT !.pc = pc] \in Jobs /\ [w EXCEPT !.pc = pc].pc # "settle"
    BY <1>w DEF Jobs, Pcs
  <2>3. work' = [work EXCEPT ![s] = [w EXCEPT !.pc = pc],
                             !["left"] = [v EXCEPT !.mine = Clean]]
    BY <1>3, <2>1, <1>w DEF TypeOK, Jobs
  <2>4. WorkTyped'
    BY <1>c, <1>w, <2>2, <2>3, TwoSlots, <1>3
  <2>5. stale' \subseteq Slots \cup {"user"}
    BY <1>3 DEF ReportCommits, Misled, Reading, TypeOK
  <2> QED BY <1>3, <2>4, <2>5, <1>r DEF ReportCommits, counts, TypeOK, WorkTyped
<1>4. CASE s # "left" /\ ReportCloses(s)
  <2>1. work' = [work EXCEPT ![s] = Idle, !["left"] = [v EXCEPT !.mine = Clean]]
    BY <1>4, <1>w DEF ReportCloses, TypeOK, Jobs
  <2>2. WorkTyped'
    BY <1>c, <1>w, <2>1, TwoSlots, <1>4, IdleJob
  <2> QED BY <1>4, <2>2 DEF ReportCloses, counts, TypeOK, WorkTyped
<1> QED BY <1>1, <1>2, <1>3, <1>4 DEF Report

\* The first state of a day or of a process.
LEMMA RestartsType ==
  ASSUME TypeOK, Restarts
  PROVE  WorkTyped' /\ step' = 0 /\ desk' = "away" /\ stale' = {}
BY IdleJob DEF Restarts, WorkTyped

\* A step of the chain, of a job by hand, of the machine or of the user.
LEMMA OthersType ==
  ASSUME TypeOK, Nine \/ NextStep \/ ChainEnds \/ CutChain \/ ByHand \/ Die \/ NewDay \/ User
  PROVE  TypeOK'
<1> USE Limits
<1>d. day \in Nat /\ day >= 1 /\ day <= LastDay /\ "chain" \in Slots /\ "hand" \in Slots
  BY DEF TypeOK, Days, Slots
<1>t. {upsets, cuts, hands, touches} \subseteq Nat
  BY DEF TypeOK
<1>1. CASE Nine
  BY <1>1 DEF Nine, counts, TypeOK
<1>2. CASE NextStep
  <2>1. step \in 1 .. 2 /\ Steps[step] \in {"fo", "exit"}
    BY <1>2 DEF NextStep, Steps, TypeOK
  <2> DEFINE j == Begun(Steps[step], 0, day - 1, FALSE, TRUE)
  <2>2. day - 1 \in Nat /\ FALSE \in BOOLEAN /\ TRUE \in BOOLEAN
    BY <1>d
  <2>3. j \in Jobs
    BY <2>1, <2>2, BegunJob, Zenon
  <2>4. j.pc # "settle"
    BY DEF Begun
  <2> HIDE DEF j
  <2>5. work' = [work EXCEPT !["chain"] = j]
    BY <1>2 DEF NextStep, j
  <2>6. WorkTyped'
    BY <2>3, <2>4, <2>5, <1>d, OneSlot
  <2>7. step' \in 0 .. 3
    BY <1>2, <2>1 DEF NextStep
  <2> QED BY <1>2, <2>6, <2>7 DEF NextStep, counts, TypeOK, WorkTyped
<1>3. CASE ChainEnds
  BY <1>3 DEF ChainEnds, counts, TypeOK
<1>4. CASE CutChain
  BY <1>4, <1>t DEF CutChain, TypeOK
<1>5. CASE ByHand
  <2>1. PICK j \in {"fo", "exit"}, dated \in BOOLEAN, d \in 1 .. day :
          work' = [work EXCEPT !["hand"] =
                     Begun(j, IF dated THEN hands + 1 ELSE 0, d, dated, FALSE)]
    BY <1>5 DEF ByHand
  <2> DEFINE n == IF dated THEN hands + 1 ELSE 0
             b == Begun(j, n, d, dated, FALSE)
  <2>2. n \in Nat /\ d \in Nat /\ FALSE \in BOOLEAN
    BY <1>d, <1>t
  <2> HIDE DEF n
  <2>3. b \in Jobs
    BY <2>2, BegunJob, Zenon
  <2>4. b.pc # "settle"
    BY DEF Begun
  <2> HIDE DEF b
  <2>5. work' = [work EXCEPT !["hand"] = b]
    BY <2>1, Zenon DEF b, n
  <2>6. WorkTyped'
    BY <2>3, <2>4, <2>5, <1>d, OneSlot
  <2>7. hands' \in Nat /\ UNCHANGED <<day, nine, fo, step, row, desk, stale, upsets, cuts, touches>>
    BY <1>5, <1>t DEF ByHand
  <2> QED BY <2>6, <2>7, <1>t DEF TypeOK, WorkTyped
<1>6. CASE Die
  BY <1>6, <1>t, RestartsType DEF Die, TypeOK, WorkTyped
<1>7. CASE NewDay
  <2>1. day' \in Days /\ nine' \in {"ahead", "past"} /\ upsets' \in Nat
    BY <1>7, <1>d, <1>t DEF NewDay, Days
  <2> QED BY <1>7, <2>1, RestartsType DEF NewDay, TypeOK, WorkTyped
<1>8. CASE User
  <2>1. CASE CloseReads
    BY <2>1, <1>t DEF CloseReads, Touch, TypeOK
  <2>2. CASE CloseWrites
    <3>1. row' \in RowSets /\ \A k \in Keys : row'[k] # Unwritten
      BY <2>2, KeysSplit, RowTypes DEF CloseWrites, RowSets, Authors
    <3>2. stale' \subseteq Slots \cup {"user"}
      BY <2>2 DEF CloseWrites, Misled, Reading, TypeOK
    <3> QED BY <2>2, <3>1, <3>2 DEF CloseWrites, counts, TypeOK
  <2>3. CASE CloseGivesUp
    BY <2>3 DEF CloseGivesUp, counts, TypeOK
  <2>4. CASE Void
    <3>1. [row[Trade] EXCEPT !.status = "VOID"] \in TradeRows
      BY KeysSplit, RowTypes DEF TypeOK, RowSets, TradeRows, LegRows
    <3>2. row' = [row EXCEPT ![Trade] = [row[Trade] EXCEPT !.status = "VOID"]]
      BY <2>4 DEF Void
    <3>3. row' \in RowSets /\ \A k \in Keys : row'[k] # Unwritten
      BY <3>1, <3>2, WriteTrade, RowTypes, KeysSplit DEF TypeOK, RowSets
    <3>4. stale' \subseteq Slots \cup {"user"}
      BY <2>4 DEF Void, Misled, Reading, TypeOK
    <3> QED BY <2>4, <3>3, <3>4, <1>t DEF Void, Touch, TypeOK
  <2> QED BY <1>8, <2>1, <2>2, <2>3, <2>4 DEF User
<1> QED BY <1>1, <1>2, <1>3, <1>4, <1>5, <1>6, <1>7, <1>8

LEMMA StepType ==
  ASSUME TypeOK, [Next]_vars
  PROVE  TypeOK'
<1>1. CASE Next
  BY <1>1, WorkerType, CutType, OthersType DEF Next
<1>2. CASE UNCHANGED vars
  BY <1>2 DEF vars, counts, TypeOK
<1> QED BY <1>1, <1>2

\* Every state of the chain is a state of its types.
THEOREM EodTypes == Spec => []TypeOK
<1> QED BY InitType, StepType, PTL DEF Spec

-----------------------------------------------------------------------------
(* One author. *)

\* What a transaction of the engine has written when it reaches a point of the review.
EngineWrote(w) ==
  /\ w.pc \notin {"settle", "mark", "commit"} => w.mine = Clean
  /\ w.pc = "settle" => \A l \in Legs \ w.todo : w.mine[l] = Row("EXECUTED", "engine")
  /\ w.pc \in {"settle", "mark"} => w.mine[Trade] = Unwritten
  /\ w.pc = "commit" =>
       \/ w.mine = Clean
       \/ w.mine[Trade].status = "ACTIVE"
       \/ \A k \in Keys : w.mine[k].by = "engine" /\ w.mine[k] # Unwritten

\* As long as no job is cut off, nobody is left behind and every transaction is whole.
WholeInv ==
  /\ WholeUnlessCut
  /\ cuts = 0 => /\ work["left"].pc = "idle"
                 /\ \A s \in Slots : /\ EngineWrote(work[s])
                                     /\ work[s].pc \notin {"rollback", "finish", "notify", "close"}

LEMMA IdleWrote == EngineWrote(Idle) /\ Idle.pc = "idle"
BY IdleJob DEF EngineWrote

LEMMA InitWhole == Init => WholeInv
<1> SUFFICES ASSUME Init PROVE WholeInv
  OBVIOUS
<1>1. row[Trade].status = "ACTIVE"
  BY KeysSplit DEF Init, Opened, Row
<1> QED BY <1>1, IdleWrote DEF Init, WholeInv, WholeUnlessCut, Slots

\* A worker that ends has nothing written.
LEMMA EndsWrote ==
  ASSUME TypeOK, NEW s \in Slots, NEW status \in {"SUCCESS", "NO_DATA", "FAILED"},
         Ends(s, status)
  PROVE  EngineWrote(work'[s]) /\ work'[s].pc \in {status, "idle"}
         /\ \A o \in Slots \ {s} : work'[o] = work[o]
BY IdleWrote DEF Ends, TypeOK, Jobs, EngineWrote

\* What a step of a worker writes.
LEMMA WorkerWrote ==
  ASSUME TypeOK, NEW s \in Slots, EngineWrote(work[s]), Worker(s)
  PROVE  /\ EngineWrote(work'[s])
         /\ work'[s].pc \notin {"rollback", "finish", "notify", "close"}
         /\ \A o \in Slots \ {s} : work'[o] = work[o]
<1> DEFINE w == work[s]
<1>w. w \in Jobs /\ work \in [Slots -> Jobs]
  BY DEF TypeOK
<1>1. CASE FindDates(s)
  BY <1>1, <1>w DEF FindDates, EngineWrote, Jobs
<1>2. CASE Download(s)
  BY <1>2, <1>w DEF Download, EngineWrote, Jobs
<1>3. CASE NoFile(s)
  BY <1>3, <1>w, EndsWrote DEF NoFile, EngineWrote, Jobs
<1>4. CASE DownloadRaises(s)
  BY <1>4, EndsWrote DEF DownloadRaises
<1>5. CASE AllDates(s)
  BY <1>5, EndsWrote DEF AllDates
<1>6. CASE ReadOpen(s)
  BY <1>6, <1>w, EndsWrote DEF ReadOpen, EngineWrote, Jobs
<1>7. CASE Review(s)
  <2>1. w.mine = Clean
    BY <1>7 DEF Review, EngineWrote
  <2> QED BY <1>7, <2>1, <1>w, CleanRows, KeysSplit DEF Review, EngineWrote, Jobs
<1>8. CASE SettleLeg(s)
  BY <1>8, <1>w, KeysSplit DEF SettleLeg, EngineWrote, Jobs, Least, TypeOK, RowSets
<1>9. CASE SettleTrade(s)
  BY <1>9, <1>w, KeysSplit, RowTypes DEF SettleTrade, EngineWrote, Jobs, RowSets, Row, Unwritten
<1>10. CASE MarkActive(s)
  BY <1>10, <1>w, KeysSplit DEF MarkActive, EngineWrote, Jobs, RowSets, Row
<1>11. CASE SettlementFails(s)
  BY <1>11, <1>w DEF SettlementFails, EngineWrote, Jobs
<1>12. CASE MarkFails(s)
  BY <1>12, EndsWrote DEF MarkFails
<1>13. CASE Commit(s)
  BY <1>13, EndsWrote DEF Commit
<1>14. CASE Finish(s)
  BY <1>14, <1>w, IdleWrote DEF Finish
<1> QED BY <1>1, <1>2, <1>3, <1>4, <1>5, <1>6, <1>7, <1>8, <1>9, <1>10, <1>11, <1>12, <1>13,
           <1>14 DEF Worker

\* A step of a worker keeps it.
LEMMA WorkerWhole ==
  ASSUME TypeOK, WholeInv, NEW s \in Slots, Worker(s)
  PROVE  WholeInv'
<1> DEFINE w == work[s]
<1>1. SUFFICES ASSUME cuts = 0 PROVE WholeInv'
  <2>1. cuts' = cuts
    BY DEF Worker, FindDates, Download, NoFile, DownloadRaises, AllDates, ReadOpen, Review,
           SettleLeg, SettleTrade, MarkActive, SettlementFails, MarkFails, Commit, Finish, counts
  <2> QED BY <2>1 DEF WholeInv, WholeUnlessCut
<1>2. EngineWrote(w) /\ work["left"].pc = "idle" /\ "left" \in Slots /\ w \in Jobs
  BY <1>1 DEF WholeInv, Slots, TypeOK
<1>3. s # "left"
  BY <1>2 DEF Worker, FindDates, Download, NoFile, DownloadRaises, AllDates, ReadOpen, Review,
         SettleLeg, SettleTrade, MarkActive, SettlementFails, MarkFails, Commit, Finish
<1>4. /\ work'["left"].pc = "idle"
      /\ \A o \in Slots : /\ EngineWrote(work'[o])
                          /\ work'[o].pc \notin {"rollback", "finish", "notify", "close"}
  BY <1>1, <1>2, <1>3, WorkerWrote DEF WholeInv
<1>5. WholeUnlessCut'
  <2>1. CASE Commit(s)
    <3>1. w.pc = "commit" /\ row' = Over(w.mine, row)
      BY <2>1 DEF Commit
    <3>2. CASE w.mine = Clean
      <4>1. \A k \in Keys : row'[k] = row[k]
        BY <3>1, <3>2, CleanRows DEF Over
      <4> QED BY <4>1, KeysSplit, <1>1 DEF WholeUnlessCut, WholeInv
    <3>3. CASE w.mine[Trade].status = "ACTIVE"
      <4>1. row'[Trade].status = "ACTIVE"
        BY <3>1, <3>3, KeysSplit DEF Over, Unwritten, Row
      <4> QED BY <4>1 DEF WholeUnlessCut
    <3>4. CASE \A k \in Keys : w.mine[k].by = "engine" /\ w.mine[k] # Unwritten
      <4>1. \A k \in Keys : row'[k].by = "engine"
        BY <3>1, <3>4 DEF Over
      <4> QED BY <4>1, KeysSplit DEF WholeUnlessCut
    <3> QED BY <3>1, <3>2, <3>3, <3>4, <1>2 DEF EngineWrote
  <2>2. CASE ~Commit(s)
    <3>1. row' = row
      BY <2>2 DEF Worker, FindDates, Download, NoFile, DownloadRaises, AllDates, ReadOpen, Review,
             SettleLeg, SettleTrade, MarkActive, SettlementFails, MarkFails, Finish
    <3> QED BY <3>1, <1>1 DEF WholeUnlessCut, WholeInv
  <2> QED BY <2>1, <2>2
<1> QED BY <1>4, <1>5 DEF WholeInv

LEMMA BegunWrote ==
  ASSUME NEW j, NEW n, NEW end, NEW dated, NEW early
  PROVE  /\ EngineWrote(Begun(j, n, end, dated, early))
         /\ Begun(j, n, end, dated, early).pc \in {"open", "dates"}
BY DEF Begun, EngineWrote

\* Every step keeps it.
LEMMA StepWhole ==
  ASSUME TypeOK, WholeInv, [Next]_vars
  PROVE  WholeInv'
<1> DEFINE Same == UNCHANGED <<row, work>> /\ (cuts' = 0 => cuts = 0)
           Whole(s) == /\ EngineWrote(work[s])
                       /\ work[s].pc \notin {"rollback", "finish", "notify", "close"}
<1>t. cuts \in Nat /\ work \in [Slots -> Jobs] /\ Slots = {"chain", "hand", "left"}
  BY DEF TypeOK, Slots
<1>1. CASE \E s \in Slots : Worker(s)
  BY <1>1, WorkerWhole
<1>2. CASE \E s \in Slots : Cut(s)
  BY <1>2, <1>t DEF Cut, WholeInv, WholeUnlessCut
<1>3. CASE \E s \in Slots : Report(s)
  <2>1. PICK s \in Slots : Report(s)
    BY <1>3
  <2>2. cuts' = cuts /\ work[s].pc \in {"rollback", "finish", "notify", "close"}
    BY <2>1 DEF Report, ReportRollsBack, ReportCommits, ReportCloses, counts
  <2> QED BY <2>2 DEF WholeInv, WholeUnlessCut
<1>4. CASE Nine \/ ChainEnds \/ CutChain \/ CloseReads \/ CloseGivesUp \/ UNCHANGED vars
  <2>1. Same
    BY <1>4, <1>t DEF Nine, ChainEnds, CutChain, CloseReads, CloseGivesUp, vars, counts
  <2> QED BY <2>1 DEF WholeInv, WholeUnlessCut
<1>5. CASE NextStep
  <2>1. row' = row /\ cuts' = cuts
    BY <1>5 DEF NextStep, counts
  <2>2. /\ \E b : /\ EngineWrote(b) /\ b.pc \in {"open", "dates"}
                  /\ work' = [work EXCEPT !["chain"] = b]
    BY <1>5, BegunWrote DEF NextStep
  <2> QED BY <2>1, <2>2, <1>t DEF WholeInv, WholeUnlessCut
<1>6. CASE ByHand
  <2>1. row' = row /\ cuts' = cuts
    BY <1>6 DEF ByHand
  <2>2. /\ \E b : /\ EngineWrote(b) /\ b.pc \in {"open", "dates"}
                  /\ work' = [work EXCEPT !["hand"] = b]
    BY <1>6, BegunWrote DEF ByHand
  <2> QED BY <2>1, <2>2, <1>t DEF WholeInv, WholeUnlessCut
<1>7. CASE Die \/ NewDay
  <2>1. row' = row /\ cuts' = cuts /\ work' = [s \in Slots |-> Idle]
    BY <1>7 DEF Die, NewDay, Restarts
  <2> QED BY <2>1, <1>t, IdleWrote DEF WholeInv, WholeUnlessCut
<1>8. CASE CloseWrites
  <2>1. work' = work /\ cuts' = cuts /\ \A k \in Keys : row'[k].by = "user"
    BY <1>8 DEF CloseWrites, counts, Row
  <2> QED BY <2>1, KeysSplit DEF WholeInv, WholeUnlessCut
<1>9. CASE Void
  <2>1. work' = work /\ cuts' = cuts /\ row'[Trade].status = "VOID"
    BY <1>9, KeysSplit DEF Void, TypeOK, RowSets, TradeRows, LegRows
  <2> QED BY <2>1 DEF WholeInv, WholeUnlessCut
<1> QED BY <1>1, <1>2, <1>3, <1>4, <1>5, <1>6, <1>7, <1>8, <1>9 DEF Next, User

\* However reviews, lock timeouts, deaths and closes of the user interleave, a closed
\* trade and its legs have one author, as long as no job is cut off.
THEOREM EodWhole == Spec => []WholeUnlessCut
<1>1. Init => TypeOK /\ WholeInv
  BY InitType, InitWhole
<1>2. TypeOK /\ WholeInv /\ [Next]_vars => (TypeOK /\ WholeInv)'
  BY StepType, StepWhole
<1>3. WholeInv => WholeUnlessCut
  BY DEF WholeInv
<1> QED BY <1>1, <1>2, <1>3, PTL DEF Spec

-----------------------------------------------------------------------------
(* An ended trade. *)

\* Who has read an ended trade open read it before it ended, and only a review that
\* has read it open has anything written.
EndInv ==
  /\ row[Trade].status \in Ended => Reading \subseteq stale
  /\ \A s \in Slots : work[s].pc \notin {"settle", "mark", "commit"} => work[s].mine = Clean

LEMMA InitEnd == Init => EndInv
BY KeysSplit, IdleJob DEF Init, EndInv, Opened, Row, Ended, Slots

\* How a step of a worker moves it in and out of the readers.
LEMMA WorkerReads ==
  ASSUME TypeOK, EndInv, NEW s \in Slots, Worker(s)
  PROVE  EndInv'
<1> DEFINE w == work[s]
           Reviewing(v) == v.pc \in {"look", "settle", "mark", "commit"}
           Tidy(v) == v.pc \notin {"settle", "mark", "commit"} => v.mine = Clean
<1>w. w \in Jobs /\ work \in [Slots -> Jobs] /\ "user" \notin Slots
  BY DEF TypeOK, Slots
<1>0. /\ \A o \in Slots \ {s} : work'[o] = work[o]
      /\ desk' = desk
  <2>1. CASE FindDates(s) \/ Download(s) \/ Review(s) \/ SettleLeg(s) \/ SettleTrade(s)
             \/ MarkActive(s) \/ SettlementFails(s) \/ Finish(s)
    BY <2>1, <1>w DEF FindDates, Download, Review, SettleLeg, SettleTrade, MarkActive,
                      SettlementFails, Finish
  <2>2. CASE NoFile(s) \/ DownloadRaises(s) \/ AllDates(s) \/ ReadOpen(s) \/ MarkFails(s)
             \/ Commit(s)
    BY <2>2, <1>w DEF NoFile, DownloadRaises, AllDates, ReadOpen, MarkFails, Commit, Ends
  <2> QED BY <2>1, <2>2 DEF Worker
<1>e. ASSUME NEW st \in {"SUCCESS", "NO_DATA", "FAILED"}, Ends(s, st)
      PROVE  ~Reviewing(work'[s]) /\ Tidy(work'[s])
  BY <1>e, <1>w, IdleJob DEF Ends, Jobs
<1>1. Tidy(work'[s])
  <2>1. CASE FindDates(s) \/ Download(s)
    BY <2>1, <1>w DEF FindDates, Download, EndInv, Jobs
  <2>2. CASE NoFile(s) \/ DownloadRaises(s) \/ AllDates(s) \/ ReadOpen(s)
    BY <2>2, <1>w, <1>e DEF NoFile, DownloadRaises, AllDates, ReadOpen, EndInv, Jobs
  <2>3. CASE Review(s) \/ SettleLeg(s) \/ SettleTrade(s) \/ MarkActive(s) \/ SettlementFails(s)
    <3>1. CASE Review(s)
      <4>1. \/ work'[s] = [w EXCEPT !.pc = "commit"]
            \/ work'[s] = [w EXCEPT !.pc = "mark"]
            \/ work'[s] = [w EXCEPT !.pc = "settle", !.todo = Legs]
        BY <3>1, <1>w DEF Review
      <4> QED BY <4>1, <1>w DEF Jobs
    <3>2. CASE SettleLeg(s)
      BY <3>2, <1>w DEF SettleLeg, Jobs
    <3>3. CASE SettleTrade(s) \/ MarkActive(s) \/ SettlementFails(s)
      BY <3>3, <1>w DEF SettleTrade, MarkActive, SettlementFails, Jobs
    <3> QED BY <2>3, <3>1, <3>2, <3>3
  <2>4. CASE MarkFails(s) \/ Commit(s)
    BY <2>4, <1>e DEF MarkFails, Commit
  <2>5. CASE Finish(s)
    BY <2>5, <1>w, IdleJob DEF Finish
  <2> QED BY <2>1, <2>2, <2>3, <2>4, <2>5 DEF Worker
<1>2. ASSUME row'[Trade].status \in Ended PROVE Reading' \subseteq stale'
  <2>1. CASE Commit(s)
    <3>1. ~Reviewing(work'[s]) /\ stale' = stale \cup Reading
      BY <2>1, <1>2, <1>e DEF Commit, Misled
    <3> QED BY <3>1, <1>0 DEF Reading
  <2>2. CASE ReadOpen(s)
    <3>1. row' = row /\ stale' = stale \ {s}
      BY <2>2 DEF ReadOpen
    <3>2. ~Reviewing(work'[s])
      BY <2>2, <3>1, <1>2, <1>e DEF ReadOpen
    <3> QED BY <3>1, <3>2, <1>0, <1>2, <1>w DEF Reading, EndInv
  <2>3. CASE Finish(s)
    <3>1. row' = row /\ stale' = stale \ {s} /\ ~Reviewing(work'[s])
      BY <2>3, <1>w, IdleJob DEF Finish
    <3> QED BY <3>1, <1>0, <1>2, <1>w DEF Reading, EndInv
  <2>4. CASE ~(Commit(s) \/ ReadOpen(s) \/ Finish(s))
    <3>1. row' = row /\ stale' = stale
      BY <2>4 DEF Worker, FindDates, Download, NoFile, DownloadRaises, AllDates, Review,
             SettleLeg, SettleTrade, MarkActive, SettlementFails, MarkFails
    <3>2. Reviewing(work'[s]) => Reviewing(w)
      <4>1. CASE FindDates(s) \/ Download(s)
        BY <4>1, <1>w DEF FindDates, Download, Jobs
      <4>2. CASE NoFile(s) \/ DownloadRaises(s) \/ AllDates(s) \/ MarkFails(s)
        BY <4>2, <1>w, <1>e DEF NoFile, DownloadRaises, AllDates, MarkFails, Jobs
      <4>3. CASE Review(s) \/ SettleLeg(s) \/ SettleTrade(s) \/ MarkActive(s)
                 \/ SettlementFails(s)
        BY <4>3 DEF Review, SettleLeg, SettleTrade, MarkActive, SettlementFails
      <4> QED BY <2>4, <4>1, <4>2, <4>3 DEF Worker
    <3> QED BY <3>1, <3>2, <1>0, <1>2 DEF Reading, EndInv
  <2> QED BY <2>1, <2>2, <2>3, <2>4
<1> QED BY <1>0, <1>1, <1>2 DEF EndInv

\* Every step keeps it.
LEMMA StepEnd ==
  ASSUME TypeOK, EndInv, [Next]_vars
  PROVE  EndInv'
<1>t. /\ work \in [Slots -> Jobs] /\ Slots = {"chain", "hand", "left"} /\ "user" \notin Slots
      /\ \A s \in Slots : work[s] \in Jobs
  BY DEF TypeOK, Slots
<1>1. CASE \E s \in Slots : Worker(s)
  BY <1>1, WorkerReads
<1>2. CASE \E s \in Slots : Cut(s)
  <2>1. PICK s \in Slots : Cut(s)
    BY <1>2
  <2>2. PICK left \in {work[s], IF work[s].pc = "settle"
                                THEN [work[s] EXCEPT !.pc = "mark", !.todo = {}] ELSE Idle} :
          work' = [work EXCEPT !["left"] = [left EXCEPT !.mine = Clean],
                               ![s].pc = "rollback", ![s].todo = {}, ![s].mine = Clean]
    BY <2>1 DEF Cut
  <2>3. left \in Jobs /\ s # "left" /\ row' = row /\ desk' = desk
    BY <2>1, <1>t, IdleJob, ZenonT(60) DEF Cut, Jobs, Pcs
  <2>4. /\ work'["left"] = [left EXCEPT !.mine = Clean] /\ work'["left"].mine = Clean
        /\ work'["left"].pc = left.pc
        /\ work'[s].pc = "rollback" /\ work'[s].mine = Clean
        /\ \A o \in Slots \ {s, "left"} : work'[o] = work[o]
    BY <2>2, <2>3, <1>t DEF Jobs
  <2>5. left.pc \in {"look", "settle", "mark", "commit"} =>
          work[s].pc \in {"look", "settle", "mark", "commit"}
    BY <2>2, <1>t, IdleJob DEF Jobs
  <2>6. ASSUME row[Trade].status \in Ended PROVE Reading' \subseteq stale'
    <3>1. stale' = IF s \in stale THEN (stale \ {s}) \cup {"left"} ELSE stale \ {"left"}
      BY <2>1 DEF Cut
    <3>2. Reading \subseteq stale
      BY <2>6 DEF EndInv
    <3> QED BY <2>3, <2>4, <2>5, <3>1, <3>2, <1>t DEF Reading
  <2> QED BY <2>3, <2>4, <2>6 DEF EndInv
<1>3. CASE \E s \in Slots : Report(s)
  <2>1. PICK s \in Slots : Report(s)
    BY <1>3
  <2>2. /\ s # "left" /\ desk' = desk
        /\ work'["left"].mine = Clean /\ work'["left"].pc = work["left"].pc
        /\ work'[s].pc \in {"finish", "notify", "close", "idle"} /\ work'[s].mine = Clean
        /\ \A o \in Slots \ {s, "left"} : work'[o] = work[o]
    BY <2>1, <1>t, IdleJob DEF Report, ReportRollsBack, ReportCommits, ReportCloses, EndInv, Jobs
  <2>3. stale' = Misled \/ (row' = row /\ stale' = stale)
    BY <2>1 DEF Report, ReportRollsBack, ReportCommits, ReportCloses
  <2>4. Reading' \subseteq Reading
    BY <2>2, <1>t DEF Reading
  <2> QED BY <2>2, <2>3, <2>4 DEF EndInv, Misled
<1>4. CASE Nine \/ ChainEnds \/ CutChain \/ UNCHANGED vars
  BY <1>4 DEF Nine, ChainEnds, CutChain, vars, EndInv, Reading
<1>5. CASE NextStep \/ ByHand
  <2>1. PICK s \in Slots : /\ work'[s].pc \in {"open", "dates"} /\ work'[s].mine = Clean
                           /\ \A o \in Slots \ {s} : work'[o] = work[o]
    BY <1>5, <1>t DEF NextStep, ByHand, Begun
  <2>2. UNCHANGED <<row, desk, stale>>
    BY <1>5 DEF NextStep, ByHand
  <2> QED BY <2>1, <2>2, <1>t DEF EndInv, Reading
<1>6. CASE Die \/ NewDay
  <2>1. work' = [s \in Slots |-> Idle] /\ desk' = "away"
    BY <1>6 DEF Die, NewDay, Restarts
  <2> QED BY <2>1, IdleJob, <1>t DEF EndInv, Reading
<1>7. CASE CloseReads
  <2>1. work' = work /\ row' = row /\ row[Trade].status \notin Ended
    BY <1>7 DEF CloseReads
  <2> QED BY <2>1 DEF EndInv
<1>8. CASE CloseGivesUp
  <2>1. work' = work /\ row' = row /\ desk' = "away" /\ stale' = stale \ {"user"}
    BY <1>8 DEF CloseGivesUp
  <2> QED BY <2>1, <1>t DEF EndInv, Reading
<1>9. CASE CloseWrites \/ Void
  <2>1. work' = work /\ stale' = Misled /\ (desk' = desk \/ desk' = "away")
    BY <1>9 DEF CloseWrites, Void
  <2> QED BY <2>1 DEF EndInv, Reading, Misled
<1> QED BY <1>1, <1>2, <1>3, <1>4, <1>5, <1>6, <1>7, <1>8, <1>9 DEF Next, User

\* What a transaction may hold unless its job reviews the day of expiry: the trade,
\* active with the result that is recorded.
Marks(w, by) ==
  w.end # Expiry =>
    /\ w.pc # "settle" /\ \A l \in Legs : w.mine[l] = Unwritten
    /\ w.mine[Trade] \in {Unwritten, Row("ACTIVE", by)}

\* That, and one transaction at most that holds the trade's row.
MarkInv ==
  /\ \A s \in Slots : Marks(work[s], row[Trade].by)
  /\ \A s, o \in Slots : s # o =>
       work[s].mine[Trade] = Unwritten \/ work[o].mine[Trade] = Unwritten

LEMMA CleanMarks ==
  ASSUME NEW w, w.mine = Clean, w.pc # "settle", NEW by
  PROVE  Marks(w, by) /\ w.mine[Trade] = Unwritten
BY CleanRows, KeysSplit DEF Marks

LEMMA InitMark == Init => MarkInv
<1> SUFFICES ASSUME Init PROVE MarkInv
  OBVIOUS
<1>1. \A s \in Slots : work[s].mine = Clean /\ work[s].pc # "settle"
  BY IdleJob DEF Init
<1> QED BY <1>1, CleanMarks DEF MarkInv

\* One job moves: the others hold what they held, and the recorded result changes only
\* when none of them holds the trade.
LEMMA MarkFrame ==
  ASSUME MarkInv, NEW s \in Slots, Marks(work'[s], row'[Trade].by),
         \A o \in Slots \ {s} : work'[o] = work[o],
         work'[s].mine[Trade] = Unwritten \/ \A o \in Slots \ {s} : work[o].mine[Trade] = Unwritten,
         row'[Trade].by = row[Trade].by \/ \A o \in Slots \ {s} : work[o].mine[Trade] = Unwritten
  PROVE  MarkInv'
<1>1. ASSUME NEW o \in Slots PROVE Marks(work'[o], row'[Trade].by)
  BY <1>1 DEF MarkInv, Marks
<1>2. ASSUME NEW o \in Slots, NEW p \in Slots, o # p
      PROVE  work'[o].mine[Trade] = Unwritten \/ work'[p].mine[Trade] = Unwritten
  BY <1>2 DEF MarkInv
<1> QED BY <1>1, <1>2 DEF MarkInv, Marks

LEMMA WorkerMarks ==
  ASSUME TypeOK, EndInv, MarkInv, NEW s \in Slots, Worker(s)
  PROVE  MarkInv'
<1> DEFINE w == work[s]
           Others == \A o \in Slots \ {s} : work[o].mine[Trade] = Unwritten
           Alone == \A o \in Slots \ {s} : work'[o] = work[o]
<1>w. w \in Jobs /\ work \in [Slots -> Jobs] /\ Marks(w, row[Trade].by) /\ row \in RowSets
      /\ (w.mine[Trade] = Unwritten \/ Others)
  BY DEF TypeOK, MarkInv
<1>e. ASSUME NEW st \in {"SUCCESS", "NO_DATA", "FAILED"}, Ends(s, st)
      PROVE  Alone /\ work'[s].mine = Clean /\ work'[s].pc # "settle"
  BY <1>e, <1>w, IdleJob DEF Ends, Jobs
<1>l. Trade \notin LockedFor(s) => Others
  BY KeysSplit DEF LockedFor
<1>1. CASE FindDates(s) \/ Download(s)
  <2>1. /\ Alone /\ row' = row /\ work'[s].mine = w.mine /\ w.pc \notin {"settle", "mark", "commit"}
        /\ work'[s].pc # "settle"
    BY <1>1, <1>w DEF FindDates, Download, Jobs
  <2>2. w.mine = Clean
    BY <2>1 DEF EndInv
  <2> QED BY <2>1, <2>2, CleanMarks, MarkFrame
<1>2. CASE NoFile(s) \/ DownloadRaises(s) \/ AllDates(s) \/ ReadOpen(s) \/ MarkFails(s)
  <2>1. /\ row' = row /\ Alone /\ work'[s].pc # "settle" /\ work'[s].mine = Clean
    <3>1. CASE DownloadRaises(s) \/ AllDates(s) \/ MarkFails(s)
      BY <3>1, <1>e DEF DownloadRaises, AllDates, MarkFails
    <3>2. CASE NoFile(s) \/ ReadOpen(s)
      <4>1. w.mine = Clean
        BY <3>2 DEF NoFile, ReadOpen, EndInv
      <4> QED BY <3>2, <4>1, <1>w, <1>e DEF NoFile, ReadOpen, Jobs
    <3> QED BY <1>2, <3>1, <3>2
  <2> QED BY <2>1, CleanMarks, MarkFrame
<1>3. CASE Review(s)
  <2>1. w.mine = Clean
    BY <1>3 DEF Review, EndInv
  <2>2. /\ row' = row /\ Alone /\ work'[s].mine = Clean /\ work'[s].end = w.end
        /\ w.end # Expiry => work'[s].pc # "settle"
    BY <1>3, <2>1, <1>w DEF Review, Jobs
  <2> QED BY <2>2, CleanRows, KeysSplit, MarkFrame DEF Marks
<1>4. CASE SettleLeg(s) \/ SettleTrade(s) \/ SettlementFails(s)
  <2>0. w.pc = "settle" /\ w.end = Expiry
    BY <1>4, <1>w DEF SettleLeg, SettleTrade, SettlementFails, Marks
  <2>1. row' = row /\ Alone /\ work'[s].end = w.end
    <3>1. CASE SettleLeg(s)
      BY <3>1, <1>w DEF SettleLeg, Jobs
    <3>2. CASE SettleTrade(s)
      BY <3>2, <1>w DEF SettleTrade, Jobs
    <3>3. CASE SettlementFails(s)
      BY <3>3, <1>w DEF SettlementFails, Jobs
    <3> QED BY <1>4, <3>1, <3>2, <3>3
  <2>2. work'[s].mine[Trade] = w.mine[Trade] \/ Others
    <3>1. CASE SettleLeg(s)
      <4>1. PICK l \in Least(w.todo) \ LockedFor(s) :
              work' = [work EXCEPT ![s].todo = @ \ {l}, ![s].mine[l] = Row("EXECUTED", "engine")]
        BY <3>1 DEF SettleLeg
      <4>2. l \in Legs
        BY <3>1, <4>1 DEF SettleLeg, Least, TypeOK
      <4> QED BY <4>1, <4>2, <1>w, KeysSplit DEF Jobs, RowSets
    <3>2. CASE SettleTrade(s)
      BY <3>2, <1>l DEF SettleTrade
    <3>3. CASE SettlementFails(s)
      BY <3>3, <1>w DEF SettlementFails, Jobs
    <3> QED BY <1>4, <3>1, <3>2, <3>3
  <2>3. Marks(work'[s], row'[Trade].by)
    BY <2>0, <2>1 DEF Marks
  <2> QED BY <2>1, <2>2, <2>3, <1>w, MarkFrame
<1>5. CASE MarkActive(s)
  <2>1. /\ row' = row /\ Alone /\ work'[s].end = w.end /\ work'[s].pc = "commit" /\ Others
        /\ work'[s].mine = [w.mine EXCEPT ![Trade] = Row("ACTIVE", row[Trade].by)]
    BY <1>5, <1>w, <1>l DEF MarkActive, Jobs
  <2>2. Marks(work'[s], row'[Trade].by)
    BY <2>1, <1>w, KeysSplit DEF Marks, Jobs, RowSets
  <2> QED BY <2>1, <2>2, MarkFrame
<1>6. CASE Commit(s)
  <2>1. row' = Over(w.mine, row) /\ Alone /\ work'[s].mine = Clean /\ work'[s].pc # "settle"
    BY <1>6, <1>e DEF Commit
  <2>2. row'[Trade].by = row[Trade].by \/ Others
    BY <2>1, <1>w, KeysSplit DEF Over
  <2> QED BY <2>1, <2>2, CleanMarks, MarkFrame
<1>7. CASE Finish(s)
  <2>1. row' = row /\ Alone /\ work'[s].mine = Clean /\ work'[s].pc # "settle"
    BY <1>7, <1>w, IdleJob DEF Finish
  <2> QED BY <2>1, CleanMarks, MarkFrame
<1> QED BY <1>1, <1>2, <1>3, <1>4, <1>5, <1>6, <1>7 DEF Worker

LEMMA StepMark ==
  ASSUME TypeOK, EndInv, MarkInv, [Next]_vars
  PROVE  MarkInv'
<1>t. /\ work \in [Slots -> Jobs] /\ Slots = {"chain", "hand", "left"}
      /\ \A s \in Slots : work[s] \in Jobs
  BY DEF TypeOK, Slots
<1>1. CASE \E s \in Slots : Worker(s)
  BY <1>1, WorkerMarks
<1>2. CASE \E s \in Slots : Cut(s)
  <2>1. PICK s \in Slots : Cut(s)
    BY <1>2
  <2>2. PICK left \in {work[s], IF work[s].pc = "settle"
                                THEN [work[s] EXCEPT !.pc = "mark", !.todo = {}] ELSE Idle} :
          work' = [work EXCEPT !["left"] = [left EXCEPT !.mine = Clean],
                               ![s].pc = "rollback", ![s].todo = {}, ![s].mine = Clean]
    BY <2>1 DEF Cut
  <2>3. left \in Jobs /\ s # "left" /\ row' = row
    BY <2>1, <1>t, IdleJob, ZenonT(60) DEF Cut, Jobs, Pcs
  <2>4. /\ work'["left"].mine = Clean /\ work'["left"].pc = left.pc /\ work'["left"].end = left.end
        /\ work'[s].pc = "rollback" /\ work'[s].mine = Clean
        /\ \A o \in Slots \ {s, "left"} : work'[o] = work[o]
    BY <2>2, <2>3, <1>t DEF Jobs
  <2>5. left.end # Expiry => left.pc # "settle"
    <3>1. CASE left = work[s]
      BY <3>1 DEF MarkInv, Marks
    <3>2. CASE left # work[s]
      BY <2>2, <3>2, <1>t, IdleJob DEF Jobs
    <3> QED BY <3>1, <3>2
  <2>6. Marks(work'["left"], row[Trade].by) /\ work'["left"].mine[Trade] = Unwritten
    BY <2>4, <2>5, CleanRows, KeysSplit DEF Marks
  <2>7. Marks(work'[s], row[Trade].by) /\ work'[s].mine[Trade] = Unwritten
    BY <2>4, CleanMarks
  <2> QED BY <2>3, <2>4, <2>6, <2>7 DEF MarkInv, Marks
<1>3. CASE \E s \in Slots : Report(s)
  <2>1. PICK s \in Slots : Report(s)
    BY <1>3
  <2>2. /\ s # "left" /\ work'["left"].mine = Clean
        /\ work'["left"].pc = work["left"].pc /\ work'["left"].end = work["left"].end
        /\ work'[s].pc \in {"finish", "notify", "close", "idle"} /\ work'[s].mine = Clean
        /\ \A o \in Slots \ {s, "left"} : work'[o] = work[o]
    BY <2>1, <1>t, IdleJob DEF Report, ReportRollsBack, ReportCommits, ReportCloses, EndInv, Jobs
  <2>3. row' \in {row, Over(work["left"].mine, row)}
    BY <2>1 DEF Report, ReportRollsBack, ReportCommits, ReportCloses
  <2>4. \/ row'[Trade].by = row[Trade].by
        \/ \A o \in Slots \ {"left"} : work[o].mine[Trade] = Unwritten
    BY <2>3, <1>t, KeysSplit DEF Over, MarkInv
  <2>5. Marks(work'["left"], row'[Trade].by) /\ work'["left"].mine[Trade] = Unwritten
    BY <2>2, <1>t, CleanRows, KeysSplit DEF Marks, MarkInv
  <2>6. Marks(work'[s], row'[Trade].by) /\ work'[s].mine[Trade] = Unwritten
    BY <2>2, CleanMarks
  <2>7. \A o \in Slots \ {s, "left"} : Marks(work'[o], row'[Trade].by)
    BY <2>2, <2>4 DEF Marks, MarkInv
  <2> QED BY <2>2, <2>5, <2>6, <2>7 DEF MarkInv, Marks
<1>4. CASE Nine \/ ChainEnds \/ CutChain \/ CloseReads \/ CloseGivesUp \/ UNCHANGED vars
  <2>1. work' = work /\ row' = row
    BY <1>4 DEF Nine, ChainEnds, CutChain, CloseReads, CloseGivesUp, vars
  <2> QED BY <2>1 DEF MarkInv, Marks
<1>5. CASE NextStep \/ ByHand
  <2>1. PICK s \in Slots : /\ work'[s].pc \in {"open", "dates"} /\ work'[s].mine = Clean
                           /\ \A o \in Slots \ {s} : work'[o] = work[o]
    BY <1>5, <1>t DEF NextStep, ByHand, Begun
  <2>2. row' = row
    BY <1>5 DEF NextStep, ByHand
  <2> QED BY <2>1, <2>2, CleanMarks, MarkFrame
<1>6. CASE Die \/ NewDay
  <2>1. \A s \in Slots : work'[s].mine = Clean /\ work'[s].pc # "settle"
    BY <1>6, IdleJob DEF Die, NewDay, Restarts
  <2> QED BY <2>1, CleanMarks DEF MarkInv, Marks
<1>7. CASE CloseWrites \/ Void
  <2>1. work' = work /\ (row'[Trade].by = row[Trade].by
                         \/ \A o \in Slots : work[o].mine[Trade] = Unwritten)
    <3>1. CASE CloseWrites
      <4>1. \A o \in Slots \ {"user"} : work[o].mine[Trade] = Unwritten
        BY <3>1, KeysSplit DEF CloseWrites, LockedFor
      <4> QED BY <3>1, <4>1, <1>t DEF CloseWrites
    <3>2. CASE Void
      BY <3>2, KeysSplit DEF Void, TypeOK, RowSets, TradeRows
    <3> QED BY <1>7, <3>1, <3>2
  <2> QED BY <2>1 DEF MarkInv, Marks
<1> QED BY <1>1, <1>2, <1>3, <1>4, <1>5, <1>6, <1>7 DEF Next, User

\* A transaction of another day than that of expiry changes the status at most.
LEMMA MarkedRow ==
  ASSUME TypeOK, MarkInv, NEW s \in Slots, work[s].end # Expiry,
         row' = Over(work[s].mine, row), row' # row
  PROVE  row' = [row EXCEPT ![Trade].status = "ACTIVE"]
<1>1. /\ \A l \in Legs : work[s].mine[l] = Unwritten
      /\ work[s].mine[Trade] \in {Unwritten, Row("ACTIVE", row[Trade].by)}
  BY DEF MarkInv, Marks
<1>2. row \in RowSets /\ row' = [k \in Keys |-> row'[k]] /\ row = [k \in Keys |-> row[k]]
  BY DEF TypeOK, RowSets, Over
<1>3. \A l \in Legs : row'[l] = row[l]
  BY <1>1, KeysSplit DEF Over
<1>4. work[s].mine[Trade] # Unwritten
  <2>1. SUFFICES ASSUME work[s].mine[Trade] = Unwritten PROVE FALSE
    OBVIOUS
  <2>2. \A k \in Keys : row'[k] = row[k]
    BY <2>1, <1>3, KeysSplit DEF Over, Keys
  <2> QED BY <2>2, <1>2
<1>5. row'[Trade] = Row("ACTIVE", row[Trade].by)
  BY <1>1, <1>4, KeysSplit DEF Over
<1>6. row[Trade] \in [status : {"ACTIVE", "CLOSED", "VOID"}, by : Authors]
  BY <1>2, KeysSplit DEF TypeOK, RowSets, TradeRows
<1>7. [row[Trade] EXCEPT !.status = "ACTIVE"] = Row("ACTIVE", row[Trade].by)
  BY <1>6 DEF Row
<1> QED BY <1>2, <1>3, <1>5, <1>7, KeysSplit DEF Keys

\* What a step may do to an ended trade.
LEMMA EndStep ==
  ASSUME TypeOK, EndInv, MarkInv, [Next]_vars, row[Trade].status \in Ended, row' # row
  PROVE  \/ row' = [row EXCEPT ![Trade].status = "VOID"]
         \/ "user" \in stale \cap Reading /\ desk' # desk
         \/ \E s \in stale \cap Reading \cap Slots :
              /\ work'[s] # work[s]
              /\ work[s].end = Expiry \/ row' = [row EXCEPT ![Trade].status = "ACTIVE"]
<1>t. /\ work \in [Slots -> Jobs] /\ Slots = {"chain", "hand", "left"}
      /\ \A s \in Slots : work[s] \in Jobs
  BY DEF TypeOK, Slots
<1>1. \/ \E s \in Slots : Commit(s) \/ (s # "left" /\ ReportCommits(s))
      \/ CloseWrites \/ Void
  BY DEF Next, vars, counts, Worker, FindDates, Download, NoFile, DownloadRaises, AllDates,
         ReadOpen, Review, SettleLeg, SettleTrade, MarkActive, SettlementFails, MarkFails, Finish,
         Cut, Report, ReportRollsBack, ReportCloses, Nine, NextStep, ChainEnds, CutChain, ByHand,
         Die, NewDay, User, CloseReads, CloseGivesUp
<1>2. CASE \E s \in Slots : Commit(s)
  <2>1. PICK s \in Slots : Commit(s)
    BY <1>2
  <2>2. work[s].pc = "commit" /\ work'[s].pc # "commit"
    BY <2>1, <1>t, IdleJob DEF Commit, Ends, Jobs
  <2>3. work[s].end = Expiry \/ row' = [row EXCEPT ![Trade].status = "ACTIVE"]
    BY <2>1, MarkedRow DEF Commit
  <2> QED BY <2>2, <2>3, <1>t DEF EndInv, Reading
<1>3. CASE \E s \in Slots : s # "left" /\ ReportCommits(s)
  <2>1. PICK s \in Slots : s # "left" /\ ReportCommits(s)
    BY <1>3
  <2>2. row' = Over(work["left"].mine, row) /\ work'["left"].mine = Clean /\ "left" \in Slots
    BY <2>1, <1>t DEF ReportCommits, Jobs
  <2>3. work["left"].mine # Clean
    <3>1. SUFFICES ASSUME work["left"].mine = Clean PROVE FALSE
      OBVIOUS
    <3>2. row \in RowSets
      BY DEF TypeOK
    <3>3. row' = row
      BY <2>2, <3>1, <3>2, CleanRows DEF Over, RowSets
    <3> QED BY <3>3
  <2>4. work["left"].pc \in {"settle", "mark", "commit"}
    BY <2>3, <2>2 DEF EndInv
  <2>5. work["left"].end = Expiry \/ row' = [row EXCEPT ![Trade].status = "ACTIVE"]
    BY <2>2, MarkedRow
  <2> QED BY <2>2, <2>3, <2>4, <2>5, <1>t DEF EndInv, Reading
<1>4. CASE CloseWrites
  BY <1>4 DEF CloseWrites, EndInv, Reading
<1>5. CASE Void
  BY <1>5 DEF Void
<1> QED BY <1>1, <1>2, <1>3, <1>4, <1>5

\* An ended trade is changed only by somebody who had read it open before it ended, or
\* it is voided; and a review of another day than that of expiry may set its status
\* back, but leaves the recorded result and exit prices alone.
THEOREM EodEnded == Spec => EndStays
<1>1. Init => TypeOK /\ EndInv /\ MarkInv
  BY InitType, InitEnd, InitMark
<1>2. TypeOK /\ EndInv /\ MarkInv /\ [Next]_vars => (TypeOK /\ EndInv /\ MarkInv)'
  BY StepType, StepEnd, StepMark
<1>3. TypeOK /\ EndInv /\ MarkInv /\ [Next]_vars =>
        [row[Trade].status \in Ended /\ row' # row =>
           \/ row' = [row EXCEPT ![Trade].status = "VOID"]
           \/ "user" \in stale \cap Reading /\ desk' # desk
           \/ \E s \in stale \cap Reading \cap Slots :
                /\ work'[s] # work[s]
                /\ work[s].end = Expiry \/ row' = [row EXCEPT ![Trade].status = "ACTIVE"]]_vars
  BY EndStep
<1> QED BY <1>1, <1>2, <1>3, PTL DEF Spec, EndStays
=============================================================================

------------------------ MODULE ZerodhaClose_proofs ------------------------
(***************************************************************************)
(* Proofs about ZerodhaClose, for every number of requests, legs, lots and *)
(* deaths.  IInv is inductive; the position invariants follow from it.     *)
(***************************************************************************)
EXTENDS ZerodhaClose, SequenceTheorems, TLAPS

Labels == {"idle", "submit", "insert", "queued", "gate", "look", "legs",
           "rollback", "book", "write", "finish", "done"}
Locs   == [done : 0 .. NLegs, part : 0 .. Qty, undo : 0 .. NLegs,
           failed : SUBSET Legs, sent : BOOLEAN]

-----------------------------------------------------------------------------
(* The lock, and where its holder is. *)

LEMMA Constants ==
  /\ \A r \in Requests : Proc(r) \in Procs /\ r # None
  /\ Fresh \in Locs
BY ZerodhaCloseAssumption, SMT DEF Requests, Proc, Procs, Fresh, Locs, Legs

\* Stages are "free" or a label past the lock.
LEMMA StageTyped ==
  ASSUME TypeOK, LockHeld
  PROVE  Stage \in [Procs -> Busy \cup {"free"}]
<1> SUFFICES ASSUME NEW p \in Procs, holder[p] # None
             PROVE  pc[holder[p]] \in Busy
  BY DEF Stage
<1>1. holder[p] \in Requests /\ Proc(holder[p]) = p
  BY DEF TypeOK, LockHeld
<1> QED BY <1>1 DEF LockHeld

\* A request past the lock is its holder, and its stage is its label.
LEMMA AtStage ==
  ASSUME TypeOK, LockHeld, NEW r \in Requests, pc[r] \in Busy
  PROVE  /\ Proc(r) \in Procs /\ holder[Proc(r)] = r
         /\ Stage[Proc(r)] = pc[r]
BY Constants DEF LockHeld, Stage

\* The holder moves to another stage.
LEMMA HolderGoes ==
  ASSUME TypeOK, LockHeld, NEW r \in Requests, pc[r] \in Busy,
         NEW label \in Busy, GoTo(r, label), holder' = holder
  PROVE  /\ pc' \in [Requests -> Labels] /\ LockHeld'
         /\ Stage' = [Stage EXCEPT ![Proc(r)] = label]
<1>1. pc' = [pc EXCEPT ![r] = label] /\ pc' \in [Requests -> Labels]
  BY DEF GoTo, TypeOK, Labels, Busy
<1>2. LockHeld'
  BY <1>1 DEF LockHeld, TypeOK
<1>3. ASSUME NEW p \in Procs
      PROVE  Stage'[p] = [Stage EXCEPT ![Proc(r)] = label][p]
  <2>1. holder[Proc(r)] = r /\ r # None
    BY AtStage, Constants
  <2>2. CASE p = Proc(r)
    BY <1>1, <2>1, <2>2 DEF Stage, TypeOK
  <2>3. CASE p # Proc(r)
    <3>1. holder[p] # r
      BY <2>3, Constants DEF LockHeld
    <3> QED BY <1>1, <2>3, <3>1, Constants DEF Stage, TypeOK
  <2> QED BY <2>2, <2>3
<1>4. Stage' = [p \in Procs |-> Stage'[p]]
  BY DEF Stage
<1> QED BY <1>1, <1>2, <1>3, <1>4 DEF Stage

\* A request short of the lock, or past it, moves without taking it.
LEMMA OutsiderGoes ==
  ASSUME TypeOK, LockHeld, NEW r \in Requests, pc[r] \notin Busy,
         NEW label \in Labels \ Busy, GoTo(r, label), holder' = holder
  PROVE  /\ pc' \in [Requests -> Labels] /\ LockHeld' /\ Stage' = Stage
<1>1. pc' = [pc EXCEPT ![r] = label] /\ pc' \in [Requests -> Labels]
  BY DEF GoTo, TypeOK, Labels
<1>2. LockHeld'
  BY <1>1 DEF LockHeld, TypeOK
<1>3. ASSUME NEW p \in Procs, holder[p] # None PROVE pc'[holder[p]] = pc[holder[p]]
  <2>1. holder[p] # r
    BY <1>3, Constants DEF LockHeld
  <2> QED BY <1>1, <1>3, <2>1 DEF TypeOK
<1> QED BY <1>1, <1>2, <1>3 DEF Stage

\* A request that leaves frees the lock if it holds it.
LEMMA Leaves ==
  ASSUME TypeOK, LockHeld, NEW r \in Requests, Leave(r)
  PROVE  /\ pc' \in [Requests -> Labels] /\ LockHeld'
         /\ holder' \in [Procs -> Requests \cup {None}] /\ loc' \in [Procs -> Locs]
         /\ pc[r] \in Busy => /\ Stage' = [Stage EXCEPT ![Proc(r)] = "free"]
                              /\ loc' = [loc EXCEPT ![Proc(r)] = Fresh]
         /\ pc[r] \notin Busy => Stage' = Stage /\ loc' = loc
<1> DEFINE p == Proc(r)
<1>0. p \in Procs /\ r # None
  BY Constants
<1>1. PICK label \in {"finish", "done"} : pc' = [pc EXCEPT ![r] = label]
  BY DEF Leave, GoTo
<1>2. holder' = [holder EXCEPT ![p] = IF holder[p] = r THEN None ELSE holder[p]]
  BY DEF Leave
<1>3. loc' = [loc EXCEPT ![p] = IF holder[p] = r THEN Fresh ELSE loc[p]]
  BY DEF Leave
<1>4. pc' \in [Requests -> Labels]
  BY <1>1 DEF TypeOK, Labels
<1>5. holder' \in [Procs -> Requests \cup {None}]
  BY <1>2 DEF TypeOK
<1>6. loc' \in [Procs -> Locs]
  BY <1>3, Constants DEF TypeOK, Locs
<1>7. LockHeld'
  BY <1>0, <1>1, <1>2, Constants DEF LockHeld, TypeOK, Busy
<1>8. holder[p] = r <=> pc[r] \in Busy
  BY <1>0 DEF LockHeld
<1>9. ASSUME NEW q \in Procs, holder[q] # r
      PROVE  Stage'[q] = Stage[q]
  BY <1>0, <1>1, <1>2, <1>9 DEF Stage, TypeOK
<1>10. CASE pc[r] \in Busy
  <2>1. \A q \in Procs : q # p => holder[q] # r
    BY <1>0 DEF LockHeld
  <2>2. Stage'[p] = "free"
    BY <1>0, <1>2, <1>8, <1>10 DEF Stage, TypeOK
  <2>3. \A q \in Procs : Stage'[q] = [Stage EXCEPT ![p] = "free"][q]
    BY <1>9, <2>1, <2>2 DEF Stage
  <2>4. Stage' = [Stage EXCEPT ![p] = "free"]
    BY <2>3 DEF Stage
  <2> QED BY <1>3, <1>4, <1>5, <1>6, <1>7, <1>8, <1>10, <2>4
<1>11. CASE pc[r] \notin Busy
  <2>1. \A q \in Procs : holder[q] # r
    BY <1>0, <1>8, <1>11 DEF LockHeld
  <2>2. \A q \in Procs : Stage'[q] = Stage[q]
    BY <1>9, <2>1
  <2>3. Stage' = Stage
    BY <2>2 DEF Stage
  <2>4. loc' = loc
    BY <1>3, <2>1, <1>0 DEF TypeOK
  <2> QED BY <1>4, <1>5, <1>6, <1>7, <1>11, <2>3, <2>4
<1> QED BY <1>10, <1>11

-----------------------------------------------------------------------------
(* Stages that owe nothing. *)

\* The types the lemmas below read, with the names given above.
LEMMA Types ==
  ASSUME TypeOK
  PROVE  /\ pc \in [Requests -> Labels] /\ holder \in [Procs -> Requests \cup {None}]
         /\ loc \in [Procs -> Locs] /\ pos \in [Legs -> Int] /\ sold \subseteq Legs
BY DEF TypeOK, Labels, Locs

\* What is owed is a quantity.
LEMMA OwedNat ==
  ASSUME NEW stage, NEW my \in Locs, NEW l \in Legs
  PROVE  Owed(stage, my, l) \in Nat
BY ZerodhaCloseAssumption DEF Owed, Locs

\* A process that stops trading, or has not started to, only lowers what is owed.
LEMMA IdleStage ==
  ASSUME TypeOK, LockHeld, StageInv, NEW p \in Procs,
         NEW label \in {"free", "gate", "look"},
         Stage' = [Stage EXCEPT ![p] = label], loc' = [loc EXCEPT ![p] = Fresh],
         UNCHANGED <<pos, sold, status, overlap>>
  PROVE  StageInv'
<1> USE Types, StageTyped, Constants
<1>1. /\ Stage'[p] = label /\ loc'[p] = Fresh
      /\ \A q \in Procs : q # p => Stage'[q] = Stage[q] /\ loc'[q] = loc[q]
  OBVIOUS
<1>2. LocalsMeaning'
  BY <1>1 DEF StageInv, LocalsMeaning, Fresh
<1>3. NothingOwedTwice'
  <2>1. SUFFICES ASSUME NEW q \in Procs, NEW u \in Procs, NEW l \in Legs, q # u
                 PROVE  pos[l] + Owed(Stage'[q], loc'[q], l)
                               + Owed(Stage'[u], loc'[u], l) <= Qty
    BY DEF NothingOwedTwice, OwedOf
  <2>2. Owed(label, Fresh, l) = 0
    BY DEF Owed
  <2>3. \A v \in Procs : Owed(Stage[v], loc[v], l) \in Nat
    BY OwedNat
  <2>4. \A v \in Procs : /\ Owed(Stage'[v], loc'[v], l) \in Nat
                         /\ Owed(Stage'[v], loc'[v], l) <= Owed(Stage[v], loc[v], l)
    BY <1>1, <2>2, <2>3
  <2>5. pos[l] + Owed(Stage[q], loc[q], l) + Owed(Stage[u], loc[u], l) <= Qty
    BY <2>1 DEF StageInv, NothingOwedTwice, OwedOf
  <2> QED BY <2>3, <2>4, <2>5, ZerodhaCloseAssumption
<1>4. FillsKept'
  BY <1>1 DEF StageInv, FillsKept, Booking
<1>5. ~overlap => OneTrader' /\ FlatOnceBooked'
  BY <1>1 DEF StageInv, OneTrader, FlatOnceBooked, Trading, Booking
<1> QED BY <1>2, <1>3, <1>4, <1>5 DEF StageInv

\* Nothing that StageInv reads has moved.
LEMMA SameStage ==
  ASSUME StageInv, Stage' = Stage, UNCHANGED <<loc, pos, sold, status, overlap>>
  PROVE  StageInv'
BY DEF StageInv, LocalsMeaning, NothingOwedTwice, OwedOf, FillsKept, OneTrader,
       FlatOnceBooked

\* A request that leaves with nothing changed but its lock.
LEMMA LeavesKeeps ==
  ASSUME TypeOK, LockHeld, StageInv, NEW r \in Requests, Leave(r),
         UNCHANGED <<pos, sold, status, overlap>>
  PROVE  LockHeld' /\ StageInv'
<1>1. CASE pc[r] \in Busy
  BY <1>1, Leaves, Constants, IdleStage
<1>2. CASE pc[r] \notin Busy
  BY <1>2, Leaves, SameStage
<1> QED BY <1>1, <1>2

-----------------------------------------------------------------------------
(* Up to the first order, and after the last. *)

LEMMA PreflightKeeps ==
  ASSUME IInv, NEW r \in Requests, Preflight(r) \/ SubmitCheck(r)
  PROVE  IInv'
<1>1. PICK label \in {"submit", "insert"} :
        /\ pc[r] \notin Busy /\ GoTo(r, label)
        /\ UNCHANGED <<holder, loc, jobs, stale, reversed, status, alerted, pos, sold,
                       overlap, crashes>>
  BY DEF Preflight, SubmitCheck, Busy
<1>2. label \in Labels \ Busy
  BY DEF Labels, Busy
<1>3. pc' \in [Requests -> Labels] /\ LockHeld' /\ Stage' = Stage
  BY <1>1, <1>2, OutsiderGoes DEF IInv
<1>4. TypeOK'
  BY <1>1, <1>3 DEF IInv, TypeOK, Labels
<1> QED BY <1>1, <1>3, <1>4, SameStage DEF IInv

LEMMA SubmitInsertKeeps ==
  ASSUME IInv, NEW r \in Requests, SubmitInsert(r)
  PROVE  IInv'
<1>1. pc[r] \notin Busy /\ "queued" \in Labels \ Busy
  BY DEF SubmitInsert, Labels, Busy
<1>2. pc' \in [Requests -> Labels] /\ LockHeld' /\ Stage' = Stage
  BY <1>1, OutsiderGoes DEF IInv, SubmitInsert
<1>3. jobs' \in Seq(Requests)
  BY AppendProperties DEF SubmitInsert, IInv, TypeOK
<1>4. TypeOK'
  BY <1>2, <1>3 DEF SubmitInsert, IInv, TypeOK, Labels
<1> QED BY <1>2, <1>4, SameStage DEF IInv, SubmitInsert

LEMMA FinishJobKeeps ==
  ASSUME IInv, NEW r \in Requests, FinishJob(r)
  PROVE  IInv'
<1>1. pc[r] \notin Busy /\ "done" \in Labels \ Busy
  BY DEF FinishJob, Labels, Busy
<1>2. pc' \in [Requests -> Labels] /\ LockHeld' /\ Stage' = Stage
  BY <1>1, OutsiderGoes DEF IInv, FinishJob
<1>3. jobs' \in Seq(Requests)
  <2>1. PICK i \in DOMAIN jobs : jobs' = RemoveAt(jobs, i)
    BY DEF FinishJob
  <2>2. jobs \in Seq(Requests) /\ DOMAIN jobs = 1 .. Len(jobs) /\ Len(jobs) \in Nat
    BY LenProperties DEF IInv, TypeOK
  <2>3. /\ SubSeq(jobs, 1, i - 1) \in Seq(Requests)
        /\ SubSeq(jobs, i + 1, Len(jobs)) \in Seq(Requests)
    <3>1. \A j \in 1 .. i - 1 : jobs[j] \in Requests
      BY <2>2, ElementOfSeq
    <3>2. \A j \in i + 1 .. Len(jobs) : jobs[j] \in Requests
      BY <2>2, ElementOfSeq
    <3> QED BY <2>2, <3>1, <3>2, SubSeqProperties
  <2> QED BY <2>1, <2>3, ConcatProperties DEF RemoveAt
<1>4. TypeOK'
  BY <1>2, <1>3 DEF FinishJob, IInv, TypeOK, Labels
<1> QED BY <1>2, <1>4, SameStage DEF IInv, FinishJob

LEMMA TakeLockKeeps ==
  ASSUME IInv, NEW r \in Requests, TakeLock(r)
  PROVE  IInv'
<1> DEFINE p == Proc(r)
<1>0. TypeOK /\ LockHeld /\ StageInv /\ p \in Procs
  BY Constants DEF IInv
<1>1. /\ holder[p] = None /\ holder' = [holder EXCEPT ![p] = r]
      /\ pc' = [pc EXCEPT ![r] = "gate"] /\ pc[r] \notin Busy
      /\ UNCHANGED <<loc, jobs, stale, reversed, status, alerted, pos, sold,
                     overlap, crashes>>
  BY DEF TakeLock, MayStart, GoTo, Busy
<1>2. TypeOK'
  BY <1>0, <1>1 DEF TypeOK
<1>3. LockHeld'
  BY <1>0, <1>1, Constants DEF LockHeld, TypeOK, Busy
<1>4. Stage' = [Stage EXCEPT ![p] = "gate"]
  <2>1. ASSUME NEW q \in Procs, q # p PROVE Stage'[q] = Stage[q]
    <3>1. holder[q] # r
      BY <1>0, <2>1, Constants DEF LockHeld
    <3> QED BY <1>0, <1>1, <2>1, <3>1 DEF Stage, TypeOK
  <2>2. Stage'[p] = "gate"
    BY <1>0, <1>1, Constants DEF Stage, TypeOK
  <2>3. \A q \in Procs : Stage'[q] = [Stage EXCEPT ![p] = "gate"][q]
    BY <2>1, <2>2 DEF Stage
  <2> QED BY <2>3 DEF Stage
<1>5. loc' = [loc EXCEPT ![p] = Fresh]
  <2>1. Stage[p] = "free"
    BY <1>0, <1>1 DEF Stage
  <2> QED BY <1>0, <1>1, <2>1 DEF StageInv, LocalsMeaning, TypeOK
<1>6. StageInv'
  BY <1>0, <1>1, <1>4, <1>5, IdleStage
<1> QED BY <1>2, <1>3, <1>6 DEF IInv

LEMMA GateKeeps ==
  ASSUME IInv, NEW r \in Requests, Gate(r)
  PROVE  IInv'
<1> DEFINE p == Proc(r)
<1>0. /\ TypeOK /\ LockHeld /\ StageInv /\ p \in Procs
      /\ pc[r] \in Busy /\ "look" \in Busy /\ Stage[p] = "gate"
  BY AtStage DEF IInv, Gate, Busy
<1>1. /\ pc' \in [Requests -> Labels] /\ LockHeld'
      /\ Stage' = [Stage EXCEPT ![p] = "look"]
  BY <1>0, HolderGoes DEF Gate
<1>2. TypeOK'
  BY <1>0, <1>1 DEF TypeOK, Gate, Labels
<1>3. loc' = [loc EXCEPT ![p] = Fresh]
  BY <1>0 DEF StageInv, LocalsMeaning, TypeOK, Gate
<1> QED BY <1>0, <1>1, <1>2, <1>3, IdleStage DEF Gate, IInv

\* Refusals: nothing changes but the lock.
LEMMA RefusalKeeps ==
  ASSUME IInv, NEW r \in Requests,
         LockBusy(r) \/ Refused(r) \/ QuoteRaises(r) \/ BookRefused(r)
  PROVE  IInv'
<1>1. /\ Leave(r)
      /\ UNCHANGED <<jobs, stale, reversed, status, alerted, pos, sold, overlap, crashes>>
  BY DEF LockBusy, Refused, QuoteRaises, BookRefused
<1>2. TypeOK'
  BY <1>1, Leaves DEF IInv, TypeOK, Labels, Locs
<1> QED BY <1>1, <1>2, LeavesKeeps DEF IInv

LEMMA RollbackEndsKeeps ==
  ASSUME IInv, NEW r \in Requests, RollbackEnds(r)
  PROVE  IInv'
<1>1. Proc(r) \in Procs /\ alerted' = alerted \cup loc[Proc(r)].failed
  BY Constants DEF RollbackEnds, My
<1>2. alerted' \subseteq Legs
  BY <1>1, Types DEF IInv, TypeOK, Locs
<1>3. TypeOK'
  BY <1>2, Leaves DEF RollbackEnds, IInv, TypeOK, Labels, Locs
<1> QED BY <1>3, LeavesKeeps DEF RollbackEnds, IInv

-----------------------------------------------------------------------------
(* Reading the account, and booking. *)

\* What is owed of each leg changes with one process at most; if each leg and
\* what that process owes of it does not grow, nothing is owed twice.
LEMMA OwedMoves ==
  ASSUME TypeOK, StageInv, Stage \in [Procs -> Busy \cup {"free"}],
         NEW p \in Procs, NEW stage, NEW my \in Locs,
         Stage' = [Stage EXCEPT ![p] = stage], loc' = [loc EXCEPT ![p] = my],
         \A l \in Legs : /\ pos'[l] \in Int
                         /\ pos'[l] + Owed(stage, my, l) <= pos[l] + OwedOf(p, l)
  PROVE  NothingOwedTwice'
<1>1. SUFFICES ASSUME NEW q \in Procs, NEW u \in Procs, NEW l \in Legs, q # u
               PROVE  pos'[l] + Owed(Stage'[q], loc'[q], l)
                              + Owed(Stage'[u], loc'[u], l) <= Qty
  BY DEF NothingOwedTwice, OwedOf
<1>2. /\ Stage'[p] = stage /\ loc'[p] = my
      /\ \A v \in Procs : v # p => Stage'[v] = Stage[v] /\ loc'[v] = loc[v]
  BY Types
<1>3. \A v \in Procs : Owed(Stage[v], loc[v], l) \in Nat
  BY Types, OwedNat
<1>4. Owed(stage, my, l) \in Nat
  BY OwedNat
<1>5. pos[l] \in Int /\ pos'[l] \in Int
  BY Types
<1>6. \A v, w \in Procs : v # w =>
        pos[l] + Owed(Stage[v], loc[v], l) + Owed(Stage[w], loc[w], l) <= Qty
  BY DEF StageInv, NothingOwedTwice, OwedOf
<1>7. pos'[l] + Owed(stage, my, l) <= pos[l] + Owed(Stage[p], loc[p], l)
  BY DEF OwedOf
<1>8. \E v \in Procs : v # p
  BY DEF Procs
<1>9. pos'[l] + Owed(stage, my, l) <= Qty
  BY <1>3, <1>4, <1>5, <1>6, <1>7, <1>8, ZerodhaCloseAssumption
<1>10. CASE q = p
  BY <1>1, <1>2, <1>3, <1>4, <1>5, <1>6, <1>7, <1>10, ZerodhaCloseAssumption
<1>11. CASE u = p
  BY <1>1, <1>2, <1>3, <1>4, <1>5, <1>6, <1>7, <1>11, ZerodhaCloseAssumption
<1>12. CASE q # p /\ u # p
  BY <1>1, <1>12 DEF Procs
<1> QED BY <1>10, <1>11, <1>12

\* A process that owes nothing goes on owing nothing.
LEMMA OwesNothing ==
  ASSUME TypeOK, StageInv, Stage \in [Procs -> Busy \cup {"free"}],
         NEW p \in Procs, NEW stage, NEW my \in Locs,
         Stage' = [Stage EXCEPT ![p] = stage], loc' = [loc EXCEPT ![p] = my],
         \A l \in Legs : Owed(stage, my, l) = 0 /\ OwedOf(p, l) = 0, pos' = pos
  PROVE  NothingOwedTwice'
<1>1. \A l \in Legs : /\ pos'[l] \in Int
                      /\ pos'[l] + Owed(stage, my, l) <= pos[l] + OwedOf(p, l)
  BY Types
<1> QED BY <1>1, OwedMoves

\* Another process is seen trading exactly when its stage says so.
LEMMA OtherTradesIs ==
  ASSUME TypeOK, NEW p \in Procs
  PROVE  OtherTrades(p) <=> \E q \in Procs : q # p /\ Stage[q] \in Trading
BY DEF OtherTrades, Stage, Trading

LEMMA SeeFlatKeeps ==
  ASSUME IInv, NEW r \in Requests, SeeFlat(r)
  PROVE  IInv'
<1> DEFINE p == Proc(r)
<1>0. /\ TypeOK /\ LockHeld /\ StageInv /\ p \in Procs
      /\ pc[r] \in Busy /\ "book" \in Busy /\ Stage[p] = "look"
  BY AtStage DEF IInv, SeeFlat, Busy
<1>1. /\ pc' \in [Requests -> Labels] /\ LockHeld'
      /\ Stage' = [Stage EXCEPT ![p] = "book"]
  BY <1>0, HolderGoes DEF SeeFlat
<1>2. /\ StructureFlat /\ ExitFillsFound
      /\ overlap' = (overlap \/ OtherTrades(p))
      /\ UNCHANGED <<holder, loc, jobs, stale, reversed, status, alerted, pos, sold, crashes>>
  BY DEF SeeFlat
<1>3. TypeOK'
  BY <1>0, <1>1, <1>2 DEF TypeOK, Labels
<1>4. Stage \in [Procs -> Busy \cup {"free"}]
  BY <1>0, StageTyped
<1>5. /\ Stage'[p] = "book" /\ \A q \in Procs : q # p => Stage'[q] = Stage[q]
      /\ loc[p] = Fresh
  BY <1>0, <1>1, <1>4 DEF StageInv, LocalsMeaning
<1>6. LocalsMeaning'
  BY <1>0, <1>2, <1>5 DEF StageInv, LocalsMeaning, Fresh, Trading
<1>7. NothingOwedTwice'
  <2>1. loc' = [loc EXCEPT ![p] = Fresh]
    BY <1>0, <1>2, <1>5 DEF TypeOK
  <2>2. \A l \in Legs : Owed("book", Fresh, l) = 0 /\ OwedOf(p, l) = 0
    BY <1>0 DEF Owed, OwedOf
  <2>3. pos \in [Legs -> Int]
    BY <1>0, Types
  <2> QED BY <1>0, <1>1, <1>2, <1>4, <2>1, <2>2, <2>3, Constants, OwesNothing
<1>8. FillsKept'
  BY <1>0, <1>2, <1>5 DEF StageInv, FillsKept, Booking, ExitFillsFound
<1>9. ASSUME ~overlap' PROVE OneTrader' /\ FlatOnceBooked'
  <2>1. ~overlap /\ \A q \in Procs : Stage'[q] \notin Trading
    BY <1>0, <1>2, <1>5, <1>9, OtherTradesIs DEF Trading
  <2>2. \A l \in Legs : pos[l] = 0
    BY <1>2 DEF StructureFlat
  <2> QED BY <1>2, <2>1, <2>2 DEF OneTrader, FlatOnceBooked, Trading
<1> QED BY <1>1, <1>3, <1>6, <1>7, <1>8, <1>9 DEF IInv, StageInv

LEMMA SeeInventoryKeeps ==
  ASSUME IInv, NEW r \in Requests, SeeInventory(r)
  PROVE  IInv'
<1> DEFINE p == Proc(r)
<1>0. /\ TypeOK /\ LockHeld /\ StageInv /\ p \in Procs
      /\ pc[r] \in Busy /\ "legs" \in Busy /\ Stage[p] = "look"
  BY AtStage DEF IInv, SeeInventory, Busy
<1>1. /\ pc' \in [Requests -> Labels] /\ LockHeld'
      /\ Stage' = [Stage EXCEPT ![p] = "legs"]
  BY <1>0, HolderGoes DEF SeeInventory
<1>2. /\ \A l \in Legs : pos[l] >= Qty
      /\ overlap' = (overlap \/ OtherTrades(p))
      /\ UNCHANGED <<holder, loc, jobs, stale, reversed, status, alerted, pos, sold, crashes>>
  BY DEF SeeInventory, InventoryHeld
<1>3. TypeOK'
  BY <1>0, <1>1, <1>2 DEF TypeOK, Labels
<1>4. Stage \in [Procs -> Busy \cup {"free"}]
  BY <1>0, StageTyped
<1>5. /\ Stage'[p] = "legs" /\ \A q \in Procs : q # p => Stage'[q] = Stage[q]
      /\ loc[p] = Fresh
  BY <1>0, <1>1, <1>4 DEF StageInv, LocalsMeaning
<1>6. LocalsMeaning'
  BY <1>0, <1>2, <1>5, ZerodhaCloseAssumption DEF StageInv, LocalsMeaning, Fresh, Trading
<1>7. \A l \in Legs : Owed("legs", Fresh, l) = 0 /\ OwedOf(p, l) = 0
  BY <1>0 DEF Owed, OwedOf, Fresh, Legs
<1>8. NothingOwedTwice'
  <2>1. loc' = [loc EXCEPT ![p] = Fresh]
    BY <1>0, <1>2, <1>5 DEF TypeOK
  <2>2. pos \in [Legs -> Int]
    BY <1>0, Types
  <2> QED BY <1>0, <1>1, <1>2, <1>4, <1>7, <2>1, <2>2, Constants, OwesNothing
<1>9. FillsKept'
  BY <1>0, <1>2, <1>5 DEF StageInv, FillsKept, Booking, Fresh
<1>10. ASSUME ~overlap' PROVE OneTrader' /\ FlatOnceBooked'
  <2>1. ~overlap /\ \A q \in Procs : Stage'[q] \in Trading => q = p
    BY <1>0, <1>2, <1>5, <1>10, OtherTradesIs DEF Trading
  <2>2. \A l \in Legs : pos[l] = Qty
    <3> SUFFICES ASSUME NEW l \in Legs PROVE pos[l] = Qty
      OBVIOUS
    <3>1. PICK q \in Procs : q # p
      BY DEF Procs
    <3>2. pos[l] + OwedOf(p, l) + OwedOf(q, l) <= Qty
      BY <1>0, <3>1 DEF StageInv, NothingOwedTwice
    <3>3. OwedOf(q, l) \in Nat /\ pos[l] \in Int
      BY <1>0, Types, OwedNat DEF OwedOf
    <3> QED BY <1>2, <1>7, <3>2, <3>3, ZerodhaCloseAssumption
  <2>3. 1 \in Legs /\ Qty > 0
    BY ZerodhaCloseAssumption DEF Legs
  <2>4. OneTrader'
    <3>1. \A q \in Procs : Stage'[q] = "legs" => loc'[q] = Fresh
      BY <1>2, <1>5, <2>1 DEF Trading
    <3>2. \A l \in Legs : pos'[l] = Qty /\ ~(l <= Fresh.done) /\ pos'[l] >= 0
      BY <1>2, <2>2, ZerodhaCloseAssumption DEF Fresh, Legs
    <3> QED BY <2>1, <3>1, <3>2 DEF OneTrader
  <2>5. status' # "CLOSED" /\ \A q \in Procs : Stage'[q] \notin Booking
    BY <1>0, <1>2, <1>5, <2>1, <2>2, <2>3 DEF StageInv, FlatOnceBooked, Booking
  <2> QED BY <2>4, <2>5 DEF FlatOnceBooked
<1> QED BY <1>1, <1>3, <1>6, <1>8, <1>9, <1>10 DEF IInv, StageInv

LEMMA BookCheckKeeps ==
  ASSUME IInv, NEW r \in Requests, BookCheck(r)
  PROVE  IInv'
<1> DEFINE p == Proc(r)
<1>0. /\ TypeOK /\ LockHeld /\ StageInv /\ p \in Procs
      /\ pc[r] \in Busy /\ "write" \in Busy /\ Stage[p] = "book"
  BY AtStage DEF IInv, BookCheck, At, Busy
<1>1. /\ pc' \in [Requests -> Labels] /\ LockHeld'
      /\ Stage' = [Stage EXCEPT ![p] = "write"]
  BY <1>0, HolderGoes DEF BookCheck
<1>2. UNCHANGED <<holder, loc, jobs, stale, reversed, status, alerted, pos, sold,
                 overlap, crashes>>
  BY DEF BookCheck
<1>3. TypeOK'
  BY <1>0, <1>1, <1>2 DEF TypeOK, Labels
<1>4. Stage \in [Procs -> Busy \cup {"free"}]
  BY <1>0, StageTyped
<1>5. Stage'[p] = "write" /\ \A q \in Procs : q # p => Stage'[q] = Stage[q]
  BY <1>0, <1>1, <1>4
<1>6. LocalsMeaning'
  BY <1>0, <1>2, <1>5 DEF StageInv, LocalsMeaning, Trading
<1>7. NothingOwedTwice'
  <2>1. loc[p] \in Locs /\ loc' = [loc EXCEPT ![p] = loc[p]] /\ pos \in [Legs -> Int]
    BY <1>0, <1>2, Types
  <2>2. \A l \in Legs : Owed("write", loc[p], l) = 0 /\ OwedOf(p, l) = 0
    BY <1>0 DEF Owed, OwedOf
  <2> QED BY <1>0, <1>1, <1>2, <1>4, <2>1, <2>2, OwesNothing
<1>8. FillsKept'
  BY <1>0, <1>2, <1>5 DEF StageInv, FillsKept, Booking
<1>9. ASSUME ~overlap' PROVE OneTrader' /\ FlatOnceBooked'
  BY <1>0, <1>2, <1>5, <1>9 DEF StageInv, OneTrader, FlatOnceBooked, Trading, Booking
<1> QED BY <1>1, <1>3, <1>6, <1>7, <1>8, <1>9 DEF IInv, StageInv

LEMMA BookKeeps ==
  ASSUME IInv, NEW r \in Requests, Book(r)
  PROVE  IInv'
<1> DEFINE p == Proc(r)
<1>0. /\ TypeOK /\ LockHeld /\ StageInv /\ p \in Procs
      /\ pc[r] \in Busy /\ Stage[p] = "write"
  BY AtStage DEF IInv, Book, At, Busy
<1>1. /\ status' = "CLOSED" /\ Leave(r)
      /\ UNCHANGED <<jobs, stale, reversed, alerted, pos, sold, overlap, crashes>>
  BY DEF Book
<1>2. /\ pc' \in [Requests -> Labels] /\ LockHeld'
      /\ holder' \in [Procs -> Requests \cup {None}] /\ loc' \in [Procs -> Locs]
      /\ Stage' = [Stage EXCEPT ![p] = "free"] /\ loc' = [loc EXCEPT ![p] = Fresh]
  BY <1>0, <1>1, Leaves
<1>3. TypeOK'
  BY <1>0, <1>1, <1>2 DEF TypeOK, Labels, Locs
<1>4. Stage \in [Procs -> Busy \cup {"free"}]
  BY <1>0, StageTyped
<1>5. /\ Stage'[p] = "free" /\ loc'[p] = Fresh
      /\ \A q \in Procs : q # p => Stage'[q] = Stage[q] /\ loc'[q] = loc[q]
  BY <1>0, <1>2, <1>4, Types
<1>6. LocalsMeaning'
  BY <1>0, <1>1, <1>5 DEF StageInv, LocalsMeaning, Trading, Fresh
<1>7. NothingOwedTwice'
  <2>1. pos \in [Legs -> Int]
    BY <1>0, Types
  <2>2. \A l \in Legs : Owed("free", Fresh, l) = 0 /\ OwedOf(p, l) = 0
    BY <1>0 DEF Owed, OwedOf
  <2> QED BY <1>0, <1>1, <1>2, <1>4, <2>1, <2>2, Constants, OwesNothing
<1>8. FillsKept'
  BY <1>0, <1>1, <1>5 DEF StageInv, FillsKept, Booking
<1>9. ASSUME ~overlap' PROVE OneTrader' /\ FlatOnceBooked'
  BY <1>0, <1>1, <1>5, <1>9 DEF StageInv, OneTrader, FlatOnceBooked, Trading, Booking
<1> QED BY <1>2, <1>3, <1>6, <1>7, <1>8, <1>9 DEF IInv, StageInv

-----------------------------------------------------------------------------
(* Closing the legs, and putting them back. *)

\* A process that is trading goes on with its rollback, or is gone: whatever has
\* filled, a leg and what the process still owes of it do not grow together.
LEMMA TraderMoves ==
  ASSUME TypeOK, LockHeld, StageInv, NEW p \in Procs, Stage[p] \in Trading,
         NEW stage \in {"rollback", "free"}, NEW my \in Locs,
         Stage' = [Stage EXCEPT ![p] = stage], loc' = [loc EXCEPT ![p] = my],
         stage = "free" => my = Fresh,
         stage = "rollback" => /\ my.done < NLegs /\ my.undo <= my.done
                               /\ my.sent => my.undo > 0 \/ my.part > 0,
         \A l \in Legs : /\ pos'[l] \in Int
                         /\ pos'[l] + Owed(stage, my, l) <= pos[l] + OwedOf(p, l)
                         /\ ~overlap => pos'[l] >= 0,
         sold \subseteq sold', sold' \subseteq Legs, UNCHANGED <<status, overlap>>
  PROVE  StageInv'
<1>1. Stage \in [Procs -> Busy \cup {"free"}] /\ loc \in [Procs -> Locs]
  BY StageTyped, Types
<1>2. /\ Stage'[p] = stage /\ loc'[p] = my
      /\ \A q \in Procs : q # p => Stage'[q] = Stage[q] /\ loc'[q] = loc[q]
  BY <1>1
<1>3. LocalsMeaning'
  <2>1. SUFFICES ASSUME NEW q \in Procs
                 PROVE /\ Stage'[q] \in {"free", "gate", "look"} => loc'[q] = Fresh
                       /\ Stage'[q] = "legs" => loc'[q].done < NLegs /\ loc'[q].part = 0
                       /\ Stage'[q] = "rollback" =>
                            /\ loc'[q].done < NLegs /\ loc'[q].undo <= loc'[q].done
                            /\ loc'[q].sent => loc'[q].undo > 0 \/ loc'[q].part > 0
                       /\ loc'[q].sent => Stage'[q] \in Trading
    BY DEF LocalsMeaning
  <2>2. CASE q = p
    <3>1. stage = "free" => ~my.sent
      BY DEF Fresh
    <3>2. stage = "rollback" => stage \in Trading
      BY DEF Trading
    <3>3. stage = "free" \/ stage = "rollback"
      OBVIOUS
    <3> QED BY <1>2, <2>2, <3>1, <3>2, <3>3
  <2>3. CASE q # p
    BY <1>2, <2>3 DEF StageInv, LocalsMeaning
  <2> QED BY <2>2, <2>3
<1>4. NothingOwedTwice'
  BY <1>1, OwedMoves
<1>5. FillsKept'
  BY <1>2, Types DEF StageInv, FillsKept, Booking
<1>6. ASSUME ~overlap PROVE OneTrader' /\ FlatOnceBooked'
  <2>1. /\ \A q \in Procs : q # p => Stage[q] \notin Trading
        /\ status # "CLOSED" /\ \A q \in Procs : Stage[q] \notin Booking
    BY <1>6 DEF StageInv, OneTrader, FlatOnceBooked
  <2>2. \A q \in Procs : /\ Stage'[q] # "legs" /\ Stage'[q] \notin Booking
                         /\ Stage'[q] \in Trading => q = p
    BY <1>2, <2>1 DEF Trading, Booking
  <2> QED BY <1>6, <2>1, <2>2 DEF OneTrader, FlatOnceBooked
<1> QED BY <1>3, <1>4, <1>5, <1>6 DEF StageInv

\* Where the holder at a trading stage stands.
LEMMA AtTrading ==
  ASSUME IInv, NEW r \in Requests, NEW label \in Trading, At(r, label)
  PROVE  /\ TypeOK /\ LockHeld /\ StageInv /\ Proc(r) \in Procs /\ pc[r] \in Busy
         /\ Stage[Proc(r)] = label /\ My(r) = loc[Proc(r)] /\ My(r) \in Locs
         /\ My(r).done \in 0 .. NLegs - 1
         /\ label = "legs" => My(r).part = 0
         /\ label = "rollback" => /\ My(r).undo <= My(r).done
                                  /\ My(r).sent => Reopening(r)
<1>1. /\ TypeOK /\ LockHeld /\ StageInv /\ Proc(r) \in Procs /\ pc[r] \in Busy
      /\ Stage[Proc(r)] = label /\ My(r) = loc[Proc(r)] /\ My(r) \in Locs
  BY AtStage, Types DEF IInv, At, Trading, Busy, My
<1>2. My(r).done < NLegs /\ My(r).done \in 0 .. NLegs
  BY <1>1 DEF StageInv, LocalsMeaning, Trading, Locs
<1>3. /\ label = "legs" => My(r).part = 0
      /\ label = "rollback" => /\ My(r).undo <= My(r).done
                               /\ My(r).sent => Reopening(r)
  BY <1>1 DEF StageInv, LocalsMeaning, Reopening
<1> QED BY <1>1, <1>2, <1>3, ZerodhaCloseAssumption

LEMMA SendExitKeeps ==
  ASSUME IInv, NEW r \in Requests, SendExit(r)
  PROVE  IInv'
<1> DEFINE p  == Proc(r)
           my == [loc[p] EXCEPT !.sent = TRUE]
<1>0. /\ TypeOK /\ LockHeld /\ StageInv /\ p \in Procs
      /\ Stage[p] = "legs" /\ loc[p] \in Locs
  BY AtTrading DEF SendExit, Trading
<1>1. /\ loc' = [loc EXCEPT ![p] = my] /\ Stage' = Stage
      /\ UNCHANGED <<pc, holder, jobs, stale, reversed, status, alerted, pos, sold,
                     overlap, crashes>>
  BY DEF SendExit, Locals, My, Stage
<1>2. my \in Locs /\ my.done = loc[p].done /\ my.part = loc[p].part
  BY <1>0 DEF Locs
<1> HIDE DEF my
<1>3. TypeOK'
  BY <1>0, <1>1, <1>2 DEF TypeOK, Locs
<1>4. LockHeld'
  BY <1>0, <1>1 DEF LockHeld
<1>5. loc'[p] = my /\ \A q \in Procs : q # p => loc'[q] = loc[q]
  BY <1>0, <1>1, Types
<1>6. LocalsMeaning'
  BY <1>0, <1>1, <1>2, <1>5 DEF StageInv, LocalsMeaning, Trading
<1>7. NothingOwedTwice'
  <2>1. \A l \in Legs, q \in Procs : OwedOf(q, l)' = OwedOf(q, l)
    BY <1>0, <1>1, <1>2, <1>5 DEF OwedOf, Owed
  <2> QED BY <1>0, <1>1, <2>1 DEF StageInv, NothingOwedTwice
<1>8. FillsKept'
  BY <1>0, <1>1, <1>2, <1>5 DEF StageInv, FillsKept
<1>9. ASSUME ~overlap' PROVE OneTrader' /\ FlatOnceBooked'
  BY <1>0, <1>1, <1>2, <1>5, <1>9 DEF StageInv, OneTrader, FlatOnceBooked
<1> QED BY <1>3, <1>4, <1>6, <1>7, <1>8, <1>9 DEF IInv, StageInv

LEMMA ExitFilledKeeps ==
  ASSUME IInv, NEW r \in Requests, ExitFilled(r)
  PROVE  IInv'
<1> DEFINE p     == Proc(r)
           d     == loc[p].done
           stage == IF d + 1 = NLegs THEN "book" ELSE "legs"
           my    == [loc[p] EXCEPT !.sent = FALSE, !.done = d + 1]
<1>0. /\ TypeOK /\ LockHeld /\ StageInv /\ p \in Procs /\ pc[r] \in Busy
      /\ Stage[p] = "legs" /\ loc[p] \in Locs /\ d \in 0 .. NLegs - 1 /\ loc[p].part = 0
  BY AtTrading DEF ExitFilled, Trading
<1>1. /\ loc' = [loc EXCEPT ![p] = my] /\ GoTo(r, stage)
      /\ pos' = [pos EXCEPT ![d + 1] = @ - Qty] /\ sold' = sold \cup {d + 1}
      /\ UNCHANGED <<holder, jobs, stale, reversed, status, alerted, overlap, crashes>>
  BY DEF ExitFilled, Locals, My
<1>2. /\ my \in Locs /\ my.done = d + 1 /\ my.part = 0 /\ my.sent = FALSE
      /\ my.undo = loc[p].undo
  <2>1. d + 1 \in 0 .. NLegs
    BY <1>0, ZerodhaCloseAssumption
  <2> HIDE DEF d
  <2> QED BY <1>0, <2>1 DEF Locs
<1>3. stage \in {"book", "legs"} /\ (stage = "legs" <=> d + 1 < NLegs)
  BY <1>0, ZerodhaCloseAssumption
<1>4. d + 1 \in Legs
  BY <1>0, ZerodhaCloseAssumption DEF Legs
<1> HIDE DEF my, stage
<1>5. /\ pc' \in [Requests -> Labels] /\ LockHeld'
      /\ Stage' = [Stage EXCEPT ![p] = stage]
  BY <1>0, <1>1, <1>3, HolderGoes DEF Busy
<1>6. /\ loc' \in [Procs -> Locs] /\ pos' \in [Legs -> Int] /\ sold' \subseteq Legs
  BY <1>0, <1>1, <1>2, <1>4, Types, ZerodhaCloseAssumption
<1>7. TypeOK'
  BY <1>0, <1>1, <1>5, <1>6 DEF TypeOK, Labels, Locs
<1>8. /\ Stage \in [Procs -> Busy \cup {"free"}]
      /\ Stage'[p] = stage /\ loc'[p] = my
      /\ \A q \in Procs : q # p => Stage'[q] = Stage[q] /\ loc'[q] = loc[q]
  BY <1>0, <1>1, <1>5, StageTyped, Types
<1>9. \A l \in Legs : pos'[l] = IF l = d + 1 THEN pos[l] - Qty ELSE pos[l]
  BY <1>0, <1>1, Types
<1>10. LocalsMeaning'
  BY <1>0, <1>2, <1>3, <1>8 DEF StageInv, LocalsMeaning, Trading
<1>11. NothingOwedTwice'
  <2>1. ASSUME NEW l \in Legs
        PROVE  /\ pos'[l] \in Int
               /\ pos'[l] + Owed(stage, my, l) <= pos[l] + OwedOf(p, l)
    <3>1. OwedOf(p, l) = IF l <= d THEN Qty ELSE 0
      BY <1>0 DEF OwedOf, Owed
    <3>2. Owed(stage, my, l) = IF stage = "legs" /\ l <= d + 1 THEN Qty ELSE 0
      BY <1>2, <1>3 DEF Owed
    <3>3. l \in Int /\ pos[l] \in Int /\ pos'[l] \in Int
      BY <1>0, <1>6, Types DEF Legs
    <3> QED BY <1>0, <1>9, <3>1, <3>2, <3>3, ZerodhaCloseAssumption
  <2> QED BY <1>0, <1>1, <1>2, <1>5, <1>8, <2>1, OwedMoves
<1>12. FillsKept'
  <2>1. 1 .. d \subseteq sold
    BY <1>0 DEF StageInv, FillsKept
  <2>2. 1 .. d + 1 \subseteq sold'
    BY <1>0, <1>1, <2>1
  <2>3. stage = "book" => sold' = Legs
    <3>1. stage = "book" => 1 .. d + 1 = Legs
      BY <1>0, <1>3, ZerodhaCloseAssumption DEF Legs
    <3> QED BY <1>6, <2>2, <3>1
  <2>4. sold \subseteq sold'
    BY <1>1
  <2> QED BY <1>0, <1>1, <1>2, <1>3, <1>6, <1>8, <2>2, <2>3, <2>4
          DEF StageInv, FillsKept, Booking
<1>13. ASSUME ~overlap' PROVE OneTrader' /\ FlatOnceBooked'
  <2>1. ~overlap /\ OneTrader /\ FlatOnceBooked
    BY <1>0, <1>1, <1>13 DEF StageInv
  <2>2. /\ \A q \in Procs : q # p => Stage'[q] \notin Trading /\ Stage'[q] \notin Booking
        /\ status' # "CLOSED"
    BY <1>0, <1>1, <1>8, <2>1 DEF OneTrader, FlatOnceBooked, Trading
  <2>3. \A l \in Legs : pos'[l] = IF l <= d + 1 THEN 0 ELSE Qty
    <3>1. \A l \in Legs : l \in Int /\ pos[l] = IF l <= d THEN 0 ELSE Qty
      BY <1>0, <2>1 DEF OneTrader, Legs
    <3> QED BY <1>0, <1>9, <3>1, ZerodhaCloseAssumption
  <2>4. OneTrader'
    BY <1>2, <1>3, <1>8, <2>2, <2>3, ZerodhaCloseAssumption DEF OneTrader, Trading
  <2>5. stage = "book" => \A l \in Legs : pos'[l] = 0
    BY <1>0, <1>3, <2>3, ZerodhaCloseAssumption DEF Legs
  <2>6. FlatOnceBooked'
    <3>1. CASE stage = "legs"
      BY <1>8, <2>2, <3>1 DEF FlatOnceBooked, Booking
    <3>2. CASE stage = "book"
      BY <1>8, <2>2, <2>5, <3>2 DEF FlatOnceBooked, Trading
    <3> QED BY <1>3, <3>1, <3>2
  <2> QED BY <2>4, <2>6
<1> QED BY <1>5, <1>7, <1>10, <1>11, <1>12, <1>13 DEF IInv, StageInv

LEMMA ExitFailedKeeps ==
  ASSUME IInv, NEW r \in Requests, ExitFailed(r)
  PROVE  IInv'
<1> DEFINE p == Proc(r)
           d == loc[p].done
<1>0. /\ TypeOK /\ LockHeld /\ StageInv /\ p \in Procs /\ pc[r] \in Busy
      /\ Stage[p] = "legs" /\ loc[p] \in Locs /\ d \in 0 .. NLegs - 1
  BY AtTrading DEF ExitFailed, Trading
<1>1. PICK n \in 0 .. Qty :
        /\ pos' = [pos EXCEPT ![d + 1] = @ - n]
        /\ sold' = IF n = Qty THEN sold \cup {d + 1} ELSE sold
        /\ loc' = [loc EXCEPT ![p] = [loc[p] EXCEPT !.sent = FALSE, !.part = n, !.undo = d]]
  BY DEF ExitFailed, Locals, My
<1>2. /\ GoTo(r, "rollback") /\ "rollback" \in Busy
      /\ UNCHANGED <<holder, jobs, stale, reversed, status, alerted, overlap, crashes>>
  BY DEF ExitFailed, Busy
<1> DEFINE my == [loc[p] EXCEPT !.sent = FALSE, !.part = n, !.undo = d]
<1>3. my \in Locs /\ my.done = d /\ my.undo = d /\ my.part = n /\ my.sent = FALSE
  BY <1>0, ZerodhaCloseAssumption DEF Locs
<1>4. d + 1 \in Legs /\ loc' = [loc EXCEPT ![p] = my]
  BY <1>0, <1>1, ZerodhaCloseAssumption DEF Legs
<1> HIDE DEF my
<1>5. /\ pc' \in [Requests -> Labels] /\ LockHeld'
      /\ Stage' = [Stage EXCEPT ![p] = "rollback"]
  BY <1>0, <1>2, HolderGoes
<1>6. /\ loc' \in [Procs -> Locs] /\ pos' \in [Legs -> Int]
      /\ sold' \subseteq Legs /\ sold \subseteq sold'
  BY <1>0, <1>1, <1>3, <1>4, Types, ZerodhaCloseAssumption
<1>7. TypeOK'
  BY <1>0, <1>2, <1>5, <1>6 DEF TypeOK, Labels, Locs
<1>8. ASSUME NEW l \in Legs
      PROVE  /\ pos'[l] \in Int
             /\ pos'[l] + Owed("rollback", my, l) <= pos[l] + OwedOf(p, l)
             /\ ~overlap => pos'[l] >= 0
  <2>1. OwedOf(p, l) = IF l <= d THEN Qty ELSE 0
    BY <1>0 DEF OwedOf, Owed
  <2>2. Owed("rollback", my, l) = IF l <= d THEN Qty ELSE IF l = d + 1 THEN n ELSE 0
    BY <1>3 DEF Owed
  <2>3. l \in Int /\ pos[l] \in Int /\ pos'[l] \in Int
    BY <1>0, <1>6, Types DEF Legs
  <2>4. pos'[l] = IF l = d + 1 THEN pos[l] - n ELSE pos[l]
    BY <1>0, <1>1, Types
  <2>5. ~overlap => pos[l] = IF l <= d THEN 0 ELSE Qty
    BY <1>0 DEF StageInv, OneTrader
  <2> QED BY <1>0, <2>1, <2>2, <2>3, <2>4, <2>5, ZerodhaCloseAssumption
<1>9. StageInv'
  <2>1. my.done < NLegs /\ my.undo <= my.done /\ ~my.sent
    BY <1>0, <1>3, ZerodhaCloseAssumption
  <2>2. Stage[p] \in Trading /\ UNCHANGED <<status, overlap>>
    BY <1>0, <1>2 DEF Trading
  <2> QED BY <1>0, <1>3, <1>4, <1>5, <1>6, <1>8, <2>1, <2>2, TraderMoves
<1> QED BY <1>5, <1>7, <1>9 DEF IInv

LEMMA LegRefusedKeeps ==
  ASSUME IInv, NEW r \in Requests, LegRefused(r)
  PROVE  IInv'
<1> DEFINE p == Proc(r)
           d == loc[p].done
           my == [loc[p] EXCEPT !.undo = d]
<1>0. /\ TypeOK /\ LockHeld /\ StageInv /\ p \in Procs /\ pc[r] \in Busy
      /\ Stage[p] = "legs" /\ loc[p] \in Locs /\ d \in 0 .. NLegs - 1 /\ loc[p].part = 0
  BY AtTrading DEF LegRefused, Trading
<1>1. /\ GoTo(r, "rollback") /\ "rollback" \in Busy
      /\ ~loc[p].sent /\ loc' = [loc EXCEPT ![p] = my]
      /\ UNCHANGED <<holder, jobs, stale, reversed, status, alerted, pos, sold,
                     overlap, crashes>>
  BY DEF LegRefused, Locals, My, Busy
<1>2. my \in Locs /\ my.done = d /\ my.undo = d /\ my.part = 0 /\ my.sent = FALSE
  BY <1>0, <1>1, ZerodhaCloseAssumption DEF Locs
<1> HIDE DEF my
<1>3. /\ pc' \in [Requests -> Labels] /\ LockHeld'
      /\ Stage' = [Stage EXCEPT ![p] = "rollback"]
  BY <1>0, <1>1, HolderGoes
<1>4. loc' \in [Procs -> Locs]
  BY <1>0, <1>1, <1>2, Types
<1>5. TypeOK'
  BY <1>0, <1>1, <1>3, <1>4 DEF TypeOK, Labels, Locs
<1>6. ASSUME NEW l \in Legs
      PROVE  /\ pos'[l] \in Int
             /\ pos'[l] + Owed("rollback", my, l) <= pos[l] + OwedOf(p, l)
             /\ ~overlap => pos'[l] >= 0
  <2>1. Owed("rollback", my, l) = OwedOf(p, l)
    BY <1>0, <1>2 DEF OwedOf, Owed
  <2>2. pos[l] \in Int /\ OwedOf(p, l) \in Nat
    BY <1>0, Types, OwedNat DEF OwedOf
  <2>3. ~overlap => pos[l] >= 0
    BY <1>0 DEF StageInv, OneTrader
  <2> QED BY <1>1, <2>1, <2>2, <2>3
<1>7. StageInv'
  <2>1. my.done < NLegs /\ my.undo <= my.done /\ ~my.sent
    BY <1>0, <1>2, ZerodhaCloseAssumption
  <2>2. /\ Stage[p] \in Trading /\ UNCHANGED <<status, overlap>>
        /\ sold \subseteq sold' /\ sold' \subseteq Legs
    BY <1>0, <1>1, Types DEF Trading
  <2> QED BY <1>0, <1>1, <1>2, <1>3, <1>6, <2>1, <2>2, TraderMoves
<1> QED BY <1>3, <1>5, <1>7 DEF IInv

\* Of the leg it puts back, a rollback owes the amount; after it, nothing.
LEMMA SteppedIs ==
  ASSUME IInv, NEW r \in Requests, At(r, "rollback"), Reopening(r)
  PROVE  /\ Target(r) \in Legs /\ Amount(r) \in 0 .. Qty /\ Stepped(r) \in Locs
         /\ Stepped(r).done = My(r).done /\ Stepped(r).undo <= My(r).done
         /\ Stepped(r).sent = FALSE
         /\ \A l \in Legs : OwedOf(Proc(r), l) =
              IF l = Target(r) THEN Amount(r) ELSE Owed("rollback", Stepped(r), l)
         /\ Owed("rollback", Stepped(r), Target(r)) = 0
<1> DEFINE my == My(r)
<1>0. /\ Stage[Proc(r)] = "rollback" /\ my = loc[Proc(r)] /\ my \in Locs
      /\ my.done \in 0 .. NLegs - 1 /\ my.undo <= my.done
  BY AtTrading DEF Trading
<1>1. my.undo \in 0 .. NLegs /\ my.part \in 0 .. Qty
  BY <1>0 DEF Locs
<1>2. \A l \in Legs : OwedOf(Proc(r), l) = Owed("rollback", my, l) /\ l \in Int
  BY <1>0 DEF OwedOf, Legs
<1>3. CASE my.undo > 0
  <2>1. /\ Target(r) = my.undo /\ Amount(r) = Qty
        /\ Stepped(r) = [my EXCEPT !.undo = @ - 1, !.sent = FALSE]
    BY <1>3 DEF Target, Amount, Stepped
  <2>2. my.undo - 1 \in 0 .. NLegs
    BY <1>1, <1>3, ZerodhaCloseAssumption
  <2>3. /\ Stepped(r) \in Locs /\ Stepped(r).done = my.done
        /\ Stepped(r).undo = my.undo - 1 /\ Stepped(r).part = my.part
        /\ Stepped(r).sent = FALSE
    BY <1>0, <2>1, <2>2 DEF Locs
  <2>4. Target(r) \in Legs
    BY <1>1, <1>3, <2>1, ZerodhaCloseAssumption DEF Legs
  <2> QED BY <1>0, <1>1, <1>2, <1>3, <2>1, <2>3, <2>4, ZerodhaCloseAssumption DEF Owed
<1>4. CASE ~(my.undo > 0)
  <2>1. /\ Target(r) = my.done + 1 /\ Amount(r) = my.part
        /\ Stepped(r) = [my EXCEPT !.part = 0, !.sent = FALSE]
    BY <1>4 DEF Target, Amount, Stepped
  <2>2. 0 \in 0 .. Qty
    BY ZerodhaCloseAssumption
  <2>3. /\ Stepped(r) \in Locs /\ Stepped(r).done = my.done
        /\ Stepped(r).undo = my.undo /\ Stepped(r).part = 0
        /\ Stepped(r).sent = FALSE
    BY <1>0, <2>1, <2>2 DEF Locs
  <2>4. Target(r) \in Legs
    BY <1>0, <2>1, ZerodhaCloseAssumption DEF Legs
  <2> QED BY <1>0, <1>1, <1>2, <1>4, <2>1, <2>3, <2>4, ZerodhaCloseAssumption DEF Owed
<1> QED BY <1>3, <1>4

\* One leg of the rollback, with n lots of it filled.
LEMMA RollbackStep ==
  ASSUME IInv, NEW r \in Requests, At(r, "rollback"), Reopening(r),
         NEW n \in 0 .. Amount(r), pos' = [pos EXCEPT ![Target(r)] = @ + n],
         NEW failed \in SUBSET Legs,
         loc' = [loc EXCEPT ![Proc(r)] = [Stepped(r) EXCEPT !.failed = failed]],
         UNCHANGED <<pc, holder, status, sold, overlap>>
  PROVE  /\ LockHeld' /\ StageInv'
         /\ loc' \in [Procs -> Locs] /\ pos' \in [Legs -> Int]
<1> DEFINE p  == Proc(r)
           my == [Stepped(r) EXCEPT !.failed = failed]
<1>0. /\ TypeOK /\ LockHeld /\ StageInv /\ p \in Procs /\ Stage[p] = "rollback"
      /\ My(r).done \in 0 .. NLegs - 1
  BY AtTrading DEF Trading
<1>1. /\ my \in Locs /\ my.done = My(r).done /\ my.undo = Stepped(r).undo
      /\ my.part = Stepped(r).part /\ my.sent = FALSE /\ my.undo <= my.done
      /\ loc' = [loc EXCEPT ![p] = my]
  BY SteppedIs DEF Locs
<1>2. \A l \in Legs : Owed("rollback", my, l) = Owed("rollback", Stepped(r), l)
  BY <1>1, SteppedIs DEF Owed
<1> HIDE DEF my
<1>3. LockHeld'
  BY <1>0 DEF LockHeld
<1>4. Stage' = [Stage EXCEPT ![p] = "rollback"]
  BY <1>0 DEF Stage
<1>5. loc' \in [Procs -> Locs] /\ pos' \in [Legs -> Int]
  <2>1. Target(r) \in Legs /\ Amount(r) \in 0 .. Qty
    BY SteppedIs
  <2>2. n \in Int
    BY <2>1, ZerodhaCloseAssumption
  <2> QED BY <1>0, <1>1, <2>1, <2>2, Types
<1>6. ASSUME NEW l \in Legs
      PROVE  /\ pos'[l] \in Int
             /\ pos'[l] + Owed("rollback", my, l) <= pos[l] + OwedOf(p, l)
             /\ ~overlap => pos'[l] >= 0
  <2>1. pos'[l] = IF l = Target(r) THEN pos[l] + n ELSE pos[l]
    BY <1>0, Types
  <2>2. /\ pos[l] \in Int /\ Owed("rollback", my, l) \in Nat
        /\ n \in Nat /\ n <= Amount(r) /\ Amount(r) \in Nat
    <3>1. pos[l] \in Int /\ Owed("rollback", my, l) \in Nat
      BY <1>0, <1>1, Types, OwedNat
    <3>2. Amount(r) \in 0 .. Qty
      BY SteppedIs
    <3> QED BY <3>1, <3>2, ZerodhaCloseAssumption
  <2>3. OwedOf(p, l) = IF l = Target(r) THEN Amount(r) ELSE Owed("rollback", my, l)
    BY <1>2, SteppedIs
  <2>4. l = Target(r) => Owed("rollback", my, l) = 0
    BY <1>2, SteppedIs
  <2>5. ~overlap => pos[l] >= 0
    BY <1>0 DEF StageInv, OneTrader
  <2> QED BY <2>1, <2>2, <2>3, <2>4, <2>5
<1>7. StageInv'
  <2>1. my.done < NLegs /\ my.undo <= my.done /\ ~my.sent
    BY <1>0, <1>1, ZerodhaCloseAssumption
  <2>2. /\ Stage[p] \in Trading /\ UNCHANGED <<status, overlap>>
        /\ sold \subseteq sold' /\ sold' \subseteq Legs
    BY <1>0, Types DEF Trading
  <2> QED BY <1>0, <1>1, <1>4, <1>6, <2>1, <2>2, TraderMoves
<1> QED BY <1>3, <1>5, <1>7

LEMMA SkipReopenKeeps ==
  ASSUME IInv, NEW r \in Requests, SkipReopen(r) \/ CannotReopen(r)
  PROVE  IInv'
<1>1. PICK failed \in SUBSET Legs :
        loc' = [loc EXCEPT ![Proc(r)] = [Stepped(r) EXCEPT !.failed = failed]]
  <2>1. CASE SkipReopen(r)
    <3>1. At(r, "rollback") /\ Reopening(r) /\ Locals(r, Stepped(r))
      BY <2>1 DEF SkipReopen
    <3>2. Stepped(r).failed \in SUBSET Legs
      BY <3>1, SteppedIs DEF Locs
    <3>3. Stepped(r) = [Stepped(r) EXCEPT !.failed = Stepped(r).failed]
      BY <3>1, SteppedIs DEF Locs
    <3> QED BY <3>1, <3>2, <3>3 DEF Locals
  <2>2. CASE CannotReopen(r)
    <3>1. /\ At(r, "rollback") /\ Reopening(r)
          /\ Locals(r, [Stepped(r) EXCEPT !.failed = @ \cup {Target(r)}])
      BY <2>2 DEF CannotReopen
    <3>2. Stepped(r).failed \cup {Target(r)} \in SUBSET Legs
      BY <3>1, SteppedIs DEF Locs
    <3> QED BY <3>1, <3>2 DEF Locals
  <2> QED BY <2>1, <2>2
<1>2. /\ At(r, "rollback") /\ Reopening(r)
      /\ UNCHANGED <<pc, holder, jobs, stale, reversed, status, alerted, pos, sold,
                     overlap, crashes>>
  BY DEF SkipReopen, CannotReopen
<1>3. 0 \in 0 .. Amount(r) /\ pos' = [pos EXCEPT ![Target(r)] = @ + 0]
  <2>1. Amount(r) \in 0 .. Qty /\ pos \in [Legs -> Int]
    BY <1>2, SteppedIs, Types DEF IInv
  <2> QED BY <1>2, <2>1, ZerodhaCloseAssumption
<1>4. /\ LockHeld' /\ StageInv'
      /\ loc' \in [Procs -> Locs] /\ pos' \in [Legs -> Int]
  BY <1>1, <1>2, <1>3, RollbackStep
<1>5. TypeOK'
  BY <1>2, <1>4 DEF IInv, TypeOK, Locs
<1> QED BY <1>4, <1>5 DEF IInv

LEMMA SendReopenKeeps ==
  ASSUME IInv, NEW r \in Requests, SendReopen(r)
  PROVE  IInv'
<1> DEFINE p  == Proc(r)
           my == [loc[p] EXCEPT !.sent = TRUE]
<1>0. /\ TypeOK /\ LockHeld /\ StageInv /\ p \in Procs
      /\ Stage[p] = "rollback" /\ loc[p] \in Locs /\ loc[p].done \in 0 .. NLegs - 1
      /\ loc[p].undo <= loc[p].done /\ loc[p] = My(r)
  BY AtTrading DEF SendReopen, Trading
<1>1. /\ loc' = [loc EXCEPT ![p] = my]
      /\ loc[p].undo > 0 \/ loc[p].part > 0
      /\ UNCHANGED <<pc, holder, jobs, stale, reversed, status, alerted, pos, sold,
                     overlap, crashes>>
  BY DEF SendReopen, Locals, My, Reopening
<1>2. /\ my \in Locs /\ my.done = loc[p].done /\ my.part = loc[p].part
      /\ my.undo = loc[p].undo
  BY <1>0 DEF Locs
<1> HIDE DEF my
<1>3. Stage' = [Stage EXCEPT ![p] = "rollback"]
  BY <1>0, <1>1 DEF Stage
<1>4. TypeOK'
  <2>1. loc' \in [Procs -> Locs]
    BY <1>0, <1>1, <1>2, Types
  <2> QED BY <1>0, <1>1, <2>1 DEF TypeOK, Locs
<1>5. LockHeld'
  BY <1>0, <1>1 DEF LockHeld
<1>6. ASSUME NEW l \in Legs
      PROVE  /\ pos'[l] \in Int
             /\ pos'[l] + Owed("rollback", my, l) <= pos[l] + OwedOf(p, l)
             /\ ~overlap => pos'[l] >= 0
  <2>1. Owed("rollback", my, l) = OwedOf(p, l)
    BY <1>0, <1>2 DEF OwedOf, Owed
  <2>2. pos[l] \in Int /\ OwedOf(p, l) \in Nat
    BY <1>0, Types, OwedNat DEF OwedOf
  <2>3. ~overlap => pos[l] >= 0
    BY <1>0 DEF StageInv, OneTrader
  <2> QED BY <1>1, <2>1, <2>2, <2>3
<1>7. StageInv'
  <2>1. /\ my.done < NLegs /\ my.undo <= my.done
        /\ my.sent => my.undo > 0 \/ my.part > 0
    BY <1>0, <1>1, <1>2, ZerodhaCloseAssumption
  <2>2. /\ Stage[p] \in Trading /\ UNCHANGED <<status, overlap>>
        /\ sold \subseteq sold' /\ sold' \subseteq Legs
    BY <1>0, <1>1, Types DEF Trading
  <2> QED BY <1>0, <1>1, <1>2, <1>3, <1>6, <2>1, <2>2, TraderMoves
<1> QED BY <1>4, <1>5, <1>7 DEF IInv

LEMMA ReopenedKeeps ==
  ASSUME IInv, NEW r \in Requests, Reopened(r)
  PROVE  IInv'
<1>1. At(r, "rollback") /\ Reopening(r)
  BY AtTrading DEF Reopened, Trading
<1>2. /\ Stepped(r).failed \in SUBSET Legs /\ Target(r) \in Legs
      /\ Stepped(r) = [Stepped(r) EXCEPT !.failed = Stepped(r).failed]
      /\ Amount(r) \in 0 .. Qty
  BY <1>1, SteppedIs DEF Locs
<1>3. Amount(r) \in 0 .. Amount(r)
  BY <1>2, ZerodhaCloseAssumption
<1>4. loc' = [loc EXCEPT ![Proc(r)] = [Stepped(r) EXCEPT !.failed = Stepped(r).failed]]
  BY <1>2 DEF Reopened, Locals
<1>5. /\ LockHeld' /\ StageInv'
      /\ loc' \in [Procs -> Locs] /\ pos' \in [Legs -> Int]
  BY <1>1, <1>2, <1>3, <1>4, RollbackStep DEF Reopened
<1>6. TypeOK'
  BY <1>2, <1>5 DEF Reopened, IInv, TypeOK, Locs
<1> QED BY <1>5, <1>6 DEF IInv

LEMMA ReopenFailedKeeps ==
  ASSUME IInv, NEW r \in Requests, ReopenFailed(r)
  PROVE  IInv'
<1>1. At(r, "rollback") /\ Reopening(r)
  BY AtTrading DEF ReopenFailed, Trading
<1>2. Stepped(r).failed \cup {Target(r)} \in SUBSET Legs
  BY <1>1, SteppedIs DEF Locs
<1>3. PICK n \in 0 .. Amount(r) : pos' = [pos EXCEPT ![Target(r)] = @ + n]
  BY DEF ReopenFailed
<1>4. loc' = [loc EXCEPT ![Proc(r)] =
               [Stepped(r) EXCEPT !.failed = Stepped(r).failed \cup {Target(r)}]]
  BY DEF ReopenFailed, Locals
<1>5. /\ LockHeld' /\ StageInv'
      /\ loc' \in [Procs -> Locs] /\ pos' \in [Legs -> Int]
  BY <1>1, <1>2, <1>3, <1>4, RollbackStep DEF ReopenFailed
<1>6. TypeOK'
  BY <1>5 DEF ReopenFailed, IInv, TypeOK, Locs
<1> QED BY <1>5, <1>6 DEF IInv

-----------------------------------------------------------------------------
(* The user, the day, and deaths. *)

\* While nobody is past its gate, no stage is.
LEMMA GateStages ==
  ASSUME TypeOK, LockHeld, NobodyPastGate
  PROVE  \A p \in Procs : Stage[p] \in {"free", "gate"}
<1> SUFFICES ASSUME NEW p \in Procs, holder[p] # None
             PROVE  pc[holder[p]] = "gate"
  BY DEF Stage
<1>1. holder[p] \in Requests /\ Proc(holder[p]) = p
  BY DEF TypeOK, LockHeld
<1> QED BY <1>1 DEF LockHeld, NobodyPastGate, Busy

LEMMA UserFlattensKeeps ==
  ASSUME IInv, UserFlattens
  PROVE  IInv'
<1>0. TypeOK /\ LockHeld /\ StageInv
  BY DEF IInv
<1>1. /\ NobodyPastGate
      /\ sold' = sold \cup {l \in Legs : pos[l] > 0} /\ pos' = [l \in Legs |-> 0]
      /\ UNCHANGED <<pc, holder, loc, jobs, stale, reversed, status, alerted, overlap,
                     crashes>>
  BY DEF UserFlattens
<1>2. TypeOK'
  BY <1>0, <1>1 DEF TypeOK
<1>3. LockHeld'
  BY <1>0, <1>1 DEF LockHeld
<1>4. Stage' = Stage /\ \A p \in Procs : Stage[p] \in {"free", "gate"}
  BY <1>0, <1>1, GateStages DEF Stage
<1>5. LocalsMeaning'
  BY <1>0, <1>1, <1>4 DEF StageInv, LocalsMeaning
<1>6. NothingOwedTwice'
  BY <1>1, <1>4, ZerodhaCloseAssumption DEF NothingOwedTwice, OwedOf, Owed
<1>7. FillsKept'
  BY <1>0, <1>1, <1>2, <1>4 DEF StageInv, FillsKept, Booking, TypeOK
<1>8. ~overlap' => OneTrader' /\ FlatOnceBooked'
  BY <1>1, <1>4 DEF OneTrader, FlatOnceBooked, Trading, Booking
<1> QED BY <1>2, <1>3, <1>5, <1>6, <1>7, <1>8 DEF IInv, StageInv

LEMMA NewDayKeeps ==
  ASSUME IInv, NewDay
  PROVE  IInv'
<1>0. TypeOK /\ LockHeld /\ StageInv
  BY DEF IInv
<1>1. /\ NobodyPastGate /\ status = "ACTIVE" /\ sold' = {}
      /\ UNCHANGED <<pc, holder, loc, jobs, stale, reversed, status, alerted, pos,
                     overlap, crashes>>
  BY DEF NewDay
<1>2. TypeOK'
  BY <1>0, <1>1 DEF TypeOK
<1>3. LockHeld'
  BY <1>0, <1>1 DEF LockHeld
<1>4. Stage' = Stage /\ \A p \in Procs : Stage[p] \in {"free", "gate"}
  BY <1>0, <1>1, GateStages DEF Stage
<1>5. LocalsMeaning' /\ NothingOwedTwice' /\ (~overlap' => OneTrader' /\ FlatOnceBooked')
  BY <1>0, <1>1, <1>4 DEF StageInv, LocalsMeaning, NothingOwedTwice, OwedOf, OneTrader,
                          FlatOnceBooked
<1>6. FillsKept'
  BY <1>1, <1>4 DEF FillsKept, Booking
<1> QED BY <1>2, <1>3, <1>5, <1>6 DEF IInv, StageInv

\* A process dies: its stage is free, its locals are lost, and of its order in
\* flight n lots have filled, no more than the order was for.
LEMMA CrashStage ==
  ASSUME TypeOK, LockHeld, NEW p \in Procs, Crash(p)
  PROVE  /\ pc' \in [Requests -> Labels] /\ LockHeld'
         /\ holder' \in [Procs -> Requests \cup {None}] /\ loc' \in [Procs -> Locs]
         /\ Stage' = [Stage EXCEPT ![p] = "free"] /\ loc' = [loc EXCEPT ![p] = Fresh]
<1>1. /\ holder' = [holder EXCEPT ![p] = None] /\ loc' = [loc EXCEPT ![p] = Fresh]
      /\ pc' = [r \in Requests |-> IF Proc(r) = p /\ pc[r] # "idle" THEN "done" ELSE pc[r]]
  BY DEF Crash
<1>2. pc' \in [Requests -> Labels] /\ holder' \in [Procs -> Requests \cup {None}]
  BY <1>1, Types DEF Labels
<1>3. loc' \in [Procs -> Locs]
  BY <1>1, Types, Constants
<1>4. LockHeld'
  <2>1. ASSUME NEW r \in Requests PROVE pc'[r] \in Busy <=> holder'[Proc(r)] = r
    <3>1. CASE Proc(r) = p
      BY <1>1, <3>1, Types, Constants DEF LockHeld, Busy
    <3>2. CASE Proc(r) # p
      BY <1>1, <3>2, Types, Constants DEF LockHeld, Busy
    <3> QED BY <3>1, <3>2
  <2>2. ASSUME NEW q \in Procs, holder'[q] # None PROVE Proc(holder'[q]) = q
    BY <1>1, <2>2, Types DEF LockHeld
  <2> QED BY <2>1, <2>2 DEF LockHeld
<1>5. Stage' = [Stage EXCEPT ![p] = "free"]
  <2>1. Stage'[p] = "free"
    BY <1>1, Types DEF Stage
  <2>2. ASSUME NEW q \in Procs, q # p PROVE Stage'[q] = Stage[q]
    <3>1. holder'[q] = holder[q]
      BY <1>1, <2>2, Types
    <3>2. holder[q] # None => holder[q] \in Requests /\ Proc(holder[q]) = q
      BY Types DEF LockHeld
    <3>3. holder[q] # None => pc'[holder[q]] = pc[holder[q]]
      BY <1>1, <2>2, <3>2
    <3> QED BY <3>1, <3>3 DEF Stage
  <2>3. \A q \in Procs : Stage'[q] = [Stage EXCEPT ![p] = "free"][q]
    BY <2>1, <2>2 DEF Stage
  <2> QED BY <2>3 DEF Stage
<1> QED BY <1>1, <1>2, <1>3, <1>4, <1>5

\* What a death may leave of the position while its order was in flight.
LEMMA CrashFills ==
  ASSUME IInv, NEW p \in Procs, Crash(p), loc[p].sent
  PROVE  /\ Stage[p] \in Trading
         /\ sold \subseteq sold' /\ sold' \subseteq Legs
         /\ pos' \in [Legs -> Int]
         /\ \A l \in Legs : /\ pos'[l] <= pos[l] + OwedOf(p, l)
                            /\ ~overlap => pos'[l] >= 0
<1> DEFINE h == holder[p]
<1>0. /\ TypeOK /\ LockHeld /\ StageInv
      /\ \A l \in Legs : l \in Int /\ pos[l] \in Int /\ OwedOf(p, l) \in Nat
  BY Types, OwedNat DEF IInv, OwedOf, Legs
<1>1. Stage[p] \in Trading
  BY <1>0 DEF StageInv, LocalsMeaning
<1>2. h \in Requests /\ Proc(h) = p /\ pc[h] = Stage[p] /\ At(h, Stage[p])
  BY <1>0, <1>1, Types DEF Stage, LockHeld, Trading, At
<1>3. \A l \in Legs : ~overlap => pos[l] >= 0
  BY <1>0 DEF StageInv, OneTrader
<1>4. CASE pc[h] = "legs"
  <2>1. PICK n \in 0 .. Qty :
          /\ pos' = [pos EXCEPT ![loc[p].done + 1] = @ - n]
          /\ sold' = IF n = Qty THEN sold \cup {loc[p].done + 1} ELSE sold
    BY <1>4 DEF Crash
  <2>2. At(h, "legs") /\ "legs" \in Trading /\ My(h) = loc[p]
    BY <1>2, <1>4 DEF Trading, My
  <2>3. loc[p].done \in 0 .. NLegs - 1
    BY <1>2, <2>2, AtTrading
  <2>4. loc[p].done + 1 \in Legs
    BY <2>3, ZerodhaCloseAssumption DEF Legs
  <2>5. pos' \in [Legs -> Int] /\ sold \subseteq sold' /\ sold' \subseteq Legs
    BY <1>0, <2>1, <2>4, Types, ZerodhaCloseAssumption
  <2>6. ASSUME NEW l \in Legs
        PROVE  pos'[l] <= pos[l] + OwedOf(p, l) /\ (~overlap => pos'[l] >= 0)
    <3>1. pos'[l] = IF l = loc[p].done + 1 THEN pos[l] - n ELSE pos[l]
      BY <1>0, <2>1, Types
    <3>2. ~overlap => pos[l] = IF l <= loc[p].done THEN 0 ELSE Qty
      BY <1>0, <1>2, <1>4 DEF StageInv, OneTrader
    <3> QED BY <1>0, <1>3, <2>3, <3>1, <3>2, ZerodhaCloseAssumption
  <2> QED BY <1>1, <2>5, <2>6
<1>5. CASE pc[h] = "rollback"
  <2>1. PICK n \in 0 .. Amount(h) :
          pos' = [pos EXCEPT ![Target(h)] = @ + n] /\ sold' = sold
    BY <1>5 DEF Crash
  <2>2. At(h, "rollback") /\ "rollback" \in Trading /\ My(h) = loc[p]
    BY <1>2, <1>5 DEF Trading, My
  <2>3. Reopening(h)
    BY <1>2, <2>2, AtTrading
  <2>4. /\ Target(h) \in Legs /\ Amount(h) \in 0 .. Qty
        /\ OwedOf(p, Target(h)) = Amount(h)
    BY <1>2, <2>2, <2>3, SteppedIs
  <2>5. n \in Nat /\ n <= OwedOf(p, Target(h))
    BY <2>4, ZerodhaCloseAssumption
  <2>6. pos' \in [Legs -> Int]
    BY <1>0, <2>1, <2>4, <2>5, Types
  <2>7. ASSUME NEW l \in Legs
        PROVE  pos'[l] <= pos[l] + OwedOf(p, l) /\ (~overlap => pos'[l] >= 0)
    <3>1. pos'[l] = IF l = Target(h) THEN pos[l] + n ELSE pos[l]
      BY <1>0, <2>1, Types
    <3> QED BY <1>0, <1>3, <2>5, <3>1
  <2> QED BY <1>0, <1>1, <2>1, <2>6, <2>7, Types
<1> QED BY <1>1, <1>2, <1>4, <1>5 DEF Trading

\* With its process gone, a trader owes nothing.
LEMMA TraderGone ==
  ASSUME TypeOK, LockHeld, StageInv, NEW p \in Procs, Stage[p] \in Trading,
         Stage' = [Stage EXCEPT ![p] = "free"], loc' = [loc EXCEPT ![p] = Fresh],
         \A l \in Legs : /\ pos'[l] \in Int
                         /\ pos'[l] + Owed("free", Fresh, l) <= pos[l] + OwedOf(p, l)
                         /\ ~overlap => pos'[l] >= 0,
         sold \subseteq sold', sold' \subseteq Legs, UNCHANGED <<status, overlap>>
  PROVE  StageInv'
<1> DEFINE stage == "free"
           my    == Fresh
<1>1. my \in Locs /\ my = Fresh /\ stage = "free"
  BY Constants
<1>2. Stage' = [Stage EXCEPT ![p] = stage] /\ loc' = [loc EXCEPT ![p] = my]
  OBVIOUS
<1>3. \A l \in Legs : /\ pos'[l] \in Int
                      /\ pos'[l] + Owed(stage, my, l) <= pos[l] + OwedOf(p, l)
                      /\ ~overlap => pos'[l] >= 0
  OBVIOUS
<1> HIDE DEF stage, my
<1> QED BY <1>1, <1>2, <1>3, TraderMoves

LEMMA CrashKeeps ==
  ASSUME IInv, NEW p \in Procs, Crash(p)
  PROVE  IInv'
<1>0. TypeOK /\ LockHeld /\ StageInv /\ pos \in [Legs -> Int] /\ sold \subseteq Legs
  BY Types DEF IInv
<1>1. /\ pc' \in [Requests -> Labels] /\ LockHeld'
      /\ holder' \in [Procs -> Requests \cup {None}] /\ loc' \in [Procs -> Locs]
      /\ Stage' = [Stage EXCEPT ![p] = "free"] /\ loc' = [loc EXCEPT ![p] = Fresh]
  BY <1>0, CrashStage
<1>2. /\ crashes' \in 0 .. MaxCrashes /\ stale' \in BOOLEAN
      /\ UNCHANGED <<jobs, reversed, status, alerted, overlap>>
  <2>1. loc[p].sent \in BOOLEAN
    BY <1>0, Types DEF Locs
  <2> QED BY <1>0, <2>1, ZerodhaCloseAssumption DEF Crash, TypeOK
<1>3. CASE loc[p].sent
  <2>1. /\ Stage[p] \in Trading /\ pos' \in [Legs -> Int]
        /\ sold \subseteq sold' /\ sold' \subseteq Legs
        /\ \A l \in Legs : /\ pos'[l] <= pos[l] + OwedOf(p, l)
                           /\ ~overlap => pos'[l] >= 0
    BY <1>3, CrashFills
  <2>2. TypeOK'
    BY <1>0, <1>1, <1>2, <2>1 DEF TypeOK, Labels, Locs
  <2>3. \A l \in Legs : /\ pos'[l] \in Int
                        /\ pos'[l] + Owed("free", Fresh, l) <= pos[l] + OwedOf(p, l)
                        /\ ~overlap => pos'[l] >= 0
    BY <2>1 DEF Owed
  <2>4. StageInv'
    <3>1. TypeOK /\ LockHeld /\ StageInv /\ Stage[p] \in Trading
      BY <1>0, <2>1
    <3>2. /\ sold \subseteq sold' /\ sold' \subseteq Legs /\ UNCHANGED <<status, overlap>>
          /\ Stage' = [Stage EXCEPT ![p] = "free"] /\ loc' = [loc EXCEPT ![p] = Fresh]
      BY <1>1, <1>2, <2>1
    <3> QED BY <2>3, <3>1, <3>2, TraderGone
  <2> QED BY <1>1, <2>2, <2>4 DEF IInv
<1>4. CASE ~loc[p].sent
  <2>1. pos' = pos /\ sold' = sold
    BY <1>4 DEF Crash
  <2>2. TypeOK'
    BY <1>0, <1>1, <1>2, <2>1 DEF TypeOK, Labels, Locs
  <2>3. StageInv'
    BY <1>0, <1>1, <1>2, <2>1, IdleStage
  <2> QED BY <1>1, <2>2, <2>3 DEF IInv
<1> QED BY <1>3, <1>4

-----------------------------------------------------------------------------
(* The theorems. *)

LEMMA InitIInv == Init => IInv
<1> SUFFICES ASSUME Init PROVE IInv
  OBVIOUS
<1>1. Stage = [p \in Procs |-> "free"] /\ loc = [p \in Procs |-> Fresh]
  BY DEF Init, Stage
<1>2. TypeOK
  <2>1. loc \in [Procs -> Locs]
    BY <1>1, Constants
  <2>2. jobs \in Seq(Requests) /\ crashes \in 0 .. MaxCrashes /\ pos \in [Legs -> Int]
    BY ZerodhaCloseAssumption DEF Init
  <2> QED BY <2>1, <2>2 DEF Init, TypeOK, Locs
<1>3. LockHeld
  BY Constants DEF Init, LockHeld, Busy
<1>4. LocalsMeaning
  BY <1>1 DEF LocalsMeaning, Fresh
<1>5. NothingOwedTwice
  BY <1>1, ZerodhaCloseAssumption DEF Init, NothingOwedTwice, OwedOf, Owed
<1>6. FillsKept /\ OneTrader /\ FlatOnceBooked
  BY <1>1, ZerodhaCloseAssumption
     DEF Init, FillsKept, OneTrader, FlatOnceBooked, Trading, Booking
<1> QED BY <1>2, <1>3, <1>4, <1>5, <1>6 DEF IInv, StageInv

\* Every step of every request, of the user and of a death keeps IInv.
LEMMA NextKeeps == IInv /\ [Next]_vars => IInv'
<1> SUFFICES ASSUME IInv, [Next]_vars PROVE IInv'
  OBVIOUS
<1>1. ASSUME NEW r \in Requests, Request(r) PROVE IInv'
  <2>1. ASSUME Close(r) PROVE IInv'
    BY <2>1, SendExitKeeps, ExitFilledKeeps, ExitFailedKeeps, LegRefusedKeeps,
       SkipReopenKeeps, RefusalKeeps, SendReopenKeeps, ReopenedKeeps, ReopenFailedKeeps,
       RollbackEndsKeeps, BookCheckKeeps, BookKeeps
       DEF Close
  <2> QED BY <1>1, <2>1, PreflightKeeps, SubmitInsertKeeps, TakeLockKeeps, RefusalKeeps,
             GateKeeps, SeeFlatKeeps, SeeInventoryKeeps, FinishJobKeeps
          DEF Request
<1>2. CASE UserFlattens
  BY <1>2, UserFlattensKeeps
<1>3. CASE NewDay
  BY <1>3, NewDayKeeps
<1>4. ASSUME NEW p \in Procs, Crash(p) PROVE IInv'
  BY <1>4, CrashKeeps
<1>5. CASE UNCHANGED vars
  <2>1. Stage' = Stage
    BY <1>5 DEF vars, Stage
  <2>2. TypeOK'
    BY <1>5 DEF vars, IInv, TypeOK
  <2>3. LockHeld'
    BY <1>5 DEF vars, IInv, LockHeld
  <2> QED BY <1>5, <2>1, <2>2, <2>3, SameStage DEF vars, IInv
<1> QED BY <1>1, <1>2, <1>3, <1>4, <1>5 DEF Next

\* The inductive invariant: the lock of each process has one holder, whose locals
\* say what it has closed, may still put back, and has fills for.
THEOREM Inductive == Spec => []IInv
<1>1. Init => IInv
  BY InitIInv
<1>2. IInv /\ [Next]_vars => IInv'
  BY NextKeeps
<1> QED BY <1>1, <1>2, PTL DEF Spec

\* Every variable keeps its type.
THEOREM TypeCorrect == Spec => []TypeOK
<1>1. IInv => TypeOK
  BY DEF IInv
<1> QED BY <1>1, Inductive, PTL

\* _rollback_filled_legs never adds to the position the trade was opened with,
\* even when the two processes close the trade at once.
THEOREM ReopenedOnce == Spec => []NeverReopenedTwice
<1>1. IInv => NeverReopenedTwice
  <2> SUFFICES ASSUME IInv, NEW l \in Legs PROVE pos[l] <= Qty
    BY DEF NeverReopenedTwice
  <2>1. PICK p \in Procs, q \in Procs : p # q
    BY DEF Procs
  <2>2. pos[l] + OwedOf(p, l) + OwedOf(q, l) <= Qty
    BY <2>1 DEF IInv, StageInv, NothingOwedTwice
  <2>3. pos[l] \in Int /\ OwedOf(p, l) \in Nat /\ OwedOf(q, l) \in Nat
    BY Types, OwedNat DEF IInv, OwedOf
  <2> QED BY <2>2, <2>3, ZerodhaCloseAssumption
<1> QED BY <1>1, Inductive, PTL

\* Unless two processes traded at once, no exit order opens new exposure.
THEOREM ClosedNoFurther == Spec => []NeverOverClosed
<1>1. IInv => NeverOverClosed
  BY DEF IInv, StageInv, OneTrader, NeverOverClosed
<1> QED BY <1>1, Inductive, PTL

\* Unless two processes traded at once, close_trade_with_fills leaves nothing open.
THEOREM ClosedFlat == Spec => []ClosedIsFlat
<1>1. IInv => ClosedIsFlat
  BY DEF IInv, StageInv, FlatOnceBooked, ClosedIsFlat
<1> QED BY <1>1, Inductive, PTL

\* A closed trade has an order at Zerodha behind the exit of each leg, whatever
\* raced, failed or died on the way.
THEOREM ClosedByFills == Spec => []ClosedFromFills
<1>1. IInv => ClosedFromFills
  BY DEF IInv, StageInv, FillsKept, ClosedFromFills
<1> QED BY <1>1, Inductive, PTL
=============================================================================

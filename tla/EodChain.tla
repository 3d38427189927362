------------------------------ MODULE EodChain ------------------------------
(***************************************************************************)
(* The chain of the morning (scheduler/scheduler.py): at 09:00 it fills in *)
(* the closing prices that are missing (lifecycle/data_backfill.py,        *)
(* download_orchestrator.py) and reviews the open trades                   *)
(* (exit_orchestrator.py), each step a job with a row in options_job_log,  *)
(* a time limit and a transaction.  Beside it: steps started by hand, the  *)
(* worker that a time limit leaves behind, deaths and late starts of the   *)
(* machine, and the user, who closes or voids the trade.                   *)
(*                                                                         *)
(* One trade, all of its legs executed.  Days are weekdays; any attempt to *)
(* fetch a file may find none: a holiday, or a file that is late.  Of the  *)
(* chain's steps those a review depends on are modelled; the spot, which   *)
(* it reads too, changes only the price it settles a leg at.               *)
(***************************************************************************)
EXTENDS Naturals

CONSTANTS
  LastDay,             \* bound on days
  Expiry,              \* the day the contracts of the trade expire
  Lookback,            \* data_backfill_lookback_days
  NLegs,               \* legs of the trade
  MaxUpsets,           \* bound on deaths and late starts of the machine
  MaxCuts,             \* bound on jobs that exceed their time limit
  MaxHands,            \* bound on jobs started by hand
  MaxTouches           \* bound on requests of the user

ASSUME EodAssumption ==
  /\ LastDay \in Nat /\ Lookback \in Nat /\ NLegs \in Nat \ {0}
  /\ Expiry \in 1 .. LastDay
  /\ MaxUpsets \in Nat /\ MaxCuts \in Nat /\ MaxHands \in Nat /\ MaxTouches \in Nat

VARIABLES
  day,        \* today
  nine,       \* today's 09:00: "ahead" or "past"
  fo,         \* days with rows in options_fo_eod
  log,        \* options_job_log: the rows <<job, day, n>> that say RUNNING
  step,       \* the chain's next step, or 0
  work,       \* the jobs being run: the chain's, one started by hand, and what a
              \* time limit has left behind
  row,        \* the trade's row and those of its legs, as committed
  desk,       \* the user's close: "read" once it has seen the trade open
  stale,      \* history: who has read the trade open before it ended
  upsets, cuts, hands, touches    \* counters of the bounds

counts == <<upsets, cuts, hands, touches>>
vars   == <<day, nine, fo, log, step, work, row, desk, stale, counts>>

Days  == 1 .. LastDay
Steps == <<"fo", "exit">>
Slots == {"chain", "hand", "left"}
Ended == {"CLOSED", "VOID"}
Legs  == 1 .. NLegs
Trade == 0                                  \* the key of the trade's own row
Keys  == Legs \cup {Trade}

\* A row of the trade and of a leg: "by" tells whose result or exit price it holds.
Row(status, by) == [status |-> status, by |-> by]
Opened == [k \in Keys |-> Row(IF k = Trade THEN "ACTIVE" ELSE "EXECUTED", "nobody")]
Unwritten == Row("none", "nobody")
Clean  == [k \in Keys |-> Unwritten]         \* a transaction that has written nothing
Idle   == [pc |-> "idle", job |-> "none", n |-> 0, end |-> 0, dated |-> FALSE,
           early |-> FALSE, todo |-> {}, mine |-> Clean]

Init ==
  /\ day = 1 /\ nine = "past" /\ fo = {} /\ log = {} /\ step = 0
  /\ work = [s \in Slots |-> Idle]
  /\ row = Opened /\ desk = "away" /\ stale = {}
  /\ upsets = 0 /\ cuts = 0 /\ hands = 0 /\ touches = 0

\* The rows under what a transaction has written.
Over(new, old) == [k \in Keys |-> IF new[k] = Unwritten THEN old[k] ELSE new[k]]
Least(S)       == {x \in S : \A y \in S : x <= y}

-----------------------------------------------------------------------------
(* One job: _run_job. *)

Begun(j, n, end, dated, early) ==
  [pc |-> IF j = "exit" THEN "open" ELSE "dates", job |-> j, n |-> n, end |-> end,
   dated |-> dated, early |-> early, todo |-> {}, mine |-> Clean]
RowOf(s) == <<work[s].job, day, work[s].n>>

\* The worker of s has ended; nobody waits for one that was left behind.
Ends(s, status) ==
  work' = [work EXCEPT ![s] = IF s = "left" THEN Idle
                              ELSE [@ EXCEPT !.pc = status, !.todo = {}, !.mine = Clean]]

Finish(s) ==
  /\ s # "left" /\ work[s].pc \in {"SUCCESS", "NO_DATA", "FAILED"}
  /\ log' = log \ {RowOf(s)}
  /\ work' = [work EXCEPT ![s] = Idle] /\ stale' = stale \ {s}
  /\ UNCHANGED <<day, nine, fo, step, row, desk, counts>>

-----------------------------------------------------------------------------
(* The download of closing prices: run_fo_bhav. *)

\* dates_to_process.
DatesOf(w) ==
  LET missing == {d \in Days \ fo : d <= w.end /\ w.end <= d + Lookback}
      refresh == IF w.early /\ w.end \in fo THEN {} ELSE {w.end} \cap Days
  IN IF w.dated THEN {w.end}
     ELSE {d \in missing \cup refresh : w.early => d < day}

FindDates(s) ==
  /\ work[s].pc = "dates"
  /\ work' = [work EXCEPT ![s].pc = "each", ![s].todo = DatesOf(work[s])]
  /\ UNCHANGED <<day, nine, fo, log, step, row, desk, stale, counts>>

\* _run_fo_bhav_for_date: the oldest date is next, and its rows are one commit.
Download(s) ==
  /\ work[s].pc = "each" /\ work[s].todo # {}
  /\ fo' = fo \cup Least(work[s].todo)
  /\ work' = [work EXCEPT ![s].todo = @ \ Least(@)]
  /\ UNCHANGED <<day, nine, log, step, row, desk, stale, counts>>

\* NoDataError: passed over, unless the day is the one asked for.
NoFile(s) ==
  /\ work[s].pc = "each" /\ work[s].todo # {}
  /\ IF work[s].end \in Least(work[s].todo) THEN Ends(s, "NO_DATA")
     ELSE work' = [work EXCEPT ![s].todo = @ \ Least(@)]
  /\ UNCHANGED <<day, nine, fo, log, step, row, desk, stale, counts>>

\* Any other error ends the job: later dates are not tried.
DownloadRaises(s) ==
  /\ work[s].pc = "each" /\ work[s].todo # {} /\ Ends(s, "FAILED")
  /\ UNCHANGED <<day, nine, fo, log, step, row, desk, stale, counts>>

AllDates(s) ==
  /\ work[s].pc = "each" /\ work[s].todo = {} /\ Ends(s, "SUCCESS")
  /\ UNCHANGED <<day, nine, fo, log, step, row, desk, stale, counts>>

-----------------------------------------------------------------------------
(* The review of the open trades: run_exit_engine, one transaction. *)

\* A statement waits for the rows that another transaction has written.
LockedFor(s) == {k \in Keys : \E o \in Slots \ {s} : work[o].mine[k] # Unwritten}

\* Mutant of ReadOpen: a voided trade is reviewed too.
ReadOpenVoided(s) ==
  /\ work[s].pc = "open"
  /\ IF row[Trade].status = "CLOSED" THEN Ends(s, "SUCCESS")
     ELSE work' = [work EXCEPT ![s].pc = "look"]
  /\ stale' = stale \ {s}
  /\ UNCHANGED <<day, nine, fo, log, step, row, desk, counts>>

\* open_trades: the list is read once.
ReadOpen(s) ==
  /\ work[s].pc = "open"
  /\ IF row[Trade].status \in Ended THEN Ends(s, "SUCCESS")
     ELSE work' = [work EXCEPT ![s].pc = "look"]
  /\ stale' = stale \ {s}
  /\ UNCHANGED <<day, nine, fo, log, step, row, desk, counts>>

\* The closing prices of one day, which has rows of a contract until it expires.
Review(s) ==
  /\ work[s].pc = "look"
  /\ work' = IF work[s].end \notin fo \/ work[s].end > Expiry
             THEN [work EXCEPT ![s].pc = "commit"]
             ELSE IF work[s].end = Expiry
                  THEN [work EXCEPT ![s].pc = "settle", ![s].todo = Legs]
                  ELSE [work EXCEPT ![s].pc = "mark"]
  /\ UNCHANGED <<day, nine, fo, log, step, row, desk, stale, counts>>

\* EXPIRE: each leg at its closing price, then the trade.
SettleLeg(s) ==
  /\ work[s].pc = "settle"
  /\ \E l \in Least(work[s].todo) \ LockedFor(s) :
       work' = [work EXCEPT ![s].todo = @ \ {l}, ![s].mine[l] = Row("EXECUTED", "engine")]
  /\ UNCHANGED <<day, nine, fo, log, step, row, desk, stale, counts>>

SettleTrade(s) ==
  /\ work[s].pc = "settle" /\ work[s].todo = {} /\ Trade \notin LockedFor(s)
  /\ work' = [work EXCEPT ![s].pc = "commit", ![s].mine[Trade] = Row("CLOSED", "engine")]
  /\ UNCHANGED <<day, nine, fo, log, step, row, desk, stale, counts>>

\* Every other decision: update_status, which leaves the recorded result alone.
MarkActive(s) ==
  /\ work[s].pc = "mark" /\ Trade \notin LockedFor(s)
  /\ work' = [work EXCEPT ![s].pc = "commit",
                          ![s].mine[Trade] = Row("ACTIVE", row[Trade].by)]
  /\ UNCHANGED <<day, nine, fo, log, step, row, desk, stale, counts>>

\* Mutant of SettlementFails: a leg that cannot be written is passed over, and the
\* others are settled.
SettlementSkips(s) ==
  /\ work[s].pc = "settle"
  /\ (IF work[s].todo = {} THEN {Trade} ELSE Least(work[s].todo)) \subseteq LockedFor(s)
  /\ work' = IF work[s].todo = {} THEN [work EXCEPT ![s].pc = "mark"]
             ELSE [work EXCEPT ![s].todo = @ \ Least(@)]
  /\ UNCHANGED <<day, nine, fo, log, step, row, desk, stale, counts>>

\* A lock timeout: a settlement falls back to ACTIVE, and what it has written so far
\* is still in its transaction; any other statement ends the job.
SettlementFails(s) ==
  /\ work[s].pc = "settle"
  /\ (IF work[s].todo = {} THEN {Trade} ELSE Least(work[s].todo)) \subseteq LockedFor(s)
  /\ work' = [work EXCEPT ![s].pc = "mark", ![s].todo = {}]
  /\ UNCHANGED <<day, nine, fo, log, step, row, desk, stale, counts>>

MarkFails(s) ==
  /\ work[s].pc = "mark" /\ Trade \in LockedFor(s) /\ Ends(s, "FAILED")
  /\ UNCHANGED <<day, nine, fo, log, step, row, desk, stale, counts>>

\* Whoever has read the trade open and may yet write it.
Reading == {s \in Slots : work[s].pc \in {"look", "settle", "mark", "commit"}}
           \cup (IF desk = "read" THEN {"user"} ELSE {})
Misled  == IF row'[Trade].status \in Ended THEN stale \cup Reading ELSE stale

Commit(s) ==
  /\ work[s].pc = "commit"
  /\ row' = Over(work[s].mine, row) /\ stale' = Misled
  /\ Ends(s, "SUCCESS")
  /\ UNCHANGED <<day, nine, fo, log, step, desk, counts>>

Worker(s) ==
  \/ FindDates(s) \/ Download(s) \/ NoFile(s) \/ DownloadRaises(s) \/ AllDates(s)
  \/ ReadOpen(s) \/ Review(s) \/ SettleLeg(s) \/ SettleTrade(s) \/ MarkActive(s)
  \/ SettlementFails(s) \/ MarkFails(s) \/ Commit(s) \/ Finish(s)

-----------------------------------------------------------------------------
(* The time limit: _run_with_timeout. *)

Working(s) == work[s].pc \in {"dates", "each", "open", "look", "settle", "mark", "commit"}

\* The thread that waits closes the connection.  Its worker connects again with its
\* next statement, or fails in the statement it was in.
Cut(s) ==
  /\ s # "left" /\ Working(s) /\ work["left"].pc = "idle"
  /\ cuts < MaxCuts /\ cuts' = cuts + 1
  /\ \E left \in {work[s], IF work[s].pc = "settle"
                           THEN [work[s] EXCEPT !.pc = "mark", !.todo = {}] ELSE Idle} :
       work' = [work EXCEPT !["left"] = [left EXCEPT !.mine = Clean],
                            ![s].pc = "rollback", ![s].todo = {}, ![s].mine = Clean]
  /\ stale' = IF s \in stale THEN (stale \ {s}) \cup {"left"} ELSE stale \ {"left"}
  /\ UNCHANGED <<day, nine, fo, log, step, row, desk, upsets, hands, touches>>

\* Worker and waiting thread share one connection object: what the worker writes while
\* the failure is reported is rolled back, committed, or lost, as the report goes on.
ReportRollsBack(s) ==
  /\ work[s].pc = "rollback"
  /\ work' = [work EXCEPT ![s].pc = "finish", !["left"].mine = Clean]
  /\ UNCHANGED <<day, nine, fo, log, step, row, desk, stale, counts>>

ReportCommits(s) ==
  /\ \/ work[s].pc = "finish" /\ log' = log \ {RowOf(s)}
        /\ work' = [work EXCEPT ![s].pc = "notify", !["left"].mine = Clean]
     \/ work[s].pc = "notify" /\ log' = log
        /\ work' = [work EXCEPT ![s].pc = "close", !["left"].mine = Clean]
  /\ row' = Over(work["left"].mine, row) /\ stale' = Misled
  /\ UNCHANGED <<day, nine, fo, step, desk, counts>>

ReportCloses(s) ==
  /\ work[s].pc = "close"
  /\ work' = [work EXCEPT ![s] = Idle, !["left"].mine = Clean]
  /\ UNCHANGED <<day, nine, fo, log, step, row, desk, stale, counts>>

Report(s) == s # "left" /\ (ReportRollsBack(s) \/ ReportCommits(s) \/ ReportCloses(s))

-----------------------------------------------------------------------------
(* The chain, jobs by hand, and the machine. *)

\* job_morning_eod_catchup: the session before today, step by step, whatever the steps
\* end with.
Nine ==
  /\ nine = "ahead" /\ nine' = "past" /\ step' = 1
  /\ log' = log \cup {<<"chain", day, 0>>}
  /\ UNCHANGED <<day, fo, work, row, desk, stale, counts>>

NextStep ==
  /\ step \in DOMAIN Steps /\ work["chain"].pc = "idle"
  /\ work' = [work EXCEPT !["chain"] = Begun(Steps[step], 0, day - 1, FALSE, TRUE)]
  /\ log' = log \cup {<<Steps[step], day, 0>>}
  /\ step' = step + 1
  /\ UNCHANGED <<day, nine, fo, row, desk, stale, counts>>

ChainEnds ==
  /\ step # 0 /\ step \notin DOMAIN Steps /\ work["chain"].pc = "idle"
  /\ step' = 0 /\ log' = log \ {<<"chain", day, 0>>}
  /\ UNCHANGED <<day, nine, fo, work, row, desk, stale, counts>>

\* The chain's own time limit: its row says FAILED, and its thread goes on.
CutChain ==
  /\ step # 0 /\ <<"chain", day, 0>> \in log
  /\ cuts < MaxCuts /\ cuts' = cuts + 1
  /\ log' = log \ {<<"chain", day, 0>>}
  /\ UNCHANGED <<day, nine, fo, step, work, row, desk, stale, upsets, hands, touches>>

\* trigger_job_now: for today, in the row of the scheduled run, or for a given day, in
\* a row of its own.
ByHand ==
  /\ work["hand"].pc = "idle" /\ hands < MaxHands /\ hands' = hands + 1
  /\ \E j \in {"fo", "exit"}, dated \in BOOLEAN, d \in 1 .. day :
       LET n == IF dated THEN hands + 1 ELSE 0
       IN /\ dated \/ d = day
          /\ work' = [work EXCEPT !["hand"] = Begun(j, n, d, dated, FALSE)]
          /\ log' = log \cup {<<j, day, n>>}
  /\ UNCHANGED <<day, nine, fo, step, row, desk, stale, upsets, cuts, touches>>

\* Mutant of Swept: only the rows of the new day are swept.
SweptToday == {i \in log : i[2] # day'}

\* _sweep_orphan_running_jobs: the rows that still say RUNNING after it.
Swept == {}

Restarts ==
  /\ work' = [s \in Slots |-> Idle] /\ step' = 0 /\ log' = Swept
  /\ desk' = "away" /\ stale' = {}

\* The process dies and is started again.
Die ==
  /\ upsets < MaxUpsets /\ upsets' = upsets + 1
  /\ UNCHANGED <<day, nine, fo, row, cuts, hands, touches>> /\ Restarts

\* The machine stops in the afternoon and starts the next morning, perhaps too late
\* for the 09:00 of that day.
NewDay ==
  /\ nine = "past" /\ step = 0 /\ work["chain"].pc = "idle"
  /\ day < LastDay /\ day' = day + 1 /\ Restarts
  /\ \/ nine' = "ahead" /\ upsets' = upsets
     \/ nine' = "past" /\ upsets < MaxUpsets /\ upsets' = upsets + 1
  /\ UNCHANGED <<fo, row, cuts, hands, touches>>

-----------------------------------------------------------------------------
(* The user. *)

Touch == touches < MaxTouches /\ touches' = touches + 1

\* close_trade_with_fills reads the trade and its legs, and goes on if it is open;
CloseReads ==
  /\ desk = "away" /\ row[Trade].status \notin Ended /\ desk' = "read" /\ Touch
  /\ stale' = stale \ {"user"}
  /\ UNCHANGED <<day, nine, fo, log, step, work, row, upsets, cuts, hands>>

\* then it writes every leg and the trade, and commits,
CloseWrites ==
  /\ desk = "read" /\ LockedFor("user") = {} /\ desk' = "away"
  /\ row' = [k \in Keys |-> Row(IF k = Trade THEN "CLOSED" ELSE "EXECUTED", "user")]
  /\ stale' = Misled
  /\ UNCHANGED <<day, nine, fo, log, step, work, counts>>

\* or gives up waiting for a row.
CloseGivesUp ==
  /\ desk = "read" /\ LockedFor("user") # {}
  /\ desk' = "away" /\ stale' = stale \ {"user"}
  /\ UNCHANGED <<day, nine, fo, log, step, work, row, counts>>

\* api_void_trade asks nothing.
Void ==
  /\ Trade \notin LockedFor("user") /\ Touch
  /\ row' = [row EXCEPT ![Trade].status = "VOID"] /\ stale' = Misled
  /\ UNCHANGED <<day, nine, fo, log, step, work, desk, upsets, cuts, hands>>

User == CloseReads \/ CloseWrites \/ CloseGivesUp \/ Void

-----------------------------------------------------------------------------
Next ==
  \/ \E s \in Slots : Worker(s) \/ Cut(s) \/ Report(s)
  \/ Nine \/ NextStep \/ ChainEnds \/ CutChain \/ ByHand \/ Die \/ NewDay \/ User

\* What has been started goes on; 09:00 and the next morning come.
Spec ==
  /\ Init /\ [][Next]_vars
  /\ \A s \in Slots : WF_vars(Worker(s)) /\ WF_vars(Report(s))
  /\ WF_vars(Nine) /\ WF_vars(NextStep) /\ WF_vars(ChainEnds) /\ WF_vars(NewDay)

-----------------------------------------------------------------------------
(* Properties. *)

\* The type invariant.
Authors == {"nobody", "user", "engine"}
TradeRows == [status : {"ACTIVE", "CLOSED", "VOID"}, by : Authors]
LegRows   == [status : {"EXECUTED"}, by : Authors]
RowSets == {r \in [Keys -> TradeRows \cup LegRows \cup {Unwritten}] :
              /\ r[Trade] \in TradeRows \cup {Unwritten}
              /\ \A l \in Legs : r[l] \in LegRows \cup {Unwritten}}
Pcs  == {"idle", "dates", "each", "open", "look", "settle", "mark", "commit", "SUCCESS",
         "NO_DATA", "FAILED", "rollback", "finish", "notify", "close"}
Jobs == [pc : Pcs, job : {"none", "fo", "exit"}, n : Nat, end : Nat, dated : BOOLEAN,
         early : BOOLEAN, todo : SUBSET Nat, mine : RowSets]
TypeOK ==
  /\ day \in Days /\ nine \in {"ahead", "past"} /\ fo \subseteq Nat
  /\ step \in 0 .. 3 /\ desk \in {"away", "read"} /\ stale \subseteq Slots \cup {"user"}
  /\ work \in [Slots -> Jobs]
  /\ \A s \in Slots : work[s].pc = "settle" => work[s].todo \subseteq Legs
  /\ row \in RowSets /\ \A k \in Keys : row[k] # Unwritten
  /\ {upsets, cuts, hands, touches} \subseteq Nat

\* The result of a closed trade and the exit prices of its legs have one author: no
\* order of two reviews, a lock timeout and a close of the user mixes them, as long as
\* no job is cut off (close_trade and update_leg_exit are unguarded updates).
WholeUnlessCut ==
  row[Trade].status = "CLOSED" /\ cuts = 0 =>
    \A l \in Legs : row[l].by = row[Trade].by

\* An ended trade is changed only by somebody who had read it open before it ended
\* (run_exit_engine and close_trade_with_fills check first and write later), or voided.
\* A review so misled may reopen the trade, but the recorded result and exit prices
\* stay, unless it is the review of the day of expiry, which settles.
EndStays ==
  [][row[Trade].status \in Ended /\ row' # row =>
       \/ row' = [row EXCEPT ![Trade].status = "VOID"]
       \/ "user" \in stale \cap Reading /\ desk' # desk
       \/ \E s \in stale \cap Reading \cap Slots :
            /\ work'[s] # work[s]
            /\ work[s].end = Expiry \/ row' = [row EXCEPT ![Trade].status = "ACTIVE"]]_vars

\* Every row of options_job_log leaves RUNNING, whatever cut the job off, the time
\* limit or a death of the machine: once no more jobs start, none says RUNNING (the
\* statements of the report and of the sweep are taken to succeed).
RowsSettle == <>[](log = {})
=============================================================================

---------------------------- MODULE ZerodhaClose ----------------------------
(***************************************************************************)
(* Closing one trade that was opened at Zerodha (close_trade_in_zerodha of *)
(* lifecycle/zerodha_executor.py), by every request made for it: clicks in *)
(* the dashboard process, synchronous or as jobs, and automatic closes of  *)
(* the ws_runner process (lifecycle/auto_execution), always as jobs.  Each *)
(* process has its own locks; the database and the account are shared.     *)
(* Either process may die; the user may flatten the position by hand.      *)
(*                                                                         *)
(* Legs are numbered in the order they are closed.  A position is counted  *)
(* in lots of the side the leg was opened on; below 0 it is new exposure.  *)
(* A leg call is two steps and reports what filled, as in ZerodhaEntry.    *)
(* The user flattens by hand only while no request is past its gate.       *)
(***************************************************************************)
EXTENDS Integers, Sequences, SequencesExt

CONSTANTS
  Clicks,       \* close requests of the dashboard
  Autos,        \* close requests of the ws_runner, one per milestone alert
  NLegs,        \* legs of the trade
  Qty,          \* quantity of every leg, in lots
  MaxCrashes,   \* bound on the deaths of the two processes together
  None

ASSUME ZerodhaCloseAssumption ==
  /\ NLegs \in Nat \ {0}
  /\ Qty \in Nat \ {0}
  /\ MaxCrashes \in Nat
  /\ None \notin Clicks \cup Autos
  /\ Clicks \cap Autos = {}

Requests == Clicks \cup Autos
Procs    == {"dashboard", "ws_runner"}
Legs     == 1 .. NLegs
Proc(r)  == IF r \in Clicks THEN "dashboard" ELSE "ws_runner"

VARIABLES
  pc,        \* where each request is
  holder,    \* per process, the holder of its lock of the trade
  loc,       \* per process, the holder's locals
  jobs,      \* RUNNING job rows of the trade, oldest first
  stale,     \* a broker row was left PENDING or OPEN by a dead process
  reversed,  \* legs with a COMPLETE ROLLBACK row of the trade
  status,    \* the trade's status
  alerted,   \* legs named by a ZERODHA_ROLLBACK_FAILED notification
  pos,       \* the position at Zerodha
  sold,      \* legs with a COMPLETE closing order at Zerodha today
  overlap,   \* history: an account was read for a close while the other process traded
  crashes

vars == <<pc, holder, loc, jobs, stale, reversed, status, alerted, pos, sold, overlap, crashes>>

\* done: legs 1 .. done are closed; part: lots of leg done + 1 reported by the
\* call that failed; undo: closed legs still to be reopened; failed: legs that
\* could not be reopened; sent: an order of the process is in flight.
Fresh == [done |-> 0, part |-> 0, undo |-> 0, failed |-> {}, sent |-> FALSE]

TypeOK ==
  /\ pc \in [Requests -> {"idle", "submit", "insert", "queued", "gate", "look", "legs",
                          "rollback", "book", "write", "finish", "done"}]
  /\ holder \in [Procs -> Requests \cup {None}]
  /\ loc \in [Procs -> [done : 0 .. NLegs, part : 0 .. Qty, undo : 0 .. NLegs,
                        failed : SUBSET Legs, sent : BOOLEAN]]
  /\ jobs \in Seq(Requests)
  /\ stale \in BOOLEAN /\ overlap \in BOOLEAN
  /\ reversed \subseteq Legs /\ alerted \subseteq Legs /\ sold \subseteq Legs
  /\ status \in {"ACTIVE", "CLOSED"}
  /\ pos \in [Legs -> Int]
  /\ crashes \in 0 .. MaxCrashes

Init ==
  /\ pc = [r \in Requests |-> "idle"]
  /\ holder = [p \in Procs |-> None] /\ loc = [p \in Procs |-> Fresh]
  /\ jobs = <<>> /\ stale = FALSE /\ reversed = {}
  /\ status = "ACTIVE" /\ alerted = {}
  /\ pos = [l \in Legs |-> Qty] /\ sold = {}
  /\ overlap = FALSE /\ crashes = 0

-----------------------------------------------------------------------------
(* What the requests read. *)

\* pending_for_trade
Pending == stale \/ \E p \in Procs : loc[p].sent

\* running_for_trade returns one row, the newest.
NewestJobIs(allowed) == jobs # <<>> => Last(jobs) \in allowed

\* _assert_execution_not_in_flight
NotInFlight(exceptJobs) == ~Pending /\ NewestJobIs(exceptJobs)

\* assert_reducing_positions_exist, for all legs together
InventoryHeld == \A l \in Legs : pos[l] >= Qty

\* is_structure_flat_on_broker
StructureFlat == \A l \in Legs : pos[l] = 0

\* find_external_exit_fills
ExitFillsFound == sold = Legs

\* Some other process is placing orders for this trade.
OtherTrades(p) ==
  \E q \in Procs \ {p} : holder[q] # None /\ pc[holder[q]] \in {"legs", "rollback"}

-----------------------------------------------------------------------------
(* A request, up to its first order. *)

GoTo(r, label) == pc' = [pc EXCEPT ![r] = label]

\* The lock is released in a finally; a job's row is settled after that.
Leave(r) ==
  /\ LET p == Proc(r) IN
       /\ holder' = [holder EXCEPT ![p] = IF @ = r THEN None ELSE @]
       /\ loc' = [loc EXCEPT ![p] = IF holder[p] = r THEN Fresh ELSE @]
  /\ GoTo(r, IF Contains(jobs, r) THEN "finish" ELSE "done")

\* close_trade_in_zerodha_async; flatten_open_trade asks the same before it.
Preflight(r) ==
  /\ pc[r] = "idle" /\ NotInFlight({})
  /\ r \in Autos => status = "ACTIVE"
  /\ GoTo(r, "submit")
  /\ UNCHANGED <<holder, loc, jobs, stale, reversed, status, alerted, pos, sold, overlap, crashes>>

\* submit_execution_job reads the job rows under its process's job lock ...
SubmitCheck(r) ==
  /\ pc[r] = "submit" /\ jobs = <<>>
  /\ \A s \in Requests : pc[s] = "insert" => Proc(s) # Proc(r)
  /\ GoTo(r, "insert")
  /\ UNCHANGED <<holder, loc, jobs, stale, reversed, status, alerted, pos, sold, overlap, crashes>>

\* ... and inserts its own.
SubmitInsert(r) ==
  /\ pc[r] = "insert"
  /\ jobs' = Append(jobs, r)
  /\ GoTo(r, "queued")
  /\ UNCHANGED <<holder, loc, stale, reversed, status, alerted, pos, sold, overlap, crashes>>

\* A synchronous click, or a job's thread.
MayStart(r) == pc[r] = "queued" \/ (r \in Clicks /\ pc[r] = "idle")

TakeLock(r) ==
  /\ MayStart(r) /\ holder[Proc(r)] = None
  /\ holder' = [holder EXCEPT ![Proc(r)] = r]
  /\ GoTo(r, "gate")
  /\ UNCHANGED <<loc, jobs, stale, reversed, status, alerted, pos, sold, overlap, crashes>>

LockBusy(r) ==
  /\ MayStart(r) /\ holder[Proc(r)] # None
  /\ Leave(r)
  /\ UNCHANGED <<jobs, stale, reversed, status, alerted, pos, sold, overlap, crashes>>

\* The database allows it; live prices are read next.
Gate(r) ==
  /\ pc[r] = "gate"
  /\ status = "ACTIVE" /\ NotInFlight({r})
  /\ GoTo(r, "look")
  /\ UNCHANGED <<holder, loc, jobs, stale, reversed, status, alerted, pos, sold, overlap, crashes>>

\* Mutant: a flat structure is booked without its exit fills.
SeeFlatUnmatched(r) ==
  /\ pc[r] = "look" /\ StructureFlat
  /\ overlap' = (overlap \/ OtherTrades(Proc(r)))
  /\ GoTo(r, "book")
  /\ UNCHANGED <<holder, loc, jobs, stale, reversed, status, alerted, pos, sold, crashes>>

\* Already flat: the exits are booked from Kite's own orders.
SeeFlat(r) ==
  /\ pc[r] = "look" /\ StructureFlat /\ ExitFillsFound
  /\ overlap' = (overlap \/ OtherTrades(Proc(r)))
  /\ GoTo(r, "book")
  /\ UNCHANGED <<holder, loc, jobs, stale, reversed, status, alerted, pos, sold, crashes>>

\* Mutant: the inventory is not checked.
SeeAnyInventory(r) ==
  /\ pc[r] = "look" /\ ~StructureFlat
  /\ overlap' = (overlap \/ OtherTrades(Proc(r)))
  /\ GoTo(r, "legs")
  /\ UNCHANGED <<holder, loc, jobs, stale, reversed, status, alerted, pos, sold, crashes>>

\* The whole position is there.
SeeInventory(r) ==
  /\ pc[r] = "look" /\ InventoryHeld
  /\ overlap' = (overlap \/ OtherTrades(Proc(r)))
  /\ GoTo(r, "legs")
  /\ UNCHANGED <<holder, loc, jobs, stale, reversed, status, alerted, pos, sold, crashes>>

\* A guard, missing prices or positions, the job pool, or flat without fills.
Refused(r) ==
  /\ pc[r] \in {"idle", "submit", "gate", "look"}
  /\ Leave(r)
  /\ UNCHANGED <<jobs, stale, reversed, status, alerted, pos, sold, overlap, crashes>>

-----------------------------------------------------------------------------
(* Closing the legs. *)

At(r, label) == pc[r] = label /\ holder[Proc(r)] = r
My(r)        == loc[Proc(r)]
Locals(r, l) == loc' = [loc EXCEPT ![Proc(r)] = l]

SendExit(r) ==
  /\ At(r, "legs") /\ ~My(r).sent
  /\ Locals(r, [My(r) EXCEPT !.sent = TRUE])
  /\ UNCHANGED <<pc, holder, jobs, stale, reversed, status, alerted, pos, sold, overlap, crashes>>

\* Mutant: booked before the last leg is closed.
ExitFilledBooksEarly(r) ==
  /\ At(r, "legs") /\ My(r).sent
  /\ LET l == My(r).done + 1
     IN  /\ pos' = [pos EXCEPT ![l] = @ - Qty]
         /\ sold' = sold \cup {l}
         /\ Locals(r, [My(r) EXCEPT !.sent = FALSE, !.done = l])
         /\ GoTo(r, IF l + 1 >= NLegs THEN "book" ELSE "legs")
  /\ UNCHANGED <<holder, jobs, stale, reversed, status, alerted, overlap, crashes>>

ExitFilled(r) ==
  /\ At(r, "legs") /\ My(r).sent
  /\ LET l == My(r).done + 1
     IN  /\ pos' = [pos EXCEPT ![l] = @ - Qty]
         /\ sold' = sold \cup {l}
         /\ Locals(r, [My(r) EXCEPT !.sent = FALSE, !.done = l])
         /\ GoTo(r, IF l = NLegs THEN "book" ELSE "legs")
  /\ UNCHANGED <<holder, jobs, stale, reversed, status, alerted, overlap, crashes>>

\* The call raises after n lots filled.
ExitFailed(r) ==
  /\ At(r, "legs") /\ My(r).sent
  /\ LET l == My(r).done + 1
     IN  \E n \in 0 .. Qty :
           /\ pos' = [pos EXCEPT ![l] = @ - n]
           /\ sold' = IF n = Qty THEN sold \cup {l} ELSE sold
           /\ Locals(r, [My(r) EXCEPT !.sent = FALSE, !.part = n, !.undo = My(r).done])
  /\ GoTo(r, "rollback")
  /\ UNCHANGED <<holder, jobs, stale, reversed, status, alerted, overlap, crashes>>

\* No price for the next leg.
LegRefused(r) ==
  /\ At(r, "legs") /\ ~My(r).sent
  /\ Locals(r, [My(r) EXCEPT !.undo = My(r).done])
  /\ GoTo(r, "rollback")
  /\ UNCHANGED <<holder, jobs, stale, reversed, status, alerted, pos, sold, overlap, crashes>>

-----------------------------------------------------------------------------
(* _rollback_filled_legs in mode "exit": what was closed is opened again. *)

Reopening(r) == My(r).undo > 0 \/ My(r).part > 0
Target(r)    == IF My(r).undo > 0 THEN My(r).undo ELSE My(r).done + 1
\* Mutant: the failing leg is reopened whole.
AmountWhole(r) == Qty
Amount(r)    == IF My(r).undo > 0 THEN Qty ELSE My(r).part

\* assert_exit_fill_reflected_for_reopen, for the lots to be reopened
Reflected(r) == pos[Target(r)] < Amount(r)

\* Mutant: two legs further.
SteppedTwice(r) ==
  IF My(r).undo > 0 THEN [My(r) EXCEPT !.undo = @ - 2, !.sent = FALSE]
                    ELSE [My(r) EXCEPT !.part = 0, !.sent = FALSE]

\* The holder's locals, one leg further.
Stepped(r) ==
  IF My(r).undo > 0 THEN [My(r) EXCEPT !.undo = @ - 1, !.sent = FALSE]
                    ELSE [My(r) EXCEPT !.part = 0, !.sent = FALSE]

\* rollback_complete_for_leg: any COMPLETE ROLLBACK row of the trade.
SkipReopen(r) ==
  /\ At(r, "rollback") /\ Reopening(r) /\ ~My(r).sent
  /\ Target(r) \in reversed
  /\ Locals(r, Stepped(r))
  /\ UNCHANGED <<pc, holder, jobs, stale, reversed, status, alerted, pos, sold, overlap, crashes>>

\* Not reflected, positions unreadable, or no price.
CannotReopen(r) ==
  /\ At(r, "rollback") /\ Reopening(r) /\ ~My(r).sent
  /\ Target(r) \notin reversed
  /\ Locals(r, [Stepped(r) EXCEPT !.failed = @ \cup {Target(r)}])
  /\ UNCHANGED <<pc, holder, jobs, stale, reversed, status, alerted, pos, sold, overlap, crashes>>

\* _fetch_ltps raises out of the rollback, before any alert.
QuoteRaises(r) ==
  /\ At(r, "rollback") /\ My(r).undo > 0 /\ ~My(r).sent
  /\ Target(r) \notin reversed /\ Reflected(r)
  /\ Leave(r)
  /\ UNCHANGED <<jobs, stale, reversed, status, alerted, pos, sold, overlap, crashes>>

\* The reopening order of the next leg is sent.
SendReopen(r) ==
  /\ At(r, "rollback") /\ Reopening(r) /\ ~My(r).sent
  /\ Target(r) \notin reversed /\ Reflected(r)
  /\ Locals(r, [My(r) EXCEPT !.sent = TRUE])
  /\ UNCHANGED <<pc, holder, jobs, stale, reversed, status, alerted, pos, sold, overlap, crashes>>

Reopened(r) ==
  /\ At(r, "rollback") /\ My(r).sent
  /\ pos' = [pos EXCEPT ![Target(r)] = @ + Amount(r)]
  /\ reversed' = reversed \cup {Target(r)}
  /\ Locals(r, Stepped(r))
  /\ UNCHANGED <<pc, holder, jobs, stale, status, alerted, sold, overlap, crashes>>

ReopenFailed(r) ==
  /\ At(r, "rollback") /\ My(r).sent
  /\ \E n \in 0 .. Amount(r) : pos' = [pos EXCEPT ![Target(r)] = @ + n]
  /\ Locals(r, [Stepped(r) EXCEPT !.failed = @ \cup {Target(r)}])
  /\ UNCHANGED <<pc, holder, jobs, stale, reversed, status, alerted, sold, overlap, crashes>>

\* _alert_rollback_failure, then the error reaches the caller.
RollbackEnds(r) ==
  /\ At(r, "rollback") /\ ~Reopening(r)
  /\ alerted' = alerted \cup My(r).failed
  /\ Leave(r)
  /\ UNCHANGED <<jobs, stale, reversed, status, pos, sold, overlap, crashes>>

-----------------------------------------------------------------------------
(* close_trade_with_fills: its guard, then its write. *)

BookCheck(r) ==
  /\ At(r, "book") /\ status = "ACTIVE"
  /\ GoTo(r, "write")
  /\ UNCHANGED <<holder, loc, jobs, stale, reversed, status, alerted, pos, sold, overlap, crashes>>

\* Closed meanwhile: the error is not followed by a rollback.
BookRefused(r) ==
  /\ At(r, "book") /\ status = "CLOSED"
  /\ Leave(r)
  /\ UNCHANGED <<jobs, stale, reversed, status, alerted, pos, sold, overlap, crashes>>

Book(r) ==
  /\ At(r, "write")
  /\ status' = "CLOSED"
  /\ Leave(r)
  /\ UNCHANGED <<jobs, stale, reversed, alerted, pos, sold, overlap, crashes>>

\* _finish_job
FinishJob(r) ==
  /\ pc[r] = "finish"
  /\ \E i \in DOMAIN jobs : jobs[i] = r /\ jobs' = RemoveAt(jobs, i)
  /\ GoTo(r, "done")
  /\ UNCHANGED <<holder, loc, stale, reversed, status, alerted, pos, sold, overlap, crashes>>

-----------------------------------------------------------------------------
(* The others. *)

\* Nobody acts on what it has read of the account.
NobodyPastGate == \A r \in Requests : pc[r] \notin {"look", "legs", "rollback", "book", "write"}

\* The user flattens every leg in the Kite app.
UserFlattens ==
  /\ NobodyPastGate /\ \E l \in Legs : pos[l] # 0
  /\ sold' = sold \cup {l \in Legs : pos[l] > 0}
  /\ pos' = [l \in Legs |-> 0]
  /\ UNCHANGED <<pc, holder, loc, jobs, stale, reversed, status, alerted, overlap, crashes>>

\* Kite lists the orders of the day only.
NewDay ==
  /\ NobodyPastGate /\ status = "ACTIVE" /\ sold # {}
  /\ sold' = {}
  /\ UNCHANGED <<pc, holder, loc, jobs, stale, reversed, status, alerted, pos, overlap, crashes>>

\* A process dies.  Its order in flight may have filled n lots; its row stays.
Crash(p) ==
  LET h == holder[p]
      l == loc[p]
  IN  /\ crashes < MaxCrashes
      /\ crashes' = crashes + 1
      /\ IF l.sent
           THEN \/ /\ pc[h] = "legs"
                   /\ \E n \in 0 .. Qty :
                        /\ pos' = [pos EXCEPT ![l.done + 1] = @ - n]
                        /\ sold' = IF n = Qty THEN sold \cup {l.done + 1} ELSE sold
                \/ /\ pc[h] = "rollback"
                   /\ \E n \in 0 .. Amount(h) : pos' = [pos EXCEPT ![Target(h)] = @ + n]
                   /\ UNCHANGED sold
           ELSE UNCHANGED <<pos, sold>>
      /\ stale' = (stale \/ l.sent)
      /\ holder' = [holder EXCEPT ![p] = None]
      /\ loc' = [loc EXCEPT ![p] = Fresh]
      /\ pc' = [r \in Requests |-> IF Proc(r) = p /\ pc[r] # "idle" THEN "done" ELSE pc[r]]
      /\ UNCHANGED <<jobs, reversed, status, alerted, overlap>>

-----------------------------------------------------------------------------
Close(r) ==
  \/ SendExit(r) \/ ExitFilled(r) \/ ExitFailed(r) \/ LegRefused(r)
  \/ SkipReopen(r) \/ CannotReopen(r) \/ QuoteRaises(r) \/ SendReopen(r)
  \/ Reopened(r) \/ ReopenFailed(r) \/ RollbackEnds(r)
  \/ BookCheck(r) \/ BookRefused(r) \/ Book(r)

Request(r) ==
  \/ Preflight(r) \/ SubmitCheck(r) \/ SubmitInsert(r) \/ TakeLock(r) \/ LockBusy(r)
  \/ Gate(r) \/ SeeFlat(r) \/ SeeInventory(r) \/ Refused(r) \/ Close(r) \/ FinishJob(r)

Next ==
  \/ \E r \in Requests : Request(r)
  \/ UserFlattens \/ NewDay
  \/ \E p \in Procs : Crash(p)

Spec == Init /\ [][Next]_vars

-----------------------------------------------------------------------------
(* Properties. *)

\* Unless two processes traded at once, no request sells a leg below flat,
\* whatever was half closed, crashed, flattened by hand or retried before:
\* "an EXIT with no opposing broker position opens new exposure".
NeverOverClosed == ~overlap => \A l \in Legs : pos[l] >= 0

\* A rollback only puts back what its own request had closed: no reopening ever
\* adds exposure to the position the trade was opened with.
NeverReopenedTwice == \A l \in Legs : pos[l] <= Qty

\* A trade is recorded as closed only when nothing of it is left open.
ClosedIsFlat == status = "CLOSED" /\ ~overlap => \A l \in Legs : pos[l] = 0

\* Exit prices are never invented: a closed trade has a COMPLETE closing order
\* at Zerodha for each of its legs.
ClosedFromFills == status = "CLOSED" => sold = Legs

-----------------------------------------------------------------------------
(* The inductive invariant behind these. *)

Busy    == {"gate", "look", "legs", "rollback", "book", "write"}
Trading == {"legs", "rollback"}
Booking == {"book", "write"}

\* Per process, where the holder of its lock is.
Stage == [p \in Procs |-> IF holder[p] = None THEN "free" ELSE pc[holder[p]]]

\* A request is past its lock exactly while it holds it.
LockHeld ==
  /\ \A r \in Requests : pc[r] \in Busy <=> holder[Proc(r)] = r
  /\ \A p \in Procs : holder[p] # None => Proc(holder[p]) = p

\* What the holder's locals are worth at each stage.
LocalsMeaning ==
  \A p \in Procs :
    /\ Stage[p] \in {"free", "gate", "look"} => loc[p] = Fresh
    /\ Stage[p] = "legs" => loc[p].done < NLegs /\ loc[p].part = 0
    /\ Stage[p] = "rollback" => /\ loc[p].done < NLegs /\ loc[p].undo <= loc[p].done
                                /\ loc[p].sent => loc[p].undo > 0 \/ loc[p].part > 0
    /\ loc[p].sent => Stage[p] \in Trading

\* What a holder at this stage, with these locals, may still put back of a leg.
Owed(stage, my, l) ==
  IF stage = "legs" /\ l <= my.done THEN Qty
  ELSE IF stage = "rollback" /\ l <= my.undo THEN Qty
  ELSE IF stage = "rollback" /\ l = my.done + 1 THEN my.part
  ELSE 0

OwedOf(p, l) == Owed(Stage[p], loc[p], l)

\* A leg and everything that may be put back of it is at most what was opened.
NothingOwedTwice ==
  \A p, q \in Procs, l \in Legs : p # q => pos[l] + OwedOf(p, l) + OwedOf(q, l) <= Qty

\* The legs a request has closed were closed by orders at Zerodha, and a request
\* that books, like the closed trade, has them all.
FillsKept ==
  /\ \A p \in Procs : /\ Stage[p] = "legs" => 1 .. loc[p].done \subseteq sold
                      /\ Stage[p] \in Booking => sold = Legs
  /\ status = "CLOSED" => sold = Legs

\* One process trades at a time, and knows what is left of every leg.
OneTrader ==
  /\ \A p, q \in Procs : Stage[p] \in Trading /\ Stage[q] \in Trading => p = q
  /\ \A p \in Procs : Stage[p] = "legs" =>
       \A l \in Legs : pos[l] = IF l <= loc[p].done THEN 0 ELSE Qty
  /\ \A l \in Legs : pos[l] >= 0

\* From the moment a request books, the trade is flat and nobody trades it.
FlatOnceBooked ==
  status = "CLOSED" \/ (\E p \in Procs : Stage[p] \in Booking) =>
    /\ \A l \in Legs : pos[l] = 0
    /\ \A p \in Procs : Stage[p] \notin Trading

\* The part that is about the stages rather than about the lock.
StageInv ==
  /\ LocalsMeaning /\ NothingOwedTwice /\ FillsKept
  /\ ~overlap => OneTrader /\ FlatOnceBooked

IInv == TypeOK /\ LockHeld /\ StageInv
=============================================================================

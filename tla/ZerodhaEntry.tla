---------------------------- MODULE ZerodhaEntry ----------------------------
(***************************************************************************)
(* Opening one suggestion at Zerodha (lifecycle/zerodha_executor.py), by   *)
(* every request made for it: the legs are placed one after the other,     *)
(* a failure reverses what filled, whole structures are booked as a trade. *)
(* Requests run in threads of the dashboard, synchronously or as a         *)
(* background job; fills may also be recorded by hand; the process may     *)
(* die at any point and come back with the database only.                  *)
(*                                                                         *)
(* Legs are numbered in execution order.  One call of                      *)
(* _place_and_monitor_leg is two steps, its row in flight and its result;  *)
(* the result is taken to be what filled (LegOrder has the exceptions).    *)
(* A position is counted in lots of its own leg's side.  Database calls    *)
(* succeed.                                                                *)
(***************************************************************************)
EXTENDS Integers

CONSTANTS
  Attempts,     \* requests to place the suggestion's orders
  Manuals,      \* requests to record fills by hand
  NLegs,        \* legs of the structure
  Qty,          \* planned quantity of every leg, in lots
  MaxCrashes,   \* bound on the deaths of the dashboard process
  None

ASSUME ZerodhaEntryAssumption ==
  /\ NLegs \in Nat \ {0}
  /\ Qty \in Nat \ {0}
  /\ MaxCrashes \in Nat
  /\ None \notin Attempts
  /\ Attempts \cap Manuals = {}

VARIABLES
  pc, mpc,      \* where each request is
  holder,       \* holder of the suggestion's lock, in process memory
  filled,       \* legs 1 .. filled are in the holder's completed list
  part,         \* lots reported of leg filled + 1 by the call that failed
  undo,         \* legs of the completed list still to be reversed
  failed,       \* legs the holder could not reverse
  running,      \* jobs whose row is RUNNING
  inflight,     \* some broker row is PENDING or OPEN
  unbooked,     \* per leg, what net_unbooked_entry_fills leaves of its fills
  reversed,     \* legs with a COMPLETE ROLLBACK row
  status,       \* the suggestion's status
  trades,       \* requests that recorded a trade
  pos,          \* the position at Zerodha
  alerted,      \* legs named by a ZERODHA_ROLLBACK_FAILED notification
  unseen,       \* history: legs left with a partial fill nobody reversed or named
  aborted,      \* history: a rollback ended by an exception
  crashes

requests == <<pc, mpc>>
locals   == <<filled, part, undo, failed>>
database == <<running, inflight, unbooked, reversed, status, trades, alerted>>
history  == <<unseen, aborted, crashes>>
vars     == <<requests, holder, locals, database, pos, history>>

Legs == 1 .. NLegs

\* Where the holder of the lock is.
Stage == IF holder = None THEN "free" ELSE pc[holder]

TypeOK ==
  /\ pc \in [Attempts -> {"idle", "submit", "queued", "gate", "legs", "rollback",
                          "book", "write", "attach", "finish", "done"}]
  /\ mpc \in [Manuals -> {"idle", "write", "done"}]
  /\ holder \in Attempts \cup {None}
  /\ filled \in 0 .. NLegs /\ undo \in 0 .. NLegs
  /\ part \in 0 .. Qty
  /\ failed \subseteq Legs /\ reversed \subseteq Legs
  /\ alerted \subseteq Legs /\ unseen \subseteq Legs
  /\ running \subseteq Attempts
  /\ trades \subseteq Attempts \cup Manuals
  /\ unbooked \in [Legs -> 0 .. Qty]
  /\ pos \in [Legs -> Nat]
  /\ status \in {"PENDING", "EXECUTED", "CLOSED"}
  /\ inflight \in BOOLEAN /\ aborted \in BOOLEAN
  /\ crashes \in 0 .. MaxCrashes

Init ==
  /\ pc = [a \in Attempts |-> "idle"] /\ mpc = [m \in Manuals |-> "idle"]
  /\ holder = None
  /\ filled = 0 /\ part = 0 /\ undo = 0 /\ failed = {}
  /\ running = {} /\ inflight = FALSE
  /\ unbooked = [l \in Legs |-> 0] /\ reversed = {}
  /\ status = "PENDING" /\ trades = {}
  /\ pos = [l \in Legs |-> 0]
  /\ alerted = {} /\ unseen = {} /\ aborted = FALSE /\ crashes = 0

-----------------------------------------------------------------------------
(* Guards the requests share. *)

\* Mutant: only an ignored or expired suggestion is refused.
NotLapsed == status # "CLOSED"

\* duplicate_execution_reason
NotExecuted == trades = {} /\ status = "PENDING"

\* _assert_execution_not_in_flight: another job's row, or any broker row in flight.
NotInFlight(exceptJobs) == ~inflight /\ running \subseteq exceptJobs

\* Mutant: a leg that was ever reversed counts as flat.
NoUnreversedOrphans == \A l \in Legs : unbooked[l] = 0 \/ l \in reversed

\* orphan_entry_fills
NoOrphans == \A l \in Legs : unbooked[l] = 0

\* _entry_context, up to the quotes and margins that may also refuse.
EntryAllowed(exceptJobs) == NotExecuted /\ NotInFlight(exceptJobs) /\ NoOrphans

-----------------------------------------------------------------------------
(* A request, up to the lock. *)

GoTo(a, label) == pc' = [pc EXCEPT ![a] = label] /\ UNCHANGED mpc

\* Mutant: a job that ends leaves its row RUNNING.
LeaveJobRunning(a) ==
  /\ holder' = IF holder = a THEN None ELSE holder
  /\ GoTo(a, "done")

\* The lock is released in a finally; a job's row is settled after that.
Leave(a) ==
  /\ holder' = IF holder = a THEN None ELSE holder
  /\ GoTo(a, IF a \in running THEN "finish" ELSE "done")

\* execute_suggestion_in_zerodha_async, before the job is queued.
Preflight(a) ==
  /\ pc[a] = "idle" /\ EntryAllowed({})
  /\ GoTo(a, "submit")
  /\ UNCHANGED <<holder, locals, database, pos, history>>

\* submit_execution_job: check and insert under the target's job lock.
Submit(a) ==
  /\ pc[a] = "submit" /\ running = {}
  /\ running' = {a}
  /\ GoTo(a, "queued")
  /\ UNCHANGED <<holder, locals, inflight, unbooked, reversed, status, trades, alerted, pos, history>>

\* lock.acquire(blocking=False), by a synchronous request or a job's thread.
TakeLock(a) ==
  /\ pc[a] \in {"idle", "queued"} /\ holder = None
  /\ holder' = a
  /\ GoTo(a, "gate")
  /\ UNCHANGED <<locals, database, pos, history>>

LockBusy(a) ==
  /\ pc[a] \in {"idle", "queued"} /\ holder # None
  /\ Leave(a)
  /\ UNCHANGED <<locals, database, pos, history>>

Gate(a) ==
  /\ pc[a] = "gate" /\ EntryAllowed({a})
  /\ filled' = 0 /\ part' = 0 /\ undo' = 0 /\ failed' = {}
  /\ GoTo(a, "legs")
  /\ UNCHANGED <<holder, database, pos, history>>

\* One of the guards, the circuit breaker, prices, margins or the job pool refuses.
Refused(a) ==
  /\ pc[a] \in {"idle", "submit", "gate"}
  /\ Leave(a)
  /\ UNCHANGED <<locals, database, pos, history>>

-----------------------------------------------------------------------------
(* Placing the legs. *)

SendLeg(a) ==
  /\ pc[a] = "legs" /\ ~inflight
  /\ inflight' = TRUE
  /\ UNCHANGED <<requests, holder, locals, running, unbooked, reversed, status, trades, alerted, pos, history>>

\* Mutant: the structure is booked with one leg missing.
LegFilledBooksEarly(a) ==
  /\ pc[a] = "legs" /\ inflight
  /\ LET l == filled + 1
     IN  /\ pos' = [pos EXCEPT ![l] = @ + Qty]
         /\ unbooked' = [unbooked EXCEPT ![l] = Qty]
         /\ filled' = l
         /\ GoTo(a, IF l + 1 >= NLegs THEN "book" ELSE "legs")
  /\ inflight' = FALSE
  /\ UNCHANGED <<holder, part, undo, failed, running, reversed, status, trades, alerted, history>>

LegFilled(a) ==
  /\ pc[a] = "legs" /\ inflight
  /\ LET l == filled + 1
     IN  /\ pos' = [pos EXCEPT ![l] = @ + Qty]
         /\ unbooked' = [unbooked EXCEPT ![l] = Qty]
         /\ filled' = l
         /\ GoTo(a, IF l = NLegs THEN "book" ELSE "legs")
  /\ inflight' = FALSE
  /\ UNCHANGED <<holder, part, undo, failed, running, reversed, status, trades, alerted, history>>

\* Mutant: the partial fill is not passed to the rollback.
LegFailedForgetsFill(a) ==
  /\ pc[a] = "legs" /\ inflight
  /\ \E n \in 0 .. Qty : pos' = [pos EXCEPT ![filled + 1] = @ + n]
  /\ undo' = filled
  /\ inflight' = FALSE
  /\ GoTo(a, "rollback")
  /\ UNCHANGED <<holder, filled, part, failed, running, unbooked, reversed, status, trades, alerted, history>>

\* The call raises after n lots filled; its row is FAILED or PARTIAL.
LegFailed(a) ==
  /\ pc[a] = "legs" /\ inflight
  /\ \E n \in 0 .. Qty :
       /\ pos' = [pos EXCEPT ![filled + 1] = @ + n]
       /\ part' = n
  /\ undo' = filled
  /\ inflight' = FALSE
  /\ GoTo(a, "rollback")
  /\ UNCHANGED <<holder, filled, failed, running, unbooked, reversed, status, trades, alerted, history>>

\* Quotes missing, drift before the first fill, or the hedge is not counted yet.
LegRefused(a) ==
  /\ pc[a] = "legs" /\ ~inflight
  /\ undo' = filled
  /\ GoTo(a, "rollback")
  /\ UNCHANGED <<holder, filled, part, failed, database, pos, history>>

-----------------------------------------------------------------------------
(* _rollback_filled_legs: the completed legs, last first, then the partial one. *)

Reversing == undo > 0 \/ part > 0
TargetFirst == IF undo > 0 THEN filled + 1 - undo ELSE filled + 1   \* mutant: hedge first
Target    == IF undo > 0 THEN undo ELSE filled + 1
Amount    == IF undo > 0 THEN Qty ELSE part

\* The failing leg's partial fill still needs its reversal, or an alert.
PartialOpen == part > 0 \/ filled + 1 \in failed

NextReversal ==
  /\ undo' = IF undo > 0 THEN undo - 1 ELSE 0
  /\ part' = IF undo > 0 THEN part ELSE 0
  /\ UNCHANGED filled

\* rollback_complete_for_leg: a COMPLETE ROLLBACK row of any attempt counts.
SkipReversal(a) ==
  /\ pc[a] = "rollback" /\ Reversing /\ ~inflight
  /\ Target \in reversed
  /\ unseen' = IF undo = 0 THEN unseen \cup {Target} ELSE unseen
  /\ NextReversal
  /\ UNCHANGED <<requests, holder, failed, database, pos, aborted, crashes>>

\* No opposing inventory, no positions, or no price.
CannotReverse(a) ==
  /\ pc[a] = "rollback" /\ Reversing /\ ~inflight
  /\ Target \notin reversed
  /\ failed' = failed \cup {Target}
  /\ NextReversal
  /\ UNCHANGED <<requests, holder, database, pos, history>>

\* _fetch_ltps raises between the inventory check and the order: the exception
\* leaves the rollback, and the request, without an alert.
QuoteRaises(a) ==
  /\ pc[a] = "rollback" /\ undo > 0 /\ ~inflight
  /\ Target \notin reversed /\ pos[Target] >= Amount
  /\ aborted' = TRUE
  /\ unseen' = IF part > 0 THEN unseen \cup {filled + 1} ELSE unseen
  /\ Leave(a)
  /\ UNCHANGED <<locals, database, pos, crashes>>

SendReversal(a) ==
  /\ pc[a] = "rollback" /\ Reversing /\ ~inflight
  /\ Target \notin reversed /\ pos[Target] >= Amount
  /\ inflight' = TRUE
  /\ UNCHANGED <<requests, holder, locals, running, unbooked, reversed, status, trades, alerted, pos, history>>

LegReversed(a) ==
  /\ pc[a] = "rollback" /\ inflight
  /\ pos' = [pos EXCEPT ![Target] = @ - Amount]
  /\ unbooked' = [unbooked EXCEPT ![Target] = IF @ > Amount THEN @ - Amount ELSE 0]
  /\ reversed' = reversed \cup {Target}
  /\ inflight' = FALSE
  /\ NextReversal
  /\ UNCHANGED <<requests, holder, failed, running, status, trades, alerted, history>>

ReversalFailed(a) ==
  /\ pc[a] = "rollback" /\ inflight
  /\ \E n \in 0 .. Amount : pos' = [pos EXCEPT ![Target] = @ - n]
  /\ failed' = failed \cup {Target}
  /\ inflight' = FALSE
  /\ NextReversal
  /\ UNCHANGED <<requests, holder, running, unbooked, reversed, status, trades, alerted, history>>

\* _alert_rollback_failure, then the error reaches the caller.
RollbackEnds(a) ==
  /\ pc[a] = "rollback" /\ ~Reversing
  /\ alerted' = alerted \cup failed
  /\ Leave(a)
  /\ UNCHANGED <<locals, running, inflight, unbooked, reversed, status, trades, pos, history>>

-----------------------------------------------------------------------------
(* Booking the trade. *)

\* mark_executed up to its write: no trade yet, still PENDING.
BookCheck(a) ==
  /\ pc[a] = "book" /\ NotExecuted
  /\ GoTo(a, "write")
  /\ UNCHANGED <<holder, locals, database, pos, history>>

\* A duplicate, the circuit breaker, or next_trade_id given to two writers.
BookRefused(a) ==
  /\ pc[a] = "book" \/ (pc[a] = "write" /\ trades # {})
  /\ undo' = NLegs
  /\ GoTo(a, "rollback")
  /\ UNCHANGED <<holder, filled, part, failed, database, pos, history>>

Book(a) ==
  /\ pc[a] = "write"
  /\ trades' = trades \cup {a}
  /\ status' = "EXECUTED"
  /\ GoTo(a, "attach")
  /\ UNCHANGED <<holder, locals, running, inflight, unbooked, reversed, alerted, pos, history>>

\* attach_trade_id: the fills now belong to a trade.
Attach(a) ==
  /\ pc[a] = "attach"
  /\ unbooked' = [l \in Legs |-> 0]
  /\ Leave(a)
  /\ UNCHANGED <<locals, running, inflight, reversed, status, trades, alerted, pos, history>>

\* _finish_job
FinishJob(a) ==
  /\ pc[a] = "finish"
  /\ running' = running \ {a}
  /\ GoTo(a, "done")
  /\ UNCHANGED <<holder, locals, inflight, unbooked, reversed, status, trades, alerted, pos, history>>

-----------------------------------------------------------------------------
(* The others. *)

\* mark_executed for fills typed by hand: its guards, then its write.
ManualCheck(m) ==
  /\ mpc[m] = "idle" /\ NotExecuted /\ ~inflight /\ NoOrphans
  /\ mpc' = [mpc EXCEPT ![m] = "write"]
  /\ UNCHANGED <<pc, holder, locals, database, pos, history>>

ManualBook(m) ==
  /\ mpc[m] = "write"
  /\ mpc' = [mpc EXCEPT ![m] = "done"]
  /\ trades' = trades \cup {m}
  /\ status' = "EXECUTED"
  /\ UNCHANGED <<pc, holder, locals, running, inflight, unbooked, reversed, alerted, pos, history>>

\* The user ignores the suggestion, or it expires.
Lapse ==
  /\ status = "PENDING"
  /\ status' = "CLOSED"
  /\ UNCHANGED <<requests, holder, locals, running, inflight, unbooked, reversed, trades, alerted, pos, history>>

\* The process dies.  An order in flight may have filled n lots; its row stays.
Crash ==
  /\ crashes < MaxCrashes
  /\ crashes' = crashes + 1
  /\ \/ Stage = "legs" /\ inflight /\ \E n \in 0 .. Qty : pos' = [pos EXCEPT ![filled + 1] = @ + n]
     \/ Stage = "rollback" /\ inflight /\ \E n \in 0 .. Amount : pos' = [pos EXCEPT ![Target] = @ - n]
     \/ (Stage \in {"legs", "rollback"} => ~inflight) /\ UNCHANGED pos
  /\ unseen' = IF Stage = "rollback" /\ PartialOpen THEN unseen \cup {filled + 1} ELSE unseen
  /\ pc' = [a \in Attempts |-> IF pc[a] = "idle" THEN "idle" ELSE "done"]
  /\ mpc' = [m \in Manuals |-> IF mpc[m] = "idle" THEN "idle" ELSE "done"]
  /\ holder' = None
  /\ UNCHANGED <<locals, database, aborted>>

-----------------------------------------------------------------------------
Execute(a) ==
  \/ Submit(a) \/ Gate(a) \/ SendLeg(a) \/ LegFilled(a) \/ LegFailed(a) \/ LegRefused(a)
  \/ SkipReversal(a) \/ CannotReverse(a) \/ QuoteRaises(a) \/ SendReversal(a)
  \/ LegReversed(a) \/ ReversalFailed(a) \/ RollbackEnds(a)
  \/ BookCheck(a) \/ BookRefused(a) \/ Book(a) \/ Attach(a) \/ FinishJob(a)

Attempt(a) == Execute(a) \/ Preflight(a) \/ TakeLock(a) \/ LockBusy(a) \/ Refused(a)

Next ==
  \/ \E a \in Attempts : Attempt(a)
  \/ \E m \in Manuals : ManualCheck(m) \/ ManualBook(m)
  \/ Lapse
  \/ Crash

\* A thread that was started keeps running; nobody owes a request.
Spec ==
  /\ Init /\ [][Next]_vars
  /\ \A a \in Attempts : WF_vars(pc[a] # "idle" /\ Attempt(a))

-----------------------------------------------------------------------------
(* Properties. *)

\* A trade was booked from fills made at Zerodha.
Booked == trades \cap Attempts # {}

\* A request never adds a whole entry to a position already open: a leg exceeds
\* its planned quantity only over the leftover of a partial fill that an alert
\* named, or that the rollback left unseen.
NoDoubleEntry == \A l \in Legs : pos[l] > Qty => l \in alerted \cup unseen

\* Between requests the database knows of every open lot: it is an unbooked
\* COMPLETE fill (which refuses the next entry), part of the booked trade, or on
\* a leg an alert named, unless an order was cut off in flight (whose row
\* refuses the next entry) or the rollback left a partial fill unseen.
LedgerCovers ==
  holder = None /\ ~inflight =>
    \A l \in Legs \ (alerted \cup unseen) :
      pos[l] <= unbooked[l] + (IF Booked THEN Qty ELSE 0)

\* A trade booked as executed at Zerodha is held there, whole, whatever later
\* requests, failures and rollbacks do.
BookedIsHeld == Booked => \A l \in Legs : pos[l] >= Qty

\* Only one request ever books the suggestion from fills at Zerodha.
KiteBookedOnce == \A a, b \in trades \cap Attempts : a = b

\* "Entry: BUY hedges first, then SELL shorts": legs are numbered in the order of
\* leg_execution_order, and a later one (a short) is never larger than an earlier
\* one (its hedge), unless reversing it is still to come, failed, or was left
\* (zerodha_executor.py:1106).
ShortCovered ==
  \A h, s \in Legs :
    h < s => \/ pos[s] <= pos[h]
             \/ s \in failed \cup alerted \cup unseen
             \/ s = filled + 1 /\ part > 0

\* Every request ends, and its job row is settled unless the process died.
RequestsSettle ==
  \A a \in Attempts :
    pc[a] # "idle" ~> pc[a] = "done" /\ (a \in running => crashes > 0)

-----------------------------------------------------------------------------
(* Strengthening used by the proofs of ZerodhaEntry_proofs. *)

Busy == {"gate", "legs", "rollback", "book", "write", "attach"}

\* A request is past the lock exactly when it holds it.
LockHeld == \A a \in Attempts : pc[a] \in Busy <=> holder = a

\* What the holder's locals say at each stage.
LocalsMeaning ==
  /\ Stage = "legs" => filled < NLegs /\ part = 0 /\ undo = 0 /\ failed = {}
  /\ Stage = "rollback" =>
       /\ undo <= filled
       /\ part > 0 => filled < NLegs
       /\ undo > 0 => filled + 1 \notin failed
       /\ inflight => Reversing /\ pos[Target] >= Amount
  /\ Stage \in {"book", "write", "attach"} => filled = NLegs /\ part = 0 /\ ~inflight

\* A structure stays whole from its fills to its booking and after.
StructureKept ==
  /\ Stage \in {"legs", "book", "write", "attach"} => \A l \in 1 .. filled : pos[l] >= Qty
  /\ Booked => Stage \notin {"legs", "rollback", "book", "write"}
  /\ Stage = "attach" => Booked

\* LedgerCovers, at every stage of the holder.
LedgerKept ==
  \A l \in Legs \ (alerted \cup unseen) :
    /\ Stage \in {"legs", "rollback"} =>
         /\ l > filled => unbooked[l] = 0
         /\ pos[l] <= unbooked[l] \/ (Stage = "rollback" /\ l = filled + 1)
    /\ Stage = "rollback" /\ l = filled + 1 => pos[l] <= part \/ l \in failed
    /\ Stage \notin {"legs", "rollback"} /\ ~inflight =>
         pos[l] <= unbooked[l] + (IF Booked THEN Qty ELSE 0)

IInv ==
  /\ TypeOK /\ LockHeld /\ LocalsMeaning /\ StructureKept /\ LedgerKept
  /\ NoDoubleEntry /\ BookedIsHeld /\ KiteBookedOnce

\* The strengthening of ShortCovered.  A leg is reversed only with the legs before
\* it: they have a ROLLBACK row as well, or an unbooked fill, which refuses the
\* next entry.
ReversalsKept ==
  /\ ~Booked => \A s \in reversed : \A h \in 1 .. s - 1 : h \in reversed \/ unbooked[h] > 0
  /\ Stage \in {"legs", "book", "write"} => \A s \in reversed : 1 .. s - 1 \subseteq reversed
  /\ Stage \in {"legs", "book", "write", "rollback"} =>
       \A h \in 1 .. filled : unbooked[h] = Qty \/ (Stage = "rollback" /\ h \in reversed)

\* A rollback has what it has not come to, and a leg that it passed is flat unless
\* it will also pass, for their earlier ROLLBACK rows, all legs before that one.
RollbackOrder ==
  Stage = "rollback" =>
    /\ \A s \in reversed : s <= undo => 1 .. s - 1 \subseteq reversed
    /\ \A h \in 1 .. undo : pos[h] >= Qty
    /\ inflight => Target \notin reversed
    /\ \A s \in 1 .. filled :
         \/ s <= undo \/ s \in failed \cup alerted \cup unseen \/ pos[s] = 0
         \/ \A h \in 1 .. s - 1 : h \in reversed /\ pos[h] >= Qty

ShortInv == IInv /\ ReversalsKept /\ RollbackOrder /\ ShortCovered
=============================================================================

----------------------------- MODULE RiskMonitor ----------------------------
(***************************************************************************)
(* The live risk monitor of the ws_runner (lifecycle/live_risk_monitor.py) *)
(* watching one open trade, and the automatic closes it starts             *)
(* (lifecycle/auto_execution).  Three kinds of threads share the trade's   *)
(* in-memory state: the tick thread, which evaluates under the monitor's   *)
(* lock and sends alerts, starts closes and writes to the database after   *)
(* releasing it; the reload thread, which reads the database before it     *)
(* takes the lock; and one worker per automatic close.  The process may    *)
(* restart, and the user may change the milestone settings.                *)
(*                                                                         *)
(* MTM is a whole number of some unit.  Times are ages in steps of Pass,   *)
(* kept no longer than they matter.  The close itself is ZerodhaClose: here*)
(* a job that runs, and ends with the trade closed or not.  The trade has  *)
(* no fixed milestone of its own (milestone_override_rs).                  *)
(***************************************************************************)
EXTENDS Milestones, Sequences

CONSTANTS
  Mtms,          \* values the trade's mark-to-market takes
  SlRs,          \* effective_sl_rs
  LossRs,        \* loss_rs of the loss milestone plan
  PreBreachRs,   \* loss of the pre-breach warning
  TargetRs,      \* profit_target_trade_rs
  PctRs,         \* profit_pct_auto_close_rs
  Stress,        \* decisions of evaluate_exit on theta and greeks that occur
  Overlays,      \* settings of profit_milestone_alert the user switches between
  Confirm, Cooldown, RetryAfter,   \* the monitor's durations
  Reloaders,     \* threads that may reload: the periodic one and the event's
  MaxDisturbed,  \* bound on changes of the settings and restarts of the ws_runner
  WritesFail     \* whether a write of the monitor may fail

ASSUME RiskMonitorAssumption ==
  /\ Mtms \subseteq Int
  /\ {SlRs, LossRs, PreBreachRs, TargetRs, PctRs} \subseteq Nat \ {0}
  /\ Stress \subseteq {"THESIS_FAIL", "GREEK_STRESS"}
  /\ Overlays # {} /\ Overlays \subseteq Overlay
  /\ {Confirm, Cooldown, RetryAfter, MaxDisturbed} \subseteq Nat
  /\ WritesFail \in BOOLEAN

OneShots  == {"PRE_BREACH", "SHORT_LEG_STRESS"}            \* once per day
AutoKeys  == {"PROFIT_PCT", "PROFIT_MILESTONE", "LOSS_MILESTONE"}
Keys      == AutoKeys \cup {"LOSS_LIMIT", "THESIS_FAIL", "GREEK_STRESS", "TARGET"}
Zones     == Keys \cup OneShots \cup {"CLEAR"}
Confirmed == {"PROFIT_MILESTONE", "LOSS_MILESTONE"}
Unset     == 0 - 1

VARIABLES
  zone,      \* the condition that ended the last evaluation
  live,      \* in session, with a fresh mark on every leg
  overlay,   \* the settings in the database
  cfg,       \* the settings in the monitor's process
  st,        \* the monitor's state of the trade
  out,       \* what the tick thread still has to do for its last evaluation
  loaded,    \* per reload, the row it has read and not merged yet
  row,       \* the trade's row
  job,       \* "none", "running", or "dead": a RUNNING row without a thread
  ago,       \* history: steps since a key's alert, while its condition held on
  disturbed  \* changes of the settings and restarts so far

vars == <<zone, live, overlay, cfg, st, out, loaded, row, job, ago, disturbed>>

\* What a row and the memory have in common: the peak, the sell line, the
\* pointer (profit_ms_lock_count) and the plan.
NoMarks == [peak |-> 0, line |-> 0, count |-> 0, plan |-> NoPlan]
Marks(s) == [peak |-> s.peak, line |-> s.line, count |-> s.count, plan |-> s.plan]

NoRow   == [open |-> FALSE, marks |-> NoMarks]
Nothing == [alert |-> "none", gone |-> FALSE, peak |-> FALSE, plan |-> FALSE, marks |-> NoMarks]

\* on: the trade is in the snapshot; breach, since: in_breach and the age of
\* last_alert_at; held: the age of milestone_confirm_at; tried: the age of
\* last_auto_exec_at; today: the one-shots of the day.
Fresh(r) ==
  [on |-> r.open, peak |-> r.marks.peak, line |-> r.marks.line,
   count |-> r.marks.count, plan |-> r.marks.plan,
   breach |-> {}, since |-> [k \in Keys |-> Cooldown],
   held |-> [k \in Confirmed |-> Unset], tried |-> RetryAfter, today |-> {}]

Init ==
  /\ zone = "CLEAR" /\ live = TRUE
  /\ overlay \in Overlays /\ cfg = overlay
  /\ row = [open |-> TRUE, marks |-> [NoMarks EXCEPT !.plan = BuildPlan(overlay)]]
  /\ st = Fresh(row)
  /\ out = Nothing /\ loaded = [r \in Reloaders |-> <<>>]
  /\ job = "none" /\ ago = [k \in Keys |-> Cooldown]
  /\ disturbed = 0

-----------------------------------------------------------------------------
(* One evaluation (_evaluate_locked). *)

\* evaluate_exit: the target, then the loss limit, then theta and greeks.
Decisions(m) ==
  IF m >= TargetRs THEN {"TAKE_PROFIT"}
  ELSE IF m <= -SlRs THEN {"LOSS_LIMIT"}
  ELSE {"HOLD"} \cup (IF m < 0 THEN Stress ELSE {})

\* Mutant of Marked: the peak follows the MTM.
MarkedFollows(s, m) == [s EXCEPT !.peak = m]

\* The peak, the plan rebuilt for the settings, its pointer and the sell line.
Marked(s, m) ==
  LET peak  == IF m > 0 THEN Larger(m, s.peak) ELSE s.peak
      fresh == ~PlanMatches(s.plan, cfg)
      plan  == BuildPlan(cfg)
      count == IF plan = NoPlan THEN s.count
               ELSE Advance(plan, peak, IF fresh THEN 0 ELSE s.count)
  IN [s EXCEPT !.peak = peak, !.plan = plan, !.count = count,
               !.line = IF plan = NoPlan THEN TrailLine(cfg.give, peak)
                        ELSE PlanLine(plan, count)]

\* The first of the conditions that ends the evaluation.
Zone(s, m, d, stressed) ==
  IF d \in {"LOSS_LIMIT", "THESIS_FAIL", "GREEK_STRESS"} THEN d
  ELSE IF m >= PctRs THEN "PROFIT_PCT"
  ELSE IF s.line > 0 /\ m <= s.line THEN "PROFIT_MILESTONE"
  ELSE IF m <= -LossRs THEN "LOSS_MILESTONE"
  ELSE IF m <= -PreBreachRs /\ "PRE_BREACH" \notin s.today THEN "PRE_BREACH"
  ELSE IF stressed /\ m > -PreBreachRs /\ "SHORT_LEG_STRESS" \notin s.today
       THEN "SHORT_LEG_STRESS"
  ELSE IF d = "TAKE_PROFIT" THEN "TARGET"
  ELSE "CLEAR"

\* The confirmation clocks: a milestone that is tested and not in its zone
\* loses its clock; one that ends the evaluation earlier keeps it.
Clocks(s, z) ==
  [k \in Confirmed |->
     IF z = k THEN Larger(s.held[k], 0)
     ELSE IF z \in Keys \ {"LOSS_MILESTONE", "TARGET"} THEN s.held[k]
     ELSE Unset]

Ready(s, z, m) ==
  \/ z \notin Confirmed
  \/ Confirm = 0
  \/ s.held[z] # Unset /\ s.held[z] >= Confirm
  \/ z = "PROFIT_MILESTONE" /\ m <= 0

Alerts(s, z)  == z \in Keys /\ ~(z \in s.breach /\ s.since[z] < Cooldown)
Retries(s, z) == z \in AutoKeys /\ s.tried >= RetryAfter

\* With no condition true the breaches are over; those on theta and greeks,
\* and a profit milestone without a line, are not looked at.
Cleared(s) ==
  LET over == s.breach \cap ({"LOSS_LIMIT", "LOSS_MILESTONE", "PROFIT_PCT", "TARGET"}
                             \cup (IF s.line > 0 THEN {"PROFIT_MILESTONE"} ELSE {}))
  IN [s EXCEPT !.breach = @ \ over,
               !.since = [k \in Keys |-> IF k \in over THEN Cooldown ELSE @[k]]]

\* The state after the evaluation, and the alert it raises: a key to announce,
\* "silent" for a retry of the automatic close, or "none".
Evaluated(s, m, z) ==
  LET t == [s EXCEPT !.held = Clocks(s, z)]
  IN IF z \in OneShots THEN <<[t EXCEPT !.today = @ \cup {z}], z>>
     ELSE IF z = "CLEAR" THEN <<Cleared(t), "none">>
     ELSE IF ~Ready(s, z, m) THEN <<t, "none">>
     ELSE IF Alerts(s, z)
          THEN <<[t EXCEPT !.breach = @ \cup {z}, !.since[z] = 0], z>>
     ELSE <<t, IF Retries(s, z) THEN "silent" ELSE "none">>

\* The keys whose condition the MTM meets, whichever of them ends the evaluation.
Meets(s, m) ==
  {k \in Keys : \/ k = "LOSS_LIMIT" /\ m <= -SlRs
                \/ k = "PROFIT_PCT" /\ m >= PctRs
                \/ k = "PROFIT_MILESTONE" /\ s.line > 0 /\ m <= s.line
                \/ k = "LOSS_MILESTONE" /\ m <= -LossRs
                \/ k = "TARGET" /\ m >= TargetRs
                \/ k \in {"THESIS_FAIL", "GREEK_STRESS"} /\ m < 0}

-----------------------------------------------------------------------------
(* The tick thread. *)

\* What is left to do; when it is nothing, the thread is back in the
\* websocket's loop.
Rest(o) == IF o.alert = "none" /\ ~o.peak /\ ~o.plan THEN Nothing
           ELSE IF ~o.peak /\ ~o.plan THEN [o EXCEPT !.marks = NoMarks] ELSE o

\* _on_tick and _handle_spot_tick: the evaluation under the lock.
Tick(m) ==
  /\ st.on /\ live /\ out = Nothing
  /\ \E d \in Decisions(m), stressed \in BOOLEAN :
       LET s == Marked(st, m)
           z == Zone(s, m, d, stressed)
           e == Evaluated(s, m, z)
           moved == [s EXCEPT !.plan = st.plan] # st
       IN /\ st' = e[1] /\ zone' = z
          /\ out' = Rest([alert |-> e[2], gone |-> FALSE, peak |-> moved,
                          plan |-> s.plan # st.plan, marks |-> Marks(s)])
          /\ ago' = [k \in Keys |-> IF e[2] = k THEN 0
                                     ELSE IF k \in Meets(s, m) THEN ago[k] ELSE Cooldown]
  /\ UNCHANGED <<live, overlay, cfg, loaded, row, job, disturbed>>

\* _dispatch after the lock: the notification, then _maybe_auto_exec.  The time
\* of the attempt is written to the object the evaluation used, which a reload
\* may have replaced.  Alerts without a registered action start nothing; the
\* worker of the others (flatten_open_trade) has nothing to do when the trade is
\* closed or a close is under way, and may fail to start one.
Dispatch ==
  /\ out.alert # "none"
  /\ out' = Rest([out EXCEPT !.alert = "none"])
  /\ st' = IF live /\ ~out.gone THEN [st EXCEPT !.tried = 0] ELSE st
  /\ job' \in IF live /\ out.alert \in AutoKeys \cup {"silent"} /\ row.open /\ job = "none"
              THEN {"none", "running"} ELSE {job}
  /\ UNCHANGED <<zone, live, overlay, cfg, loaded, row, ago, disturbed>>

\* _persist_peak, then _persist_plan: two transactions, each of which may fail
\* and is then forgotten.
PersistPeak ==
  /\ out.alert = "none" /\ out.peak
  /\ out' = Rest([out EXCEPT !.peak = FALSE])
  /\ \/ row' = [row EXCEPT !.marks = [out.marks EXCEPT !.plan = row.marks.plan]]
     \/ WritesFail /\ UNCHANGED row
  /\ UNCHANGED <<zone, live, overlay, cfg, st, loaded, job, ago, disturbed>>

PersistPlan ==
  /\ out.alert = "none" /\ ~out.peak /\ out.plan
  /\ out' = Rest([out EXCEPT !.plan = FALSE])
  /\ \/ row' = [row EXCEPT !.marks.plan = out.marks.plan]
     \/ WritesFail /\ UNCHANGED row
  /\ UNCHANGED <<zone, live, overlay, cfg, st, loaded, job, ago, disturbed>>

-----------------------------------------------------------------------------
(* Reloads. *)

\* The settings are read and bound, then the row, without the lock.
ReloadReads(r) ==
  /\ loaded[r] = <<>>
  /\ cfg' = overlay
  /\ loaded' = [loaded EXCEPT ![r] = <<row>>]
  /\ UNCHANGED <<zone, live, overlay, st, out, row, job, ago, disturbed>>

\* Mutants of Merged: the reload keeps nothing of the breaches, of the clocks,
\* of the peak, or of the pointer.
MergedBreachLost(old, new)  == [old EXCEPT !.on = TRUE, !.breach = {}]
MergedClocksLost(old, new)  == [old EXCEPT !.on = TRUE, !.held = [k \in Confirmed |-> Unset]]
MergedPeakLost(old, new)    == [old EXCEPT !.on = TRUE, !.peak = new.peak]
MergedPointerLost(old, new) == [old EXCEPT !.on = TRUE, !.count = new.count]

\* Under the lock, what the old state knows better is kept: the clocks, the
\* higher peak, the pointer that is ahead with its line, a plan not yet written.
Merged(old, new) ==
  LET ahead == old.count > new.count
  IN [old EXCEPT
        !.on = TRUE,
        !.peak  = Larger(old.peak, new.peak),
        !.count = IF ahead THEN old.count ELSE new.count,
        !.line  = IF ahead THEN old.line ELSE Larger(old.line, new.line),
        !.plan  = IF new.plan = NoPlan THEN old.plan ELSE new.plan]

ReloadMerges(r) ==
  /\ loaded[r] # <<>>
  /\ loaded' = [loaded EXCEPT ![r] = <<>>]
  /\ LET new == Head(loaded[r])
     IN st' = IF ~new.open THEN [st EXCEPT !.on = FALSE]
              ELSE IF st.on THEN Merged(st, new.marks) ELSE Fresh(new)
  /\ out' = IF out = Nothing THEN out ELSE [out EXCEPT !.gone = TRUE]
  /\ UNCHANGED <<zone, live, overlay, cfg, row, job, ago, disturbed>>

\* close_trade_in_zerodha ends, with the trade closed or with an error.
JobEnds ==
  /\ job = "running"
  /\ job' = "none"
  /\ row' \in {row, [row EXCEPT !.open = FALSE]}
  /\ UNCHANGED <<zone, live, overlay, cfg, st, out, loaded, ago, disturbed>>

-----------------------------------------------------------------------------
(* Time, the feed, the user and the process. *)

Older(age, limit) == Smaller(age + 1, limit)

Pass ==
  /\ st' = [st EXCEPT !.since = [k \in Keys |-> Older(@[k], Cooldown)],
                      !.held  = [k \in Confirmed |-> IF @[k] = Unset THEN Unset
                                                     ELSE Older(@[k], Confirm)],
                      !.tried = Older(@, RetryAfter)]
  /\ ago' = [k \in Keys |-> Older(ago[k], Cooldown)]
  /\ UNCHANGED <<zone, live, overlay, cfg, out, loaded, row, job, disturbed>>

\* A leg's mark goes stale, or the session ends; and they come back.
FeedPauses ==
  /\ live' = ~live
  /\ UNCHANGED <<zone, overlay, cfg, st, out, loaded, row, job, ago, disturbed>>

\* The first tick of another day (_maybe_reset_for_new_day).
NewDay ==
  /\ ~live /\ st.today # {}
  /\ st' = [st EXCEPT !.today = {}]
  /\ UNCHANGED <<zone, live, overlay, cfg, out, loaded, row, job, ago, disturbed>>

\* The user saves other milestone settings (options_config_overlay).
ChangeOverlay ==
  /\ disturbed < MaxDisturbed
  /\ overlay' \in Overlays \ {overlay}
  /\ disturbed' = disturbed + 1
  /\ UNCHANGED <<zone, live, cfg, st, out, loaded, row, job, ago>>

\* The ws_runner dies or is restarted: memory and threads are lost.
Restart ==
  /\ disturbed < MaxDisturbed
  /\ disturbed' = disturbed + 1
  /\ cfg' = overlay /\ st' = Fresh(row) /\ out' = Nothing
  /\ loaded' = [r \in Reloaders |-> <<>>]
  /\ job' = IF job = "running" THEN "dead" ELSE job
  /\ ago' = [k \in Keys |-> Cooldown]
  /\ UNCHANGED <<zone, live, overlay, row>>

-----------------------------------------------------------------------------
Monitor == Dispatch \/ PersistPeak \/ PersistPlan
Reload(r) == ReloadReads(r) \/ ReloadMerges(r)
Evaluate == \E m \in Mtms : Tick(m)

Next ==
  \/ Evaluate \/ Monitor \/ \E r \in Reloaders : Reload(r)
  \/ JobEnds
  \/ Pass \/ FeedPauses \/ NewDay \/ ChangeOverlay \/ Restart

\* Ticks keep coming while the feed is live, the clock runs, and no thread of
\* the process stops.  Whether a close succeeds is nobody's promise.
Fairness ==
  /\ WF_vars(Evaluate) /\ WF_vars(Monitor) /\ WF_vars(Pass)
  /\ WF_vars(JobEnds)
  /\ \A r \in Reloaders : WF_vars(Reload(r))

Spec == Init /\ [][Next]_vars /\ Fairness

-----------------------------------------------------------------------------
(* Properties. *)

MarkType == [peak : Nat, line : Nat, count : Nat, plan : Overlay]
RowType  == [open : BOOLEAN, marks : MarkType]
StType   == [on : BOOLEAN, peak : Nat, line : Nat, count : Nat, plan : Overlay,
             breach : SUBSET Keys, since : [Keys -> 0 .. Cooldown],
             held : [Confirmed -> Unset .. Confirm], tried : 0 .. RetryAfter,
             today : SUBSET OneShots]
OutType  == [alert : Keys \cup OneShots \cup {"none", "silent"},
             gone : BOOLEAN, peak : BOOLEAN, plan : BOOLEAN, marks : MarkType]

\* The variables hold what their comments say (live_risk_monitor.py:189-239).
TypeOK ==
  /\ zone \in Zones /\ live \in BOOLEAN
  /\ overlay \in Overlays /\ cfg \in Overlays
  /\ st \in StType /\ out \in OutType
  /\ loaded \in [Reloaders -> Seq(RowType)] /\ row \in RowType
  /\ job \in {"none", "running", "dead"}
  /\ ago \in [Keys -> 0 .. Cooldown]
  /\ disturbed \in Nat

\* The peak survives a restart: the row has it, or the tick thread is about to
\* write it, whatever reloads and restarts come between (:1260, :800).
PeakDurable == row.open => row.marks.peak = st.peak \/ out.peak

\* While the trade is open, a condition that holds on is not announced again
\* before its cooldown has passed, whatever reloads replace the state in between
\* (:1671, :767).  For a closed trade it may be: a reload that read the row
\* before the close puts back a state without breaches.
AlertOncePerBreach ==
  [][\A k \in Keys : row.open /\ out'.alert = k /\ out.alert # k => ago[k] = Cooldown]_vars

\* The pointer of a plan that stays never moves back, whichever of the tick
\* thread and the reloads wrote last (sl_threshold.py:524, :784), unless a row
\* that was read between the writes of pointer and plan had put it past the
\* plan's last level: it returns to that level.
PointerNeverBack ==
  [][st.on /\ st'.on /\ st'.plan = st.plan /\ disturbed' = disturbed
       => \/ st'.count >= st.count
          \/ st.plan # NoPlan /\ st'.count >= st.plan.locks]_vars

\* An automatic close is attempted again and again while the milestone is past
\* and the trade is open, though alerts are in cooldown and attempts fail (:1946).
KeepsTrying ==
  <>[](live /\ zone \in AutoKeys /\ job # "dead") => []<>(out.alert \in AutoKeys \cup {"silent"} \/ job = "running" \/ ~row.open)

-----------------------------------------------------------------------------
(* The inductive invariant behind the safety properties. *)

\* An open trade is watched, and was open in every row that was read: a trade
\* that is closed stays closed.
Watched ==
  row.open => /\ st.on
              /\ \A r \in Reloaders : loaded[r] # <<>> => Head(loaded[r]).open

\* No row knows a higher peak than the monitor, and the trade's row lacks it
\* only while the tick thread has it to write.
PeakKept ==
  ~WritesFail /\ row.open =>
    /\ row.marks.peak <= st.peak
    /\ \A r \in Reloaders : loaded[r] # <<>> => Head(loaded[r]).marks.peak <= st.peak
    /\ (IF out.peak THEN out.marks.peak ELSE row.marks.peak) = st.peak

\* A condition that was announced and holds on is in the state's breaches, with
\* an age no greater than the announcement's.
BreachKnown ==
  row.open => \A k \in Keys : ago[k] < Cooldown => k \in st.breach /\ st.since[k] <= ago[k]

IInv == TypeOK /\ Watched /\ PeakKept /\ BreachKnown
=============================================================================

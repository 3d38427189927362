------------------------- MODULE RiskMonitor_proofs -------------------------
(***************************************************************************)
(* Proofs about RiskMonitor: types, that the peak is never lost, that an   *)
(* announcement is not repeated, that the pointer does not move back, for  *)
(* any values of the MTM, settings, durations and number of reloads that   *)
(* overlap.                                                                *)
(***************************************************************************)
EXTENDS RiskMonitor, SequenceTheorems, TLAPS

USE DEF Larger, Smaller

-----------------------------------------------------------------------------
(* The arithmetic of the marks. *)

LEMMA NoPlanType == NoPlan \in Overlay
  BY FloorAssumption DEF NoPlan, Overlay

LEMMA BuildPlanType ==
  ASSUME NEW o \in Overlay
  PROVE  BuildPlan(o) \in Overlay
  BY NoPlanType DEF BuildPlan

LEMMA AdvanceType ==
  ASSUME NEW plan \in Overlay, NEW peak \in Nat, NEW pointer \in Nat
  PROVE  Advance(plan, peak, pointer) \in Nat
<1>1. peak \div plan.give \in Nat
  BY FloorAssumption DEF Overlay
<1> QED BY <1>1 DEF Advance, Overlay

\* The pointer only moves back to the plan's last level.
LEMMA AdvanceUp ==
  ASSUME NEW plan \in Overlay, NEW peak \in Nat, NEW pointer \in Nat
  PROVE  Advance(plan, peak, pointer) >= pointer \/ Advance(plan, peak, pointer) >= plan.locks
<1>1. peak \div plan.give \in Nat
  BY FloorAssumption DEF Overlay
<1> QED BY <1>1 DEF Advance, Overlay

LEMMA LineType ==
  ASSUME NEW plan \in Overlay, NEW peak \in Nat, NEW pointer \in Nat, NEW give \in Nat
  PROVE  PlanLine(plan, pointer) \in Nat /\ TrailLine(give, peak) \in Nat
<1>1. (pointer - 1) * plan.give \in Int
  BY DEF Overlay
<1> QED BY <1>1, FloorAssumption DEF PlanLine, SellLine, TrailLine

-----------------------------------------------------------------------------
(* What an evaluation makes of the state. *)

\* The marks keep their types, the peak does not fall, and the pointer of a plan
\* that matches the settings moves up or to the last level.
LEMMA MarkedKeeps ==
  ASSUME NEW s \in StType, NEW m \in Mtms, cfg \in Overlays
  PROVE  LET t == Marked(s, m)
         IN /\ t \in StType /\ Marks(t) \in MarkType /\ t.peak >= s.peak
            /\ t.on = s.on /\ t.breach = s.breach /\ t.since = s.since
            /\ t.plan = s.plan => \/ t.count >= s.count
                                  \/ s.plan # NoPlan /\ t.count >= s.plan.locks
<1> DEFINE peak  == IF m > 0 THEN Larger(m, s.peak) ELSE s.peak
           plan  == BuildPlan(cfg)
           ptr   == IF ~PlanMatches(s.plan, cfg) THEN 0 ELSE s.count
           count == IF plan = NoPlan THEN s.count ELSE Advance(plan, peak, ptr)
           line  == IF plan = NoPlan THEN TrailLine(cfg.give, peak) ELSE PlanLine(plan, count)
           t     == [s EXCEPT !.peak = peak, !.plan = plan, !.count = count, !.line = line]
<1>0. Marked(s, m) = t
  BY DEF Marked
<1>1. peak \in Nat /\ peak >= s.peak
  BY RiskMonitorAssumption DEF StType
<1>2. cfg \in Overlay /\ plan \in Overlay
  BY RiskMonitorAssumption, BuildPlanType
<1>3. ptr \in Nat
  BY DEF StType
<1>4. count \in Nat
  BY <1>1, <1>2, <1>3, AdvanceType DEF StType
<1>5. line \in Nat
  BY <1>1, <1>2, <1>4, LineType DEF Overlay
<1>6. s.plan = plan => count >= s.count \/ (s.plan # NoPlan /\ count >= s.plan.locks)
  <2>1. CASE plan = NoPlan
    BY <2>1 DEF StType
  <2>2. CASE plan # NoPlan /\ s.plan = plan
    <3>1. ptr = s.count
      BY <2>2 DEF PlanMatches
    <3> QED BY <2>2, <3>1, <1>1, <1>2, <1>3, AdvanceUp
  <2> QED BY <2>1, <2>2
<1> HIDE DEF peak, plan, ptr, count, line
<1>7. t \in StType /\ Marks(t) \in MarkType /\ t.peak = peak /\ t.count = count
      /\ t.plan = plan /\ t.on = s.on /\ t.breach = s.breach /\ t.since = s.since
  BY <1>1, <1>2, <1>4, <1>5 DEF StType, Marks, MarkType
<1> HIDE DEF t
<1> QED BY <1>0, <1>1, <1>6, <1>7

LEMMA DecisionsType ==
  ASSUME NEW m \in Mtms, NEW d \in Decisions(m)
  PROVE  d \in {"TAKE_PROFIT", "LOSS_LIMIT", "HOLD", "THESIS_FAIL", "GREEK_STRESS"}
  BY RiskMonitorAssumption DEF Decisions

\* An evaluation ends with a zone, of a key that the MTM meets.
LEMMA ZoneType ==
  ASSUME NEW s \in StType, NEW m \in Mtms, NEW d \in Decisions(m), NEW stressed \in BOOLEAN
  PROVE  Zone(s, m, d, stressed) \in Zones
  BY DecisionsType DEF Zone, Zones, Keys, AutoKeys, OneShots

\* When the zone is clear, what is cleared is not met.
LEMMA ClearMeetsNone ==
  ASSUME NEW s \in StType, NEW m \in Mtms, NEW d \in Decisions(m), NEW stressed \in BOOLEAN,
         Zone(s, m, d, stressed) = "CLEAR", NEW k \in Meets(s, m)
  PROVE  /\ k \notin {"LOSS_LIMIT", "LOSS_MILESTONE", "PROFIT_PCT", "TARGET"}
         /\ k = "PROFIT_MILESTONE" => ~(s.line > 0)
<1>1. m \in Int /\ SlRs \in Nat \ {0} /\ TargetRs \in Nat \ {0} /\ PctRs \in Nat
      /\ LossRs \in Nat /\ PreBreachRs \in Nat
  BY RiskMonitorAssumption
<1>2. /\ d \notin {"LOSS_LIMIT", "THESIS_FAIL", "GREEK_STRESS", "TAKE_PROFIT"}
      /\ ~(m >= PctRs) /\ ~(s.line > 0 /\ m <= s.line) /\ ~(m <= -LossRs)
  BY DEF Zone
<1>3. ~(m >= TargetRs) /\ ~(m <= -SlRs)
  BY <1>1, <1>2 DEF Decisions
<1> QED BY <1>1, <1>2, <1>3 DEF Meets

LEMMA ClocksType ==
  ASSUME NEW s \in StType, NEW z \in Zones
  PROVE  Clocks(s, z) \in [Confirmed -> Unset .. Confirm]
<1> SUFFICES ASSUME NEW k \in Confirmed
             PROVE  (IF z = k THEN Larger(s.held[k], 0)
                     ELSE IF z \in Keys \ {"LOSS_MILESTONE", "TARGET"} THEN s.held[k]
                     ELSE Unset) \in Unset .. Confirm
  BY DEF Clocks
<1>1. s.held[k] \in Unset .. Confirm /\ Confirm \in Nat
  BY RiskMonitorAssumption DEF StType
<1> QED BY <1>1 DEF Unset

\* The conditions that are over when the zone is clear.
Over(s) == s.breach \cap ({"LOSS_LIMIT", "LOSS_MILESTONE", "PROFIT_PCT", "TARGET"}
                          \cup (IF s.line > 0 THEN {"PROFIT_MILESTONE"} ELSE {}))

LEMMA ClearedKeeps ==
  ASSUME NEW s \in StType
  PROVE  LET t == Cleared(s)
         IN /\ t \in StType /\ Marks(t) = Marks(s) /\ t.on = s.on
            /\ \A k \in s.breach : k \notin Over(s) => k \in t.breach /\ t.since[k] = s.since[k]
<1> DEFINE t == [s EXCEPT !.breach = @ \ Over(s),
                          !.since = [k \in Keys |-> IF k \in Over(s) THEN Cooldown ELSE @[k]]]
<1>1. Cleared(s) = t
  BY DEF Cleared, Over
<1>2. Cooldown \in Nat
  BY RiskMonitorAssumption
<1>3. s.breach \ Over(s) \in SUBSET Keys
  BY DEF StType
<1>4. [k \in Keys |-> IF k \in Over(s) THEN Cooldown ELSE s.since[k]] \in [Keys -> 0 .. Cooldown]
  BY <1>2 DEF StType
<1> HIDE DEF Over
<1>5. t \in StType
  BY <1>3, <1>4 DEF StType
<1>6. Marks(t) = Marks(s) /\ t.on = s.on
  BY DEF StType, Marks
<1>7. ASSUME NEW k \in s.breach, k \notin Over(s)
      PROVE  k \in t.breach /\ t.since[k] = s.since[k]
  BY <1>7 DEF StType
<1> QED BY <1>1, <1>5, <1>6, <1>7

\* An evaluation leaves the marks; it announces the zone only when the breach is
\* not known or has cooled down, and forgets no breach but those that are over.
LEMMA EvaluatedKeeps ==
  ASSUME NEW s \in StType, NEW m \in Mtms, NEW z \in Zones
  PROVE  LET e == Evaluated(s, m, z)
             t == e[1]
         IN /\ t \in StType /\ Marks(t) = Marks(s) /\ t.on = s.on
            /\ e[2] \in Keys \cup OneShots \cup {"none", "silent"}
            /\ e[2] \in Keys => /\ ~(e[2] \in s.breach /\ s.since[e[2]] < Cooldown)
                                /\ e[2] \in t.breach /\ t.since[e[2]] = 0
            /\ \A k \in s.breach : (z = "CLEAR" => k \notin Over(s))
                 => k \in t.breach /\ t.since[k] <= s.since[k]
<1> DEFINE h == [s EXCEPT !.held = Clocks(s, z)]
<1>1. /\ h \in StType /\ Marks(h) = Marks(s) /\ h.on = s.on /\ h.breach = s.breach
      /\ h.since = s.since /\ h.line = s.line /\ h.tried = s.tried /\ h.today = s.today
  BY ClocksType DEF StType, Marks
<1>2. Over(h) = Over(s)
  BY <1>1 DEF Over
<1>a. \A k \in s.breach : s.since[k] <= s.since[k]
  BY RiskMonitorAssumption DEF StType
<1> HIDE DEF h
<1>3. CASE z \in OneShots
  <2> DEFINE t == [h EXCEPT !.today = @ \cup {z}]
  <2>1. Evaluated(s, m, z) = <<t, z>>
    BY <1>3 DEF Evaluated, h
  <2>2. t \in StType /\ Marks(t) = Marks(h) /\ t.on = h.on /\ t.breach = h.breach
        /\ t.since = h.since
    BY <1>1, <1>3 DEF StType, Marks
  <2>3. z \notin Keys
    BY <1>3 DEF OneShots, Keys, AutoKeys
  <2> HIDE DEF t
  <2> QED BY <1>1, <1>a, <1>3, <2>1, <2>2, <2>3
<1>4. CASE z = "CLEAR"
  <2>1. Evaluated(s, m, z) = <<Cleared(h), "none">>
    BY <1>4 DEF Evaluated, h, OneShots
  <2>2. "none" \notin Keys
    BY DEF Keys, AutoKeys
  <2> QED BY <1>1, <1>2, <1>a, <1>4, <2>1, <2>2, ClearedKeeps
<1>5. CASE z \notin OneShots /\ z # "CLEAR" /\ Ready(s, z, m) /\ Alerts(s, z)
  <2> DEFINE t == [h EXCEPT !.breach = @ \cup {z}, !.since[z] = 0]
  <2>1. Evaluated(s, m, z) = <<t, z>>
    BY <1>5 DEF Evaluated, h
  <2>2. z \in Keys /\ ~(z \in s.breach /\ s.since[z] < Cooldown)
    BY <1>5 DEF Alerts
  <2> DEFINE breach == h.breach \cup {z}
             since  == [h.since EXCEPT ![z] = 0]
  <2>3. breach \in SUBSET Keys /\ s.breach \subseteq breach /\ z \in breach
    BY <1>1, <2>2 DEF StType
  <2>4. since \in [Keys -> 0 .. Cooldown] /\ since[z] = 0
        /\ \A k \in s.breach : since[k] <= s.since[k]
    BY <1>1, <2>2, RiskMonitorAssumption DEF StType
  <2>5. t = [h EXCEPT !.breach = breach, !.since = since]
    BY <1>1 DEF StType
  <2> HIDE DEF t, breach, since
  <2>6. t \in StType /\ Marks(t) = Marks(h) /\ t.on = h.on /\ t.breach = breach
        /\ t.since = since
    BY <1>1, <2>3, <2>4, <2>5 DEF StType, Marks
  <2> QED BY <1>1, <2>1, <2>2, <2>3, <2>4, <2>6
<1>6. CASE z \notin OneShots /\ z # "CLEAR" /\ ~(Ready(s, z, m) /\ Alerts(s, z))
  <2>1. Evaluated(s, m, z) \in {<<h, "none">>, <<h, "silent">>}
    BY <1>6 DEF Evaluated, h
  <2>2. "none" \notin Keys /\ "silent" \notin Keys
    BY DEF Keys, AutoKeys
  <2> QED BY <1>1, <1>a, <2>1, <2>2
<1> QED BY <1>3, <1>4, <1>5, <1>6

-----------------------------------------------------------------------------
(* What the tick thread has left to do. *)

LEMMA NothingType == NoMarks \in MarkType /\ Nothing \in OutType /\ ~Nothing.peak
  BY NoPlanType DEF NoMarks, MarkType, Nothing, OutType

LEMMA RestKeeps ==
  ASSUME NEW o \in OutType
  PROVE  LET q == Rest(o)
         IN /\ q \in OutType /\ q.alert = o.alert /\ q.peak = o.peak
            /\ q.peak => q.marks = o.marks
<1>1. CASE o.alert = "none" /\ ~o.peak /\ ~o.plan
  <2>1. Rest(o) = Nothing
    BY <1>1 DEF Rest
  <2>2. o.peak = FALSE /\ Nothing.peak = FALSE /\ Nothing.alert = "none"
    BY <1>1 DEF Nothing, OutType
  <2> QED BY <1>1, <2>1, <2>2, NothingType
<1>2. CASE o.alert # "none" /\ ~o.peak /\ ~o.plan
  <2>1. Rest(o) = [o EXCEPT !.marks = NoMarks]
    BY <1>2 DEF Rest
  <2> QED BY <1>2, <2>1, NothingType DEF OutType
<1>3. CASE o.peak \/ o.plan
  <2>1. Rest(o) = o
    BY <1>3 DEF Rest
  <2> QED BY <2>1
<1> QED BY <1>1, <1>2, <1>3 DEF OutType

\* The state a row gives.
LEMMA FreshType ==
  ASSUME NEW r \in RowType
  PROVE  /\ Fresh(r) \in StType /\ Fresh(r).on = r.open /\ Fresh(r).peak = r.marks.peak
         /\ Fresh(r).plan = r.marks.plan /\ Fresh(r).count = r.marks.count
  BY RiskMonitorAssumption DEF Fresh, RowType, MarkType, StType, Unset

LEMMA LoadedType ==
  ASSUME TypeOK, NEW r \in Reloaders, loaded[r] # <<>>
  PROVE  Head(loaded[r]) \in RowType
<1>1. loaded[r] \in Seq(RowType)
  BY DEF TypeOK
<1> QED BY <1>1, HeadTailProperties

-----------------------------------------------------------------------------
(* One lemma per action: it preserves the inductive invariant. *)

LEMMA InitIInv ==
  ASSUME Init
  PROVE  IInv
<1>0. /\ zone = "CLEAR" /\ live = TRUE /\ overlay \in Overlays /\ cfg = overlay
      /\ row = [open |-> TRUE, marks |-> [NoMarks EXCEPT !.plan = BuildPlan(overlay)]]
      /\ st = Fresh(row) /\ out = Nothing /\ loaded = [r \in Reloaders |-> <<>>]
      /\ job = "none" /\ ago = [k \in Keys |-> Cooldown] /\ disturbed = 0
  BY DEF Init
<1>1. [NoMarks EXCEPT !.plan = BuildPlan(overlay)] \in MarkType
  BY <1>0, RiskMonitorAssumption, BuildPlanType, NothingType DEF MarkType
<1>2. row \in RowType /\ row.open
  BY <1>0, <1>1 DEF RowType
<1>3. st \in StType /\ st.on /\ st.peak = row.marks.peak
  BY <1>0, <1>2, FreshType
<1>4. TypeOK
  BY <1>0, <1>2, <1>3, NothingType, RiskMonitorAssumption DEF TypeOK, Zones
<1>5. Watched /\ PeakKept
  BY <1>0, <1>2, <1>3, <1>4, NothingType DEF Watched, PeakKept, TypeOK, RowType, MarkType
<1>6. BreachKnown
  BY <1>0, RiskMonitorAssumption DEF BreachKnown
<1> QED BY <1>4, <1>5, <1>6 DEF IInv

LEMMA TickKeeps ==
  ASSUME IInv, NEW m \in Mtms, Tick(m)
  PROVE  IInv'
<1> USE DEF IInv
<1>0. PICK d \in Decisions(m), stressed \in BOOLEAN :
        LET s == Marked(st, m)
            z == Zone(s, m, d, stressed)
            e == Evaluated(s, m, z)
            moved == [s EXCEPT !.plan = st.plan] # st
        IN /\ st' = e[1] /\ zone' = z
           /\ out' = Rest([alert |-> e[2], gone |-> FALSE, peak |-> moved,
                           plan |-> s.plan # st.plan, marks |-> Marks(s)])
           /\ ago' = [k \in Keys |-> IF e[2] = k THEN 0
                                      ELSE IF k \in Meets(s, m) THEN ago[k] ELSE Cooldown]
  BY DEF Tick
<1> DEFINE s == Marked(st, m)
           z == Zone(s, m, d, stressed)
           e == Evaluated(s, m, z)
           moved == [s EXCEPT !.plan = st.plan] # st
           o == [alert |-> e[2], gone |-> FALSE, peak |-> moved,
                 plan |-> s.plan # st.plan, marks |-> Marks(s)]
<1>1. /\ out = Nothing
      /\ UNCHANGED <<live, overlay, cfg, loaded, row, job, disturbed>>
  BY DEF Tick
<1>2. st \in StType /\ cfg \in Overlays
  BY DEF TypeOK
<1>3. /\ s \in StType /\ Marks(s) \in MarkType /\ s.peak >= st.peak
      /\ s.on = st.on /\ s.breach = st.breach /\ s.since = st.since
  BY <1>2, MarkedKeeps
<1>4. z \in Zones
  BY <1>3, ZoneType
<1>5. /\ e[1] \in StType /\ Marks(e[1]) = Marks(s) /\ e[1].on = s.on
      /\ e[2] \in Keys \cup OneShots \cup {"none", "silent"}
      /\ e[2] \in Keys => e[2] \in e[1].breach /\ e[1].since[e[2]] = 0
      /\ \A k \in s.breach : (z = "CLEAR" => k \notin Over(s))
           => k \in e[1].breach /\ e[1].since[k] <= s.since[k]
  BY <1>3, <1>4, EvaluatedKeeps
<1>6. o \in OutType
  BY <1>3, <1>5 DEF OutType
<1>7. z = "CLEAR" => \A k \in Meets(s, m) : k \notin Over(s)
  BY <1>3, ClearMeetsNone DEF Over
<1>8. ~moved => s.peak = st.peak
  BY <1>2, <1>3 DEF StType
<1>9. st' = e[1] /\ zone' = z /\ out' = Rest(o)
      /\ ago' = [k \in Keys |-> IF e[2] = k THEN 0
                                 ELSE IF k \in Meets(s, m) THEN ago[k] ELSE Cooldown]
  BY <1>0
<1> HIDE DEF s, z, e, moved
<1>10. out' \in OutType /\ (out'.peak <=> moved) /\ (moved => out'.marks = Marks(s))
  <2>1. out' \in OutType /\ out'.peak = o.peak /\ (out'.peak => out'.marks = o.marks)
    BY <1>6, <1>9, RestKeeps
  <2>2. o.peak = moved /\ o.marks = Marks(s)
    OBVIOUS
  <2> HIDE DEF o
  <2> QED BY <2>1, <2>2
<1> HIDE DEF o
<1>11. st'.on = st.on /\ st'.peak = s.peak
  BY <1>3, <1>5, <1>9 DEF Marks
<1>12. TypeOK'
  <2>1. ago' \in [Keys -> 0 .. Cooldown]
    BY <1>9, RiskMonitorAssumption DEF TypeOK
  <2> QED BY <1>1, <1>4, <1>5, <1>9, <1>10, <2>1 DEF TypeOK
<1>13. Watched'
  BY <1>1, <1>11 DEF Watched
<1>14. PeakKept'
  <2> SUFFICES ASSUME ~WritesFail, row.open
               PROVE  /\ row.marks.peak <= st'.peak
                      /\ \A r \in Reloaders : loaded[r] # <<>>
                           => Head(loaded[r]).marks.peak <= st'.peak
                      /\ (IF out'.peak THEN out'.marks.peak ELSE row.marks.peak) = st'.peak
    BY <1>1 DEF PeakKept
  <2>1. row.marks.peak = st.peak
    BY <1>1, NothingType DEF PeakKept
  <2>2. \A r \in Reloaders : loaded[r] # <<>> => Head(loaded[r]).marks.peak \in Nat
    BY LoadedType DEF RowType, MarkType
  <2>3. st.peak \in Nat /\ s.peak \in Nat
    BY <1>2, <1>3 DEF StType
  <2>4. \A r \in Reloaders : loaded[r] # <<>> => Head(loaded[r]).marks.peak <= st.peak
    BY DEF PeakKept
  <2>5. Marks(s).peak = s.peak
    BY DEF Marks
  <2> QED BY <1>3, <1>8, <1>10, <1>11, <2>1, <2>2, <2>3, <2>4, <2>5
<1>15. BreachKnown'
  <2> SUFFICES ASSUME row.open, NEW k \in Keys, ago'[k] < Cooldown
               PROVE  k \in st'.breach /\ st'.since[k] <= ago'[k]
    BY <1>1 DEF BreachKnown
  <2>1. CASE e[2] = k
    <3>1. ago'[k] = 0
      BY <1>9, <2>1
    <3>2. k \in e[1].breach /\ e[1].since[k] = 0
      BY <1>5, <2>1
    <3> QED BY <1>9, <3>1, <3>2
  <2>2. CASE e[2] # k
    <3>1. k \in Meets(s, m) /\ ago'[k] = ago[k]
      BY <1>9, <2>2, RiskMonitorAssumption
    <3>2. k \in st.breach /\ st.since[k] <= ago[k]
      BY <3>1 DEF BreachKnown
    <3>3. k \in e[1].breach /\ e[1].since[k] <= s.since[k]
      BY <1>3, <1>5, <1>7, <3>1, <3>2
    <3>4. st.since[k] \in Nat /\ e[1].since[k] \in Nat /\ ago[k] \in Nat
      BY <1>2, <1>5, RiskMonitorAssumption DEF StType, TypeOK
    <3> QED BY <1>3, <1>9, <3>1, <3>2, <3>3, <3>4
  <2> QED BY <2>1, <2>2
<1> QED BY <1>12, <1>13, <1>14, <1>15

LEMMA DispatchKeeps ==
  ASSUME IInv, Dispatch
  PROVE  IInv'
<1> USE DEF IInv
<1> DEFINE o == [out EXCEPT !.alert = "none"]
<1>0. /\ out' = Rest(o) /\ st' \in {st, [st EXCEPT !.tried = 0]}
      /\ job' \in {job, "none", "running"}
      /\ UNCHANGED <<zone, live, overlay, cfg, loaded, row, ago, disturbed>>
  BY DEF Dispatch
<1>1. /\ out \in OutType /\ st \in StType /\ o \in OutType
      /\ o.peak = out.peak /\ o.marks = out.marks
  BY DEF TypeOK, OutType
<1> HIDE DEF o
<1>2. out' \in OutType /\ out'.peak = out.peak /\ (out'.peak => out'.marks = out.marks)
  BY <1>0, <1>1, RestKeeps
<1>3. /\ st' \in StType /\ st'.on = st.on /\ st'.peak = st.peak /\ st'.breach = st.breach
      /\ st'.since = st.since
  BY <1>0, <1>1, RiskMonitorAssumption DEF StType
<1>4. TypeOK'
  BY <1>0, <1>2, <1>3 DEF TypeOK
<1>5. Watched' /\ BreachKnown'
  BY <1>0, <1>3 DEF Watched, BreachKnown
<1>6. PeakKept'
  BY <1>0, <1>2, <1>3 DEF PeakKept
<1> QED BY <1>4, <1>5, <1>6

LEMMA PersistPeakKeeps ==
  ASSUME IInv, PersistPeak
  PROVE  IInv'
<1> USE DEF IInv
<1> DEFINE o == [out EXCEPT !.peak = FALSE]
           w == [row EXCEPT !.marks = [out.marks EXCEPT !.plan = row.marks.plan]]
<1>0. /\ out.peak /\ out' = Rest(o) /\ (row' = w \/ (WritesFail /\ row' = row))
      /\ UNCHANGED <<zone, live, overlay, cfg, st, loaded, job, ago, disturbed>>
  BY DEF PersistPeak
<1>1. /\ o \in OutType /\ ~o.peak
      /\ w \in RowType /\ w.open = row.open /\ w.marks.peak = out.marks.peak
  BY DEF TypeOK, OutType, RowType, MarkType
<1> HIDE DEF o, w
<1>2. out' \in OutType /\ ~out'.peak
  BY <1>0, <1>1, RestKeeps
<1>3. TypeOK'
  BY <1>0, <1>1, <1>2 DEF TypeOK
<1>4. Watched' /\ BreachKnown'
  BY <1>0, <1>1 DEF Watched, BreachKnown
<1>5. PeakKept'
  <2> SUFFICES ASSUME ~WritesFail, row'.open
               PROVE  /\ row'.marks.peak = st.peak /\ st.peak <= st.peak
                      /\ \A r \in Reloaders : loaded[r] # <<>>
                           => Head(loaded[r]).marks.peak <= st.peak
    BY <1>0, <1>2 DEF PeakKept
  <2>1. row' = w /\ row.open
    BY <1>0, <1>1
  <2>2. st.peak \in Nat
    BY DEF TypeOK, StType
  <2> QED BY <1>0, <1>1, <2>1, <2>2 DEF PeakKept
<1> QED BY <1>3, <1>4, <1>5

LEMMA PersistPlanKeeps ==
  ASSUME IInv, PersistPlan
  PROVE  IInv'
<1> USE DEF IInv
<1> DEFINE o == [out EXCEPT !.plan = FALSE]
           w == [row EXCEPT !.marks.plan = out.marks.plan]
<1>0. /\ ~out.peak /\ out' = Rest(o) /\ (row' = w \/ row' = row)
      /\ UNCHANGED <<zone, live, overlay, cfg, st, loaded, job, ago, disturbed>>
  BY DEF PersistPlan
<1>1. /\ o \in OutType /\ o.peak = out.peak
      /\ w \in RowType /\ w.open = row.open /\ w.marks.peak = row.marks.peak
  BY DEF TypeOK, OutType, RowType, MarkType
<1> HIDE DEF o, w
<1>2. out' \in OutType /\ ~out'.peak
  BY <1>0, <1>1, RestKeeps
<1>3. row' \in RowType /\ row'.open = row.open /\ row'.marks.peak = row.marks.peak
  BY <1>0, <1>1 DEF TypeOK
<1>4. TypeOK'
  BY <1>0, <1>2, <1>3 DEF TypeOK
<1>5. Watched' /\ BreachKnown'
  BY <1>0, <1>3 DEF Watched, BreachKnown
<1>6. PeakKept'
  BY <1>0, <1>2, <1>3 DEF PeakKept
<1> QED BY <1>4, <1>5, <1>6

LEMMA ReloadReadsKeeps ==
  ASSUME IInv, NEW r \in Reloaders, ReloadReads(r)
  PROVE  IInv'
<1> USE DEF IInv
<1>0. /\ cfg' = overlay /\ loaded' = [loaded EXCEPT ![r] = <<row>>]
      /\ UNCHANGED <<zone, live, overlay, st, out, row, job, ago, disturbed>>
  BY DEF ReloadReads
<1>1. <<row>> \in Seq(RowType) /\ Head(<<row>>) = row
  BY DEF TypeOK
<1>2. \A q \in Reloaders : loaded'[q] = IF q = r THEN <<row>> ELSE loaded[q]
  BY <1>0 DEF TypeOK
<1>3. TypeOK'
  BY <1>0, <1>1 DEF TypeOK
<1>4. Watched' /\ PeakKept' /\ BreachKnown'
  BY <1>0, <1>1, <1>2 DEF Watched, PeakKept, BreachKnown
<1> QED BY <1>3, <1>4

\* The state after a merge has the types, the breaches and, of an open trade,
\* the peak of the state before.
LEMMA MergedKeeps ==
  ASSUME NEW s \in StType, NEW n \in MarkType
  PROVE  LET t == Merged(s, n)
         IN /\ t \in StType /\ t.on /\ t.breach = s.breach /\ t.since = s.since
            /\ n.peak <= s.peak => t.peak = s.peak
            /\ t.count >= s.count
<1> DEFINE peak  == Larger(s.peak, n.peak)
           count == IF s.count > n.count THEN s.count ELSE n.count
           line  == IF s.count > n.count THEN s.line ELSE Larger(s.line, n.line)
           plan  == IF n.plan = NoPlan THEN s.plan ELSE n.plan
<1>1. Merged(s, n) = [s EXCEPT !.on = TRUE, !.peak = peak, !.count = count, !.line = line,
                               !.plan = plan]
  BY DEF Merged
<1>2. /\ peak \in Nat /\ count \in Nat /\ line \in Nat /\ plan \in Overlay
      /\ count >= s.count /\ (n.peak <= s.peak => peak = s.peak)
  BY DEF StType, MarkType
<1> HIDE DEF peak, count, line, plan
<1> QED BY <1>1, <1>2 DEF StType

LEMMA ReloadMergesKeeps ==
  ASSUME IInv, NEW r \in Reloaders, ReloadMerges(r)
  PROVE  IInv'
<1> USE DEF IInv
<1> DEFINE new == Head(loaded[r])
<1>0. /\ loaded[r] # <<>> /\ loaded' = [loaded EXCEPT ![r] = <<>>]
      /\ st' = IF ~new.open THEN [st EXCEPT !.on = FALSE]
               ELSE IF st.on THEN Merged(st, new.marks) ELSE Fresh(new)
      /\ out' \in {out, [out EXCEPT !.gone = TRUE]}
      /\ UNCHANGED <<zone, live, overlay, cfg, row, job, ago, disturbed>>
  BY DEF ReloadMerges
<1>1. new \in RowType /\ new.marks \in MarkType /\ st \in StType
  BY <1>0, LoadedType DEF TypeOK, RowType
<1> HIDE DEF new
<1>2. out' \in OutType /\ out'.peak = out.peak /\ out'.marks = out.marks
  BY <1>0 DEF TypeOK, OutType
<1>3. \A q \in Reloaders : loaded'[q] # <<>> => loaded[q] # <<>> /\ loaded'[q] = loaded[q]
  BY <1>0 DEF TypeOK
<1>4. st' \in StType
  BY <1>0, <1>1, MergedKeeps, FreshType DEF StType
<1>5. TypeOK'
  BY <1>0, <1>2, <1>4 DEF TypeOK
<1>6. row.open => st' = Merged(st, new.marks)
  BY <1>0 DEF Watched, new
<1>7. row.open => st'.on /\ st'.breach = st.breach /\ st'.since = st.since
  BY <1>1, <1>6, MergedKeeps
<1>8. ~WritesFail /\ row.open => st'.peak = st.peak
  BY <1>0, <1>1, <1>6, MergedKeeps DEF PeakKept, new
<1>9. Watched' /\ BreachKnown'
  BY <1>0, <1>3, <1>7 DEF Watched, BreachKnown
<1>10. PeakKept'
  BY <1>0, <1>2, <1>3, <1>8 DEF PeakKept
<1> QED BY <1>5, <1>9, <1>10

LEMMA JobEndsKeeps ==
  ASSUME IInv, JobEnds
  PROVE  IInv'
<1> USE DEF IInv
<1>0. /\ job' = "none" /\ row' \in {row, [row EXCEPT !.open = FALSE]}
      /\ UNCHANGED <<zone, live, overlay, cfg, st, out, loaded, ago, disturbed>>
  BY DEF JobEnds
<1>1. row' \in RowType /\ row'.marks = row.marks /\ (row'.open => row.open)
  BY <1>0 DEF TypeOK, RowType
<1>2. TypeOK'
  BY <1>0, <1>1 DEF TypeOK
<1>3. Watched' /\ PeakKept' /\ BreachKnown'
  BY <1>0, <1>1 DEF Watched, PeakKept, BreachKnown
<1> QED BY <1>2, <1>3

LEMMA PassKeeps ==
  ASSUME IInv, Pass
  PROVE  IInv'
<1> USE DEF IInv
<1> DEFINE since == [k \in Keys |-> Older(st.since[k], Cooldown)]
           held  == [k \in Confirmed |-> IF st.held[k] = Unset THEN Unset
                                         ELSE Older(st.held[k], Confirm)]
           tried == Older(st.tried, RetryAfter)
<1>0. /\ st' = [st EXCEPT !.since = since, !.held = held, !.tried = tried]
      /\ ago' = [k \in Keys |-> Older(ago[k], Cooldown)]
      /\ UNCHANGED <<zone, live, overlay, cfg, out, loaded, row, job, disturbed>>
  BY DEF Pass
<1>1. st \in StType /\ {Cooldown, Confirm, RetryAfter} \subseteq Nat
  BY RiskMonitorAssumption DEF TypeOK
<1>2. since \in [Keys -> 0 .. Cooldown] /\ tried \in 0 .. RetryAfter
  BY <1>1 DEF Older, StType
<1>3. held \in [Confirmed -> Unset .. Confirm]
  <2> SUFFICES ASSUME NEW k \in Confirmed
               PROVE  (IF st.held[k] = Unset THEN Unset ELSE Older(st.held[k], Confirm))
                        \in Unset .. Confirm
    OBVIOUS
  <2>1. st.held[k] \in Unset .. Confirm
    BY <1>1 DEF StType
  <2> QED BY <1>1, <2>1 DEF Older, Unset
<1>4. ago' \in [Keys -> 0 .. Cooldown]
  BY <1>0, <1>1 DEF Older, TypeOK
<1> HIDE DEF held, tried, since
<1>5. /\ st' \in StType /\ st'.on = st.on /\ st'.peak = st.peak /\ st'.breach = st.breach
      /\ st'.since = since
  BY <1>0, <1>1, <1>2, <1>3 DEF StType
<1>6. TypeOK'
  BY <1>0, <1>4, <1>5 DEF TypeOK
<1>7. Watched' /\ PeakKept'
  BY <1>0, <1>5 DEF Watched, PeakKept
<1>8. BreachKnown'
  <2> SUFFICES ASSUME row.open, NEW k \in Keys, ago'[k] < Cooldown
               PROVE  k \in st'.breach /\ st'.since[k] <= ago'[k]
    BY <1>0 DEF BreachKnown
  <2>1. ago[k] \in Nat /\ st.since[k] \in Nat
    BY <1>1 DEF TypeOK, StType
  <2>2. ago'[k] = Older(ago[k], Cooldown) /\ since[k] = Older(st.since[k], Cooldown)
    BY <1>0 DEF since
  <2>3. ago[k] < Cooldown
    BY <1>1, <2>1, <2>2 DEF Older
  <2>4. k \in st.breach /\ st.since[k] <= ago[k]
    BY <2>3 DEF BreachKnown
  <2>5. since[k] <= ago'[k]
    BY <1>1, <2>1, <2>2, <2>4 DEF Older
  <2> QED BY <1>5, <2>4, <2>5
<1> QED BY <1>6, <1>7, <1>8

LEMMA RestartKeeps ==
  ASSUME IInv, Restart
  PROVE  IInv'
<1> USE DEF IInv
<1>0. /\ disturbed' = disturbed + 1 /\ cfg' = overlay /\ st' = Fresh(row) /\ out' = Nothing
      /\ loaded' = [r \in Reloaders |-> <<>>] /\ job' \in {"dead", job}
      /\ ago' = [k \in Keys |-> Cooldown] /\ UNCHANGED <<zone, live, overlay, row>>
  BY DEF Restart
<1>1. row \in RowType /\ row.marks.peak \in Nat
  BY DEF TypeOK, RowType, MarkType
<1>2. st' \in StType /\ st'.on = row.open /\ st'.peak = row.marks.peak
  BY <1>0, <1>1, FreshType
<1>3. TypeOK'
  BY <1>0, <1>2, NothingType, RiskMonitorAssumption DEF TypeOK
<1>4. Watched' /\ PeakKept'
  BY <1>0, <1>1, <1>2, NothingType DEF Watched, PeakKept
<1>5. BreachKnown'
  BY <1>0, RiskMonitorAssumption DEF BreachKnown
<1> QED BY <1>3, <1>4, <1>5

\* The feed, the day, the settings, and steps that change nothing.
LEMMA OthersKeep ==
  ASSUME IInv, FeedPauses \/ NewDay \/ ChangeOverlay \/ UNCHANGED vars
  PROVE  IInv'
<1> USE DEF IInv
<1>0. /\ st' \in {st, [st EXCEPT !.today = {}]} /\ live' \in {live, ~live}
      /\ overlay' \in {overlay} \cup Overlays /\ disturbed' \in {disturbed, disturbed + 1}
      /\ UNCHANGED <<zone, cfg, out, loaded, row, job, ago>>
  BY DEF FeedPauses, NewDay, ChangeOverlay, vars
<1>1. /\ st' \in StType /\ st'.on = st.on /\ st'.peak = st.peak /\ st'.breach = st.breach
      /\ st'.since = st.since
  BY <1>0 DEF TypeOK, StType
<1>2. live' \in BOOLEAN /\ overlay' \in Overlays /\ disturbed' \in Nat
  <2>1. live' \in BOOLEAN
    BY <1>0, Zenon DEF TypeOK
  <2> QED BY <1>0, <2>1 DEF TypeOK
<1>3. TypeOK'
  BY <1>0, <1>1, <1>2 DEF TypeOK
<1>4. Watched' /\ PeakKept' /\ BreachKnown'
  BY <1>0, <1>1 DEF Watched, PeakKept, BreachKnown
<1> QED BY <1>3, <1>4

LEMMA NextKeeps ==
  ASSUME IInv, [Next]_vars
  PROVE  IInv'
<1>1. CASE Evaluate
  BY <1>1, TickKeeps DEF Evaluate
<1>2. CASE Monitor
  BY <1>2, DispatchKeeps, PersistPeakKeeps, PersistPlanKeeps DEF Monitor
<1>3. CASE \E r \in Reloaders : Reload(r)
  BY <1>3, ReloadReadsKeeps, ReloadMergesKeeps DEF Reload
<1>4. CASE JobEnds \/ Pass \/ Restart
  BY <1>4, JobEndsKeeps, PassKeeps, RestartKeeps
<1>5. CASE FeedPauses \/ NewDay \/ ChangeOverlay \/ UNCHANGED vars
  BY <1>5, OthersKeep
<1> QED BY <1>1, <1>2, <1>3, <1>4, <1>5 DEF Next

-----------------------------------------------------------------------------
\* The inductive invariant: an open trade is watched, its peak is known, and what
\* was announced of it is remembered.
THEOREM Inductive == Spec => []IInv
<1>1. Init => IInv
  BY InitIInv
<1>2. IInv /\ [Next]_vars => IInv'
  BY NextKeeps
<1> QED BY <1>1, <1>2, PTL DEF Spec

\* Every variable keeps its type.
THEOREM TypeCorrect == Spec => []TypeOK
<1>1. IInv => TypeOK
  BY DEF IInv
<1> QED BY <1>1, Inductive, PTL

\* When the monitor's writes succeed (_persist_peak forgets one that fails), the
\* row of an open trade has the highest peak, or is about to get it.
THEOREM PeakSurvives == ASSUME ~WritesFail PROVE Spec => []PeakDurable
<1>1. IInv => PeakDurable
  BY DEF IInv, PeakKept, PeakDurable
<1> QED BY <1>1, Inductive, PTL

\* An alert of an open trade that appears comes from a tick that found the breach
\* unknown or cooled down; what reloads merge leaves it known.
THEOREM AlertedOnce == Spec => AlertOncePerBreach
<1>1. ASSUME IInv, [Next]_vars, NEW k \in Keys, row.open, out'.alert = k, out.alert # k
      PROVE  ago[k] = Cooldown
  <2> USE <1>1 DEF IInv
  <2>0. k # "none" /\ out \in OutType
    BY DEF Keys, AutoKeys, TypeOK
  <2>1. CASE Evaluate
    <3>1. PICK m \in Mtms : Tick(m)
      BY <2>1 DEF Evaluate
    <3>2. PICK d \in Decisions(m), stressed \in BOOLEAN :
            LET s == Marked(st, m)
                z == Zone(s, m, d, stressed)
                e == Evaluated(s, m, z)
                moved == [s EXCEPT !.plan = st.plan] # st
            IN out' = Rest([alert |-> e[2], gone |-> FALSE, peak |-> moved,
                            plan |-> s.plan # st.plan, marks |-> Marks(s)])
      BY <3>1 DEF Tick
    <3> DEFINE s == Marked(st, m)
               z == Zone(s, m, d, stressed)
               e == Evaluated(s, m, z)
               moved == [s EXCEPT !.plan = st.plan] # st
               o == [alert |-> e[2], gone |-> FALSE, peak |-> moved,
                     plan |-> s.plan # st.plan, marks |-> Marks(s)]
    <3>3. s \in StType /\ Marks(s) \in MarkType /\ s.breach = st.breach /\ s.since = st.since
      BY MarkedKeeps DEF TypeOK
    <3>4. z \in Zones
      BY <3>3, ZoneType
    <3>5. /\ e[2] \in Keys \cup OneShots \cup {"none", "silent"}
          /\ e[2] \in Keys => ~(e[2] \in s.breach /\ s.since[e[2]] < Cooldown)
      BY <3>3, <3>4, EvaluatedKeeps
    <3>6. o \in OutType /\ out' = Rest(o) /\ o.alert = e[2]
      BY <3>2, <3>3, <3>5 DEF OutType
    <3> HIDE DEF s, z, e, moved, o
    <3>7. e[2] = k
      BY <3>6, RestKeeps
    <3>8. ~(k \in st.breach /\ st.since[k] < Cooldown)
      BY <3>3, <3>5, <3>7
    <3>9. ago[k] \in 0 .. Cooldown /\ st.since[k] \in 0 .. Cooldown /\ Cooldown \in Nat
      BY RiskMonitorAssumption DEF TypeOK, StType
    <3> QED BY <3>8, <3>9 DEF BreachKnown
  <2>2. CASE Monitor
    <3>1. PICK o \in {[out EXCEPT !.alert = "none"], [out EXCEPT !.peak = FALSE],
                      [out EXCEPT !.plan = FALSE]} : out' = Rest(o)
      BY <2>2 DEF Monitor, Dispatch, PersistPeak, PersistPlan
    <3>2. o \in OutType /\ o.alert \in {"none", out.alert}
      BY <2>0 DEF OutType
    <3> QED BY <2>0, <3>1, <3>2, RestKeeps
  <2>3. CASE Restart
    BY <2>0, <2>3 DEF Restart, Nothing
  <2>4. ~Evaluate /\ ~Monitor /\ ~Restart => out' \in {out, [out EXCEPT !.gone = TRUE]}
    BY DEF Next, Reload, ReloadReads, ReloadMerges, JobEnds, Pass, FeedPauses, NewDay,
                ChangeOverlay, vars
  <2> QED BY <2>0, <2>1, <2>2, <2>3, <2>4 DEF OutType
<1>2. IInv /\ [Next]_vars
        => [\A k \in Keys : row.open /\ out'.alert = k /\ out.alert # k => ago[k] = Cooldown]_vars
  BY <1>1
<1> QED BY <1>2, Inductive, PTL DEF Spec, AlertOncePerBreach

\* Between changes of the settings and restarts, neither a tick nor a merge takes
\* the pointer of a plan back.
THEOREM PointerKept == Spec => PointerNeverBack
<1>1. ASSUME IInv, [Next]_vars, st.on, st'.on, st'.plan = st.plan, disturbed' = disturbed
      PROVE  st'.count >= st.count \/ (st.plan # NoPlan /\ st'.count >= st.plan.locks)
  <2> USE <1>1 DEF IInv
  <2>0. st \in StType /\ st.count \in Nat /\ cfg \in Overlays /\ disturbed \in Nat
    BY DEF TypeOK, StType
  <2>1. CASE Evaluate
    <3>1. PICK m \in Mtms : Tick(m)
      BY <2>1 DEF Evaluate
    <3>2. PICK z \in Zones : st' = Evaluated(Marked(st, m), m, z)[1]
      <4>1. PICK d \in Decisions(m), stressed \in BOOLEAN :
              st' = Evaluated(Marked(st, m), m, Zone(Marked(st, m), m, d, stressed))[1]
        BY <3>1 DEF Tick
      <4>2. Marked(st, m) \in StType
        BY <2>0, MarkedKeeps
      <4> QED BY <4>1, <4>2, ZoneType
    <3> DEFINE s == Marked(st, m)
    <3>3. s \in StType /\ (s.plan = st.plan =>
            s.count >= st.count \/ (st.plan # NoPlan /\ s.count >= st.plan.locks))
      BY <2>0, MarkedKeeps
    <3>4. Marks(st') = Marks(s)
      BY <3>2, <3>3, EvaluatedKeeps
    <3> HIDE DEF s
    <3>5. st'.plan = s.plan /\ st'.count = s.count
      BY <3>4 DEF Marks
    <3> QED BY <3>3, <3>5
  <2>2. CASE \E r \in Reloaders : ReloadMerges(r)
    <3>1. PICK r \in Reloaders : ReloadMerges(r)
      BY <2>2
    <3> DEFINE n == Head(loaded[r])
    <3>2. n \in RowType
      BY <3>1, LoadedType DEF ReloadMerges
    <3>3. st' = [st EXCEPT !.on = FALSE] \/ st' = Merged(st, n.marks)
      BY <3>1 DEF ReloadMerges
    <3> HIDE DEF n
    <3>4. st' = Merged(st, n.marks) => st'.count >= st.count
      BY <2>0, <3>2, MergedKeeps DEF RowType
    <3> QED BY <2>0, <3>3, <3>4 DEF StType
  <2>3. CASE Restart
    BY <2>0, <2>3 DEF Restart
  <2>4. ~Evaluate /\ ~Restart /\ ~(\E r \in Reloaders : ReloadMerges(r))
          => Marks(st') = Marks(st)
    BY <2>0 DEF Next, Monitor, Dispatch, PersistPeak, PersistPlan, Reload, ReloadReads,
                JobEnds, Pass, FeedPauses, NewDay, ChangeOverlay, vars, Marks, StType
  <2>5. Marks(st') = Marks(st) => st'.count = st.count
    BY DEF Marks
  <2> QED BY <2>0, <2>1, <2>2, <2>3, <2>4, <2>5
<1>2. IInv /\ [Next]_vars
        => [st.on /\ st'.on /\ st'.plan = st.plan /\ disturbed' = disturbed
              => \/ st'.count >= st.count
                 \/ st.plan # NoPlan /\ st'.count >= st.plan.locks]_vars
  BY <1>1
<1> QED BY <1>2, Inductive, PTL DEF Spec, PointerNeverBack
=============================================================================

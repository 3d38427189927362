----------------------------- MODULE Milestones -----------------------------
(***************************************************************************)
(* The rupee lines of engine/sl_threshold.py: the profit milestone plan,   *)
(* its pointer and its sell line.  Amounts are whole steps of some unit; 0 *)
(* stands for "no line" and "no peak", since a line is never below the     *)
(* charges floor and a peak is only kept while it is positive.             *)
(***************************************************************************)
EXTENDS Integers

CONSTANT Floor  \* estimated charges + charges_buffer_rs

ASSUME FloorAssumption == Floor \in Nat \ {0}

\* The overlay of profit_milestone_alert that a plan depends on: max_locks (0
\* when blank) and the giveback, which is never below the charges floor.
Overlay == [locks : Nat, give : {g \in Nat : g >= Floor}]
NoPlan  == [locks |-> 0, give |-> Floor]

Larger(a, b)  == IF a >= b THEN a ELSE b
Smaller(a, b) == IF a <= b THEN a ELSE b

\* A plan is its overlay: level i is armed by a peak of i givebacks and sells
\* at i - 1 of them.  Without max_locks there is no plan.
BuildPlan(o)      == IF o.locks = 0 THEN NoPlan ELSE o
SellLine(plan, i) == Larger(Floor, (i - 1) * plan.give)
PlanMatches(plan, o) == plan = BuildPlan(o)

\* The pointer moves to the last level the peak has armed, never back.
Advance(plan, peak, pointer) ==
  Larger(Smaller(pointer, plan.locks), Smaller(plan.locks, peak \div plan.give))
PlanLine(plan, pointer) == IF pointer = 0 THEN 0 ELSE SellLine(plan, pointer)

\* Without a plan the line trails the peak by one giveback.
TrailLine(give, peak) == IF peak < give THEN 0 ELSE Larger(peak - give, Floor)
=============================================================================

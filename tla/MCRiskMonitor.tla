--------------------------- MODULE MCRiskMonitor ----------------------------
(* RiskMonitor for TLC. *)
EXTENDS RiskMonitor, TLC

\* For the marks: gains, and settings with one level, with two, or with none.
MCMtms == {1, 2, 4}
MCOverlays == {[locks |-> 1, give |-> 1], [locks |-> 2, give |-> 2], [locks |-> 0, give |-> 1]}

\* For the alerts: losses past each line, and one gain past the target.
MCLosses  == {0 - 4, 0 - 3, 0 - 1, 2}
MCOverlay == {[locks |-> 0, give |-> 2]}
=============================================================================

----------------------------- MODULE MCLegOrder -----------------------------
(* LegOrder for TLC, with the claims about the exchange's totals. *)
EXTENDS LegOrder, Functions

TotalFilled == FoldFunction(LAMBDA x, n : x.filled + n, 0, ord)

\* _fill_status_note says that after a retry "the order eventually filled
\* COMPLETE": a leg's orders together fill no more than the planned quantity.
PlannedQuantityNotExceeded == TotalFilled <= Qty
=============================================================================

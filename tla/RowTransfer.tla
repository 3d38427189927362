---------------------------- MODULE RowTransfer -----------------------------
(***************************************************************************)
(* What the weekly archive promises of every row ("hot delete happens only *)
(* after laptop merge", config.py:1238): it is kept on the laptop first,   *)
(* and may leave the live database afterwards.  The promise does not hold  *)
(* for the rows that are exposed.                                          *)
(***************************************************************************)
CONSTANT Rows

VARIABLES
  hot,     \* rows of the live database
  kept,    \* rows of the laptop's archive
  exposed  \* rows that an accident takes out of the promise

Init == hot = Rows /\ kept = {}

Keep == \E S \in SUBSET Rows : kept' = kept \cup S /\ UNCHANGED hot
Drop == \E r \in hot \cap (kept \cup exposed) : hot' = hot \ {r} /\ UNCHANGED kept

Next == Keep \/ Drop
Spec == Init /\ [][Next]_<<hot, kept>>
=============================================================================

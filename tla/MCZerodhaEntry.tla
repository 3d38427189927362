--------------------------- MODULE MCZerodhaEntry ---------------------------
(* ZerodhaEntry for TLC: a two-leg spread, leg 1 the bought hedge and leg 2 *)
(* the sold short, as leg_execution_order ranks them.                       *)
EXTENDS ZerodhaEntry

\* README.md:611 and the message of a refused short: "The filled buy will be
\* flattened".  After a request that booked nothing, and whose rollback ran to
\* its end, every leg is flat or named by an alert.
FlattenedOrAlerted ==
  holder = None /\ ~Booked /\ ~aborted => \A l \in Legs : pos[l] = 0 \/ l \in alerted
=============================================================================

----------------------------- MODULE MCEodChain -----------------------------
(* EodChain for TLC: three days, of which the second is the day of expiry. *)
EXTENDS EodChain, TLC
=============================================================================

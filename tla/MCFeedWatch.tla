---------------------------- MODULE MCFeedWatch ----------------------------
(* FeedWatch for TLC. *)
EXTENDS FeedWatch

MCTokens == {"index", "leg"}
MCWishes == {{}, {"index"}}
=============================================================================

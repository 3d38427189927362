------------------------- MODULE MCArchiveProtocol --------------------------
(* ArchiveProtocol for TLC. *)
EXTENDS ArchiveProtocol, TLC

\* A trade with its leg, and two trades whose legs the run leaves out: their
\* counts may coincide.
CONSTANTS trade, leg, other, another

MCRows     == {trade, leg, other, another}
MCTableOf  == (leg :> "legs") @@ [r \in MCRows \ {leg} |-> "trades"]
MCParentOf == (leg :> trade) @@ [r \in MCRows \ {leg} |-> r]
MCOrder    == <<"legs", "trades">>
=============================================================================

-------------------------- MODULE MCStreamingQuotes --------------------------
(* StreamingQuotes for TLC: clients and symbols are interchangeable, so a    *)
(* run of safety properties may identify states that differ by renaming them. *)
EXTENDS StreamingQuotes, TLC

Symmetry == Permutations(Clients) \cup Permutations(Symbols)
=============================================================================

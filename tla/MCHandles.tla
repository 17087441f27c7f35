---------------------------- MODULE MCHandles ----------------------------
(* Handles for TLC: five native addresses, enough for an Options with its *)
(* cache and filter, a database and one more object (a snapshot, an       *)
(* iterator, a batch or a buffer), or for two Options without filter and  *)
(* a database; optionsNew with and without a Bloom filter.                *)
EXTENDS Handles, TLC

CONSTANTS a1, a2, a3, a4, a5

MCAddr == {a1, a2, a3, a4, a5}
MCBits == {0, 10}
MCSymmetry == Permutations(MCAddr)
=============================================================================

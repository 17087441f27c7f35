------------------------------- MODULE MCStore -------------------------------
(* Two keys, so that a batch's effect on one key is told from the other's; *)
(* one value, so that a put and a delete of the same key disagree; two     *)
(* batches, so that append has a distinct source; one snapshot; batches of *)
(* up to two records, enough for put-then-delete of one key.               *)
EXTENDS Store

CONSTANTS k1, k2, v1, b1, b2, s1

MCKeys == {k1, k2}
MCVals == {v1}
MCBatches == {b1, b2}
MCSnaps == {s1}

=============================================================================

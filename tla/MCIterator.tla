----------------------------- MODULE MCIterator -----------------------------
(* The iterator over snapshots of up to three keys, with jint scaled down  *)
(* to 4 bits (largest value 7) so that a size of 8 or more bytes          *)
(* overflows the cast, as one of 2^31 or more does in the real build.     *)
EXTENDS Iterator

MCKeys == {1, 2, 3}
MCSmallSizes == {1, 2}
MCBigSizes == {1, 9}
MCJintMax == 7

=============================================================================

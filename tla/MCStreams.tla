----------------------------- MODULE MCStreams -----------------------------
(* Small instances of Streams for TLC. *)
EXTENDS Streams, TLC

CONSTANTS k1, k2, t1, w1, w2, short, long

OneKey == {k1}
MCVals == {short, long}
MCLarge == {long}
OneTask == {t1}
TwoWriters == {w1, w2}
MCTxBatches == {NoEffect, PutOf(k1, long), Then(ClearAll, PutOf(k1, short))}

OfWriters == Permutations(Writers)

=============================================================================

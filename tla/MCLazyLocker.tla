---------------------------- MODULE MCLazyLocker ----------------------------
(* Small instances of LazyLocker for TLC. *)
EXTENDS LazyLocker, TLC

CONSTANTS k1, k2, t1, t2, short, long

MCKeys == {k1, k2}
MCVals == {short, long}
MCLarge == {long}
Pair == {t1, t2}

(* Closures that stage nothing, one put, a put after a clear, a swap.      *)
MCTxBatches ==
  {NoEffect, PutOf(k1, long), Then(ClearAll, PutOf(k1, short)),
   Then(PutOf(k1, long), DeleteOf(k2)), Then(PutOf(k1, long), PutOf(k2, long))}

(* Fewer, where liveness rules out symmetry. *)
FewTxBatches ==
  {NoEffect, Then(ClearAll, PutOf(k1, short)), Then(PutOf(k1, long), PutOf(k2, long))}

OfTasks == Permutations(Tasks)

=============================================================================

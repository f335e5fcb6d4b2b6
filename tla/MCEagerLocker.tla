---------------------------- MODULE MCEagerLocker ----------------------------
(* Small instances of EagerLocker for TLC. *)
EXTENDS EagerLocker, TLC

CONSTANTS k1, a, b, a1, a2, b1, small, big

OneKey == {k1}
TwoTabs == {a, b}
TwoVals == {small, big}
OnlyBig == {big}
ThreeTasks == {a1, a2, b1}
TwoAndOne == (a1 :> a) @@ (a2 :> a) @@ (b1 :> b)

(* Closures that stage a put, a put after a clear.                         *)
MCTxWrites == {OneWrite(PutOf(k1, small)),
               [does |-> Then(ClearAll, PutOf(k1, big)), cleared |-> TRUE]}

(* Bytes that do not decode. *)
MCFound == [Keys -> {Junk}]

Others == Permutations({a1, a2})

=============================================================================

----------------------------- MODULE MCLruBudget -----------------------------
(* Small instances of LruBudget for TLC. *)
EXTENDS LruBudget, TLC

CONSTANTS ta, tb

TwoTabs == {ta, tb}
TwoKeys == {1, 2}
MCVals == {1, 2}
BigIsMute == {2}

Put(k, v) == [does |-> PutOf(k, v), cleared |-> FALSE, again |-> {}]
Delete(k) == [does |-> DeleteOf(k), cleared |-> FALSE, again |-> {}]

(* One put, one delete, both keys at once, a put after a clear.            *)
MCWrites ==
  {Put(k, v) : k \in Keys, v \in Vals} \cup {Delete(1)}
  \cup {[does |-> [k \in Keys |-> 1], cleared |-> FALSE, again |-> {}],
        [does |-> Then(ClearAll, PutOf(2, 1)), cleared |-> TRUE, again |-> {}]}

(* An empty store; two that a Precious locker left, one with a row.        *)
MCFound ==
  {[rec |-> [k \in Keys |-> Gone], rows |-> <<>>, next |-> 0],
   [rec |-> [k \in Keys |-> k], rows |-> <<>>, next |-> 0],
   [rec |-> [k \in Keys |-> k], rows |-> 2 :> [tick |-> 2, bytes |-> 2], next |-> 1]}

=============================================================================

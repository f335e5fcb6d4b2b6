----------------------------- MODULE MCValueIds -----------------------------
(* Small instances of ValueIds for TLC. *)
EXTENDS ValueIds, TLC

CONSTANTS w1, w2, b1, b2

Writers == {w1, w2}
OneBank == {b1}
TwoTabs == {b1, b2}
AllInOne == [t \in Writers |-> b1]
OneEach == [t \in Writers |-> IF t = w1 THEN b1 ELSE b2]

OfWriters == Permutations(Writers)

=============================================================================

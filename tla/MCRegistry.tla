---------------------------- MODULE MCRegistry ----------------------------
(* Small instances of Registry for TLC. *)
EXTENDS Registry, TLC

CONSTANTS n1, n2, u1, u2, bank, own, p1, p2, s1, s2

OneName == {n1}
TwoNames == {n1, n2}
OneType == {u1}
TwoTypes == {u1, u2}
TwoChains == {bank, own}
Single == {p1}
Pair == {p1, p2}
TwoSlots == {s1, s2}

OfTasks == Permutations(Tasks) \cup Permutations(Slots)
OfSlots == Permutations(Slots)

=============================================================================

------------------------------- MODULE MCWatch -------------------------------
(***************************************************************************)
(* Two writers, a subscriber to everything and one to a single key.        *)
(***************************************************************************)
EXTENDS Watch, TLC

CONSTANTS k1, k2, w1, w2, all, some

MCKeys == {k1, k2}
MCWriters == {w1, w2}
MCSubscribers == {all, some}
MCFilter == (all :> {}) @@ (some :> {k1})
Symmetry == Permutations(MCWriters)

=============================================================================

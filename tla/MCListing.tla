------------------------------ MODULE MCListing ------------------------------
(* Small instances of Listing for TLC, with encodings of a small alphabet. *)
EXTENDS EncodedListing, TLC

CONSTANTS a, b

MCKeys == 1..3
MCVals == {a, b}

All == [kind |-> "unbounded", key |-> 0]
From(k) == [kind |-> "included", key |-> k]
Past(k) == [kind |-> "excluded", key |-> k]

(* The whole locker, both ways; the latest one; an exclusive range; one    *)
(* that is empty by exclusion.                                             *)
MCAsked ==
  {[start |-> All, end |-> All, reverse |-> FALSE, limit |-> 3],
   [start |-> All, end |-> All, reverse |-> TRUE, limit |-> 3],
   [start |-> All, end |-> All, reverse |-> TRUE, limit |-> 1],
   [start |-> Past(1), end |-> From(3), reverse |-> FALSE, limit |-> 2],
   [start |-> Past(2), end |-> Past(2), reverse |-> FALSE, limit |-> 3]}

OfVals == Permutations(Vals)

==============================================================================

------------------------------ MODULE StagedList ------------------------------
(***************************************************************************)
(* A locker's write-set as the list it really is (Vec<Pending>, and Staged *)
(* in a transaction), and everything that reads such a list: the ops of a  *)
(* commit (ops_for_items), a read through it (staged_view), a listing over *)
(* it (LazyLocker::collect), and the byte accounting of it.                *)
(*                                                                         *)
(* The other modules keep only the effect of a list (module Batch); here   *)
(* each reader is its own code, and EffectOf is what they have to agree    *)
(* with.  Keys are numbers, in byte order.                                 *)
(***************************************************************************)
EXTENDS Batch, Naturals, SequencesExt

ASSUME KeysAreOrdered == Keys \subseteq Nat

Pending == [op : {"put"}, key : Keys, val : Vals]
           \cup [op : {"delete"}, key : Keys, val : {Gone}]
           \cup [op : {"clear"}, key : {Kept}, val : {Gone}]

(* What a list of mutations does, one after the other. *)
Effect(m) == CASE m.op = "put" -> PutOf(m.key, m.val)
               [] m.op = "delete" -> DeleteOf(m.key)
               [] m.op = "clear" -> ClearAll
EffectOf(list) == FoldLeft(LAMBDA done, m : Then(done, Effect(m)), NoEffect, list)

-----------------------------------------------------------------------------
(* rposition of the last clear: what is left of the list after it. *)
IsClear(m) == m.op = "clear"
HasClear(list) == \E i \in DOMAIN list : IsClear(list[i])
TailAfter(list) == SubSeq(list, SelectLastInSeq(list, IsClear) + 1, Len(list))

(* The last entry of a list that names the key; 0 for none. *)
LastOf(list, k) == SelectLastInSeq(list, LAMBDA m : m.key = k)

(* ops_for_items: the records after the commit of a list.  A clear drops   *)
(* every record; of the entries after it the last one of each key counts.  *)
(* (BTreeMap order decides only in which order the ops are written.)       *)
Committed(list, records) ==
  LET tail == TailAfter(list) IN
    [k \in Keys |-> IF LastOf(tail, k) # 0 THEN tail[LastOf(tail, k)].val
                    ELSE IF HasClear(list) THEN Gone ELSE records[k]]

(* staged_view, of Resident and of Transaction: scan backwards, stop at    *)
(* the first hit.  Slip: a clear is not a hit.                             *)
ViewPastClears(list, k) == IF LastOf(list, k) = 0 THEN Kept ELSE list[LastOf(list, k)].val
StagedView(list, k) ==
  LET hit == SelectLastInSeq(list, LAMBDA m : m.key = k \/ IsClear(m)) IN
    IF hit = 0 THEN Kept ELSE list[hit].val

(* Resident::accounting: what the commit of a list adds to the byte budget *)
(* and how often it removes each key from it (LruBudget's "again" are the   *)
(* keys removed more than once; their order is never read).  Slip: a put   *)
(* does not take the key back from the removals.                           *)
NoAccounting == [updates |-> {}, removals |-> [k \in Keys |-> 0], cleared |-> FALSE]
Others(acc, k) == {u \in acc.updates : u.key # k}
CountKept(acc, m) ==
  [acc EXCEPT !.updates = Others(acc, m.key) \cup {[key |-> m.key, val |-> m.val]}]
CountPut(acc, m) ==
  [acc EXCEPT !.updates = Others(acc, m.key) \cup {[key |-> m.key, val |-> m.val]},
              !.removals[m.key] = 0]
Count(acc, m) ==
  CASE m.op = "put" -> CountPut(acc, m)
    [] m.op = "delete" -> [acc EXCEPT !.updates = Others(acc, m.key),
                                      !.removals[m.key] = acc.removals[m.key] + 1]
    [] m.op = "clear" -> [NoAccounting EXCEPT !.cleared = TRUE]
Accounting(list) == FoldLeft(Count, NoAccounting, list)

-----------------------------------------------------------------------------
(* Listings: bounds and order. *)

Bounds == {[kind |-> "unbounded", key |-> 0]}
          \cup [kind : {"included", "excluded"}, key : Keys]
Queries == [start : Bounds, end : Bounds, reverse : BOOLEAN, limit : Nat]

(* in_bounds, and what encode_range_bytes asks of the backend. *)
Above(k, b) == CASE b.kind = "unbounded" -> TRUE
                 [] b.kind = "included" -> k >= b.key
                 [] b.kind = "excluded" -> k > b.key
Below(k, b) == CASE b.kind = "unbounded" -> TRUE
                 [] b.kind = "included" -> k <= b.key
                 [] b.kind = "excluded" -> k < b.key
InBounds(k, q) == Above(k, q.start) /\ Below(k, q.end)

(* is_degenerate: answered with nothing, and never asked of the backend.   *)
IsDegenerate(q) ==
  /\ q.start.kind # "unbounded" /\ q.end.kind # "unbounded"
  /\ IF q.start.kind = "included" /\ q.end.kind = "included"
     THEN q.start.key > q.end.key ELSE q.start.key >= q.end.key

(* The keys of a set, in the direction of the query. *)
Precedes(k, l, reverse) == IF reverse THEN k > l ELSE k < l
InOrder(S, reverse) ==
  CHOOSE s \in [1..Cardinality(S) -> S] :
    \A i, j \in DOMAIN s : i < j => Precedes(s[i], s[j], reverse)

FirstOf(s, n) == SubSeq(s, 1, IF n < Len(s) THEN n ELSE Len(s))

(* collect: the staged list laid over what the walk has found.  *)
Overlay(found, list, q) ==
  LET tail == TailAfter(list) IN
    {e \in [key : Keys, val : Vals] :
       IF LastOf(tail, e.key) # 0
       THEN tail[LastOf(tail, e.key)].val = e.val /\ InBounds(e.key, q)
       ELSE ~HasClear(list) /\ e \in found}

=============================================================================

------------------------------- MODULE Listing -------------------------------
(***************************************************************************)
(* A listing of a deferred lazy locker (range, range_rev, latest, entries: *)
(* all of them LazyLocker::collect) while its writes go on, and the body   *)
(* of a transaction on it.                                                 *)
(*                                                                         *)
(* A listing takes no lock.  It copies the staged list, walks the records  *)
(* page by page with an await before each, then lays the copy over what it *)
(* found.  Between two pages writes are staged, flushed and committed.     *)
(*                                                                         *)
(* Abstracted: values are inline; a batch is flushed by flush or by a      *)
(* transaction, not by getting full (module LazyLocker has that).          *)
(***************************************************************************)
EXTENDS StagedList, FiniteSets

CONSTANTS Page,        \* scan_page_size
          Asked,       \* the listings the callers ask for
          MaxStaged,   \* bound: entries staged at once
          MaxWrites    \* bound: mutations

ASSUME ListingAssumption == /\ IsFiniteSet(Keys)
                            /\ Page \in Nat \ {0} /\ Asked \subseteq Queries
                            /\ MaxStaged \in Nat /\ MaxWrites \in Nat

VARIABLES
  records,   \* the stored values
  staged,    \* Resident::staged
  lock,      \* who holds the write lock: nobody, a transaction's closure, a commit
  drained,   \* the batch that commit has taken from staged
  tx,        \* the entries the transaction has staged
  writes,
  pc, range, \* the listing, and the range its next page asks for
  query, snapshot, found,
  listed,    \* what it has returned
  clean,     \* no batch was drained and not yet stored when it began
  held       \* of each key, what the locker has held since it began

writer == <<records, staged, lock, drained, tx, writes>>
lister == <<pc, range, query, snapshot, found, listed, clean>>
vars == <<records, staged, lock, drained, tx, writes,
          pc, range, query, snapshot, found, listed, clean, held>>

Entries == [key : Keys, val : Vals]
AnyQuery == [start |-> [kind |-> "unbounded", key |-> 0],
             end |-> [kind |-> "unbounded", key |-> 0],
             reverse |-> FALSE, limit |-> Cardinality(Keys)]

TypeOK == /\ records \in Contents
          /\ {staged, drained, tx, snapshot} \subseteq Seq(Pending)
          /\ lock \in {"free", "closure", "commit"}
          /\ writes \in 0..MaxWrites
          /\ pc \in {"idle", "walking", "done"}
          /\ {query, range} \subseteq Queries
          /\ found \subseteq Entries /\ listed \in Seq(Entries)
          /\ clean \in BOOLEAN
          /\ held \in [Keys -> SUBSET (Vals \cup {Gone})]

Init == /\ records \in Contents
        /\ staged = <<>> /\ drained = <<>> /\ tx = <<>> /\ lock = "free"
        /\ writes = 0
        /\ pc = "idle" /\ query = AnyQuery /\ range = AnyQuery
        /\ snapshot = <<>> /\ found = {} /\ listed = <<>> /\ clean = TRUE
        /\ held = [k \in Keys |-> {}]

-----------------------------------------------------------------------------
(* The writers. *)

(* A deferred put, delete or clear: Resident::stage. *)
Stage(m) == /\ lock = "free" /\ Len(staged) < MaxStaged /\ writes < MaxWrites
            /\ staged' = Append(staged, m)
            /\ writes' = writes + 1
            /\ UNCHANGED <<records, lock, drained, tx, lister>>

(* flush_locked: take_staged. *)
Flush == /\ lock = "free" /\ staged # <<>>
         /\ lock' = "commit"
         /\ drained' = staged /\ staged' = <<>>
         /\ UNCHANGED <<records, tx, writes, lister>>

(* transact: the closure stages, *)
TxBegin == /\ lock = "free" /\ writes < MaxWrites
           /\ lock' = "closure"
           /\ UNCHANGED <<records, staged, drained, tx, writes, lister>>
TxPush(m) == /\ lock = "closure" /\ writes < MaxWrites
             /\ tx' = Append(tx, m)
             /\ writes' = writes + 1
             /\ UNCHANGED <<records, staged, lock, drained, lister>>

(* and is rolled back or, the deferred batch taken along, committed. *)
TxRollback == /\ lock = "closure"
              /\ lock' = "free" /\ tx' = <<>>
              /\ UNCHANGED <<records, staged, drained, writes, lister>>
TxCommit == /\ lock = "closure" /\ tx # <<>>
            /\ lock' = "commit"
            /\ drained' = staged /\ staged' = <<>>
            /\ UNCHANGED <<records, tx, writes, lister>>

(* merge_batches.  Slip: the transaction's writes go first. *)
TxThenStaged == tx \o drained
Merged == drained \o tx

Land == /\ lock = "commit"
        /\ records' = Committed(Merged, records)
        /\ lock' = "free" /\ drained' = <<>> /\ tx' = <<>>
        /\ UNCHANGED <<staged, writes, lister>>

(* The commit fails: restage. *)
Fail == /\ lock = "commit"
        /\ staged' = drained \o staged
        /\ lock' = "free" /\ drained' = <<>> /\ tx' = <<>>
        /\ UNCHANGED <<records, writes, lister>>

-----------------------------------------------------------------------------
(* The listing. *)

Begin(q) == /\ pc = "idle"
            /\ pc' = "walking"
            /\ query' = q /\ range' = q
            /\ snapshot' = staged /\ found' = {}
            /\ clean' = (drained = <<>>)
            /\ UNCHANGED <<writer, listed>>

(* One page of Inner::walk: the backend's next keys in the range, in the   *)
(* direction asked for.  collect keeps what fits under its cap.            *)
InRange == IF IsDegenerate(query) THEN {}
           ELSE {k \in Keys : records[k] # Gone /\ InBounds(k, range)}
NextPage == FirstOf(InOrder(InRange, query.reverse), Page)

(* Slip: the limit is applied during the walk whatever is staged. *)
CapAlways == query.limit
Cap == IF snapshot = <<>> THEN query.limit ELSE Cardinality(Keys)
Keep(page) ==
  LET kept == FirstOf(page, IF Cap > Cardinality(found) THEN Cap - Cardinality(found) ELSE 0)
  IN {[key |-> kept[i], val |-> records[kept[i]]] : i \in DOMAIN kept}

(* Excluding the last key of the page, at the end the walk goes to. *)
Resume(last) ==
  IF query.reverse THEN [range EXCEPT !.end = [kind |-> "excluded", key |-> last]]
  ELSE [range EXCEPT !.start = [kind |-> "excluded", key |-> last]]

(* A full page: memory and redb always resume after it, IndexedDB only     *)
(* when there is something beyond it.                                      *)
ReadPage ==
  /\ pc = "walking" /\ Len(NextPage) = Page
  /\ found' = found \cup Keep(NextPage)
  /\ range' = Resume(NextPage[Page])
  /\ UNCHANGED <<writer, pc, query, snapshot, listed, clean>>

ReadLastPage ==
  /\ pc = "walking"
  /\ Len(NextPage) < Page \/ Cardinality(InRange) = Page
  /\ LET entries == Overlay(found \cup Keep(NextPage), snapshot, query)
         keys == FirstOf(InOrder({e.key : e \in entries}, query.reverse), query.limit) IN
       listed' = [i \in DOMAIN keys |-> CHOOSE e \in entries : e.key = keys[i]]
  /\ found' = found \cup Keep(NextPage)
  /\ pc' = "done"
  /\ UNCHANGED <<writer, range, query, snapshot, clean>>

Return == /\ pc = "done"
          /\ pc' = "idle" /\ listed' = <<>> /\ found' = {} /\ snapshot' = <<>>
          /\ query' = AnyQuery /\ range' = AnyQuery /\ clean' = TRUE
          /\ UNCHANGED writer

-----------------------------------------------------------------------------
(* What the locker holds: the records, under a batch a commit has drained, *)
(* under the staged batch.                                                 *)
View == Then(Then(records, EffectOf(drained)), EffectOf(staged))

(* The history of the properties: what each key has been during a listing. *)
Track == held' = [k \in Keys |-> IF pc' = "idle" THEN {}
                                 ELSE IF pc = "idle" THEN {View[k]}
                                 ELSE held[k] \cup {View'[k]}]

Step == \/ \E m \in Pending : Stage(m) \/ TxPush(m)
        \/ Flush \/ TxBegin \/ TxRollback \/ TxCommit \/ Land \/ Fail
        \/ \E q \in Asked : Begin(q)
        \/ ReadPage \/ ReadLastPage \/ Return

Next == Step /\ Track

Spec == Init /\ [][Next]_vars

-----------------------------------------------------------------------------
(* Properties. *)

(* A read through the staged list answers what its entries, applied one    *)
(* after the other, leave (Resident::staged_view, Transaction's twin).     *)
ViewsAgree ==
  TypeOK /\ \A list \in {staged, tx} : \A k \in Keys : StagedView(list, k) = EffectOf(list)[k]

(* A commit stores what the entries, applied one after the other, leave:   *)
(* those of the transaction after those it found staged (ops_for_items,    *)
(* merge_batches).                                                         *)
LandsInOrder ==
  [][Land => records' = Then(Then(records, EffectOf(drained)), EffectOf(tx))]_vars

(* The byte accounting of a list names as written exactly the keys that    *)
(* the list leaves with a value, with that value, and as removed none of   *)
(* them and all that it leaves deleted, unless it clears everything first  *)
(* (accounting, resident.rs).                                              *)
AccountingAgrees ==
  LET list == Merged \o staged
      acc == Accounting(list)
      removed == {k \in Keys : acc.removals[k] > 0} IN
    /\ acc.updates = {e \in Entries : EffectOf(list)[e.key] = e.val}
    /\ \A k \in removed : EffectOf(list)[k] = Gone
    /\ \A k \in Keys : EffectOf(list)[k] = Gone => k \in removed \/ acc.cleared

(* A listing returns, in order, in its bounds and up to its limit, values  *)
(* that the locker held while it ran; and a key that it does not return,   *)
(* although it got that far, was absent at some moment while it ran.       *)
(* Between its pages anything may have been staged, flushed and committed  *)
(* (collect, walk).  Excepted is a listing begun while a batch was drained *)
(* and not yet stored, which misses that batch as a get does.              *)
Before(k, l) == Precedes(k, l, query.reverse)
Reached(k) == \/ Len(listed) < query.limit
              \/ \E i \in DOMAIN listed : Before(k, listed[i].key)
ListingFaithful ==
  pc = "done" /\ clean =>
    /\ Len(listed) <= query.limit
    /\ \A i, j \in DOMAIN listed : i < j => Before(listed[i].key, listed[j].key)
    /\ \A i \in DOMAIN listed : /\ InBounds(listed[i].key, query)
                                /\ listed[i].val \in held[listed[i].key]
    /\ \A k \in Keys : InBounds(k, query) /\ Reached(k) /\ Gone \notin held[k]
         => \E i \in DOMAIN listed : listed[i].key = k

(* A statement of a doc, checked against what the code does.  policy.rs,   *)
(* Commit::Deferred, "What is visible before a flush": "Everything, to     *)
(* this handle".  What get answers inside a transaction is what the locker *)
(* holds, under the transaction's own writes.                              *)
TxValue(k) == IF StagedView(tx, k) # Kept THEN StagedView(tx, k) ELSE records[k]
TxSeesStaged ==
  lock = "closure" => \A k \in Keys : TxValue(k) = Then(View, EffectOf(tx))[k]

=============================================================================

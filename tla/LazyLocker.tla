----------------------------- MODULE LazyLocker -----------------------------
(***************************************************************************)
(* One open LazyLocker (src/src/locker/lazy.rs, resident.rs, inner.rs) and *)
(* the calls in flight on it.                                              *)
(*                                                                         *)
(* Several tasks call one locker.  Writes hold Inner::write_lock across    *)
(* their awaits; reads, flush's emptiness check and close's last steps do  *)
(* not.  A step is the stretch of code between two awaits, so a task can   *)
(* be overtaken wherever the code suspends: waiting for the lock, reading  *)
(* the records it replaces, committing, and between a landed commit and    *)
(* the update of the RAM index.  The last stretch of close is cut finer,   *)
(* because it runs without the lock and so beside other threads.           *)
(*                                                                         *)
(* Abstracted: a payload is inline or chunked (one chunk stands for all of *)
(* its chunks); a batch is its effect (module Batch); the policy is        *)
(* Precious (no eviction); corruption is OnCorrupt::Skip.                  *)
(***************************************************************************)
EXTENDS Batch, Naturals, FiniteSets

CONSTANTS
  Tasks, NoTask,   \* concurrent callers; nobody
  LargeVals,       \* payloads over chunk_size: !stores_inline
  After,           \* Commit::Deferred { after }; 0 and 1 are Immediate
  Authoritative,   \* Inner::index_is_authoritative
  Offered,         \* the operations the callers use
  TxBatches,       \* what a transact closure may stage
  MaxCalls,        \* bound: calls begun
  MaxFaults        \* bound: backend errors

Writes == {"put", "delete", "clear"}
Operations == Writes \cup {"transact", "flush", "close", "get"}

ASSUME LockerAssumption == /\ NoTask \notin Tasks
                           /\ LargeVals \subseteq Vals
                           /\ After \in Nat
                           /\ Authoritative \in BOOLEAN
                           /\ Offered \subseteq Operations
                           /\ TxBatches \subseteq Effects
                           /\ MaxCalls \in Nat /\ MaxFaults \in Nat
                           /\ IsFiniteSet(Keys)

VARIABLES
  \* the backend, and the bank's id allocator
  records,      \* the records table: a record per key
  chunks,       \* the chunks table
  nextId,       \* ValueIds: the cursor
  \* Inner and Resident
  writeLock, closed,
  index, knownInline,
  staged,       \* the deferred batch: its effect and its length
  corrupt,      \* corrupt_keys
  \* the calls in flight
  pc, call,
  taken,        \* the batch drained from staged by this call
  plan,         \* the commit this call has built
  got, res,     \* the record a get has read; how the call ended
  calls, faults

store    == <<records, chunks, nextId>>
resident == <<index, knownInline, staged>>
progress == <<call, taken, plan, got>>
vars == <<records, chunks, nextId, writeLock, closed, index, knownInline,
          staged, corrupt, pc, call, taken, plan, got, res, calls, faults>>

-----------------------------------------------------------------------------
(* The stored data.  A record is absent, an inline payload, or a pointer   *)
(* to the chunks of a value id.                                            *)

NoRecord   == [kind |-> "none"]
Inline(v)  == [kind |-> "inline", val |-> v]
Pointer(i) == [kind |-> "pointer", id |-> i]
Records == [kind : {"none"}] \cup [kind : {"inline"}, val : Vals]
           \cup [kind : {"pointer"}, id : Nat]

Stored == {k \in Keys : records[k].kind # "none"}
Chunked == {k \in Keys : records[k].kind = "pointer"}
ChunkIds == {c.id : c \in chunks}

NoKey == Kept   \* the key of a call that names none
Keyed == {"put", "delete", "get"}
CallRecords == [op : Keyed, key : Keys, does : Effects]
               \cup [op : Operations \ Keyed, key : {NoKey}, does : Effects]
Batches == [does : Effects, len : Nat]
NoBatch == [does |-> NoEffect, len |-> 0]
NoCall  == [op |-> "flush", key |-> NoKey, does |-> NoEffect]
NoPlan  == [gc |-> {}, ids |-> [k \in Keys |-> 0]]

Deferred == After > 1

(* merge_batches: what the call commits is the batch it drained, then its  *)
(* own writes.  CommitsSwapped is a slip: the older batch would win.       *)
CommitsSwapped(t) == Then(call[t].does, taken[t].does)
Commits(t) == Then(taken[t].does, call[t].does)

(* stores_inline: the keys of a batch whose values go to chunks. *)
LargeIn(b) == {k \in Keys : b[k] \in LargeVals}

(* touch_index. *)
IndexAfter(b) == (index \ Touched(b)) \cup {k \in Keys : b[k] \in Vals}

(* gc_ops: the value ids whose chunks a batch replaces.  Slips: the chunks *)
(* of every key; those of deleted keys only.                               *)
ReplacedIdsEverywhere(b) == {records[k].id : k \in Chunked}
ReplacedIdsOfDeletes(b) == {records[k].id : k \in {l \in Chunked : b[l] = Gone}}
ReplacedIds(b) == {records[k].id : k \in Touched(b) \cap Chunked}

(* ValueIds::allocate, once for each of some values: where the cursor      *)
(* stands afterwards.  Slip: it does not move.                             *)
CursorStays(values) == nextId
CursorAfter(values) == nextId + Cardinality(values)

PCs == {"idle", "entered", "waiting", "closure", "fetching", "trusting",
        "committing", "landed", "reading", "chunks",
        "discarding", "marking", "clearing"}
(* Where a task holds the write lock. *)
Locked == {"closure", "fetching", "trusting", "committing", "landed"}

TypeOK ==
  /\ records \in [Keys -> Records]
  /\ chunks \subseteq [id : Nat, val : LargeVals]
  /\ nextId \in Nat
  /\ writeLock \in Tasks \cup {NoTask}
  /\ closed \in BOOLEAN
  /\ index \subseteq Keys /\ knownInline \subseteq Keys /\ corrupt \subseteq Keys
  /\ staged \in Batches
  /\ pc \in [Tasks -> PCs]
  /\ call \in [Tasks -> CallRecords]
  /\ taken \in [Tasks -> Batches]
  /\ plan \in [Tasks -> [gc : SUBSET Nat, ids : [Keys -> Nat]]]
  /\ got \in [Tasks -> Records]
  /\ res \in [Tasks -> {"none", "ok", "err", "closed", "corrupt"}]
  /\ calls \in Nat /\ faults \in Nat
  /\ \A t \in Tasks : pc[t] \in {"reading", "chunks"} => call[t].op = "get"

-----------------------------------------------------------------------------
(* A locker just opened on stored data: LazyLocker::open has walked the    *)
(* keys into the index; nothing is known of their shape.  Chunked values   *)
(* found in the store hold the ids below nextId.                           *)

Init ==
  /\ \E old \in [Keys -> {Gone} \cup Vals] :
       \E ids \in [LargeIn(old) -> 1..Cardinality(LargeIn(old))] :
         /\ \A k, l \in LargeIn(old) : ids[k] = ids[l] => k = l
         /\ records = [k \in Keys |-> CASE old[k] = Gone -> NoRecord
                                        [] k \in LargeIn(old) -> Pointer(ids[k])
                                        [] OTHER -> Inline(old[k])]
         /\ chunks = {[id |-> ids[k], val |-> old[k]] : k \in LargeIn(old)}
         /\ nextId = Cardinality(LargeIn(old)) + 1
  /\ index = Stored
  /\ knownInline = {} /\ corrupt = {} /\ staged = NoBatch
  /\ writeLock = NoTask /\ closed = FALSE
  /\ pc = [t \in Tasks |-> "idle"]
  /\ call = [t \in Tasks |-> NoCall]
  /\ taken = [t \in Tasks |-> NoBatch]
  /\ plan = [t \in Tasks |-> NoPlan]
  /\ got = [t \in Tasks |-> NoRecord]
  /\ res = [t \in Tasks |-> "none"]
  /\ calls = 0 /\ faults = 0

-----------------------------------------------------------------------------
(* Shared pieces of the actions. *)

Return(t, r) == pc' = [pc EXCEPT ![t] = "idle"] /\ res' = [res EXCEPT ![t] = r]

(* How a write, a transact or a flush ends.  LazyLocker::close goes on: it *)
(* discards the batch only when its own flush succeeded, and closes        *)
(* whether it did or not.                                                  *)
Done(t, r) ==
  /\ pc' = [pc EXCEPT ![t] = IF call[t].op # "close" THEN "idle"
                             ELSE IF r = "ok" THEN "discarding" ELSE "marking"]
  /\ res' = [res EXCEPT ![t] = r]

(* Resident::take_staged: the batch leaves the buffer before it is stored. *)
TakeStaged(t, batch) ==
  /\ taken' = [taken EXCEPT ![t] = batch]
  /\ staged' = NoBatch
  /\ pc' = [pc EXCEPT ![t] = "fetching"]

(* Resident::restage: the drained batch goes back in front.  Slip: the     *)
(* batch is dropped with the failed commit.                                *)
RestageNothing(t) == staged' = staged
Restage(t) ==
  /\ staged' = [does |-> Then(taken[t].does, staged.does),
                len |-> taken[t].len + staged.len]

(* The call is over: what it held is dropped with it. *)
Drop(t) == /\ taken' = [taken EXCEPT ![t] = NoBatch]
           /\ plan' = [plan EXCEPT ![t] = NoPlan]

(* A call that holds the lock ends and releases it.  Slip: an error path   *)
(* that does not.                                                          *)
LeaveLocked(t, r) ==
  /\ Drop(t)
  /\ writeLock' = IF r = "ok" THEN NoTask ELSE t
  /\ Done(t, r)
Leave(t, r) == Drop(t) /\ writeLock' = NoTask /\ Done(t, r)

(* Where an error of the backend, the codec or the allocator is possible.  *)
(* Slip: one more fallible step, after the commit.                         *)
FallibleToTheEnd(t) == pc[t] \in {"fetching", "trusting", "committing", "landed"}
Fallible(t) == pc[t] \in {"fetching", "trusting", "committing"}

(* Resident::prior: may the read of the old record be skipped?  (Absent    *)
(* or Inline; otherwise Unknown.)  Slip: an indexed key is taken for an    *)
(* inline one.                                                             *)
PriorKnownAlways(k) == staged.len = 0 /\ Authoritative
PriorKnown(k) == /\ staged.len = 0
                 /\ Authoritative
                 /\ k \notin index \/ k \in knownInline

-----------------------------------------------------------------------------
(* The calls. *)

Invoke(t, o, k, b) ==
  /\ pc[t] = "idle" /\ calls < MaxCalls /\ o \in Offered
  /\ call' = [call EXCEPT ![t] = [op |-> o, key |-> k, does |-> b]]
  /\ pc' = [pc EXCEPT ![t] = "entered"]
  /\ got' = [got EXCEPT ![t] = NoRecord]
  /\ res' = [res EXCEPT ![t] = "none"]
  /\ calls' = calls + 1
  /\ UNCHANGED <<store, writeLock, closed, resident, corrupt, taken, plan, faults>>

Call(t) ==
  \/ \E k \in Keys, v \in Vals : Invoke(t, "put", k, PutOf(k, v))
  \/ \E k \in Keys : \/ Invoke(t, "delete", k, DeleteOf(k))
                     \/ Invoke(t, "get", k, NoEffect)
  \/ \E o \in {"flush", "close"} : Invoke(t, o, NoKey, NoEffect)
  \/ Invoke(t, "clear", NoKey, ClearAll)
  \/ \E b \in TxBatches : Invoke(t, "transact", NoKey, b)

(* put_by, delete_by, clear and transact: ensure_open, then queue for the lock. *)
EnterWrite(t) ==
  /\ pc[t] = "entered" /\ call[t].op \in Writes \cup {"transact"}
  /\ \/ closed /\ Return(t, "closed")
     \/ ~closed /\ pc' = [pc EXCEPT ![t] = "waiting"] /\ UNCHANGED res
  /\ UNCHANGED <<store, writeLock, closed, resident, corrupt, progress, calls, faults>>

(* Resident::flush, called by flush and by close: nothing staged, nothing  *)
(* to do, and no lock taken to find out.                                   *)
EnterFlush(t) ==
  /\ pc[t] = "entered" /\ call[t].op \in {"flush", "close"}
  /\ \/ staged.len = 0 /\ Done(t, "ok")
     \/ staged.len # 0 /\ pc' = [pc EXCEPT ![t] = "waiting"] /\ UNCHANGED res
  /\ UNCHANGED <<store, writeLock, closed, resident, corrupt, progress, calls, faults>>

(* A deferred put, delete or clear: stage, update the index, return. *)
StagedWith(t) == [does |-> Then(staged.does, call[t].does), len |-> staged.len + 1]

StageOnly(t) ==
  /\ pc[t] = "waiting" /\ writeLock = NoTask
  /\ Deferred /\ call[t].op \in Writes
  /\ StagedWith(t).len < After
  /\ staged' = StagedWith(t)
  /\ index' = IndexAfter(call[t].does)
  /\ knownInline' = knownInline \ Touched(call[t].does)
  /\ Return(t, "ok")
  /\ UNCHANGED <<store, writeLock, closed, corrupt, progress, calls, faults>>

(* The same when the batch is full: flush_locked under the lock it holds. *)
StageAndFlush(t) ==
  /\ pc[t] = "waiting" /\ writeLock = NoTask
  /\ Deferred /\ call[t].op \in Writes
  /\ StagedWith(t).len >= After
  /\ writeLock' = t
  /\ TakeStaged(t, StagedWith(t))
  /\ index' = IndexAfter(call[t].does)
  /\ knownInline' = knownInline \ Touched(call[t].does)
  /\ UNCHANGED <<store, closed, corrupt, call, plan, got, res, calls, faults>>

(* An immediate put, delete or clear: ask the index what is stored.  clear *)
(* always walks the records.                                               *)
LockWrite(t) ==
  /\ pc[t] = "waiting" /\ writeLock = NoTask
  /\ ~Deferred /\ call[t].op \in Writes
  /\ writeLock' = t
  /\ pc' = [pc EXCEPT ![t] =
              IF call[t].op # "clear" /\ PriorKnown(call[t].key)
              THEN "trusting" ELSE "fetching"]
  /\ UNCHANGED <<store, closed, resident, corrupt, progress, res, calls, faults>>

LockTransact(t) ==
  /\ pc[t] = "waiting" /\ writeLock = NoTask /\ call[t].op = "transact"
  /\ writeLock' = t
  /\ pc' = [pc EXCEPT ![t] = "closure"]
  /\ UNCHANGED <<store, closed, resident, corrupt, progress, res, calls, faults>>

(* The closure returns Err, or has staged nothing. *)
ClosureRollback(t) ==
  /\ pc[t] = "closure"
  /\ writeLock' = NoTask
  /\ \/ call[t].does = NoEffect /\ Return(t, "ok")
     \/ Return(t, "err")
  /\ UNCHANGED <<store, closed, resident, corrupt, progress, calls, faults>>

(* The closure returns Ok: the deferred batch rides in the same commit. *)
ClosureCommit(t) ==
  /\ pc[t] = "closure" /\ call[t].does # NoEffect
  /\ TakeStaged(t, staged)
  /\ UNCHANGED <<store, writeLock, closed, index, knownInline, corrupt, call,
                 plan, got, res, calls, faults>>

(* Resident::flush with the lock: flush_locked. *)
LockFlush(t) ==
  /\ pc[t] = "waiting" /\ writeLock = NoTask /\ call[t].op \in {"flush", "close"}
  /\ \/ /\ staged.len = 0
        /\ Done(t, "ok")
        /\ UNCHANGED <<writeLock, staged, taken>>
     \/ /\ staged.len # 0
        /\ writeLock' = t
        /\ TakeStaged(t, staged)
        /\ UNCHANGED res
  /\ UNCHANGED <<store, closed, index, knownInline, corrupt, call, plan, got,
                 calls, faults>>

(* ops_for_pending, put_payload_ops, delete_value_ops, clear_value_ops:    *)
(* read the records to be replaced, unless the caller already knows there  *)
(* is no pointer among them, and note their chunks for deletion; allocate  *)
(* a value id for each chunked value.  Byte order of the keys decides      *)
(* which key gets which id; here any order.                                *)
Build(t) ==
  /\ pc[t] \in {"fetching", "trusting"}
  /\ LET large == LargeIn(Commits(t)) IN
       \E ids \in [large -> nextId .. nextId + Cardinality(large) - 1] :
           /\ \A k, l \in large : ids[k] = ids[l] => k = l
           /\ nextId' = CursorAfter(large)
           /\ plan' = [plan EXCEPT ![t] =
                [gc  |-> IF pc[t] = "trusting" THEN {} ELSE ReplacedIds(Commits(t)),
                 ids |-> [k \in Keys |-> IF k \in large THEN ids[k] ELSE 0]]]
  /\ pc' = [pc EXCEPT ![t] = "committing"]
  /\ UNCHANGED <<records, chunks, writeLock, closed, resident, corrupt, call,
                 taken, got, res, calls, faults>>

(* Inner::commit lands: one atomic backend commit. *)
Commit(t) ==
  /\ pc[t] = "committing"
  /\ LET does == Commits(t) IN
       /\ records' = [k \in Keys |->
            CASE does[k] = Kept -> records[k]
              [] does[k] = Gone -> NoRecord
              [] does[k] \in LargeVals -> Pointer(plan[t].ids[k])
              [] OTHER -> Inline(does[k])]
       /\ chunks' = {c \in chunks : c.id \notin plan[t].gc}
                    \cup {[id |-> plan[t].ids[k], val |-> does[k]] : k \in LargeIn(does)}
  /\ pc' = [pc EXCEPT ![t] = "landed"]
  /\ UNCHANGED <<nextId, writeLock, closed, resident, corrupt, progress, res,
                 calls, faults>>

(* A read of an old record, an allocation or the commit reports an error:  *)
(* nothing is written, the drained batch is restaged, the lock released.   *)
Fail(t) ==
  /\ Fallible(t) /\ faults < MaxFaults
  /\ faults' = faults + 1
  /\ Restage(t)
  /\ Leave(t, "err")
  /\ UNCHANGED <<store, closed, index, knownInline, corrupt, call, got, calls>>

(* After the commit: the index and the inline markers follow, then the     *)
(* lock is released.  A deferred write and a flush have nothing to update. *)
Finish(t) ==
  /\ pc[t] = "landed"
  /\ IF call[t].op = "transact"
     THEN index' = IndexAfter(call[t].does) /\ knownInline' = {}
     ELSE IF Deferred \/ call[t].op \notin Writes
     THEN UNCHANGED <<index, knownInline>>
     ELSE /\ index' = IndexAfter(call[t].does)
          /\ knownInline' = (knownInline \ Touched(call[t].does))
               \cup {k \in Keys : call[t].does[k] \in Vals \ LargeVals}
  /\ Leave(t, "ok")
  /\ UNCHANGED <<store, closed, staged, corrupt, call, got, calls, faults>>

-----------------------------------------------------------------------------
(* LazyLocker::close after its flush. *)

CloseDiscard(t) ==
  /\ pc[t] = "discarding"
  /\ staged' = NoBatch
  /\ pc' = [pc EXCEPT ![t] = "marking"]
  /\ UNCHANGED <<store, writeLock, closed, index, knownInline, corrupt,
                 progress, res, calls, faults>>

CloseMark(t) ==
  /\ pc[t] = "marking"
  /\ closed' = TRUE
  /\ pc' = [pc EXCEPT ![t] = "clearing"]
  /\ UNCHANGED <<store, writeLock, resident, corrupt, progress, res, calls, faults>>

CloseClear(t) ==
  /\ pc[t] = "clearing"
  /\ index' = {} /\ knownInline' = {}
  /\ pc' = [pc EXCEPT ![t] = "idle"]
  /\ UNCHANGED <<store, writeLock, closed, staged, corrupt, progress, res,
                 calls, faults>>

-----------------------------------------------------------------------------
(* LazyLocker::get_by, which takes no lock. *)

(* ensure_open, then staged_view. *)
EnterGet(t) ==
  /\ pc[t] = "entered" /\ call[t].op = "get"
  /\ LET view == staged.does[call[t].key] IN
       \/ closed /\ Return(t, "closed") /\ UNCHANGED got
       \/ /\ ~closed /\ view # Kept
          /\ got' = [got EXCEPT ![t] = IF view = Gone THEN NoRecord ELSE Inline(view)]
          /\ Return(t, "ok")
       \/ /\ ~closed /\ view = Kept
          /\ pc' = [pc EXCEPT ![t] = "reading"]
          /\ UNCHANGED <<got, res>>
  /\ UNCHANGED <<store, writeLock, closed, resident, corrupt, call, taken, plan,
                 calls, faults>>

(* Inner::fetch. *)
ReadRecord(t) ==
  /\ pc[t] = "reading"
  /\ got' = [got EXCEPT ![t] = records[call[t].key]]
  /\ \/ /\ records[call[t].key].kind = "pointer"
        /\ pc' = [pc EXCEPT ![t] = "chunks"] /\ UNCHANGED res
     \/ records[call[t].key].kind # "pointer" /\ Return(t, "ok")
  /\ UNCHANGED <<store, writeLock, closed, resident, corrupt, call, taken, plan,
                 calls, faults>>

(* Inner::read_chunks; a missing chunk is Error::Corrupt, and load_and_note *)
(* then records the key.                                                    *)
ReadChunks(t) ==
  /\ pc[t] = "chunks"
  /\ \/ \E c \in chunks : /\ c.id = got[t].id
                          /\ got' = [got EXCEPT ![t] = Inline(c.val)]
                          /\ Return(t, "ok")
                          /\ UNCHANGED corrupt
     \/ /\ got[t].id \notin ChunkIds
        /\ corrupt' = corrupt \cup {call[t].key}
        /\ Return(t, "corrupt")
        /\ UNCHANGED got
  /\ UNCHANGED <<store, writeLock, closed, resident, call, taken, plan, calls, faults>>

(* A backend error is not corruption: it is only returned. *)
ReadFail(t) ==
  /\ pc[t] \in {"reading", "chunks"} /\ faults < MaxFaults
  /\ faults' = faults + 1
  /\ Return(t, "err")
  /\ UNCHANGED <<store, writeLock, closed, resident, corrupt, progress, calls>>

-----------------------------------------------------------------------------
Step(t) ==
  \/ EnterWrite(t) \/ EnterFlush(t) \/ EnterGet(t)
  \/ StageOnly(t) \/ StageAndFlush(t)
  \/ LockWrite(t) \/ LockTransact(t) \/ LockFlush(t)
  \/ ClosureRollback(t) \/ ClosureCommit(t)
  \/ Build(t) \/ Commit(t) \/ Fail(t) \/ Finish(t)
  \/ CloseDiscard(t) \/ CloseMark(t) \/ CloseClear(t)
  \/ ReadRecord(t) \/ ReadChunks(t) \/ ReadFail(t)

Next == \E t \in Tasks : Call(t) \/ Step(t)

Spec == Init /\ [][Next]_vars

-----------------------------------------------------------------------------
(* Properties. *)

(* Every pointer record finds its chunks: no commit removes the chunks a   *)
(* record still names (put_payload_ops, clear_value_ops, gc_ops).          *)
NoDanglingPointer == \A k \in Chunked : records[k].id \in ChunkIds

(* While the locker is open every stored chunk belongs to a record: an     *)
(* overwrite, delete, clear, transact or flush that skips or misses the    *)
(* read of the old pointer (Resident::prior) would leave chunks that no    *)
(* later operation finds.                                                  *)
NoOrphanWhileOpen ==
  ~closed => \A i \in ChunkIds : \E k \in Chunked : records[k].id = i

(* What the locker holds for its callers: the stored values, under the     *)
(* batch a commit in flight has drained, under the staged batch.  A record *)
(* that has lost its chunks holds nothing.                                 *)
Readable(k) == CASE records[k].kind = "none" -> {}
                 [] records[k].kind = "inline" -> {records[k].val}
                 [] OTHER -> {c.val : c \in {d \in chunks : d.id = records[k].id}}
ValueAt(k) == IF Readable(k) = {} THEN Gone ELSE CHOOSE v \in Readable(k) : TRUE
InFlight == IF writeLock # NoTask /\ pc[writeLock] # "landed"
            THEN taken[writeLock].does ELSE NoEffect
View == Then(Then([k \in Keys |-> ValueAt(k)], InFlight), staged.does)

(* The key index shows exactly the keys of the view: what len, keys and    *)
(* contains_key answer, whatever failed, was restaged or was merged.       *)
(* Excepted are the moment between a landed commit and its Finish, and a   *)
(* locker being closed.                                                    *)
Closing == closed \/ \E t \in Tasks : pc[t] # "idle" /\ call[t].op = "close"
IndexShowsView ==
  (~Closing /\ \A t \in Tasks : pc[t] # "landed")
     => index = {k \in Keys : View[k] # Gone}

(* No two records point to the chunks of one value id: the first           *)
(* overwrite of either would delete the other's data (gc_ops deletes by    *)
(* the prefix of the id; ValueIds::allocate).                              *)
NoSharedIds == \A k, l \in Chunked : records[k].id = records[l].id => k = l

(* Why these hold: the inductive invariant.                                *)

(* The lock: a call in a locked stretch holds it (so there is one).  And a *)
(* close clears the index only of a locker it has marked closed.           *)
LockHeld == \A t \in Tasks : pc[t] \in Locked => writeLock = t
ClearingIsClosed == \A t \in Tasks : pc[t] = "clearing" => closed

(* An immediate locker stages nothing; only its puts and deletes trust the *)
(* index, and they touch the one key they ask it about.                    *)
ImmediateStagesNothing ==
  ~Deferred => staged = NoBatch /\ \A t \in Tasks : taken[t] = NoBatch
KeyedCalls ==
  \A t \in Tasks :
    /\ call[t].op \in {"put", "delete"} =>
         \A k \in Keys : k = call[t].key \/ call[t].does[k] = Kept
    /\ call[t].op \notin Writes \cup {"transact"} => call[t].does = NoEffect
    /\ pc[t] = "trusting" => ~Deferred /\ call[t].op \in {"put", "delete"}

(* Value ids: every stored one is below the cursor, and the ids of a       *)
(* commit being built are allocated, distinct and not yet stored.          *)
IdsFresh ==
  /\ \A i \in ChunkIds : i < nextId
  /\ \A t \in Tasks : pc[t] = "committing" =>
       LET large == LargeIn(Commits(t)) IN
         /\ \A k \in large : plan[t].ids[k] < nextId /\ plan[t].ids[k] \notin ChunkIds
         /\ \A k, l \in large : plan[t].ids[k] = plan[t].ids[l] => k = l

(* A commit being built deletes chunks of the records it replaces only,    *)
(* and while the locker is open all of them: what it read, or was told by  *)
(* the index, still holds when it commits.                                 *)
PlanMatchesStore ==
  \A t \in Tasks :
    /\ pc[t] = "committing" => plan[t].gc \subseteq ReplacedIds(Commits(t))
    /\ pc[t] = "committing" /\ ~closed => ReplacedIds(Commits(t)) \subseteq plan[t].gc
    /\ pc[t] = "trusting" /\ ~closed => call[t].key \notin Chunked

(* The RAM index of an open, immediate locker misses no stored key and its *)
(* inline markers name no chunked record; when a commit has landed, that   *)
(* will be so once the call has finished.                                  *)
IndexCovers ==
  ~closed /\ ~Deferred => \A k \in Keys :
    \/ (k \in Stored => k \in index) /\ (k \in Chunked => k \notin knownInline)
    \/ \E t \in Tasks : pc[t] = "landed" /\ call[t].does[k] # Kept
LandedMatchesStore ==
  ~Deferred => \A t \in Tasks : pc[t] = "landed" => \A k \in Keys :
    /\ call[t].does[k] = Gone => k \notin Stored
    /\ call[t].does[k] \in Vals \ LargeVals => k \notin Chunked

Inv == /\ TypeOK /\ LockHeld /\ ClearingIsClosed /\ ImmediateStagesNothing /\ KeyedCalls
       /\ IdsFresh /\ PlanMatchesStore /\ IndexCovers /\ LandedMatchesStore
       /\ NoDanglingPointer /\ NoSharedIds /\ NoOrphanWhileOpen

(* What the calls in flight have to do with what the locker holds.  An id  *)
(* names one chunk, so a pointer is read in one way.                       *)
OneChunkPerId == \A c, d \in chunks : c.id = d.id => c = d

(* A batch is drained by a call that is about to store it, and nothing is  *)
(* staged over it meanwhile: it can be merged, stored or restaged.         *)
DrainedUnderLock ==
  \A t \in Tasks :
    /\ taken[t].does # NoEffect => pc[t] \in {"fetching", "committing", "landed"}
    /\ Fallible(t) => staged.does = NoEffect

(* A deferred write that flushes has its own effect in the drained batch.  *)
WriteIsDrained ==
  \A t \in Tasks : Deferred /\ call[t].op \in Writes /\ pc[t] \in Locked =>
    \A k \in Keys : call[t].does[k] # Kept => taken[t].does[k] = call[t].does[k]

(* Only a transact runs a closure; only a close goes on after its flush,   *)
(* with the result it will report.                                         *)
CallsInPlace ==
  \A t \in Tasks :
    /\ pc[t] = "closure" => call[t].op = "transact"
    /\ pc[t] \in {"discarding", "marking", "clearing"} =>
         call[t].op = "close" /\ res[t] \in {"ok", "err"}

(* The index of a locker nobody closes shows the view, but for the keys of *)
(* a landed commit whose call still has to update it; those the call has   *)
(* written as it says.                                                     *)
Updates(t, k) == /\ pc[t] = "landed" /\ call[t].does[k] # Kept
                 /\ call[t].op = "transact" \/ ~Deferred
IndexFollows ==
  LET shown == View IN
  ~Closing => \A k \in Keys :
    /\ \/ k \in index <=> shown[k] # Gone
       \/ \E t \in Tasks : Updates(t, k)
    /\ \A t \in Tasks : Updates(t, k) => shown[k] = call[t].does[k]

MapInv == /\ Inv /\ OneChunkPerId /\ DrainedUnderLock /\ WriteIsDrained
          /\ CallsInPlace /\ IndexFollows

(* The whole locker as one atomic map (AtomicMap): a write takes effect    *)
(* when it is staged, or else when its commit lands, in one step with all  *)
(* the keys it names; nothing else changes what the locker holds - not a   *)
(* flush, not its failure and restage, not another task's error.           *)
StatusOf(t) ==
  IF pc[t] = "idle" THEN "idle"
  ELSE IF \/ call[t].does = NoEffect
          \/ pc[t] = "landed"
          \/ Deferred /\ call[t].op \in Writes /\ pc[t] \in Locked
  THEN "done" ELSE "pending"
OutcomeOf(t) == IF res[t] = "none" \/ pc[t] # "idle" THEN "none"
                ELSE IF res[t] = "ok" THEN "ok" ELSE "failed"

Map == INSTANCE AtomicMap WITH
         Lenient <- Deferred,
         content <- View,
         status  <- [t \in Tasks |-> StatusOf(t)],
         effect  <- [t \in Tasks |-> call[t].does],
         outcome <- [t \in Tasks |-> OutcomeOf(t)]

ImplementsMap == Map!Spec

(* With a deferred batch there is one exception, what close discards.      *)
OnlyDiscardLoses ==
  Map!Init /\ [][Map!Next \/ \E t \in Tasks : CloseDiscard(t)]_(Map!vars)

(* Every call ends: the lock is always released, on every error path, and  *)
(* no task waits for it for ever.  A task that can go on does (the         *)
(* executor polls every woken future); closures end.                       *)
FairSpec == Spec /\ \A t \in Tasks : WF_vars(Step(t))
CallsEnd == \A t \in Tasks : pc[t] = "entered" ~> pc[t] = "idle"

(* Statements of the code's own comments, checked against what it does.    *)

(* lazy.rs, get_by: "A staged write is this handle's own work and is       *)
(* visible to it immediately, flushed or not."  A get that turns to the    *)
(* store finds there what the locker holds.                                *)
StagedWriteVisible ==
  [][\A t \in Tasks : EnterGet(t) /\ pc'[t] = "reading"
        => ValueAt(call[t].key) = View[call[t].key]]_vars

(* lazy.rs, corrupt_keys: "Keys this locker is known to hold unreadable    *)
(* bytes for."  A key is noted only when its record has lost its chunks.   *)
NotedKeysUnreadable ==
  [][\A k \in corrupt' \ corrupt : k \in Chunked /\ records[k].id \notin ChunkIds]_vars

(* lazy.rs, close: "Only discard once the batch is actually stored."       *)
DiscardOnlyStored == [][\A t \in Tasks : CloseDiscard(t) => staged.len = 0]_vars

(* lazy.rs, flush: "Commit everything this locker has staged."  When a     *)
(* flush reports success, no batch is staged, nor drained and unstored.    *)
FlushStoresAll ==
  [][\A t \in Tasks : call[t].op = "flush" /\ pc[t] # "idle" /\ pc'[t] = "idle"
                       /\ res'[t] = "ok"
        => /\ staged'.len = 0
           /\ \A u \in Tasks : taken'[u].len = 0 \/ pc'[u] = "landed"]_vars

(* lazy.rs, close: "After this the locker reads as empty". *)
ClosedReadsEmpty ==
  (closed /\ \A t \in Tasks : pc[t] # "clearing") => index = {}

(* inner.rs, Prior: "a wrong `Absent` or `Inline` orphans chunks forever.  *)
(* So every producer of this type errs towards `Unknown`."                 *)
PriorNeverWrong ==
  \A t \in Tasks : pc[t] = "trusting" => call[t].key \notin Chunked

=============================================================================

-------------------------- MODULE LazyLockerProofs --------------------------
(***************************************************************************)
(* What holds of a LazyLocker, and at the end of the streaming writers     *)
(* beside its calls (module Streams), for every set of keys, payloads,     *)
(* tasks and writers, every batch size, and any number of calls and faults.*)
(***************************************************************************)
EXTENDS Streams, TLAPS, FiniteSetTheorems

-----------------------------------------------------------------------------
(* Batches. *)

(* Composing two effects is an effect, and merging with no effect changes  *)
(* nothing (merge_batches, restage).                                       *)
LEMMA ThenType ==
  ASSUME NEW a \in Effects, NEW b \in Effects
  PROVE  Then(a, b) \in Effects
BY DEF Then, Effects

LEMMA ThenNoEffect ==
  ASSUME NEW a \in Effects
  PROVE  Then(NoEffect, a) = a /\ Then(a, NoEffect) = a
BY DEF Then, Effects, NoEffect

LEMMA EffectTypes ==
  /\ NoEffect \in Effects /\ ClearAll \in Effects
  /\ \A k \in Keys : DeleteOf(k) \in Effects
  /\ \A k \in Keys, v \in Vals : PutOf(k, v) \in Effects
  /\ NoBatch \in Batches
  /\ NoPlan \in [gc : SUBSET Nat, ids : [Keys -> Nat]]
BY DEF Effects, NoEffect, ClearAll, DeleteOf, PutOf, NoBatch, Batches, NoPlan

(* The values a batch sends to chunks are finitely many, so the cursor     *)
(* moves by a number (ValueIds::allocate, once per value).                 *)
LEMMA LargeCount ==
  ASSUME NEW b
  PROVE  LargeIn(b) \subseteq Keys /\ Cardinality(LargeIn(b)) \in Nat
<1>1. LargeIn(b) \subseteq Keys
  BY DEF LargeIn
<1>2. IsFiniteSet(LargeIn(b))
  BY <1>1, FS_Subset, LockerAssumption
<1> QED
  BY <1>1, <1>2, FS_CardinalityType

LEMMA IndexAfterType ==
  ASSUME NEW b, index \subseteq Keys
  PROVE  IndexAfter(b) \subseteq Keys
BY DEF IndexAfter

-----------------------------------------------------------------------------
(* Type correctness. *)

LEMMA InitTypeOK == Init => TypeOK
<1> SUFFICES ASSUME Init PROVE TypeOK
  OBVIOUS
<1>1. PICK old \in [Keys -> {Gone} \cup Vals] :
        \E ids \in [LargeIn(old) -> 1..Cardinality(LargeIn(old))] :
         /\ records = [k \in Keys |-> CASE old[k] = Gone -> NoRecord
                                        [] k \in LargeIn(old) -> Pointer(ids[k])
                                        [] OTHER -> Inline(old[k])]
         /\ chunks = {[id |-> ids[k], val |-> old[k]] : k \in LargeIn(old)}
         /\ nextId = Cardinality(LargeIn(old)) + 1
  BY DEF Init
<1>2. PICK ids \in [LargeIn(old) -> 1..Cardinality(LargeIn(old))] :
         /\ records = [k \in Keys |-> CASE old[k] = Gone -> NoRecord
                                        [] k \in LargeIn(old) -> Pointer(ids[k])
                                        [] OTHER -> Inline(old[k])]
         /\ chunks = {[id |-> ids[k], val |-> old[k]] : k \in LargeIn(old)}
         /\ nextId = Cardinality(LargeIn(old)) + 1
  BY <1>1
<1>3. Cardinality(LargeIn(old)) \in Nat /\ LargeIn(old) \subseteq Keys
  BY LargeCount
<1>4. nextId \in Nat
  BY <1>2, <1>3
<1>5. \A k \in LargeIn(old) : ids[k] \in Nat
  <2>1. 1..Cardinality(LargeIn(old)) \subseteq Nat
    BY <1>3
  <2> QED
    BY <2>1
<1>6. records \in [Keys -> Records]
  BY <1>2, <1>5 DEF Records, NoRecord, Pointer, Inline
<1>7. chunks \subseteq [id : Nat, val : LargeVals]
  <2>1. \A k \in LargeIn(old) : old[k] \in LargeVals
    BY DEF LargeIn
  <2>2. ASSUME NEW c \in chunks PROVE c \in [id : Nat, val : LargeVals]
    <3>1. PICK k \in LargeIn(old) : c = [id |-> ids[k], val |-> old[k]]
      BY <1>2
    <3> QED
      BY <3>1, <2>1, <1>5
  <2> QED
    BY <2>2
<1>8. index \subseteq Keys
  BY DEF Init, Stored
<1>9. NoRecord \in Records
  BY DEF NoRecord, Records
<1>10. NoCall \in CallRecords
  BY EffectTypes DEF NoCall, CallRecords, Operations, Keyed
<1> QED
  BY <1>4, <1>6, <1>7, <1>8, <1>9, <1>10, LockerAssumption, EffectTypes DEF Init, TypeOK, PCs

(* How a call ends. *)
Results == {"none", "ok", "err", "closed", "corrupt"}

LEMMA DoneType ==
  ASSUME TypeOK, NEW t \in Tasks, NEW r \in Results,
         Done(t, r) \/ Return(t, r)
  PROVE  /\ pc' \in [Tasks -> PCs] /\ res' \in [Tasks -> Results]
         /\ \A u \in Tasks : pc'[u] \in {"reading", "chunks"} => pc'[u] = pc[u]
<1>1. PICK stage \in {"idle", "discarding", "marking"} :
        pc' = [pc EXCEPT ![t] = stage] /\ res' = [res EXCEPT ![t] = r]
  BY DEF Done, Return
<1>2. pc \in [Tasks -> PCs] /\ res \in [Tasks -> Results] /\ stage \in PCs
  BY DEF TypeOK, PCs, Results
<1> QED
  BY <1>1, <1>2

LEMMA LeaveType ==
  ASSUME TypeOK, NEW t \in Tasks, NEW r \in Results, Leave(t, r)
  PROVE  /\ pc' \in [Tasks -> PCs] /\ res' \in [Tasks -> Results]
         /\ \A u \in Tasks : pc'[u] \in {"reading", "chunks"} => pc'[u] = pc[u]
         /\ taken' \in [Tasks -> Batches]
         /\ plan' \in [Tasks -> [gc : SUBSET Nat, ids : [Keys -> Nat]]]
         /\ writeLock' \in Tasks \cup {NoTask}
BY DoneType, EffectTypes DEF TypeOK, Leave, Drop

LEMMA StagedWithType ==
  ASSUME TypeOK, NEW t \in Tasks
  PROVE  /\ StagedWith(t) \in Batches
         /\ Commits(t) \in Effects
         /\ IndexAfter(call[t].does) \subseteq Keys
<1>1. /\ call[t].does \in Effects
      /\ staged.does \in Effects /\ staged.len \in Nat
      /\ taken[t].does \in Effects
  BY DEF TypeOK, Batches, CallRecords
<1>2. Then(staged.does, call[t].does) \in Effects /\ Then(taken[t].does, call[t].does) \in Effects
  BY <1>1, ThenType
<1>3. IndexAfter(call[t].does) \subseteq Keys
  BY IndexAfterType DEF TypeOK
<1> QED
  BY <1>1, <1>2, <1>3 DEF StagedWith, Commits, Batches

LEMMA InvokeType ==
  ASSUME TypeOK, NEW t \in Tasks, NEW o, NEW k, NEW b,
         [op |-> o, key |-> k, does |-> b] \in CallRecords, Invoke(t, o, k, b)
  PROVE  TypeOK'
<1>1. NoRecord \in Records
  BY DEF NoRecord, Records
<1> QED
  BY <1>1 DEF TypeOK, Invoke, store, resident, PCs

LEMMA CallType ==
  ASSUME TypeOK, NEW t \in Tasks, Call(t)
  PROVE  TypeOK'
<1>1. CASE \E k \in Keys, v \in Vals : Invoke(t, "put", k, PutOf(k, v))
  BY <1>1, InvokeType, EffectTypes DEF Operations, Keyed, CallRecords
<1>2. CASE \E k \in Keys : Invoke(t, "delete", k, DeleteOf(k)) \/ Invoke(t, "get", k, NoEffect)
  BY <1>2, InvokeType, EffectTypes DEF Operations, Keyed, CallRecords
<1>3. CASE \E o \in {"flush", "close"} : Invoke(t, o, NoKey, NoEffect)
  BY <1>3, InvokeType, EffectTypes DEF Operations, Keyed, CallRecords
<1>4. CASE Invoke(t, "clear", NoKey, ClearAll)
  BY <1>4, InvokeType, EffectTypes DEF Operations, Writes, Keyed, CallRecords
<1>5. CASE \E b \in TxBatches : Invoke(t, "transact", NoKey, b)
  BY <1>5, InvokeType, LockerAssumption DEF Operations, Keyed, CallRecords
<1> QED
  BY <1>1, <1>2, <1>3, <1>4, <1>5 DEF Call

LEMMA BuildType ==
  ASSUME TypeOK, NEW t \in Tasks, Build(t)
  PROVE  TypeOK'
<1> DEFINE large == LargeIn(Commits(t))
<1>1. large \subseteq Keys /\ Cardinality(large) \in Nat
  BY LargeCount
<1>2. PICK ids \in [large -> nextId .. nextId + Cardinality(large) - 1] :
        /\ nextId' = CursorAfter(large)
        /\ plan' = [plan EXCEPT ![t] =
             [gc  |-> IF pc[t] = "trusting" THEN {} ELSE ReplacedIds(Commits(t)),
              ids |-> [k \in Keys |-> IF k \in large THEN ids[k] ELSE 0]]]
  BY DEF Build
<1>3. \A k \in large : ids[k] \in Nat
  <2>1. nextId .. nextId + Cardinality(large) - 1 \subseteq Nat
    BY <1>1 DEF TypeOK
  <2> QED
    BY <2>1
<1>4. ReplacedIds(Commits(t)) \subseteq Nat
  BY DEF ReplacedIds, Chunked, TypeOK, Records
<1>5. plan' \in [Tasks -> [gc : SUBSET Nat, ids : [Keys -> Nat]]]
  BY <1>2, <1>3, <1>4 DEF TypeOK
<1>6. nextId' \in Nat
  BY <1>1, <1>2 DEF TypeOK, CursorAfter
<1>7. pc' \in [Tasks -> PCs]
  BY DEF Build, TypeOK, PCs
<1> QED
  BY <1>5, <1>6, <1>7 DEF TypeOK, Build, resident

LEMMA CommitType ==
  ASSUME TypeOK, NEW t \in Tasks, Commit(t)
  PROVE  TypeOK'
<1>1. Commits(t) \in Effects /\ plan[t].ids \in [Keys -> Nat]
  BY StagedWithType DEF TypeOK
<1>2. records' \in [Keys -> Records]
  BY <1>1 DEF Commit, TypeOK, Records, Effects, NoRecord, Inline, Pointer
<1>3. ASSUME NEW c \in chunks' PROVE c \in [id : Nat, val : LargeVals]
  <2>1. CASE c \in chunks
    BY <2>1 DEF TypeOK
  <2>2. CASE \E k \in LargeIn(Commits(t)) :
               c = [id |-> plan[t].ids[k], val |-> Commits(t)[k]]
    BY <2>2, <1>1 DEF LargeIn
  <2> QED
    BY <2>1, <2>2 DEF Commit
<1>4. pc' \in [Tasks -> PCs]
  BY DEF Commit, TypeOK, PCs
<1> QED
  BY <1>2, <1>3, <1>4 DEF TypeOK, Commit, resident, progress

(* Every action of the locker keeps the types. *)
LEMMA StepType ==
  ASSUME TypeOK, NEW t \in Tasks, Step(t)
  PROVE  TypeOK'
<1> USE DEF store, resident, progress
<1>1. CASE EnterWrite(t)
  BY <1>1, DoneType DEF EnterWrite, TypeOK, PCs, Results
<1>2. CASE EnterFlush(t)
  BY <1>2, DoneType DEF EnterFlush, TypeOK, PCs, Results
<1>3. CASE EnterGet(t)
  <2>1. got' \in [Tasks -> Records]
    <3>1. call[t].key \in Keys
      BY <1>3 DEF EnterGet, TypeOK, CallRecords, Keyed
    <3>2. staged.does[call[t].key] \in Vals \cup {Gone, Kept}
      BY <3>1 DEF TypeOK, Batches, Effects
    <3> DEFINE answer == IF staged.does[call[t].key] = Gone THEN NoRecord
                         ELSE Inline(staged.does[call[t].key])
    <3>3. staged.does[call[t].key] # Kept => answer \in Records
      BY <3>2 DEF Records, NoRecord, Inline
    <3>4. got' = got \/ (got' = [got EXCEPT ![t] = answer] /\ answer \in Records)
      BY <1>3, <3>3 DEF EnterGet
    <3> HIDE DEF answer
    <3> QED
      BY <3>4 DEF TypeOK
  <2>2. pc' \in [Tasks -> PCs] /\ res' \in [Tasks -> Results]
    BY <1>3, DoneType DEF EnterGet, TypeOK, PCs, Results
  <2> QED
    BY <1>3, <2>1, <2>2, DoneType DEF EnterGet, TypeOK, Results
<1>4. CASE StageOnly(t)
  BY <1>4, DoneType, StagedWithType DEF StageOnly, TypeOK, Results
<1>5. CASE StageAndFlush(t)
  BY <1>5, StagedWithType, EffectTypes DEF StageAndFlush, TakeStaged, TypeOK, PCs
<1>6. CASE LockWrite(t)
  BY <1>6 DEF LockWrite, TypeOK, PCs
<1>7. CASE LockTransact(t)
  BY <1>7 DEF LockTransact, TypeOK, PCs
<1>8. CASE LockFlush(t)
  <2>1. CASE staged.len = 0
    BY <1>8, <2>1, DoneType DEF LockFlush, TypeOK, Results
  <2>2. CASE staged.len # 0
    <3>1. /\ writeLock' = t
          /\ taken' = [taken EXCEPT ![t] = staged] /\ staged' = NoBatch
          /\ pc' = [pc EXCEPT ![t] = "fetching"]
          /\ UNCHANGED <<store, closed, index, knownInline, corrupt, call, plan,
                         got, res, calls, faults>>
      BY <1>8, <2>2 DEF LockFlush, TakeStaged
    <3>2. pc' \in [Tasks -> PCs]
      BY <3>1 DEF TypeOK, PCs
    <3> QED
      BY <3>1, <3>2, EffectTypes DEF TypeOK
  <2> QED
    BY <2>1, <2>2
<1>9. CASE ClosureRollback(t)
  BY <1>9, DoneType DEF ClosureRollback, TypeOK, Results
<1>10. CASE ClosureCommit(t)
  BY <1>10, EffectTypes DEF ClosureCommit, TakeStaged, TypeOK, PCs
<1>11. CASE Build(t)
  BY <1>11, BuildType
<1>12. CASE Commit(t)
  BY <1>12, CommitType
<1>13. CASE Fail(t)
  <2>1. staged' \in Batches
    BY <1>13, ThenType DEF Fail, Restage, TypeOK, Batches
  <2> QED
    BY <1>13, <2>1, LeaveType DEF Fail, TypeOK, Results
<1>14. CASE Finish(t)
  <2>1. index' \subseteq Keys /\ knownInline' \subseteq Keys
    BY <1>14, StagedWithType DEF Finish, TypeOK
  <2> QED
    BY <1>14, <2>1, LeaveType DEF Finish, TypeOK, Results
<1>15. CASE CloseDiscard(t)
  BY <1>15, EffectTypes DEF CloseDiscard, TypeOK, PCs
<1>16. CASE CloseMark(t)
  BY <1>16 DEF CloseMark, TypeOK, PCs
<1>17. CASE CloseClear(t)
  BY <1>17 DEF CloseClear, TypeOK, PCs
<1>18. CASE ReadRecord(t)
  <2>1. call[t].key \in Keys
    BY <1>18 DEF ReadRecord, TypeOK, CallRecords, Keyed
  <2> QED
    BY <1>18, <2>1, DoneType DEF ReadRecord, TypeOK, PCs, Results
<1>19. CASE ReadChunks(t)
  <2>1. \A c \in chunks : Inline(c.val) \in Records
    BY LockerAssumption DEF TypeOK, Records, Inline
  <2>2. got' \in [Tasks -> Records]
    BY <1>19, <2>1 DEF ReadChunks, TypeOK
  <2>3. /\ pc' \in [Tasks -> PCs] /\ res' \in [Tasks -> Results]
        /\ \A u \in Tasks : pc'[u] \in {"reading", "chunks"} => pc'[u] = pc[u]
    BY <1>19, DoneType DEF ReadChunks, Results
  <2>4. corrupt' \subseteq Keys
    BY <1>19 DEF ReadChunks, TypeOK, CallRecords, Keyed
  <2> QED
    BY <1>19, <2>2, <2>3, <2>4 DEF ReadChunks, TypeOK, Results
<1>20. CASE ReadFail(t)
  BY <1>20, DoneType DEF ReadFail, TypeOK, Results
<1> QED
  BY <1>1, <1>2, <1>3, <1>4, <1>5, <1>6, <1>7, <1>8, <1>9, <1>10, <1>11,
     <1>12, <1>13, <1>14, <1>15, <1>16, <1>17, <1>18, <1>19, <1>20 DEF Step

(* The state of the locker always has its types. *)
THEOREM TypeCorrect == Spec => []TypeOK
<1>1. TypeOK /\ [Next]_vars => TypeOK'
  <2> SUFFICES ASSUME TypeOK, [Next]_vars PROVE TypeOK'
    OBVIOUS
  <2>1. CASE Next
    BY <2>1, CallType, StepType DEF Next
  <2>2. CASE UNCHANGED vars
    BY <2>2 DEF vars, TypeOK
  <2> QED
    BY <2>1, <2>2
<1> QED
  BY InitTypeOK, <1>1, PTL DEF Spec

-----------------------------------------------------------------------------
(* What a step may change. *)

(* A step of one task leaves the calls of the others alone; the store is   *)
(* written by a landing commit only, the cursor moved by Build only, and   *)
(* each stretch under the lock is entered by one action.                   *)
Frame(t) ==
  /\ \A u \in Tasks \ {t} : /\ pc'[u] = pc[u] /\ call'[u] = call[u]
                            /\ taken'[u] = taken[u] /\ plan'[u] = plan[u]
  /\ pc'[t] = "trusting" => LockWrite(t)
  /\ pc'[t] = "committing" => Build(t)
  /\ pc'[t] = "landed" => Commit(t)
  /\ pc[t] = "landed" => Finish(t)
  /\ Commit(t) \/ (records' = records /\ chunks' = chunks)
  /\ Build(t) \/ nextId' = nextId
  /\ closed => closed'
  /\ call' = call \/ pc'[t] = "entered"
  /\ \/ index' = index /\ knownInline' = knownInline
     \/ closed' \/ Deferred \/ Finish(t)

LEMMA CallFrame ==
  ASSUME TypeOK, NEW t \in Tasks, Call(t)
  PROVE  Frame(t)
<1>1. PICK o, k, b : Invoke(t, o, k, b)
  BY DEF Call
<1> QED
  BY <1>1 DEF Invoke, Frame, TypeOK, store, resident

LEMMA StepFrame ==
  ASSUME TypeOK, ClearingIsClosed, NEW t \in Tasks, Step(t)
  PROVE  Frame(t)
<1> USE DEF store, resident, progress, TypeOK, Frame
<1>1. CASE EnterWrite(t)
  BY <1>1 DEF EnterWrite, Return
<1>2. CASE EnterFlush(t)
  BY <1>2 DEF EnterFlush, Done
<1>3. CASE EnterGet(t)
  BY <1>3 DEF EnterGet, Return
<1>4. CASE StageOnly(t)
  BY <1>4 DEF StageOnly, Return
<1>5. CASE StageAndFlush(t)
  BY <1>5 DEF StageAndFlush, TakeStaged
<1>6. CASE LockWrite(t)
  BY <1>6 DEF LockWrite
<1>7. CASE LockTransact(t)
  BY <1>7 DEF LockTransact
<1>8. CASE LockFlush(t)
  BY <1>8 DEF LockFlush, TakeStaged, Done
<1>9. CASE ClosureRollback(t)
  BY <1>9 DEF ClosureRollback, Return
<1>10. CASE ClosureCommit(t)
  BY <1>10 DEF ClosureCommit, TakeStaged
<1>11. CASE Build(t)
  BY <1>11 DEF Build
<1>12. CASE Commit(t)
  BY <1>12 DEF Commit
<1>13. CASE Fail(t)
  BY <1>13 DEF Fail, Fallible, Leave, Drop, Done
<1>14. CASE Finish(t)
  BY <1>14 DEF Finish, Leave, Drop, Done
<1>15. CASE CloseDiscard(t)
  BY <1>15 DEF CloseDiscard
<1>16. CASE CloseMark(t)
  BY <1>16 DEF CloseMark
<1>17. CASE CloseClear(t)
  BY <1>17 DEF CloseClear, ClearingIsClosed
<1>18. CASE ReadRecord(t)
  BY <1>18 DEF ReadRecord, Return
<1>19. CASE ReadChunks(t)
  BY <1>19 DEF ReadChunks, Return
<1>20. CASE ReadFail(t)
  BY <1>20 DEF ReadFail, Return
<1> QED
  BY <1>1, <1>2, <1>3, <1>4, <1>5, <1>6, <1>7, <1>8, <1>9, <1>10, <1>11,
     <1>12, <1>13, <1>14, <1>15, <1>16, <1>17, <1>18, <1>19, <1>20 DEF Step

LEMMA NextFrame ==
  ASSUME TypeOK, ClearingIsClosed, NEW t \in Tasks, Call(t) \/ Step(t)
  PROVE  Frame(t)
BY CallFrame, StepFrame

-----------------------------------------------------------------------------
(* The lock, and what the calls are. *)

(* One task at a time is in a stretch that holds the lock. *)
LEMMA LockStep ==
  ASSUME TypeOK, LockHeld, ClearingIsClosed, NEW t \in Tasks, Call(t) \/ Step(t)
  PROVE  LockHeld' /\ ClearingIsClosed'
<1> USE LockerAssumption
<1> USE DEF LockHeld, ClearingIsClosed, TypeOK, Locked
<1>0. CASE Call(t)
  <2>1. PICK o, k, b : Invoke(t, o, k, b)
    BY <1>0 DEF Call
  <2> QED
    BY <2>1 DEF Invoke
<1>1. CASE EnterWrite(t)
  BY <1>1 DEF EnterWrite, Return
<1>2. CASE EnterFlush(t)
  BY <1>2 DEF EnterFlush, Done
<1>3. CASE EnterGet(t)
  BY <1>3 DEF EnterGet, Return
<1>4. CASE StageOnly(t)
  BY <1>4 DEF StageOnly, Return
<1>5. CASE StageAndFlush(t)
  BY <1>5 DEF StageAndFlush, TakeStaged
<1>6. CASE LockWrite(t)
  BY <1>6 DEF LockWrite
<1>7. CASE LockTransact(t)
  BY <1>7 DEF LockTransact
<1>8. CASE LockFlush(t)
  BY <1>8 DEF LockFlush, TakeStaged, Done
<1>9. CASE ClosureRollback(t)
  <2>1. pc[t] = "closure" /\ pc' = [pc EXCEPT ![t] = "idle"] /\ closed' = closed
    BY <1>9 DEF ClosureRollback, Return
  <2>2. \A u \in Tasks \ {t} : pc[u] \notin Locked
    BY <2>1
  <2>3. \A u \in Tasks : pc'[u] \notin Locked
    BY <2>1, <2>2
  <2>4. \A u \in Tasks : pc'[u] = "clearing" => pc[u] = "clearing"
    BY <2>1
  <2> QED
    BY <2>1, <2>3, <2>4
<1>10. CASE ClosureCommit(t)
  BY <1>10 DEF ClosureCommit, TakeStaged
<1>11. CASE Build(t)
  BY <1>11 DEF Build
<1>12. CASE Commit(t)
  BY <1>12 DEF Commit
<1>13. CASE Fail(t)
  BY <1>13 DEF Fail, Fallible, Leave, Drop, Done
<1>14. CASE Finish(t)
  BY <1>14 DEF Finish, Leave, Drop, Done
<1>15. CASE CloseDiscard(t)
  BY <1>15 DEF CloseDiscard
<1>16. CASE CloseMark(t)
  BY <1>16 DEF CloseMark
<1>17. CASE CloseClear(t)
  BY <1>17 DEF CloseClear
<1>18. CASE ReadRecord(t)
  BY <1>18 DEF ReadRecord, Return
<1>19. CASE ReadChunks(t)
  BY <1>19 DEF ReadChunks, Return
<1>20. CASE ReadFail(t)
  BY <1>20 DEF ReadFail, Return
<1> QED
  BY <1>0, <1>1, <1>2, <1>3, <1>4, <1>5, <1>6, <1>7, <1>8, <1>9, <1>10, <1>11,
     <1>12, <1>13, <1>14, <1>15, <1>16, <1>17, <1>18, <1>19, <1>20 DEF Step

(* An immediate locker never has a staged batch to lose or to merge. *)
LEMMA ImmediateStep ==
  ASSUME TypeOK, ImmediateStagesNothing, NEW t \in Tasks, Call(t) \/ Step(t)
  PROVE  ImmediateStagesNothing'
<1> SUFFICES ASSUME ~Deferred
             PROVE  staged' = NoBatch /\ \A u \in Tasks : taken'[u] = NoBatch
  BY DEF ImmediateStagesNothing
<1>1. staged = NoBatch /\ \A u \in Tasks : taken[u] = NoBatch
  BY DEF ImmediateStagesNothing
<1>2. CASE Call(t)
  <2>1. PICK o, k, b : Invoke(t, o, k, b)
    BY <1>2 DEF Call
  <2> QED
    BY <1>1, <2>1 DEF Invoke, resident
<1>3. CASE StageOnly(t) \/ StageAndFlush(t)
  BY <1>3 DEF StageOnly, StageAndFlush
<1>4. CASE LockFlush(t) \/ ClosureCommit(t)
  BY <1>1, <1>4 DEF LockFlush, ClosureCommit, TakeStaged, TypeOK
<1>5. CASE Fail(t)
  <2>1. Then(NoEffect, NoEffect) = NoEffect
    BY ThenNoEffect, EffectTypes
  <2>2. staged' = NoBatch
    BY <1>1, <1>5, <2>1 DEF Fail, Restage, NoBatch
  <2> QED
    BY <1>1, <1>5, <2>2 DEF Fail, Leave, Drop, TypeOK
<1>6. CASE Finish(t)
  BY <1>1, <1>6 DEF Finish, Leave, Drop, TypeOK
<1>7. CASE CloseDiscard(t)
  BY <1>1, <1>7 DEF CloseDiscard, progress
<1>8. CASE EnterWrite(t) \/ EnterFlush(t) \/ EnterGet(t) \/ LockWrite(t)
           \/ LockTransact(t) \/ ClosureRollback(t) \/ Build(t) \/ Commit(t)
           \/ CloseMark(t) \/ CloseClear(t)
           \/ ReadRecord(t) \/ ReadChunks(t) \/ ReadFail(t)
  BY <1>1, <1>8 DEF EnterWrite, EnterFlush, EnterGet, LockWrite, LockTransact,
     ClosureRollback, Build, Commit, CloseMark, CloseClear, ReadRecord,
     ReadChunks, ReadFail, resident, progress
<1> QED
  BY <1>2, <1>3, <1>4, <1>5, <1>6, <1>7, <1>8 DEF Step

(* A put or a delete touches the key it names, a get, a flush and a close  *)
(* touch none; and only an immediate put or delete trusts the index.       *)
LEMMA KeyedStep ==
  ASSUME TypeOK, ClearingIsClosed, KeyedCalls, NEW t \in Tasks, Call(t) \/ Step(t)
  PROVE  KeyedCalls'
<1>1. Frame(t)
  BY NextFrame
<1>2. CASE Call(t)
  <2>1. PICK o, k, b :
          /\ Invoke(t, o, k, b)
          /\ o \in {"put", "delete"} => \A l \in Keys : l = k \/ b[l] = Kept
          /\ o \notin Writes \cup {"transact"} => b = NoEffect
    BY <1>2 DEF Call, PutOf, DeleteOf, NoEffect, Writes
  <2> QED
    BY <2>1 DEF Invoke, KeyedCalls, TypeOK
<1>3. CASE Step(t)
  <2>1. call' = call
    BY <1>3 DEF Step, EnterWrite, EnterFlush, EnterGet, StageOnly, StageAndFlush,
       LockWrite, LockTransact, LockFlush, ClosureRollback, ClosureCommit, Build,
       Commit, Fail, Finish, CloseDiscard, CloseMark, CloseClear, ReadRecord,
       ReadChunks, ReadFail, progress
  <2>2. ASSUME NEW u \in Tasks, pc'[u] = "trusting"
        PROVE  ~Deferred /\ call[u].op \in {"put", "delete"}
    <3>1. CASE u # t
      BY <1>1, <2>2, <3>1 DEF Frame, KeyedCalls
    <3>2. CASE u = t
      BY <1>1, <2>2, <3>2 DEF Frame, LockWrite, Writes, TypeOK
    <3> QED
      BY <3>1, <3>2
  <2> QED
    BY <2>1, <2>2 DEF KeyedCalls
<1> QED
  BY <1>2, <1>3

-----------------------------------------------------------------------------
(* The store. *)

(* With the lock held by t, no other call is in a locked stretch. *)
LEMMA OnlyHolder ==
  ASSUME LockHeld, NEW t \in Tasks, NEW u \in Tasks,
         pc[t] \in Locked, pc[u] \in Locked
  PROVE  u = t
BY DEF LockHeld

(* A call whose batch and own writes do not change commits the same. *)
LEMMA SameCommits ==
  ASSUME NEW u, taken'[u] = taken[u], call'[u] = call[u]
  PROVE  Commits(u)' = Commits(u) /\ LargeIn(Commits(u))' = LargeIn(Commits(u))
BY DEF Commits, LargeIn, Then

(* What Build leaves for the commit: ids just allocated and distinct, and  *)
(* exactly the chunks to delete, or none on the word of the index.         *)
LEMMA BuildPlan ==
  ASSUME TypeOK, NEW t \in Tasks, Build(t)
  PROVE  LET large == LargeIn(Commits(t)) IN
         /\ nextId' \in Nat /\ nextId <= nextId'
         /\ \A k \in large : /\ plan'[t].ids[k] \in Nat
                             /\ nextId <= plan'[t].ids[k]
                             /\ plan'[t].ids[k] < nextId'
         /\ \A k, l \in large : plan'[t].ids[k] = plan'[t].ids[l] => k = l
         /\ plan'[t].gc = IF pc[t] = "trusting" THEN {} ELSE ReplacedIds(Commits(t))
<1> DEFINE large == LargeIn(Commits(t))
           next  == nextId + Cardinality(large)
<1>1. large \subseteq Keys /\ Cardinality(large) \in Nat /\ nextId \in Nat
  BY LargeCount DEF TypeOK
<1>2. PICK ids \in [large -> nextId .. nextId + Cardinality(large) - 1] :
        /\ \A k, l \in large : ids[k] = ids[l] => k = l
        /\ nextId' = CursorAfter(large)
        /\ plan' = [plan EXCEPT ![t] =
             [gc  |-> IF pc[t] = "trusting" THEN {} ELSE ReplacedIds(Commits(t)),
              ids |-> [k \in Keys |-> IF k \in large THEN ids[k] ELSE 0]]]
  BY DEF Build
<1>6. nextId' = next
  BY <1>2 DEF CursorAfter
<1>3. /\ plan'[t].gc = IF pc[t] = "trusting" THEN {} ELSE ReplacedIds(Commits(t))
      /\ plan'[t].ids = [k \in Keys |-> IF k \in large THEN ids[k] ELSE 0]
  BY <1>2 DEF TypeOK
<1> HIDE DEF large
<1>4. \A k \in large : plan'[t].ids[k] = ids[k] /\ ids[k] \in nextId .. next - 1
  BY <1>1, <1>2, <1>3
<1>5. \A i \in nextId .. next - 1 : i \in Nat /\ nextId <= i /\ i < next
  BY <1>1
<1> QED
  BY <1>1, <1>2, <1>3, <1>4, <1>5, <1>6 DEF large

(* The ids of stored chunks after a commit: those it kept and its own. *)
LEMMA CommitIds ==
  ASSUME NEW t \in Tasks, Commit(t)
  PROVE  ChunkIds' = (ChunkIds \ plan[t].gc)
                     \cup {plan[t].ids[k] : k \in LargeIn(Commits(t))}
<1> DEFINE new == {[id |-> plan[t].ids[k], val |-> Commits(t)[k]] : k \in LargeIn(Commits(t))}
<1>1. chunks' = {c \in chunks : c.id \notin plan[t].gc} \cup new
  BY DEF Commit
<1>2. \A i : i \in ChunkIds' <=> \E c \in chunks' : c.id = i
  BY DEF ChunkIds
<1>3. \A i : i \in ChunkIds <=> \E c \in chunks : c.id = i
  BY DEF ChunkIds
<1>4. \A i : (\E c \in new : c.id = i)
             <=> \E k \in LargeIn(Commits(t)) : plan[t].ids[k] = i
  <2> TAKE i
  <2>1. ASSUME NEW k \in LargeIn(Commits(t)), plan[t].ids[k] = i
        PROVE  \E c \in new : c.id = i
    <3>1. [id |-> plan[t].ids[k], val |-> Commits(t)[k]] \in new
      OBVIOUS
    <3> QED
      BY <2>1, <3>1
  <2> QED
    BY <2>1
<1> HIDE DEF new
<1> QED
  BY <1>1, <1>2, <1>3, <1>4

(* The records after a commit: one that points to chunks was kept, or      *)
(* points to the new chunks of its key.                                    *)
LEMMA CommitRecords ==
  ASSUME TypeOK, NEW t \in Tasks, Commit(t), NEW k \in Keys
  PROVE  /\ Commits(t)[k] = Kept => records'[k] = records[k]
         /\ Commits(t)[k] = Gone => records'[k] = NoRecord
         /\ k \in LargeIn(Commits(t)) => records'[k] = Pointer(plan[t].ids[k])
         /\ Commits(t)[k] \in Vals \ LargeVals => records'[k] = Inline(Commits(t)[k])
         /\ k \in Chunked' <=> \/ Commits(t)[k] = Kept /\ k \in Chunked
                              \/ k \in LargeIn(Commits(t))
<1>1. Commits(t)[k] \in Vals \cup {Gone, Kept}
  BY StagedWithType DEF Effects
<1>2. records'[k] = CASE Commits(t)[k] = Kept -> records[k]
                      [] Commits(t)[k] = Gone -> NoRecord
                      [] Commits(t)[k] \in LargeVals -> Pointer(plan[t].ids[k])
                      [] OTHER -> Inline(Commits(t)[k])
  BY DEF Commit
<1>3. k \in LargeIn(Commits(t)) <=> Commits(t)[k] \in LargeVals
  BY DEF LargeIn
<1>4. /\ NoRecord.kind # "pointer"
      /\ \A v : Inline(v).kind # "pointer"
      /\ \A i : Pointer(i).kind = "pointer"
  BY DEF NoRecord, Inline, Pointer
<1> QED
  BY <1>1, <1>2, <1>3, <1>4, BatchAssumption, LockerAssumption DEF Chunked

(* Ids stay fresh: no two values share one, none is given out again. *)
LEMMA IdsFreshStep ==
  ASSUME TypeOK, LockHeld, ClearingIsClosed, IdsFresh,
         NEW t \in Tasks, Call(t) \/ Step(t)
  PROVE  IdsFresh'
<1>1. Frame(t)
  BY NextFrame
<1>2. /\ nextId \in Nat /\ nextId' \in Nat /\ nextId <= nextId'
      /\ ChunkIds \subseteq Nat
  BY <1>1, BuildPlan DEF Frame, TypeOK, ChunkIds
<1>3. ASSUME NEW i \in ChunkIds' PROVE i < nextId'
  <2>1. CASE Commit(t)
    <3>1. nextId' = nextId /\ pc[t] = "committing"
      BY <2>1 DEF Commit
    <3> QED
      BY <2>1, <3>1, CommitIds DEF IdsFresh
  <2>2. CASE ~Commit(t)
    <3>1. i \in ChunkIds
      BY <1>1, <2>2 DEF Frame, ChunkIds
    <3>2. i \in Nat /\ i < nextId
      BY <1>2, <3>1 DEF IdsFresh
    <3> QED
      BY <1>2, <3>2
  <2> QED
    BY <2>1, <2>2
<1>4. ASSUME NEW u \in Tasks, pc'[u] = "committing"
      PROVE  LET large == LargeIn(Commits(u))' IN
             /\ \A k \in large : plan'[u].ids[k] < nextId' /\ plan'[u].ids[k] \notin ChunkIds'
             /\ \A k, l \in large : plan'[u].ids[k] = plan'[u].ids[l] => k = l
  <2>1. CASE u = t
    <3>1. Build(t)
      BY <1>1, <1>4, <2>1 DEF Frame
    <3>2. taken' = taken /\ call' = call /\ chunks' = chunks
      BY <3>1 DEF Build
    <3>3. LargeIn(Commits(t))' = LargeIn(Commits(t))
      BY <3>2, SameCommits
    <3>4. ChunkIds' = ChunkIds
      BY <3>2 DEF ChunkIds
    <3>5. \A i \in ChunkIds : i < nextId
      BY DEF IdsFresh
    <3>6. \A k \in LargeIn(Commits(t)) : plan'[t].ids[k] \notin ChunkIds
      BY <3>1, <3>5, <1>2, BuildPlan
    <3> QED
      BY <2>1, <3>1, <3>3, <3>4, <3>6, BuildPlan
  <2>2. CASE u # t
    <3>1. /\ pc[u] = "committing" /\ plan'[u] = plan[u]
          /\ taken'[u] = taken[u] /\ call'[u] = call[u]
      BY <1>1, <1>4, <2>2 DEF Frame
    <3>2. LargeIn(Commits(u))' = LargeIn(Commits(u))
      BY <3>1, SameCommits
    <3>3. ~Commit(t)
      BY <2>2, <3>1, OnlyHolder DEF Commit, Locked
    <3>4. ChunkIds' = ChunkIds
      BY <1>1, <3>3 DEF Frame, ChunkIds
    <3>5. /\ \A k \in LargeIn(Commits(u)) : plan[u].ids[k] < nextId /\ plan[u].ids[k] \notin ChunkIds
          /\ \A k, l \in LargeIn(Commits(u)) : plan[u].ids[k] = plan[u].ids[l] => k = l
      BY <3>1 DEF IdsFresh
    <3>6. \A k \in LargeIn(Commits(u)) : plan[u].ids[k] \in Nat
      BY DEF TypeOK, LargeIn
    <3>7. \A k \in LargeIn(Commits(u)) : plan[u].ids[k] < nextId'
      BY <1>2, <3>5, <3>6
    <3> QED
      BY <3>1, <3>2, <3>4, <3>5, <3>7
  <2> QED
    BY <2>1, <2>2
<1> QED
  BY <1>3, <1>4 DEF IdsFresh

(* A call that trusts the index is told the truth: its key is not chunked, *)
(* so it commits over no chunks.                                           *)
LEMMA TrustingReplacesNothing ==
  ASSUME TypeOK, ImmediateStagesNothing, KeyedCalls, NEW t \in Tasks,
         pc[t] = "trusting", call[t].key \notin Chunked
  PROVE  ReplacedIds(Commits(t)) = {}
<1>1. /\ ~Deferred
      /\ \A k \in Keys : k = call[t].key \/ call[t].does[k] = Kept
  BY DEF KeyedCalls
<1>2. taken[t].does = NoEffect /\ call[t].does \in Effects
  BY <1>1 DEF ImmediateStagesNothing, NoBatch, TypeOK, CallRecords
<1>3. Commits(t) = call[t].does
  BY <1>2, ThenNoEffect DEF Commits
<1>4. Touched(Commits(t)) \cap Chunked = {}
  BY <1>1, <1>3 DEF Touched, Chunked
<1> QED
  BY <1>4 DEF ReplacedIds

(* What a call has read, or was told by the index, holds until it commits: *)
(* nothing else writes the records while it has the lock.                  *)
LEMMA PlanStep ==
  ASSUME TypeOK, LockHeld, ClearingIsClosed, ImmediateStagesNothing, KeyedCalls,
         PlanMatchesStore, IndexCovers, NEW t \in Tasks, Call(t) \/ Step(t)
  PROVE  PlanMatchesStore'
<1>1. Frame(t)
  BY NextFrame
<1>2. ASSUME NEW u \in Tasks, u # t, pc'[u] \in {"committing", "trusting"}
      PROVE  /\ pc[u] = pc'[u] /\ plan'[u] = plan[u] /\ call'[u] = call[u]
             /\ Chunked' = Chunked
             /\ ReplacedIds(Commits(u))' = ReplacedIds(Commits(u))
  <2>1. /\ pc[u] = pc'[u] /\ plan'[u] = plan[u]
        /\ taken'[u] = taken[u] /\ call'[u] = call[u]
    BY <1>1, <1>2 DEF Frame
  <2>2. ~Commit(t)
    BY <1>2, <2>1, OnlyHolder DEF Commit, Locked
  <2>3. records' = records
    BY <1>1, <2>2 DEF Frame
  <2>4. Commits(u)' = Commits(u)
    BY <2>1, SameCommits
  <2> QED
    BY <2>1, <2>3, <2>4 DEF Chunked, ReplacedIds, Touched
<1>3. ASSUME pc'[t] = "committing"
      PROVE  /\ plan'[t].gc \subseteq ReplacedIds(Commits(t))'
             /\ ~closed' => ReplacedIds(Commits(t))' \subseteq plan'[t].gc
  <2>1. Build(t)
    BY <1>1, <1>3 DEF Frame
  <2>2. taken' = taken /\ call' = call /\ records' = records /\ closed' = closed
    BY <2>1 DEF Build
  <2>3. Commits(t)' = Commits(t)
    BY <2>2, SameCommits
  <2>4. ReplacedIds(Commits(t))' = ReplacedIds(Commits(t))
    BY <2>2, <2>3 DEF ReplacedIds, Chunked, Touched
  <2>5. plan'[t].gc = IF pc[t] = "trusting" THEN {} ELSE ReplacedIds(Commits(t))
    BY <2>1, BuildPlan
  <2>6. pc[t] = "trusting" /\ ~closed => ReplacedIds(Commits(t)) = {}
    BY TrustingReplacesNothing DEF PlanMatchesStore
  <2> QED
    BY <2>2, <2>4, <2>5, <2>6
<1>4. ASSUME pc'[t] = "trusting", ~closed'
      PROVE  call'[t].key \notin Chunked'
  <2>1. LockWrite(t)
    BY <1>1, <1>4 DEF Frame
  <2>2. /\ call' = call /\ records' = records /\ closed' = closed /\ ~Deferred
        /\ writeLock = NoTask
        /\ call[t].op \in {"put", "delete"} /\ PriorKnown(call[t].key)
    BY <1>4, <2>1 DEF LockWrite, store, progress, Writes, TypeOK
  <2>3. call[t].key \in Keys
    BY <2>2 DEF TypeOK, CallRecords, Keyed
  <2>4. \A u \in Tasks : pc[u] # "landed"
    BY <2>2, LockerAssumption DEF LockHeld, Locked
  <2>5. /\ call[t].key \in Stored => call[t].key \in index
        /\ call[t].key \in Chunked => call[t].key \notin knownInline
    BY <1>4, <2>2, <2>3, <2>4 DEF IndexCovers
  <2>6. call[t].key \notin Chunked
    BY <2>2, <2>5 DEF PriorKnown, Stored, Chunked
  <2> QED
    BY <2>2, <2>6 DEF Chunked
<1>5. closed => closed'
  BY <1>1 DEF Frame
<1> QED
  BY <1>2, <1>3, <1>4, <1>5 DEF PlanMatchesStore, TypeOK

(* The index follows the store: it lags by one landed commit at most, and  *)
(* the call that landed it brings it up to date before it lets go of the   *)
(* lock.                                                                   *)
LEMMA IndexStep ==
  ASSUME TypeOK, LockHeld, ClearingIsClosed, ImmediateStagesNothing, KeyedCalls,
         IndexCovers, LandedMatchesStore, NEW t \in Tasks, Call(t) \/ Step(t)
  PROVE  IndexCovers' /\ LandedMatchesStore'
<1>1. Frame(t)
  BY NextFrame
<1>2. CASE Deferred
  BY <1>2 DEF IndexCovers, LandedMatchesStore
<1>3. CASE ~Deferred /\ Commit(t)
  <2>1. /\ pc[t] = "committing" /\ pc' = [pc EXCEPT ![t] = "landed"]
        /\ call' = call /\ index' = index /\ knownInline' = knownInline /\ closed' = closed
    BY <1>3 DEF Commit, resident, progress
  <2>2. Commits(t) = call[t].does
    BY <1>3, ThenNoEffect DEF Commits, ImmediateStagesNothing, NoBatch, TypeOK, CallRecords
  <2>3. \A u \in Tasks : pc[u] # "landed" /\ (pc'[u] = "landed" => u = t)
    <3>1. \A u \in Tasks : pc[u] = "landed" => u = t
      BY <2>1, OnlyHolder DEF Locked
    <3> QED
      BY <2>1, <3>1 DEF TypeOK
  <2>4. ASSUME NEW k \in Keys
        PROVE  /\ call[t].does[k] = Kept => (k \in Stored' <=> k \in Stored)
               /\ call[t].does[k] = Kept => (k \in Chunked' <=> k \in Chunked)
               /\ call[t].does[k] = Gone => k \notin Stored'
               /\ call[t].does[k] \in Vals \ LargeVals => k \notin Chunked'
    <3>1. /\ call[t].does[k] = Kept => records'[k] = records[k]
          /\ call[t].does[k] = Gone => records'[k] = NoRecord
          /\ call[t].does[k] \in Vals \ LargeVals => records'[k] = Inline(call[t].does[k])
      BY <1>3, <2>2, CommitRecords
    <3>2. /\ k \in Stored' <=> records'[k].kind # "none"
          /\ k \in Stored <=> records[k].kind # "none"
          /\ k \in Chunked' <=> records'[k].kind = "pointer"
          /\ k \in Chunked <=> records[k].kind = "pointer"
      BY DEF Stored, Chunked
    <3>3. NoRecord.kind = "none" /\ \A v : Inline(v).kind = "inline"
      BY DEF NoRecord, Inline
    <3> QED
      BY <3>1, <3>2, <3>3
  <2>5. LandedMatchesStore'
    BY <2>1, <2>3, <2>4 DEF LandedMatchesStore
  <2>6. pc'[t] = "landed"
    BY <2>1 DEF TypeOK
  <2>7. IndexCovers'
    BY <2>1, <2>3, <2>4, <2>6 DEF IndexCovers
  <2> QED
    BY <2>5, <2>7
<1>4. CASE ~Deferred /\ Finish(t)
  <2>1. /\ pc[t] = "landed" /\ call' = call /\ closed' = closed
        /\ Stored' = Stored /\ Chunked' = Chunked
    BY <1>4 DEF Finish, store, Stored, Chunked
  <2>2. \A u \in Tasks : pc'[u] # "landed"
    <3>1. \A u \in Tasks : pc[u] = "landed" => u = t
      BY <2>1, OnlyHolder DEF Locked
    <3>2. pc'[t] # "landed"
      BY <1>4 DEF Finish, Leave, Done, TypeOK
    <3> QED
      BY <1>1, <3>1, <3>2 DEF Frame
  <2>3. ASSUME ~closed, NEW k \in Keys
        PROVE  (k \in Stored => k \in index') /\ (k \in Chunked => k \notin knownInline')
    <3>1. call[t].does \in Effects
      BY DEF TypeOK, CallRecords
    <3>2. call[t].does[k] \in Vals \cup {Gone, Kept}
      BY <3>1 DEF Effects
    <3>3. /\ call[t].does[k] = Gone => k \notin Stored
          /\ call[t].does[k] \in Vals \ LargeVals => k \notin Chunked
      BY <1>4, <2>1 DEF LandedMatchesStore
    <3>4. call[t].does[k] = Kept =>
            (k \in Stored => k \in index) /\ (k \in Chunked => k \notin knownInline)
      <4>1. \A u \in Tasks : pc[u] = "landed" => u = t
        BY <2>1, OnlyHolder DEF Locked
      <4> QED
        BY <1>4, <2>3, <4>1 DEF IndexCovers
    <3>5. k \in Stored => k \in IndexAfter(call[t].does)
      BY <3>2, <3>3, <3>4 DEF IndexAfter, Touched
    <3>6. CASE call[t].op = "transact"
      BY <1>4, <3>5, <3>6 DEF Finish
    <3>7. CASE call[t].op \notin Writes \cup {"transact"}
      <4>1. call[t].does[k] = Kept
        BY <3>7 DEF KeyedCalls, NoEffect
      <4>2. index' = index /\ knownInline' = knownInline
        BY <1>4, <3>7 DEF Finish
      <4> QED
        BY <3>4, <4>1, <4>2
    <3>8. CASE call[t].op \in Writes
      <4>1. /\ index' = IndexAfter(call[t].does)
            /\ knownInline' = (knownInline \ Touched(call[t].does))
                 \cup {l \in Keys : call[t].does[l] \in Vals \ LargeVals}
        BY <1>4, <3>8 DEF Finish, Writes
      <4>2. k \in Chunked => k \notin knownInline'
        BY <4>1, <3>2, <3>3, <3>4 DEF Touched
      <4> QED
        BY <3>5, <4>1, <4>2
    <3> QED
      BY <3>6, <3>7, <3>8
  <2> QED
    BY <2>1, <2>2, <2>3 DEF IndexCovers, LandedMatchesStore
<1>5. CASE ~Deferred /\ ~Commit(t) /\ ~Finish(t)
  <2>1. Stored' = Stored /\ Chunked' = Chunked
    BY <1>1, <1>5 DEF Frame, Stored, Chunked
  <2>2. \/ index' = index /\ knownInline' = knownInline
        \/ closed'
    BY <1>1, <1>5 DEF Frame
  <2>3. \A u \in Tasks : /\ pc'[u] = "landed" <=> pc[u] = "landed"
                         /\ pc[u] = "landed" => call'[u] = call[u]
    BY <1>1, <1>5 DEF Frame
  <2>4. closed => closed'
    BY <1>1 DEF Frame
  <2>5. LandedMatchesStore'
    <3> SUFFICES ASSUME NEW u \in Tasks, pc'[u] = "landed", NEW k \in Keys
                 PROVE  /\ call'[u].does[k] = Gone => k \notin Stored'
                        /\ call'[u].does[k] \in Vals \ LargeVals => k \notin Chunked'
      BY DEF LandedMatchesStore
    <3>1. pc[u] = "landed" /\ call'[u] = call[u]
      BY <2>3
    <3> QED
      BY <1>5, <2>1, <3>1 DEF LandedMatchesStore
  <2>6. IndexCovers'
    <3> SUFFICES ASSUME ~closed', NEW k \in Keys
                 PROVE  \/ (k \in Stored' => k \in index')
                             /\ (k \in Chunked' => k \notin knownInline')
                        \/ \E u \in Tasks : pc'[u] = "landed" /\ call'[u].does[k] # Kept
      BY DEF IndexCovers
    <3>1. ~closed /\ index' = index /\ knownInline' = knownInline
      BY <2>2, <2>4
    <3>2. CASE \E u \in Tasks : pc[u] = "landed" /\ call[u].does[k] # Kept
      BY <2>3, <3>2
    <3>3. CASE (k \in Stored => k \in index) /\ (k \in Chunked => k \notin knownInline)
      BY <2>1, <3>1, <3>3
    <3> QED
      BY <1>5, <3>1, <3>2, <3>3 DEF IndexCovers
  <2> QED
    BY <2>5, <2>6
<1> QED
  BY <1>2, <1>3, <1>4, <1>5

(* A landing commit keeps every pointer's chunks, gives none two owners,   *)
(* and while the locker is open leaves no chunk behind.                    *)
LEMMA StoreStep ==
  ASSUME TypeOK, LockHeld, ClearingIsClosed, IdsFresh, PlanMatchesStore,
         NoDanglingPointer, NoSharedIds, NoOrphanWhileOpen,
         NEW t \in Tasks, Call(t) \/ Step(t)
  PROVE  NoDanglingPointer' /\ NoSharedIds' /\ NoOrphanWhileOpen'
<1>1. Frame(t)
  BY NextFrame
<1>2. CASE ~Commit(t)
  BY <1>1, <1>2 DEF Frame, NoDanglingPointer, NoSharedIds, NoOrphanWhileOpen,
     Chunked, ChunkIds
<1>3. CASE Commit(t)
  <2> DEFINE does == Commits(t)
             large == LargeIn(does)
  <2>1. pc[t] = "committing" /\ closed' = closed
    BY <1>3 DEF Commit
  <2>2. /\ \A k \in large : plan[t].ids[k] \notin ChunkIds
        /\ \A k, l \in large : plan[t].ids[k] = plan[t].ids[l] => k = l
        /\ plan[t].gc \subseteq ReplacedIds(does)
        /\ ~closed => ReplacedIds(does) \subseteq plan[t].gc
    BY <2>1 DEF IdsFresh, PlanMatchesStore
  <2>3. ChunkIds' = (ChunkIds \ plan[t].gc) \cup {plan[t].ids[k] : k \in large}
    BY <1>3, CommitIds
  <2>4. ASSUME NEW k \in Keys
        PROVE  /\ does[k] = Kept => records'[k] = records[k]
               /\ k \in large => records'[k].id = plan[t].ids[k]
               /\ k \in Chunked' <=> (does[k] = Kept /\ k \in Chunked) \/ k \in large
    <3>1. /\ does[k] = Kept => records'[k] = records[k]
          /\ k \in large => records'[k] = Pointer(plan[t].ids[k])
          /\ k \in Chunked' <=> (does[k] = Kept /\ k \in Chunked) \/ k \in large
      BY <1>3, CommitRecords
    <3>2. Pointer(plan[t].ids[k]).id = plan[t].ids[k]
      BY DEF Pointer
    <3> QED
      BY <3>1, <3>2
  <2>5. large \subseteq Keys /\ Chunked \subseteq Keys /\ Chunked' \subseteq Keys
    BY DEF LargeIn, Chunked
  <2>6. ASSUME NEW k \in Chunked, does[k] = Kept
        PROVE  records[k].id \in ChunkIds /\ records[k].id \notin plan[t].gc
    <3>1. records[k].id \in ChunkIds
      BY DEF NoDanglingPointer
    <3>2. records[k].id \notin ReplacedIds(does)
      BY <2>6 DEF ReplacedIds, Touched, NoSharedIds
    <3> QED
      BY <2>2, <3>1, <3>2
  <2>7. ASSUME ~closed, NEW i \in ChunkIds, i \notin plan[t].gc
        PROVE  \E k \in Chunked : does[k] = Kept /\ records[k].id = i
    <3>1. PICK k \in Chunked : records[k].id = i
      BY <2>7 DEF NoOrphanWhileOpen
    <3>2. i \notin ReplacedIds(does)
      BY <2>2, <2>7
    <3>3. does[k] = Kept
      BY <2>5, <3>1, <3>2 DEF ReplacedIds, Touched
    <3> QED
      BY <3>1, <3>3
  <2> HIDE DEF does, large
  <2>8. NoDanglingPointer'
    BY <2>3, <2>4, <2>5, <2>6 DEF NoDanglingPointer
  <2>9. NoSharedIds'
    <3> SUFFICES ASSUME NEW k \in Chunked', NEW l \in Chunked',
                        records'[k].id = records'[l].id
                 PROVE  k = l
      BY DEF NoSharedIds
    <3>1. CASE k \in large /\ l \in large
      BY <2>2, <2>4, <2>5, <3>1
    <3>2. CASE k \in large /\ l \notin large
      BY <2>2, <2>4, <2>5, <2>6, <3>2
    <3>3. CASE k \notin large /\ l \in large
      BY <2>2, <2>4, <2>5, <2>6, <3>3
    <3>4. CASE k \notin large /\ l \notin large
      BY <2>4, <2>5, <3>4 DEF NoSharedIds
    <3> QED
      BY <3>1, <3>2, <3>3, <3>4
  <2>10. NoOrphanWhileOpen'
    <3> SUFFICES ASSUME ~closed, NEW i \in ChunkIds'
                 PROVE  \E k \in Chunked' : records'[k].id = i
      BY <2>1 DEF NoOrphanWhileOpen
    <3>1. CASE i \in ChunkIds /\ i \notin plan[t].gc
      BY <2>4, <2>5, <2>7, <3>1
    <3>2. CASE \E k \in large : plan[t].ids[k] = i
      BY <2>4, <2>5, <3>2
    <3> QED
      BY <2>3, <3>1, <3>2
  <2> QED
    BY <2>8, <2>9, <2>10
<1> QED
  BY <1>2, <1>3

-----------------------------------------------------------------------------
(* The theorems. *)

LEMMA InitInv == Init => Inv
<1> SUFFICES ASSUME Init PROVE Inv
  OBVIOUS
<1>1. PICK old \in [Keys -> {Gone} \cup Vals] :
        \E ids \in [LargeIn(old) -> 1..Cardinality(LargeIn(old))] :
         /\ \A k, l \in LargeIn(old) : ids[k] = ids[l] => k = l
         /\ records = [k \in Keys |-> CASE old[k] = Gone -> NoRecord
                                        [] k \in LargeIn(old) -> Pointer(ids[k])
                                        [] OTHER -> Inline(old[k])]
         /\ chunks = {[id |-> ids[k], val |-> old[k]] : k \in LargeIn(old)}
         /\ nextId = Cardinality(LargeIn(old)) + 1
  BY DEF Init
<1>2. PICK ids \in [LargeIn(old) -> 1..Cardinality(LargeIn(old))] :
         /\ \A k, l \in LargeIn(old) : ids[k] = ids[l] => k = l
         /\ records = [k \in Keys |-> CASE old[k] = Gone -> NoRecord
                                        [] k \in LargeIn(old) -> Pointer(ids[k])
                                        [] OTHER -> Inline(old[k])]
         /\ chunks = {[id |-> ids[k], val |-> old[k]] : k \in LargeIn(old)}
         /\ nextId = Cardinality(LargeIn(old)) + 1
  BY <1>1
<1> DEFINE large == LargeIn(old)
<1>3. Cardinality(large) \in Nat /\ large \subseteq Keys
  BY LargeCount
<1>4. \A k \in large : ids[k] < nextId
  <2>1. \A i \in 1..Cardinality(large) : i < Cardinality(large) + 1
    BY <1>3
  <2> QED
    BY <1>2, <2>1
<1>5. \A i : i \in ChunkIds <=> \E k \in large : ids[k] = i
  <2>1. \A i : i \in ChunkIds <=> \E c \in chunks : c.id = i
    BY DEF ChunkIds
  <2>2. ASSUME NEW k \in large PROVE ids[k] \in ChunkIds
    <3>1. [id |-> ids[k], val |-> old[k]] \in chunks
      BY <1>2
    <3> QED
      BY <2>1, <3>1
  <2> QED
    BY <1>2, <2>1, <2>2
<1>6. \A k \in large : old[k] # Gone
  BY BatchAssumption, LockerAssumption DEF LargeIn
<1>7. Chunked = large /\ \A k \in large : records[k].id = ids[k]
  <2>1. ASSUME NEW k \in Keys
        PROVE  /\ k \in Chunked <=> k \in large
               /\ k \in large => records[k].id = ids[k]
    <3>1. records[k] = CASE old[k] = Gone -> NoRecord
                         [] k \in large -> Pointer(ids[k])
                         [] OTHER -> Inline(old[k])
      BY <1>2
    <3>2. /\ NoRecord.kind = "none" /\ Inline(old[k]).kind = "inline"
          /\ Pointer(ids[k]).kind = "pointer" /\ Pointer(ids[k]).id = ids[k]
      BY DEF NoRecord, Inline, Pointer
    <3> QED
      BY <3>1, <3>2, <1>6 DEF Chunked
  <2> QED
    BY <2>1, <1>3 DEF Chunked
<1>8. \A t \in Tasks : pc[t] = "idle" /\ call[t] = NoCall /\ taken[t] = NoBatch
  BY DEF Init
<1> HIDE DEF large
<1>9. TypeOK
  BY InitTypeOK
<1>10. LockHeld /\ ClearingIsClosed /\ KeyedCalls /\ PlanMatchesStore /\ LandedMatchesStore
  BY <1>8 DEF LockHeld, Locked, ClearingIsClosed, KeyedCalls, PlanMatchesStore,
     LandedMatchesStore, NoCall, Writes
<1>11. ImmediateStagesNothing
  BY <1>8 DEF Init, ImmediateStagesNothing
<1>12. IdsFresh
  BY <1>4, <1>5, <1>8 DEF IdsFresh
<1>13. IndexCovers
  BY DEF Init, IndexCovers
<1>14. NoDanglingPointer /\ NoSharedIds /\ NoOrphanWhileOpen
  <2>1. \A k, l \in large : ids[k] = ids[l] => k = l
    BY <1>2 DEF large
  <2>2. NoDanglingPointer
    BY <1>5, <1>7 DEF NoDanglingPointer
  <2>3. NoSharedIds
    BY <1>7, <2>1 DEF NoSharedIds
  <2>4. NoOrphanWhileOpen
    BY <1>5, <1>7 DEF NoOrphanWhileOpen
  <2> QED
    BY <2>2, <2>3, <2>4
<1> QED
  BY <1>9, <1>10, <1>11, <1>12, <1>13, <1>14 DEF Inv

LEMMA NextInv == Inv /\ [Next]_vars => Inv'
<1> SUFFICES ASSUME Inv, [Next]_vars PROVE Inv'
  OBVIOUS
<1> USE DEF Inv
<1>1. ASSUME NEW t \in Tasks, Call(t) \/ Step(t) PROVE Inv'
  <2>1. TypeOK'
    BY <1>1, CallType, StepType
  <2>2. LockHeld' /\ ClearingIsClosed'
    BY <1>1, LockStep
  <2>3. ImmediateStagesNothing'
    BY <1>1, ImmediateStep
  <2>4. KeyedCalls'
    BY <1>1, KeyedStep
  <2>5. IdsFresh'
    BY <1>1, IdsFreshStep
  <2>6. PlanMatchesStore'
    BY <1>1, PlanStep
  <2>7. IndexCovers' /\ LandedMatchesStore'
    BY <1>1, IndexStep
  <2>8. NoDanglingPointer' /\ NoSharedIds' /\ NoOrphanWhileOpen'
    BY <1>1, StoreStep
  <2> QED
    BY <2>1, <2>2, <2>3, <2>4, <2>5, <2>6, <2>7, <2>8
<1>2. CASE UNCHANGED vars
  <2>1. TypeOK'
    BY <1>2 DEF vars, TypeOK
  <2>2. LockHeld' /\ ClearingIsClosed' /\ ImmediateStagesNothing' /\ KeyedCalls'
    BY <1>2 DEF vars, LockHeld, ClearingIsClosed, ImmediateStagesNothing, KeyedCalls
  <2>3. /\ Chunked' = Chunked /\ ChunkIds' = ChunkIds /\ Stored' = Stored
        /\ \A t \in Tasks : Commits(t)' = Commits(t)
    BY <1>2 DEF vars, Chunked, ChunkIds, Stored, Commits, Then
  <2>4. /\ \A t \in Tasks : LargeIn(Commits(t))' = LargeIn(Commits(t))
        /\ \A t \in Tasks : ReplacedIds(Commits(t))' = ReplacedIds(Commits(t))
    BY <1>2, <2>3 DEF vars, LargeIn, ReplacedIds, Touched
  <2>5. IdsFresh'
    BY <1>2, <2>3, <2>4 DEF vars, IdsFresh
  <2>6. PlanMatchesStore'
    BY <1>2, <2>3, <2>4 DEF vars, PlanMatchesStore
  <2>7. IndexCovers' /\ LandedMatchesStore'
    BY <1>2, <2>3 DEF vars, IndexCovers, LandedMatchesStore
  <2>8. NoDanglingPointer' /\ NoSharedIds' /\ NoOrphanWhileOpen'
    BY <1>2, <2>3 DEF vars, NoDanglingPointer, NoSharedIds, NoOrphanWhileOpen
  <2> QED
    BY <2>1, <2>2, <2>5, <2>6, <2>7, <2>8
<1> QED
  BY <1>1, <1>2 DEF Next

(* The inductive invariant holds of every reachable state. *)
THEOREM InvHolds == Spec => []Inv
BY InitInv, NextInv, PTL DEF Spec

(* No record ever loses the chunks it points to, whatever calls overlap,   *)
(* fail, are restaged or race a close (put_payload_ops, gc_ops).           *)
THEOREM PointersResolve == Spec => []NoDanglingPointer
<1>1. Inv => NoDanglingPointer
  BY DEF Inv
<1> QED
  BY <1>1, InvHolds, PTL

(* No two records ever own the chunks of one value id (ValueIds).          *)
THEOREM IdsAreOwnedOnce == Spec => []NoSharedIds
<1>1. Inv => NoSharedIds
  BY DEF Inv
<1> QED
  BY <1>1, InvHolds, PTL

(* Until a locker is closed no overwrite, delete, clear, transact or flush *)
(* leaves chunks that no record names, although most puts never read what  *)
(* they replace (Resident::prior).                                         *)
THEOREM NoOrphans == Spec => []NoOrphanWhileOpen
<1>1. Inv => NoOrphanWhileOpen
  BY DEF Inv
<1> QED
  BY <1>1, InvHolds, PTL

-----------------------------------------------------------------------------
(* A LazyLocker is one atomic map (AtomicMap), and its index shows that    *)
(* map.                                                                    *)
(*                                                                         *)
(* The argument: what a step does to the view is one of three things.  A   *)
(* write that is staged, or whose commit lands, puts its effect on it;     *)
(* close's discard takes the staged batch off it; every other step leaves  *)
(* it alone, because a batch only moves between the buffer, the call that  *)
(* stores it and the store.                                                *)

-----------------------------------------------------------------------------
(* Batches and the view, key by key. *)

LEMMA ThenAt ==
  ASSUME NEW a, NEW b, NEW k \in Keys
  PROVE  Then(a, b)[k] = IF b[k] = Kept THEN a[k] ELSE b[k]
BY DEF Then

(* What the locker holds under a key: the staged batch speaks first, then  *)
(* the batch in flight, then the store.                                    *)
Held(k, s, f, v) == IF s[k] # Kept THEN s[k] ELSE IF f[k] # Kept THEN f[k] ELSE v

LEMMA ViewAt ==
  /\ View = [k \in Keys |-> Held(k, staged.does, InFlight, ValueAt(k))]
  /\ View' = [k \in Keys |-> Held(k, staged'.does, InFlight', ValueAt(k)')]
BY DEF View, Then, Held

(* The store is read as before when its tables are as before. *)
LEMMA ValueSame ==
  ASSUME records' = records, chunks' = chunks
  PROVE  \A k \in Keys : ValueAt(k)' = ValueAt(k)
BY DEF ValueAt, Readable

LEMMA EmptyEffect == \A k \in Keys : NoEffect[k] = Kept
BY DEF NoEffect

(* A value is held under a key only if it is a payload. *)
LEMMA ValueTypes ==
  ASSUME TypeOK, NEW k \in Keys
  PROVE  ValueAt(k) \in Vals \cup {Gone}
<1>1. records[k] \in Records
  BY DEF TypeOK
<1>2. Readable(k) \subseteq Vals
  <2>1. CASE records[k].kind = "none"
    BY <2>1 DEF Readable
  <2>2. CASE records[k].kind = "inline"
    BY <1>1, <2>2 DEF Readable, Records
  <2>3. CASE records[k].kind = "pointer"
    BY <2>3, LockerAssumption DEF Readable, TypeOK
  <2> QED
    BY <1>1, <2>1, <2>2, <2>3 DEF Records
<1> QED
  BY <1>2 DEF ValueAt

LEMMA FlightTypes ==
  ASSUME TypeOK
  PROVE  InFlight \in Effects /\ staged.does \in Effects
BY EffectTypes DEF TypeOK, InFlight, Batches

LEMMA ViewTypes ==
  ASSUME TypeOK
  PROVE  View \in Contents
<1>1. \A k \in Keys : /\ staged.does[k] \in Vals \cup {Gone, Kept}
                      /\ InFlight[k] \in Vals \cup {Gone, Kept}
                      /\ ValueAt(k) \in Vals \cup {Gone}
  BY FlightTypes, ValueTypes DEF Effects
<1> QED
  BY <1>1, ViewAt DEF Contents, Held

-----------------------------------------------------------------------------
(* What a step does to the view. *)

LEMMA FlightSame ==
  ASSUME TypeOK, NEW t \in Tasks, Frame(t), writeLock' = writeLock, taken' = taken,
         pc[t] = "landed" <=> pc'[t] = "landed"
  PROVE  InFlight' = InFlight
BY LockerAssumption DEF InFlight, Frame, TypeOK

LEMMA ViewSame ==
  ASSUME records' = records, chunks' = chunks, staged' = staged, InFlight' = InFlight
  PROVE  View' = View
BY ViewAt, ValueSame DEF Held

(* A step that neither drains, stores, stages nor restages. *)
LEMMA QuietView ==
  ASSUME TypeOK, ClearingIsClosed, NEW t \in Tasks,
         \/ Call(t) \/ EnterWrite(t) \/ EnterFlush(t) \/ EnterGet(t) \/ Build(t)
         \/ CloseMark(t) \/ CloseClear(t)
         \/ ReadRecord(t) \/ ReadChunks(t) \/ ReadFail(t)
  PROVE  View' = View
<1>1. Frame(t)
  BY NextFrame DEF Step
<1>2. /\ records' = records /\ chunks' = chunks /\ staged' = staged
      /\ writeLock' = writeLock /\ taken' = taken
      /\ pc[t] # "landed" /\ pc'[t] # "landed"
  <2>1. CASE Call(t)
    <3>1. PICK o, k, b : Invoke(t, o, k, b)
      BY <2>1 DEF Call
    <3> QED
      BY <3>1 DEF Invoke, store, resident, TypeOK
  <2>2. CASE \/ EnterWrite(t) \/ EnterFlush(t) \/ EnterGet(t) \/ Build(t)
             \/ CloseMark(t) \/ CloseClear(t)
             \/ ReadRecord(t) \/ ReadChunks(t) \/ ReadFail(t)
    <3>1. /\ records' = records /\ chunks' = chunks /\ staged' = staged
          /\ writeLock' = writeLock /\ taken' = taken
      BY <2>2 DEF EnterWrite, EnterFlush, EnterGet, Build, CloseMark, CloseClear,
         ReadRecord, ReadChunks, ReadFail, store, resident, progress
    <3>2. pc[t] # "landed"
      BY <2>2 DEF EnterWrite, EnterFlush, EnterGet, Build, CloseMark, CloseClear,
         ReadRecord, ReadChunks, ReadFail
    <3>3. ~Commit(t)
      BY <2>2 DEF EnterWrite, EnterFlush, EnterGet, Build, CloseMark, CloseClear,
         ReadRecord, ReadChunks, ReadFail, Commit
    <3> QED
      BY <1>1, <3>1, <3>2, <3>3 DEF Frame
  <2> QED
    BY <2>1, <2>2
<1> QED
  BY <1>1, <1>2, FlightSame, ViewSame

(* Taking the lock, and giving it up with nothing drained. *)
LEMMA LockView ==
  ASSUME TypeOK, LockHeld, DrainedUnderLock, NEW t \in Tasks,
         LockWrite(t) \/ LockTransact(t) \/ ClosureRollback(t)
  PROVE  View' = View
<1>1. /\ records' = records /\ chunks' = chunks /\ staged' = staged
      /\ taken' = taken
  BY DEF LockWrite, LockTransact, ClosureRollback, store, resident, progress
<1>2. taken[t].does = NoEffect
  BY DEF LockWrite, LockTransact, ClosureRollback, DrainedUnderLock
<1>3. \/ writeLock = NoTask /\ writeLock' = t
      \/ writeLock = t /\ writeLock' = NoTask
  BY DEF LockWrite, LockTransact, ClosureRollback, LockHeld, Locked
<1>4. InFlight = NoEffect /\ InFlight' = NoEffect
  BY <1>1, <1>2, <1>3 DEF InFlight
<1> QED
  BY <1>1, <1>4, ViewSame

(* The staged batch is drained: it is in flight now, and as readable. *)
LEMMA DrainView ==
  ASSUME TypeOK, LockHeld, DrainedUnderLock, NEW t \in Tasks,
         LockFlush(t) \/ ClosureCommit(t)
  PROVE  View' = View
<1>1. records' = records /\ chunks' = chunks
  BY DEF LockFlush, ClosureCommit, store
<1>2. taken[t].does = NoEffect
  BY DEF LockFlush, ClosureCommit, DrainedUnderLock
<1>3. InFlight = NoEffect
  BY <1>2 DEF LockFlush, ClosureCommit, LockHeld, Locked, InFlight
<1>4. CASE LockFlush(t) /\ staged.len = 0
  <2>1. staged' = staged /\ taken' = taken /\ writeLock' = writeLock /\ writeLock = NoTask
    BY <1>4 DEF LockFlush
  <2>2. InFlight' = NoEffect
    BY <2>1 DEF InFlight
  <2> QED
    BY <1>1, <1>3, <2>1, <2>2, ViewSame
<1>5. CASE ClosureCommit(t) \/ staged.len # 0
  <2>1. TakeStaged(t, staged) /\ writeLock' = t
    BY <1>5 DEF LockFlush, ClosureCommit, LockHeld, Locked
  <2>2. /\ staged'.does = NoEffect
        /\ InFlight' = staged.does
    BY <2>1, LockerAssumption DEF TakeStaged, InFlight, NoBatch, TypeOK
  <2> QED
    BY <1>1, <1>3, <2>2, ViewAt, ValueSame, EmptyEffect DEF Held
<1> QED
  BY <1>4, <1>5

(* A failed commit gives back what it drained. *)
LEMMA FailView ==
  ASSUME TypeOK, LockHeld, DrainedUnderLock, NEW t \in Tasks, Fail(t)
  PROVE  View' = View
<1>1. records' = records /\ chunks' = chunks /\ writeLock' = NoTask
  BY DEF Fail, Leave, store
<1>2. pc[t] \in Locked /\ pc[t] # "landed"
  BY DEF Fail, Fallible, Locked
<1>3. writeLock = t
  BY <1>2 DEF LockHeld
<1>4. InFlight = taken[t].does /\ InFlight' = NoEffect
  BY <1>1, <1>2, <1>3, LockerAssumption DEF InFlight
<1>5. staged'.does = Then(taken[t].does, staged.does)
  BY DEF Fail, Restage
<1> QED
  BY <1>1, <1>4, <1>5, ViewAt, ValueSame, EmptyEffect, ThenAt DEF Held

LEMMA FinishView ==
  ASSUME TypeOK, LockHeld, NEW t \in Tasks, Finish(t)
  PROVE  View' = View
<1>1. /\ records' = records /\ chunks' = chunks /\ staged' = staged
      /\ writeLock' = NoTask
  BY DEF Finish, Leave, store
<1>2. writeLock = t /\ pc[t] = "landed"
  BY DEF Finish, LockHeld, Locked
<1> QED
  BY <1>1, <1>2, ViewSame DEF InFlight

(* A write that is staged has its effect on the view, at once. *)
LEMMA StageView ==
  ASSUME TypeOK, NEW t \in Tasks, StageOnly(t) \/ StageAndFlush(t)
  PROVE  View' = Then(View, call[t].does)
<1>1. records' = records /\ chunks' = chunks /\ writeLock = NoTask
  BY DEF StageOnly, StageAndFlush, store
<1>2. InFlight = NoEffect
  BY <1>1 DEF InFlight
<1>3. StagedWith(t).does = Then(staged.does, call[t].does)
  BY DEF StagedWith
<1>4. CASE StageOnly(t)
  <2>1. staged' = StagedWith(t) /\ writeLock' = NoTask
    BY <1>1, <1>4 DEF StageOnly
  <2>2. InFlight' = NoEffect
    BY <2>1 DEF InFlight
  <2> QED
    BY <1>1, <1>2, <1>3, <2>1, <2>2, ViewAt, ValueSame, EmptyEffect, ThenAt DEF Held, Then
<1>5. CASE StageAndFlush(t)
  <2>1. staged' = NoBatch /\ writeLock' = t /\ TakeStaged(t, StagedWith(t))
    BY <1>5 DEF StageAndFlush, TakeStaged
  <2>2. staged'.does = NoEffect /\ InFlight' = StagedWith(t).does
    BY <2>1, LockerAssumption DEF InFlight, NoBatch, TakeStaged, TypeOK
  <2> QED
    BY <1>1, <1>2, <1>3, <2>2, ViewAt, ValueSame, EmptyEffect, ThenAt DEF Held, Then
<1> QED
  BY <1>4, <1>5

(* What a landed commit stores: its effect, over what was stored.          *)
LEMMA CommitValues ==
  ASSUME Inv, OneChunkPerId, NEW t \in Tasks, Commit(t), NEW k \in Keys
  PROVE  ValueAt(k)' = IF Commits(t)[k] = Kept THEN ValueAt(k) ELSE Commits(t)[k]
<1> USE DEF Inv
<1> DEFINE does == Commits(t)
           new  == {[id |-> plan[t].ids[l], val |-> does[l]] : l \in LargeIn(does)}
<1>1. does[k] \in Vals \cup {Gone, Kept}
  BY StagedWithType DEF Effects
<1>2. chunks' = {c \in chunks : c.id \notin plan[t].gc} \cup new
  BY DEF Commit
<1>3. /\ \A l \in LargeIn(does) : plan[t].ids[l] \notin ChunkIds
      /\ \A l, m \in LargeIn(does) : plan[t].ids[l] = plan[t].ids[m] => l = m
  BY DEF Commit, IdsFresh
<1>4. CASE does[k] = Gone
  BY <1>4, CommitRecords, BatchAssumption DEF ValueAt, Readable, NoRecord
<1>5. CASE does[k] \in Vals \ LargeVals
  <2>1. records'[k] = [kind |-> "inline", val |-> does[k]]
    BY <1>5, CommitRecords DEF Inline
  <2>2. Readable(k)' = {does[k]}
    BY <2>1 DEF Readable
  <2> QED
    BY <1>5, <2>2, BatchAssumption DEF ValueAt
<1>6. CASE does[k] \in LargeVals
  <2>1. k \in LargeIn(does)
    BY <1>6 DEF LargeIn
  <2>2. records'[k] = Pointer(plan[t].ids[k])
    BY <2>1, CommitRecords
  <2>3. ASSUME NEW c \in chunks', c.id = plan[t].ids[k] PROVE c.val = does[k]
    <3>1. c \notin chunks
      BY <1>3, <2>1, <2>3 DEF ChunkIds
    <3>2. PICK l \in LargeIn(does) : c = [id |-> plan[t].ids[l], val |-> does[l]]
      BY <1>2, <3>1
    <3> QED
      BY <1>3, <2>1, <2>3, <3>2
  <2>4. [id |-> plan[t].ids[k], val |-> does[k]] \in chunks'
    BY <1>2, <2>1
  <2>5. Readable(k)' = {c.val : c \in {d \in chunks' : d.id = plan[t].ids[k]}}
    BY <2>2 DEF Readable, Pointer
  <2>6. Readable(k)' = {does[k]}
    BY <2>3, <2>4, <2>5
  <2> QED
    BY <1>6, <2>6, BatchAssumption, LockerAssumption DEF ValueAt
<1>7. CASE does[k] = Kept
  <2>1. records'[k] = records[k]
    BY <1>7, CommitRecords
  <2>2. CASE k \notin Chunked
    <3>1. records[k].kind \in {"none", "inline"}
      BY <2>2 DEF Chunked, TypeOK, Records
    <3>2. Readable(k)' = Readable(k)
      BY <2>1, <3>1 DEF Readable
    <3> QED
      BY <1>7, <3>2 DEF ValueAt
  <2>3. CASE k \in Chunked
    <3>1. records[k].id \in ChunkIds
      BY <2>3 DEF NoDanglingPointer
    <3>2. records[k].id \notin plan[t].gc
      <4>1. ASSUME records[k].id \in ReplacedIds(does) PROVE FALSE
        <5>1. PICK l \in Touched(does) \cap Chunked : records[l].id = records[k].id
          BY <4>1 DEF ReplacedIds
        <5> QED
          BY <1>7, <2>3, <5>1 DEF NoSharedIds, Touched
      <4> QED
        BY <4>1 DEF Commit, PlanMatchesStore
    <3>3. {d \in chunks' : d.id = records[k].id} = {d \in chunks : d.id = records[k].id}
      BY <1>2, <1>3, <3>1, <3>2
    <3> QED
      BY <1>7, <2>1, <2>3, <3>3 DEF ValueAt, Readable, Chunked
  <2> QED
    BY <2>2, <2>3
<1> QED
  BY <1>1, <1>4, <1>5, <1>6, <1>7

(* A commit that lands has the effect of its call on the view, whatever    *)
(* drained batch lands with it.                                            *)
LEMMA CommitView ==
  ASSUME Inv, OneChunkPerId, DrainedUnderLock, NEW t \in Tasks, Commit(t)
  PROVE  View' = Then(View, call[t].does)
<1>1. pc[t] = "committing" /\ staged' = staged /\ writeLock' = writeLock
      /\ pc'[t] = "landed"
  BY DEF Commit, resident, Inv, TypeOK
<1>2. writeLock = t
  BY <1>1 DEF Inv, LockHeld, Locked
<1>3. InFlight = taken[t].does /\ InFlight' = NoEffect
  BY <1>1, <1>2, LockerAssumption DEF InFlight
<1>4. staged.does = NoEffect
  BY <1>1 DEF DrainedUnderLock, Fallible
<1>5. \A k \in Keys : ValueAt(k)' = IF Commits(t)[k] = Kept THEN ValueAt(k) ELSE Commits(t)[k]
  BY CommitValues
<1> QED
  BY <1>1, <1>3, <1>4, <1>5, ViewAt, EmptyEffect, ThenAt DEF Held, Then, Commits

(* The deferred write that flushes has had its effect already. *)
LEMMA DrainedWriteView ==
  ASSUME Inv, DrainedUnderLock, WriteIsDrained, NEW t \in Tasks,
         pc[t] = "committing", Deferred, call[t].op \in Writes
  PROVE  Then(View, call[t].does) = View
<1>1. writeLock = t
  BY DEF Inv, LockHeld, Locked
<1>2. InFlight = taken[t].does
  BY <1>1, LockerAssumption DEF InFlight
<1>3. staged.does = NoEffect
  BY DEF DrainedUnderLock, Fallible
<1>4. \A k \in Keys : call[t].does[k] # Kept => taken[t].does[k] = call[t].does[k]
  BY DEF WriteIsDrained, Locked
<1>5. \A k \in Keys : call[t].does[k] # Kept => View[k] = call[t].does[k]
  BY <1>2, <1>3, <1>4, ViewAt, EmptyEffect DEF Held
<1> QED
  BY <1>5, ViewAt DEF Then

-----------------------------------------------------------------------------
(* The calls in flight. *)

(* A step of one task leaves the results of the others alone. *)
LEMMA ResFrame ==
  ASSUME TypeOK, NEW t \in Tasks, Call(t) \/ Step(t)
  PROVE  \A u \in Tasks \ {t} : res'[u] = res[u]
<1>1. CASE Call(t)
  <2>1. PICK o, k, b : Invoke(t, o, k, b)
    BY <1>1 DEF Call
  <2> QED
    BY <2>1 DEF Invoke, TypeOK
<1>2. CASE Step(t)
  <2>1. res' = res \/ \E r : res' = [res EXCEPT ![t] = r]
    BY <1>2 DEF Step, EnterWrite, EnterFlush, EnterGet, StageOnly, StageAndFlush,
       LockWrite, LockTransact, LockFlush, ClosureRollback, ClosureCommit, Build,
       Commit, Fail, Finish, CloseDiscard, CloseMark, CloseClear, ReadRecord,
       ReadChunks, ReadFail, Leave, Done, Return
  <2> QED
    BY <2>1 DEF TypeOK
<1> QED
  BY <1>1, <1>2

(* Where a call that is done is left. *)
LEMMA DoneAt ==
  ASSUME TypeOK, NEW t \in Tasks, NEW r \in {"ok", "err"}, Done(t, r)
  PROVE  /\ res'[t] = r
         /\ call[t].op # "close" => pc'[t] = "idle"
         /\ call[t].op = "close" => pc'[t] = IF r = "ok" THEN "discarding" ELSE "marking"
BY DEF Done, TypeOK

LEMMA OneChunkStep ==
  ASSUME Inv, OneChunkPerId, NEW t \in Tasks, Call(t) \/ Step(t)
  PROVE  OneChunkPerId'
<1>1. Frame(t)
  BY NextFrame DEF Inv
<1>2. CASE Commit(t)
  <2> DEFINE does == Commits(t)
  <2>1. chunks' = {c \in chunks : c.id \notin plan[t].gc}
           \cup {[id |-> plan[t].ids[l], val |-> does[l]] : l \in LargeIn(does)}
    BY <1>2 DEF Commit
  <2>2. /\ \A l \in LargeIn(does) : plan[t].ids[l] \notin ChunkIds
        /\ \A l, m \in LargeIn(does) : plan[t].ids[l] = plan[t].ids[m] => l = m
    BY <1>2 DEF Commit, Inv, IdsFresh
  <2>3. \A c \in chunks : c.id \in ChunkIds
    BY DEF ChunkIds
  <2> QED
    BY <2>1, <2>2, <2>3 DEF OneChunkPerId
<1>3. CASE chunks' = chunks
  BY <1>3 DEF OneChunkPerId
<1> QED
  BY <1>1, <1>2, <1>3 DEF Frame

(* How the steps of a call come by and give up a drained batch, and what   *)
(* they leave staged.                                                      *)
LEMMA DrainedSelf ==
  ASSUME Inv, DrainedUnderLock, CallsInPlace, NEW t \in Tasks, Call(t) \/ Step(t)
  PROVE  /\ taken'[t].does # NoEffect => pc'[t] \in {"fetching", "committing", "landed"}
         /\ Fallible(t)' => staged'.does = NoEffect
<1> USE DEF Fallible
<1>1. /\ taken[t].does # NoEffect => pc[t] \in {"fetching", "committing", "landed"}
      /\ Fallible(t) => staged.does = NoEffect
      /\ pc \in [Tasks -> PCs] /\ taken \in [Tasks -> Batches]
      /\ NoBatch.does = NoEffect
  BY DEF DrainedUnderLock, Inv, TypeOK, NoBatch
<1>2. CASE Call(t)
  <2>1. PICK o, k, b : Invoke(t, o, k, b)
    BY <1>2 DEF Call
  <2> QED
    BY <1>1, <2>1 DEF Invoke, resident
<1>3. CASE EnterWrite(t) \/ EnterFlush(t) \/ EnterGet(t) \/ LockTransact(t)
           \/ ClosureRollback(t) \/ StageOnly(t)
  BY <1>1, <1>3 DEF EnterWrite, EnterFlush, EnterGet, LockTransact, ClosureRollback,
     StageOnly, Return, Done, progress
<1>4. CASE StageAndFlush(t) \/ ClosureCommit(t)
  BY <1>1, <1>4 DEF StageAndFlush, ClosureCommit, TakeStaged
<1>5. CASE LockWrite(t)
  <2>1. staged = NoBatch
    BY <1>5 DEF LockWrite, Inv, ImmediateStagesNothing
  <2> QED
    BY <1>1, <1>5, <2>1 DEF LockWrite, resident, progress
<1>6. CASE LockFlush(t)
  BY <1>1, <1>6 DEF LockFlush, Done, TakeStaged
<1>7. CASE Build(t) \/ Commit(t)
  <2>1. pc[t] = "trusting" => taken[t].does = NoEffect
    BY <1>1
  <2> QED
    BY <1>1, <1>7, <2>1 DEF Build, Commit, resident, progress
<1>8. CASE Fail(t) \/ Finish(t)
  BY <1>1, <1>8 DEF Fail, Finish, Leave, Drop, Done
<1>9. CASE CloseDiscard(t) \/ CloseMark(t) \/ CloseClear(t) \/ ReadRecord(t)
           \/ ReadChunks(t) \/ ReadFail(t)
  BY <1>1, <1>9 DEF CloseDiscard, CloseMark, CloseClear, ReadRecord, ReadChunks,
     ReadFail, Return, progress
<1> QED
  BY <1>2, <1>3, <1>4, <1>5, <1>6, <1>7, <1>8, <1>9 DEF Step

(* While one call stores a batch, no other can stage over it. *)
LEMMA DrainedOthers ==
  ASSUME Inv, DrainedUnderLock, NEW t \in Tasks, Call(t) \/ Step(t),
         NEW u \in Tasks \ {t}, Fallible(u)
  PROVE  staged'.does = NoEffect
<1>1. staged.does = NoEffect
  BY DEF DrainedUnderLock
<1>2. writeLock = u /\ writeLock # NoTask
  BY LockerAssumption DEF Fallible, Inv, LockHeld, Locked
<1>3. ~Fallible(t)
  BY <1>2 DEF Fallible, Inv, LockHeld, Locked
<1>4. CASE Call(t)
  BY <1>1, <1>4 DEF Call, Invoke, resident
<1>5. CASE EnterWrite(t) \/ EnterFlush(t) \/ EnterGet(t) \/ ClosureRollback(t)
           \/ Finish(t) \/ CloseMark(t) \/ CloseClear(t) \/ ReadRecord(t)
           \/ ReadChunks(t) \/ ReadFail(t)
  BY <1>1, <1>5 DEF EnterWrite, EnterFlush, EnterGet, ClosureRollback, Finish,
     CloseMark, CloseClear, ReadRecord, ReadChunks, ReadFail, resident
<1>6. CASE ClosureCommit(t) \/ CloseDiscard(t)
  BY <1>6 DEF ClosureCommit, CloseDiscard, TakeStaged, NoBatch
<1>7. CASE StageOnly(t) \/ StageAndFlush(t) \/ LockWrite(t) \/ LockTransact(t)
           \/ LockFlush(t)
  BY <1>2, <1>7 DEF StageOnly, StageAndFlush, LockWrite, LockTransact, LockFlush
<1>8. CASE Build(t) \/ Commit(t) \/ Fail(t)
  BY <1>3, <1>8 DEF Build, Commit, Fail, Fallible
<1> QED
  BY <1>4, <1>5, <1>6, <1>7, <1>8 DEF Step

LEMMA DrainedStep ==
  ASSUME Inv, DrainedUnderLock, CallsInPlace, NEW t \in Tasks, Call(t) \/ Step(t)
  PROVE  DrainedUnderLock'
<1>1. Frame(t)
  BY NextFrame DEF Inv
<1>2. ASSUME NEW u \in Tasks
      PROVE  /\ taken'[u].does # NoEffect => pc'[u] \in {"fetching", "committing", "landed"}
             /\ Fallible(u)' => staged'.does = NoEffect
  <2>1. CASE u = t
    BY <2>1, DrainedSelf
  <2>2. CASE u # t
    BY <1>1, <2>2, DrainedOthers DEF Frame, DrainedUnderLock, Fallible
  <2> QED
    BY <2>1, <2>2
<1> QED
  BY <1>2 DEF DrainedUnderLock

LEMMA WriteDrainedStep ==
  ASSUME Inv, CallsInPlace, WriteIsDrained, NEW t \in Tasks, Call(t) \/ Step(t)
  PROVE  WriteIsDrained'
<1>1. Frame(t)
  BY NextFrame DEF Inv
<1>2. pc \in [Tasks -> PCs] /\ taken \in [Tasks -> Batches]
  BY DEF Inv, TypeOK
<1>3. ASSUME Deferred, call'[t].op \in Writes, pc'[t] \in Locked,
             NEW k \in Keys, call'[t].does[k] # Kept
      PROVE  taken'[t].does[k] = call'[t].does[k]
  <2> USE DEF Locked, Writes
  <2>1. CASE Call(t)
    <3>1. PICK o, l, b : Invoke(t, o, l, b)
      BY <2>1 DEF Call
    <3> QED
      BY <1>2, <1>3, <3>1 DEF Invoke
  <2>2. CASE StageAndFlush(t)
    <3>1. taken'[t] = StagedWith(t) /\ call' = call
      BY <1>2, <2>2 DEF StageAndFlush, TakeStaged
    <3> QED
      BY <1>3, <3>1, ThenAt DEF StagedWith
  <2>3. CASE Build(t) \/ Commit(t)
    BY <1>3, <2>3 DEF Build, Commit, progress, WriteIsDrained
  <2>4. CASE LockWrite(t) \/ LockTransact(t) \/ LockFlush(t) \/ ClosureCommit(t)
    BY <1>2, <1>3, <2>4 DEF LockWrite, LockTransact, LockFlush, ClosureCommit, Done,
       CallsInPlace, progress
  <2>5. CASE EnterWrite(t) \/ EnterFlush(t) \/ EnterGet(t) \/ StageOnly(t)
             \/ ClosureRollback(t) \/ Fail(t) \/ Finish(t)
    BY <1>2, <1>3, <2>5 DEF EnterWrite, EnterFlush, EnterGet, StageOnly,
       ClosureRollback, Fail, Finish, Return, Done, Leave
  <2>6. CASE CloseDiscard(t) \/ CloseMark(t) \/ CloseClear(t) \/ ReadRecord(t)
             \/ ReadChunks(t) \/ ReadFail(t)
    BY <1>2, <1>3, <2>6 DEF CloseDiscard, CloseMark, CloseClear, ReadRecord,
       ReadChunks, ReadFail, Return
  <2> QED
    BY <2>1, <2>2, <2>3, <2>4, <2>5, <2>6 DEF Step
<1>4. ASSUME NEW u \in Tasks \ {t}, Deferred, call'[u].op \in Writes, pc'[u] \in Locked,
             NEW k \in Keys, call'[u].does[k] # Kept
      PROVE  taken'[u].does[k] = call'[u].does[k]
  BY <1>1, <1>4 DEF Frame, WriteIsDrained
<1> QED
  BY <1>3, <1>4 DEF WriteIsDrained

(* A close goes on from its flush, and reports how that ended. *)
LEMMA CallsInPlaceStep ==
  ASSUME Inv, CallsInPlace, NEW t \in Tasks, Call(t) \/ Step(t)
  PROVE  CallsInPlace'
<1>1. Frame(t) /\ \A u \in Tasks \ {t} : res'[u] = res[u]
  BY NextFrame, ResFrame DEF Inv
<1>2. pc \in [Tasks -> PCs] /\ res \in [Tasks -> Results]
  BY DEF Inv, TypeOK, Results
<1>3. /\ pc'[t] = "closure" => call'[t].op = "transact"
      /\ pc'[t] \in {"discarding", "marking", "clearing"} =>
           call'[t].op = "close" /\ res'[t] \in {"ok", "err"}
  <2>1. CASE Call(t)
    <3>1. PICK o, l, b : Invoke(t, o, l, b)
      BY <2>1 DEF Call
    <3> QED
      BY <1>2, <3>1 DEF Invoke
  <2>2. CASE EnterWrite(t) \/ EnterGet(t) \/ StageOnly(t) \/ StageAndFlush(t)
             \/ LockWrite(t) \/ LockTransact(t) \/ ClosureRollback(t) \/ ClosureCommit(t)
             \/ Build(t) \/ Commit(t) \/ ReadRecord(t) \/ ReadChunks(t) \/ ReadFail(t)
    BY <1>2, <2>2 DEF EnterWrite, EnterGet, StageOnly, StageAndFlush, LockWrite,
       LockTransact, ClosureRollback, ClosureCommit, Build, Commit, ReadRecord,
       ReadChunks, ReadFail, Return, TakeStaged, progress
  <2>3. CASE EnterFlush(t) \/ LockFlush(t) \/ Fail(t) \/ Finish(t)
    <3>1. call' = call
      BY <2>3 DEF EnterFlush, LockFlush, Fail, Finish, progress
    <3>2. Done(t, "ok") \/ Done(t, "err") \/ pc'[t] \in {"waiting", "fetching"}
      BY <1>2, <2>3 DEF EnterFlush, LockFlush, Fail, Finish, Leave, TakeStaged
    <3>3. ASSUME NEW r \in {"ok", "err"}, Done(t, r)
          PROVE  /\ res'[t] = r
                 /\ pc'[t] = "idle" \/ call[t].op = "close"
                 /\ pc'[t] \in {"idle", "discarding", "marking"}
      BY <3>3, DoneAt DEF Inv
    <3> QED
      BY <3>1, <3>2, <3>3
  <2>4. CASE CloseDiscard(t) \/ CloseMark(t) \/ CloseClear(t)
    BY <1>2, <2>4 DEF CloseDiscard, CloseMark, CloseClear, progress, CallsInPlace
  <2> QED
    BY <2>1, <2>2, <2>3, <2>4 DEF Step
<1>4. ASSUME NEW u \in Tasks \ {t}
      PROVE  /\ pc'[u] = "closure" => call'[u].op = "transact"
             /\ pc'[u] \in {"discarding", "marking", "clearing"} =>
                  call'[u].op = "close" /\ res'[u] \in {"ok", "err"}
  BY <1>1 DEF Frame, CallsInPlace
<1> QED
  BY <1>3, <1>4 DEF CallsInPlace

(* A locker that somebody closes stays one: a close ends by marking it. *)
LEMMA ClosingStep ==
  ASSUME Inv, CallsInPlace, Closing, NEW t \in Tasks, Call(t) \/ Step(t)
  PROVE  Closing'
<1>1. Frame(t)
  BY NextFrame DEF Inv
<1>2. CASE closed
  BY <1>1, <1>2 DEF Frame, Closing
<1>3. CASE pc[t] # "idle" /\ call[t].op = "close"
  <2>1. ~Call(t)
    BY <1>3 DEF Call, Invoke
  <2>2. CASE CloseClear(t)
    BY <2>2 DEF CloseClear, Closing, Inv, ClearingIsClosed
  <2>3. CASE ~CloseClear(t)
    <3>1. call'[t] = call[t]
      BY <2>1 DEF Step, EnterWrite, EnterFlush, EnterGet, StageOnly, StageAndFlush,
         LockWrite, LockTransact, LockFlush, ClosureRollback, ClosureCommit, Build,
         Commit, Fail, Finish, CloseDiscard, CloseMark, CloseClear, ReadRecord,
         ReadChunks, ReadFail, progress
    <3>2. pc \in [Tasks -> PCs]
      BY DEF Inv, TypeOK
    <3>3. CASE EnterWrite(t) \/ EnterGet(t) \/ StageOnly(t) \/ StageAndFlush(t)
               \/ LockWrite(t) \/ LockTransact(t) \/ ClosureRollback(t) \/ ClosureCommit(t)
               \/ ReadRecord(t) \/ ReadChunks(t) \/ ReadFail(t)
      BY <1>3, <3>3 DEF EnterWrite, EnterGet, StageOnly, StageAndFlush, LockWrite,
         LockTransact, ClosureRollback, ClosureCommit, ReadRecord, ReadChunks,
         ReadFail, CallsInPlace, Writes, Inv, TypeOK
    <3>4. CASE EnterFlush(t) \/ LockFlush(t) \/ Build(t) \/ Commit(t) \/ Fail(t)
               \/ Finish(t) \/ CloseDiscard(t) \/ CloseMark(t)
      <4>1. pc'[t] # "idle"
        BY <1>3, <3>2, <3>4 DEF EnterFlush, LockFlush, Build, Commit, Fail, Finish,
           CloseDiscard, CloseMark, Leave, Done, TakeStaged
      <4> QED
        BY <1>3, <3>1, <4>1 DEF Closing
    <3> QED
      BY <2>1, <2>3, <3>3, <3>4 DEF Step
  <2> QED
    BY <2>2, <2>3
<1>4. CASE \E u \in Tasks \ {t} : pc[u] # "idle" /\ call[u].op = "close"
  BY <1>1, <1>4 DEF Frame, Closing
<1> QED
  BY <1>2, <1>3, <1>4 DEF Closing

-----------------------------------------------------------------------------
(* The index follows the view. *)

(* touch_index: a key the batch writes is indexed if it gets a payload. *)
LEMMA IndexAfterAt ==
  ASSUME NEW b \in Effects, index \subseteq Keys, NEW k \in Keys
  PROVE  /\ b[k] = Kept => (k \in IndexAfter(b) <=> k \in index)
         /\ b[k] # Kept => (k \in IndexAfter(b) <=> b[k] # Gone)
<1>1. b[k] \in Vals \cup {Gone, Kept}
  BY DEF Effects
<1> QED
  BY <1>1, BatchAssumption DEF IndexAfter, Touched

(* No call has a landed commit to account for while the lock is free, nor  *)
(* while another call holds it.                                            *)
LEMMA UpdatesHoldLock ==
  ASSUME LockHeld, NEW u \in Tasks, NEW k \in Keys, Updates(u, k)
  PROVE  writeLock = u
BY DEF LockHeld, Locked, Updates

(* A step that changes neither index nor view, and is not one of the steps *)
(* around a landing commit.                                                *)
LEMMA QuietFollows ==
  ASSUME Inv, IndexFollows, NEW t \in Tasks, Frame(t), ~Commit(t), ~Finish(t),
         View' = View, index' = index, ~Closing
  PROVE  IndexFollows'
<1>1. pc[t] # "landed" /\ pc'[t] # "landed"
  BY DEF Frame
<1>2. \A u \in Tasks : pc'[u] = "landed" \/ pc[u] = "landed" =>
        call'[u] = call[u] /\ pc'[u] = pc[u]
  BY <1>1 DEF Frame
<1>3. \A u \in Tasks, k \in Keys :
        /\ Updates(u, k)' <=> Updates(u, k)
        /\ Updates(u, k) => call'[u] = call[u]
  BY <1>2 DEF Updates
<1>4. \A k \in Keys :
        /\ \/ k \in index <=> View[k] # Gone
           \/ \E u \in Tasks : Updates(u, k)
        /\ \A u \in Tasks : Updates(u, k) => View[k] = call[u].does[k]
  BY DEF IndexFollows
<1> QED
  BY <1>3, <1>4 DEF IndexFollows

LEMMA StageFollows ==
  ASSUME Inv, IndexFollows, NEW t \in Tasks, Frame(t), ~Closing,
         StageOnly(t) \/ StageAndFlush(t)
  PROVE  IndexFollows'
<1> DEFINE does == call[t].does
<1>1. does \in Effects /\ index \subseteq Keys /\ View \in Contents
  BY ViewTypes DEF Inv, TypeOK, CallRecords
<1>2. View' = Then(View, does) /\ index' = IndexAfter(does)
  BY StageView DEF Inv, StageOnly, StageAndFlush
<1>3. \A u \in Tasks : pc[u] # "landed"
  BY LockerAssumption DEF StageOnly, StageAndFlush, Inv, LockHeld, Locked
<1>4. \A u \in Tasks : pc'[u] # "landed"
  <2>1. ~Commit(t)
    BY DEF StageOnly, StageAndFlush, Commit
  <2> QED
    BY <1>3, <2>1 DEF Frame
<1>5. ASSUME NEW k \in Keys PROVE k \in index' <=> View'[k] # Gone
  <2>1. k \in index <=> View[k] # Gone
    BY <1>3 DEF IndexFollows, Updates
  <2>2. CASE does[k] = Kept
    BY <1>1, <1>2, <2>1, <2>2, ThenAt, IndexAfterAt
  <2>3. CASE does[k] # Kept
    BY <1>1, <1>2, <2>3, ThenAt, IndexAfterAt
  <2> QED
    BY <2>2, <2>3
<1> QED
  BY <1>4, <1>5 DEF IndexFollows, Updates

LEMMA CommitFollows ==
  ASSUME MapInv, NEW t \in Tasks, Frame(t), ~Closing, Commit(t)
  PROVE  IndexFollows'
<1> USE DEF MapInv
<1> DEFINE does == call[t].does
<1>1. View' = Then(View, does) /\ index' = index /\ call' = call
  BY CommitView DEF Commit, resident, progress
<1>2. pc[t] = "committing" /\ \A u \in Tasks : pc[u] # "landed"
  BY OnlyHolder DEF Commit, Inv, Locked
<1>3. \A u \in Tasks \ {t} : pc'[u] # "landed"
  BY <1>2 DEF Frame
<1>4. pc'[t] = "landed"
  BY DEF Commit, Inv, TypeOK
<1>5. \A k \in Keys : k \in index <=> View[k] # Gone
  BY <1>2 DEF IndexFollows, Updates
<1>6. CASE call[t].op = "transact" \/ ~Deferred
  <2>1. \A k \in Keys : Updates(t, k)' <=> does[k] # Kept
    BY <1>1, <1>4, <1>6 DEF Updates
  <2>2. \A k \in Keys : View'[k] = IF does[k] = Kept THEN View[k] ELSE does[k]
    BY <1>1, ThenAt
  <2> QED
    BY <1>1, <1>3, <1>5, <2>1, <2>2 DEF IndexFollows, Updates
<1>7. CASE Deferred /\ call[t].op # "transact"
  <2>1. View' = View
    <3>1. CASE call[t].op \in Writes
      BY <1>1, <1>2, <1>7, <3>1, DrainedWriteView
    <3>2. CASE call[t].op \notin Writes
      <4>1. does = NoEffect
        BY <1>7, <3>2 DEF Inv, KeyedCalls
      <4> QED
        BY <1>1, <4>1, ViewAt, EmptyEffect DEF Then
    <3> QED
      BY <3>1, <3>2
  <2>2. \A u \in Tasks, k \in Keys : ~Updates(u, k)'
    BY <1>1, <1>3, <1>7 DEF Updates
  <2> QED
    BY <1>1, <1>5, <2>1, <2>2 DEF IndexFollows
<1> QED
  BY <1>6, <1>7

LEMMA FinishFollows ==
  ASSUME MapInv, NEW t \in Tasks, Frame(t), ~Closing, Finish(t)
  PROVE  IndexFollows'
<1> USE DEF MapInv
<1> DEFINE does == call[t].does
<1>1. View' = View /\ does \in Effects /\ index \subseteq Keys
  BY FinishView DEF Inv, TypeOK, CallRecords
<1>2. pc[t] = "landed" /\ \A u \in Tasks \ {t} : pc[u] # "landed"
  BY OnlyHolder DEF Finish, Inv, Locked
<1>3. \A u \in Tasks : pc'[u] # "landed"
  BY <1>2 DEF Frame, Finish, Commit
<1>4. ASSUME NEW k \in Keys, ~Updates(t, k) PROVE k \in index <=> View[k] # Gone
  BY <1>2, <1>4 DEF IndexFollows, Updates
<1>5. \/ index' = index /\ \A k \in Keys : ~Updates(t, k)
      \/ index' = IndexAfter(does) /\ \A k \in Keys : Updates(t, k) <=> does[k] # Kept
  <2>1. CASE call[t].op = "transact"
    BY <1>2, <2>1 DEF Finish, Updates
  <2>2. CASE call[t].op # "transact" /\ (Deferred \/ call[t].op \notin Writes)
    <3>1. index' = index
      BY <2>2 DEF Finish
    <3>2. ~Deferred => does = NoEffect
      BY <2>2 DEF Inv, KeyedCalls
    <3> QED
      BY <2>2, <3>1, <3>2, EmptyEffect DEF Updates
  <2>3. CASE call[t].op # "transact" /\ ~Deferred /\ call[t].op \in Writes
    BY <1>2, <2>3 DEF Finish, Updates
  <2> QED
    BY <2>1, <2>2, <2>3
<1>6. ASSUME NEW k \in Keys PROVE k \in index' <=> View'[k] # Gone
  <2>1. CASE ~Updates(t, k)
    BY <1>1, <1>4, <1>5, <2>1, IndexAfterAt
  <2>2. CASE Updates(t, k)
    <3>1. View[k] = does[k]
      BY <2>2 DEF IndexFollows
    <3> QED
      BY <1>1, <1>5, <2>2, <3>1, IndexAfterAt
  <2> QED
    BY <2>1, <2>2
<1> QED
  BY <1>3, <1>6 DEF IndexFollows, Updates

LEMMA IndexFollowsStep ==
  ASSUME MapInv, NEW t \in Tasks, Call(t) \/ Step(t)
  PROVE  IndexFollows'
<1> USE DEF MapInv
<1> SUFFICES ASSUME ~Closing' PROVE IndexFollows'
  BY DEF IndexFollows
<1>1. Frame(t) /\ ~Closing
  BY NextFrame, ClosingStep DEF Inv
<1>2. CASE StageOnly(t) \/ StageAndFlush(t)
  BY <1>1, <1>2, StageFollows
<1>3. CASE Commit(t)
  BY <1>1, <1>3, CommitFollows
<1>4. CASE Finish(t)
  BY <1>1, <1>4, FinishFollows
<1>5. CASE CloseDiscard(t) \/ CloseMark(t) \/ CloseClear(t)
  BY <1>1, <1>5 DEF CloseDiscard, CloseMark, CloseClear, CallsInPlace, Closing
<1>6. CASE \/ Call(t) \/ EnterWrite(t) \/ EnterFlush(t) \/ EnterGet(t) \/ Build(t)
           \/ ReadRecord(t) \/ ReadChunks(t) \/ ReadFail(t)
  <2>1. View' = View
    BY <1>6, QuietView DEF Inv
  <2>2. index' = index /\ ~Commit(t) /\ ~Finish(t)
    BY <1>6 DEF Call, Invoke, EnterWrite, EnterFlush, EnterGet, Build, ReadRecord,
       ReadChunks, ReadFail, resident, Commit, Finish
  <2> QED
    BY <1>1, <2>1, <2>2, QuietFollows
<1>7. CASE LockWrite(t) \/ LockTransact(t) \/ ClosureRollback(t) \/ LockFlush(t)
           \/ ClosureCommit(t) \/ Fail(t)
  <2>1. View' = View
    BY <1>7, LockView, DrainView, FailView DEF Inv
  <2>2. index' = index /\ ~Commit(t) /\ ~Finish(t)
    <3>1. ~Finish(t) /\ index' = index
      BY <1>7 DEF LockWrite, LockTransact, ClosureRollback, LockFlush, ClosureCommit,
         Fail, Fallible, resident, Finish
    <3>2. pc[t] # "committing" \/ Fail(t)
      BY <1>7 DEF LockWrite, LockTransact, ClosureRollback, LockFlush, ClosureCommit
    <3>3. Fail(t) => ~Commit(t)
      BY DEF Fail, Commit, Leave, Done, Inv, TypeOK
    <3> QED
      BY <3>1, <3>2, <3>3 DEF Commit
  <2> QED
    BY <1>1, <2>1, <2>2, QuietFollows
<1> QED
  BY <1>2, <1>3, <1>4, <1>5, <1>6, <1>7 DEF Step

-----------------------------------------------------------------------------
(* The inductive invariant. *)

(* A key holds something exactly when it has a record, as long as no       *)
(* record has lost its chunks.                                             *)
LEMMA StoredHolds ==
  ASSUME TypeOK, NoDanglingPointer, NEW k \in Keys
  PROVE  k \in Stored <=> ValueAt(k) # Gone
<1>1. records[k] \in Records
  BY DEF TypeOK
<1>2. CASE records[k].kind = "none"
  BY <1>2 DEF Stored, ValueAt, Readable
<1>3. CASE records[k].kind = "inline"
  <2>1. Readable(k) = {records[k].val} /\ records[k].val \in Vals
    BY <1>1, <1>3 DEF Readable, Records
  <2> QED
    BY <1>3, <2>1, BatchAssumption DEF Stored, ValueAt
<1>4. CASE records[k].kind = "pointer"
  <2>1. PICK c \in chunks : c.id = records[k].id
    BY <1>4 DEF NoDanglingPointer, Chunked, ChunkIds
  <2>2. Readable(k) = {d.val : d \in {e \in chunks : e.id = records[k].id}}
    BY <1>4 DEF Readable
  <2>3. c.val \in Readable(k) /\ Readable(k) \subseteq Vals
    BY <2>1, <2>2, LockerAssumption DEF TypeOK
  <2> QED
    BY <1>4, <2>3, BatchAssumption DEF Stored, ValueAt
<1> QED
  BY <1>1, <1>2, <1>3, <1>4 DEF Records

LEMMA InitMapInv == Init => MapInv
<1> SUFFICES ASSUME Init PROVE MapInv
  OBVIOUS
<1>1. Inv
  BY InitInv
<1>2. OneChunkPerId
  <2>1. PICK old \in [Keys -> {Gone} \cup Vals] :
          \E ids \in [LargeIn(old) -> 1..Cardinality(LargeIn(old))] :
            /\ \A k, l \in LargeIn(old) : ids[k] = ids[l] => k = l
            /\ chunks = {[id |-> ids[k], val |-> old[k]] : k \in LargeIn(old)}
    BY DEF Init
  <2> QED
    BY <2>1 DEF OneChunkPerId
<1>3. DrainedUnderLock /\ WriteIsDrained /\ CallsInPlace
  BY DEF Init, DrainedUnderLock, WriteIsDrained, CallsInPlace, NoBatch, Locked
<1>4. IndexFollows
  <2>1. index = Stored /\ InFlight = NoEffect /\ staged.does = NoEffect
    BY DEF Init, InFlight, NoBatch
  <2>2. \A k \in Keys : View[k] = ValueAt(k)
    BY <2>1, ViewAt, EmptyEffect DEF Held
  <2>3. \A k \in Keys : k \in index <=> View[k] # Gone
    BY <1>1, <2>1, <2>2, StoredHolds DEF Inv
  <2> QED
    BY <2>3 DEF IndexFollows, Updates, Init
<1> QED
  BY <1>1, <1>2, <1>3, <1>4 DEF MapInv

LEMMA NextMapInv == MapInv /\ [Next]_vars => MapInv'
<1> SUFFICES ASSUME MapInv, [Next]_vars PROVE MapInv'
  OBVIOUS
<1> USE DEF MapInv
<1>1. Inv'
  BY NextInv
<1>2. ASSUME NEW t \in Tasks, Call(t) \/ Step(t) PROVE MapInv'
  <2>1. OneChunkPerId'
    BY <1>2, OneChunkStep
  <2>2. DrainedUnderLock'
    BY <1>2, DrainedStep
  <2>3. WriteIsDrained' /\ CallsInPlace'
    BY <1>2, WriteDrainedStep, CallsInPlaceStep
  <2>4. IndexFollows'
    BY <1>2, IndexFollowsStep
  <2> QED
    BY <1>1, <2>1, <2>2, <2>3, <2>4
<1>3. CASE UNCHANGED vars
  <2>1. OneChunkPerId' /\ DrainedUnderLock' /\ WriteIsDrained' /\ CallsInPlace'
    BY <1>3 DEF vars, OneChunkPerId, DrainedUnderLock, Fallible, WriteIsDrained, CallsInPlace
  <2>2. View' = View /\ (Closing' <=> Closing)
    <3>1. InFlight' = InFlight
      BY <1>3 DEF vars, InFlight
    <3> QED
      BY <1>3, <3>1, ViewSame DEF vars, Closing
  <2>3. IndexFollows'
    BY <1>3, <2>2 DEF vars, IndexFollows, Updates
  <2> QED
    BY <1>1, <2>1, <2>3
<1> QED
  BY <1>2, <1>3 DEF Next

(* The inductive invariant of the view holds of every reachable state. *)
THEOREM MapInvHolds == Spec => []MapInv
BY InitMapInv, NextMapInv, PTL DEF Spec

(* Whatever was staged, drained, merged, refused or restaged, the index of *)
(* a locker nobody closes has exactly the keys the locker holds, except    *)
(* between a landed commit and the end of its call.                        *)
THEOREM IndexIsTheView == Spec => []IndexShowsView
<1>1. MapInv => IndexShowsView
  <2> SUFFICES ASSUME MapInv, ~Closing, \A t \in Tasks : pc[t] # "landed"
               PROVE  index = {k \in Keys : View[k] # Gone}
    BY DEF IndexShowsView
  <2>1. index \subseteq Keys
    BY DEF MapInv, Inv, TypeOK
  <2>2. \A k \in Keys : k \in index <=> View[k] # Gone
    BY DEF MapInv, IndexFollows, Updates
  <2> QED
    BY <2>1, <2>2
<1> QED
  BY <1>1, MapInvHolds, PTL

-----------------------------------------------------------------------------
(* The locker implements the map.  What a step of a call is in the map:    *)
(* nothing, a call taking effect, or a call ending.                        *)

Keeps(t) == /\ View' = View
            /\ StatusOf(t)' = StatusOf(t) /\ OutcomeOf(t)' = OutcomeOf(t)

Takes(t) == /\ View' = Then(View, call[t].does)
            /\ StatusOf(t) = "pending" /\ StatusOf(t)' = "done"
            /\ OutcomeOf(t)' = OutcomeOf(t)

TakesAndSucceeds(t) == /\ View' = Then(View, call[t].does)
                       /\ StatusOf(t) = "pending" /\ StatusOf(t)' = "idle"
                       /\ OutcomeOf(t)' = "ok"

Succeeds(t) == /\ View' = View
               /\ StatusOf(t) = "done" /\ StatusOf(t)' = "idle"
               /\ OutcomeOf(t)' = "ok"

Refuses(t) == /\ View' = View
              /\ \/ StatusOf(t) = "pending"
                 \/ StatusOf(t) = "done" /\ (Deferred \/ call[t].does = NoEffect)
              /\ StatusOf(t)' = "idle"
              /\ OutcomeOf(t)' = "failed"

Advances(t) ==
  Keeps(t) \/ Takes(t) \/ TakesAndSucceeds(t) \/ Succeeds(t) \/ Refuses(t)

LEMMA NothingTaken ==
  ASSUME TypeOK
  PROVE  Then(View, NoEffect) = View
BY ViewAt, EmptyEffect DEF Then

(* A call that stays under way, on the same side of its effect. *)
LEMMA StaysKeeps ==
  ASSUME NEW t \in Tasks, View' = View, call' = call, pc[t] # "idle", pc'[t] # "idle",
         \/ call[t].does = NoEffect
         \/ /\ pc[t] = "landed" <=> pc'[t] = "landed"
            /\ \/ pc[t] \in Locked <=> pc'[t] \in Locked
               \/ ~Deferred \/ call[t].op \notin Writes
  PROVE  Keeps(t)
BY DEF Keeps, StatusOf, OutcomeOf

(* A call that ends: it has taken effect, or says that it has not. *)
LEMMA EndsWell ==
  ASSUME TypeOK, NEW t \in Tasks, View' = View, call' = call, Return(t, "ok"), pc[t] # "idle",
         call[t].does = NoEffect \/ pc[t] = "landed"
  PROVE  Succeeds(t)
BY DEF TypeOK, Succeeds, StatusOf, OutcomeOf, Return

LEMMA EndsBadly ==
  ASSUME TypeOK, NEW t \in Tasks, NEW r \in {"err", "closed", "corrupt"},
         View' = View, call' = call, Return(t, r), pc[t] # "idle",
         call[t].does = NoEffect \/ pc[t] # "landed"
  PROVE  Refuses(t)
BY DEF TypeOK, Refuses, StatusOf, OutcomeOf, Return

(* A get, a flush and a close have no effect. *)
LEMMA EffectOfReaders ==
  ASSUME Inv, NEW t \in Tasks, call[t].op \in {"get", "flush", "close"}
  PROVE  call[t].does = NoEffect
BY DEF Inv, KeyedCalls, Writes

LEMMA EnterAdvances ==
  ASSUME MapInv, NEW t \in Tasks, EnterWrite(t) \/ EnterFlush(t) \/ EnterGet(t)
  PROVE  Advances(t)
<1> USE DEF MapInv, Advances
<1>1. TypeOK /\ View' = View /\ call' = call /\ pc[t] = "entered"
  BY QuietView DEF Inv, EnterWrite, EnterFlush, EnterGet, progress
<1>2. CASE EnterWrite(t)
  <2>1. CASE Return(t, "closed")
    BY <1>1, <2>1, EndsBadly
  <2>2. CASE pc' = [pc EXCEPT ![t] = "waiting"]
    BY <1>1, <2>2, StaysKeeps DEF TypeOK, Locked
  <2> QED
    BY <1>2, <2>1, <2>2 DEF EnterWrite
<1>3. CASE EnterFlush(t)
  <2>1. call[t].does = NoEffect
    BY <1>3, EffectOfReaders DEF EnterFlush
  <2>2. CASE pc' = [pc EXCEPT ![t] = "waiting"]
    BY <1>1, <2>2, StaysKeeps DEF TypeOK, Locked
  <2>3. CASE Done(t, "ok") /\ call[t].op = "flush"
    <3>1. Return(t, "ok")
      BY <2>3 DEF Done, Return
    <3> QED
      BY <1>1, <2>1, <3>1, EndsWell
  <2>4. CASE Done(t, "ok") /\ call[t].op = "close"
    BY <1>1, <2>1, <2>4, DoneAt, StaysKeeps
  <2> QED
    BY <1>3, <2>2, <2>3, <2>4 DEF EnterFlush
<1>4. CASE EnterGet(t)
  <2>1. call[t].does = NoEffect
    BY <1>4, EffectOfReaders DEF EnterGet
  <2>2. CASE Return(t, "closed")
    BY <1>1, <2>2, EndsBadly
  <2>3. CASE Return(t, "ok")
    BY <1>1, <2>1, <2>3, EndsWell
  <2>4. CASE pc' = [pc EXCEPT ![t] = "reading"]
    BY <1>1, <2>4, StaysKeeps DEF TypeOK, Locked
  <2> QED
    BY <1>4, <2>2, <2>3, <2>4 DEF EnterGet
<1> QED
  BY <1>2, <1>3, <1>4

LEMMA StageAdvances ==
  ASSUME MapInv, NEW t \in Tasks, StageOnly(t) \/ StageAndFlush(t)
  PROVE  Advances(t)
<1> USE DEF MapInv, Advances
<1>1. /\ TypeOK /\ View' = Then(View, call[t].does) /\ call' = call
      /\ pc[t] = "waiting" /\ Deferred /\ call[t].op \in Writes
  BY StageView DEF Inv, StageOnly, StageAndFlush, progress
<1>2. call[t].does = NoEffect => View' = View
  BY <1>1, NothingTaken
<1>3. CASE StageOnly(t)
  <2>1. Return(t, "ok")
    BY <1>3 DEF StageOnly
  <2>2. CASE call[t].does = NoEffect
    BY <1>1, <1>2, <2>1, <2>2, EndsWell
  <2>3. CASE call[t].does # NoEffect
    BY <1>1, <2>1, <2>3 DEF TakesAndSucceeds, StatusOf, OutcomeOf, Return, TypeOK, Locked
  <2> QED
    BY <2>2, <2>3
<1>4. CASE StageAndFlush(t)
  <2>1. pc'[t] = "fetching"
    BY <1>1, <1>4 DEF StageAndFlush, TakeStaged, TypeOK
  <2>2. CASE call[t].does = NoEffect
    BY <1>1, <1>2, <2>1, <2>2, StaysKeeps
  <2>3. CASE call[t].does # NoEffect
    BY <1>1, <2>1, <2>3 DEF Takes, StatusOf, OutcomeOf, Locked
  <2> QED
    BY <2>2, <2>3
<1> QED
  BY <1>3, <1>4

LEMMA LockAdvances ==
  ASSUME MapInv, NEW t \in Tasks,
         LockWrite(t) \/ LockTransact(t) \/ LockFlush(t) \/ ClosureCommit(t) \/ Build(t)
  PROVE  Advances(t)
<1> USE DEF MapInv, Advances
<1>1. TypeOK /\ View' = View /\ call' = call
  BY LockView, DrainView, QuietView
     DEF Inv, LockWrite, LockTransact, LockFlush, ClosureCommit, Build, progress
<1>2. CASE LockWrite(t)
  <2>1. ~Deferred /\ pc[t] = "waiting" /\ pc'[t] \in {"trusting", "fetching"}
    BY <1>1, <1>2 DEF LockWrite, TypeOK
  <2> QED
    BY <1>1, <2>1, StaysKeeps
<1>3. CASE LockTransact(t) \/ ClosureCommit(t)
  <2>1. /\ call[t].op \notin Writes /\ pc[t] \in {"waiting", "closure"}
        /\ pc'[t] \in {"closure", "fetching"}
    BY <1>1, <1>3 DEF LockTransact, ClosureCommit, TakeStaged, CallsInPlace, TypeOK, Writes
  <2> QED
    BY <1>1, <2>1, StaysKeeps
<1>4. CASE Build(t)
  <2>1. pc[t] \in {"fetching", "trusting"} /\ pc'[t] = "committing"
    BY <1>1, <1>4 DEF Build, TypeOK
  <2> QED
    BY <1>1, <2>1, StaysKeeps DEF Locked
<1>5. CASE LockFlush(t)
  <2>1. call[t].does = NoEffect /\ pc[t] = "waiting"
    BY <1>5, EffectOfReaders DEF LockFlush
  <2>2. CASE TakeStaged(t, staged)
    BY <1>1, <2>1, <2>2, StaysKeeps DEF TakeStaged, TypeOK
  <2>3. CASE Done(t, "ok") /\ call[t].op # "close"
    <3>1. Return(t, "ok")
      BY <2>3 DEF Done, Return
    <3> QED
      BY <1>1, <2>1, <3>1, EndsWell
  <2>4. CASE Done(t, "ok") /\ call[t].op = "close"
    BY <1>1, <2>1, <2>4, DoneAt, StaysKeeps
  <2> QED
    BY <1>5, <2>2, <2>3, <2>4 DEF LockFlush
<1> QED
  BY <1>2, <1>3, <1>4, <1>5

LEMMA CommitAdvances ==
  ASSUME MapInv, NEW t \in Tasks, Commit(t)
  PROVE  Advances(t)
<1> USE DEF MapInv, Advances
<1>1. /\ View' = Then(View, call[t].does) /\ call' = call
      /\ pc[t] = "committing" /\ pc'[t] = "landed"
  BY CommitView DEF Inv, TypeOK, Commit, progress
<1>2. CASE call[t].does = NoEffect
  BY <1>1, <1>2, NothingTaken, StaysKeeps DEF Inv
<1>3. CASE call[t].does # NoEffect /\ Deferred /\ call[t].op \in Writes
  <2>1. View' = View
    BY <1>1, <1>3, DrainedWriteView
  <2> QED
    BY <1>1, <1>3, <2>1 DEF Keeps, StatusOf, OutcomeOf, Locked
<1>4. CASE call[t].does # NoEffect /\ ~(Deferred /\ call[t].op \in Writes)
  BY <1>1, <1>4 DEF Takes, StatusOf, OutcomeOf
<1> QED
  BY <1>2, <1>3, <1>4

LEMMA EndAdvances ==
  ASSUME MapInv, NEW t \in Tasks, ClosureRollback(t) \/ Fail(t) \/ Finish(t)
  PROVE  Advances(t)
<1> USE DEF MapInv, Advances
<1>1. TypeOK /\ View' = View /\ call' = call
  BY LockView, FailView, FinishView DEF Inv, ClosureRollback, Fail, Finish, progress
<1>2. CASE ClosureRollback(t)
  <2>1. pc[t] = "closure"
    BY <1>2 DEF ClosureRollback
  <2>2. CASE call[t].does = NoEffect /\ Return(t, "ok")
    BY <1>1, <2>1, <2>2, EndsWell
  <2>3. CASE Return(t, "err")
    BY <1>1, <2>1, <2>3, EndsBadly
  <2> QED
    BY <1>2, <2>2, <2>3 DEF ClosureRollback
<1>3. ASSUME Fail(t) \/ Finish(t), call[t].op = "close"
      PROVE  Keeps(t)
  <2>1. call[t].does = NoEffect /\ pc[t] # "idle"
    BY <1>3, EffectOfReaders DEF Fail, Fallible, Finish
  <2>2. Done(t, "ok") \/ Done(t, "err")
    BY <1>3 DEF Fail, Finish, Leave
  <2>3. pc'[t] # "idle"
    BY <1>1, <1>3, <2>2, DoneAt
  <2> QED
    BY <1>1, <2>1, <2>3, StaysKeeps
<1>4. CASE Fail(t) /\ call[t].op # "close"
  <2>1. Return(t, "err") /\ pc[t] \notin {"idle", "landed"}
    BY <1>4 DEF Fail, Fallible, Leave, Done, Return
  <2> QED
    BY <1>1, <2>1, EndsBadly
<1>5. CASE Finish(t) /\ call[t].op # "close"
  <2>1. Return(t, "ok") /\ pc[t] = "landed"
    BY <1>5 DEF Finish, Leave, Done, Return
  <2> QED
    BY <1>1, <2>1, EndsWell
<1> QED
  BY <1>2, <1>3, <1>4, <1>5

LEMMA CloseAdvances ==
  ASSUME MapInv, NEW t \in Tasks, CloseMark(t) \/ CloseClear(t)
  PROVE  Advances(t)
<1> USE DEF MapInv, Advances
<1>1. TypeOK /\ View' = View /\ call' = call
  BY QuietView DEF Inv, CloseMark, CloseClear, progress
<1>2. /\ pc[t] \in {"marking", "clearing"} /\ res[t] \in {"ok", "err"}
      /\ call[t].does = NoEffect
  BY EffectOfReaders DEF CloseMark, CloseClear, CallsInPlace
<1>3. CASE CloseMark(t)
  BY <1>1, <1>2, <1>3, StaysKeeps DEF CloseMark, TypeOK
<1>4. CASE CloseClear(t)
  <2>1. pc'[t] = "idle" /\ res' = res
    BY <1>1, <1>4 DEF CloseClear, TypeOK
  <2>2. CASE res[t] = "ok"
    BY <1>1, <1>2, <2>1, <2>2 DEF Succeeds, StatusOf, OutcomeOf
  <2>3. CASE res[t] = "err"
    BY <1>1, <1>2, <2>1, <2>3 DEF Refuses, StatusOf, OutcomeOf
  <2> QED
    BY <1>2, <2>2, <2>3
<1> QED
  BY <1>3, <1>4

LEMMA ReadAdvances ==
  ASSUME MapInv, NEW t \in Tasks, ReadRecord(t) \/ ReadChunks(t) \/ ReadFail(t)
  PROVE  Advances(t)
<1> USE DEF MapInv, Advances
<1>1. TypeOK /\ View' = View /\ call' = call
  BY QuietView DEF Inv, ReadRecord, ReadChunks, ReadFail, progress
<1>2. pc[t] \in {"reading", "chunks"}
  BY DEF ReadRecord, ReadChunks, ReadFail
<1>3. call[t].does = NoEffect
  BY <1>1, <1>2, EffectOfReaders DEF TypeOK
<1>4. CASE Return(t, "ok")
  BY <1>1, <1>2, <1>3, <1>4, EndsWell
<1>5. CASE \E r \in {"err", "corrupt"} : Return(t, r)
  BY <1>1, <1>2, <1>3, <1>5, EndsBadly
<1>6. CASE pc' = [pc EXCEPT ![t] = "chunks"]
  BY <1>1, <1>2, <1>3, <1>6, StaysKeeps DEF TypeOK
<1> QED
  BY <1>4, <1>5, <1>6 DEF ReadRecord, ReadChunks, ReadFail

LEMMA StepAdvances ==
  ASSUME MapInv, NEW t \in Tasks, Step(t)
  PROVE  Advances(t) \/ CloseDiscard(t)
BY EnterAdvances, StageAdvances, LockAdvances, CommitAdvances, EndAdvances,
   CloseAdvances, ReadAdvances DEF Step

(* The map's own operators are those of the locker's batches. *)
LEMMA SameBatches ==
  /\ Map!NoEffect = NoEffect /\ Map!Effects = Effects /\ Map!Contents = Contents
  /\ \A a, b : Map!Then(a, b) = Then(a, b)
BY DEF Map!NoEffect, NoEffect, Map!Effects, Effects, Map!Contents, Contents,
   Map!Then, Then

(* The calls of the other tasks stay where they are in the map. *)
LEMMA OthersStay ==
  ASSUME MapInv, NEW t \in Tasks, Call(t) \/ Step(t)
  PROVE  \A u \in Tasks \ {t} : /\ StatusOf(u)' = StatusOf(u)
                                /\ OutcomeOf(u)' = OutcomeOf(u)
                                /\ call'[u] = call[u]
BY NextFrame, ResFrame DEF MapInv, Inv, Frame, StatusOf, OutcomeOf

(* A change of one task's place in the map. *)
LEMMA OneMoves ==
  ASSUME MapInv, NEW t \in Tasks, Call(t) \/ Step(t)
  PROVE  /\ [u \in Tasks |-> StatusOf(u)]'
              = [[u \in Tasks |-> StatusOf(u)] EXCEPT ![t] = StatusOf(t)']
         /\ [u \in Tasks |-> OutcomeOf(u)]'
              = [[u \in Tasks |-> OutcomeOf(u)] EXCEPT ![t] = OutcomeOf(t)']
         /\ [u \in Tasks |-> call[u].does]'
              = [[u \in Tasks |-> call[u].does] EXCEPT ![t] = call'[t].does]
BY OthersStay

(* A call begins in the map as it does in the locker. *)
LEMMA CallMaps ==
  ASSUME MapInv, NEW t \in Tasks, Call(t)
  PROVE  \E b \in Effects : Map!Invoke(t, b)
<1> USE DEF MapInv
<1>1. PICK o, k, b : Invoke(t, o, k, b)
  BY DEF Call
<1>2. call'[t].does = b /\ pc'[t] = "entered" /\ pc[t] = "idle" /\ res'[t] = "none"
  BY <1>1 DEF Invoke, Inv, TypeOK
<1>3. b \in Effects
  BY <1>2, CallType DEF Inv, TypeOK, CallRecords
<1>4. View' = View
  BY QuietView DEF Inv
<1>5. /\ StatusOf(t) = "idle"
      /\ StatusOf(t)' = IF b = NoEffect THEN "done" ELSE "pending"
      /\ OutcomeOf(t)' = "none"
  BY <1>2 DEF StatusOf, OutcomeOf, Locked
<1>6. Map!Invoke(t, b)
  BY <1>2, <1>4, <1>5, OneMoves, SameBatches DEF Map!Invoke
<1> QED
  BY <1>3, <1>6

(* A step of a call is a step of the map, or leaves all of it alone.  Only *)
(* with deferred batches does a call that has taken effect report an error.*)
LEMMA StepMaps ==
  ASSUME MapInv, NEW t \in Tasks, Step(t), ~CloseDiscard(t)
  PROVE  Map!Next \/ UNCHANGED Map!vars
<1> USE DEF MapInv
<1>1. call'[t] = call[t]
  BY DEF Step, EnterWrite, EnterFlush, EnterGet, StageOnly, StageAndFlush, LockWrite,
     LockTransact, LockFlush, ClosureRollback, ClosureCommit, Build, Commit, Fail,
     Finish, CloseMark, CloseClear, ReadRecord, ReadChunks, ReadFail, progress
<1>2. [u \in Tasks |-> call[u].does]' = [u \in Tasks |-> call[u].does]
  <2>1. \A u \in Tasks \ {t} : call'[u] = call[u]
    BY OthersStay
  <2> QED
    BY <1>1, <2>1
<1>3. CASE Keeps(t)
  <2>1. [u \in Tasks |-> StatusOf(u)]' = [u \in Tasks |-> StatusOf(u)]
    <3>1. \A u \in Tasks : StatusOf(u)' = StatusOf(u)
      BY <1>3, OthersStay DEF Keeps
    <3> QED
      BY <3>1
  <2>2. [u \in Tasks |-> OutcomeOf(u)]' = [u \in Tasks |-> OutcomeOf(u)]
    <3>1. \A u \in Tasks : OutcomeOf(u)' = OutcomeOf(u)
      BY <1>3, OthersStay DEF Keeps
    <3> QED
      BY <3>1
  <2> QED
    BY <1>2, <1>3, <2>1, <2>2 DEF Keeps, Map!vars
<1>4. CASE Takes(t)
  <2>1. Map!TakeEffect(t)
    BY <1>2, <1>4, OneMoves, SameBatches DEF Takes, Map!TakeEffect
  <2> QED
    BY <2>1 DEF Map!Next
<1>5. CASE TakesAndSucceeds(t)
  <2>1. Map!TakeEffectAndSucceed(t)
    BY <1>2, <1>5, OneMoves, SameBatches DEF TakesAndSucceeds, Map!TakeEffectAndSucceed
  <2> QED
    BY <2>1 DEF Map!Next
<1>6. CASE Succeeds(t)
  <2>1. Map!Succeed(t)
    BY <1>2, <1>6, OneMoves DEF Succeeds, Map!Succeed, Map!End
  <2> QED
    BY <2>1 DEF Map!Next
<1>7. CASE Refuses(t)
  <2>1. Map!Refuse(t)
    BY <1>2, <1>7, OneMoves, SameBatches DEF Refuses, Map!Refuse, Map!End
  <2> QED
    BY <2>1 DEF Map!Next
<1> QED
  BY <1>3, <1>4, <1>5, <1>6, <1>7, StepAdvances DEF Advances

(* The locker starts as a map with no call under way. *)
LEMMA InitMaps == Init => Map!Init
<1> SUFFICES ASSUME Init PROVE Map!Init
  OBVIOUS
<1>1. View \in Contents
  BY InitTypeOK, ViewTypes
<1>2. \A t \in Tasks : /\ StatusOf(t) = "idle" /\ OutcomeOf(t) = "none"
                       /\ call[t].does = NoEffect
  BY DEF Init, StatusOf, OutcomeOf, NoCall
<1> QED
  BY <1>1, <1>2, SameBatches DEF Map!Init

LEMMA NextMaps ==
  ASSUME MapInv, [Next]_vars
  PROVE  [Map!Next \/ \E t \in Tasks : CloseDiscard(t)]_(Map!vars)
<1>1. CASE Next
  <2>1. PICK t \in Tasks : Call(t) \/ Step(t)
    BY <1>1 DEF Next
  <2>2. CASE Call(t)
    <3>1. \E b \in Effects : Map!Invoke(t, b)
      BY <2>2, CallMaps
    <3> QED
      BY <3>1, SameBatches DEF Map!Next
  <2>3. CASE Step(t)
    BY <2>3, StepMaps
  <2> QED
    BY <2>1, <2>2, <2>3
<1>2. CASE UNCHANGED vars
  <2>1. View' = View
    BY <1>2, ViewSame DEF vars, InFlight
  <2>2. \A t \in Tasks : StatusOf(t)' = StatusOf(t) /\ OutcomeOf(t)' = OutcomeOf(t)
    BY <1>2 DEF vars, StatusOf, OutcomeOf
  <2> QED
    BY <1>2, <2>1, <2>2 DEF vars, Map!vars
<1> QED
  BY <1>1, <1>2

(* The locker is one atomic map: every call takes effect once, with all    *)
(* the keys it names, or not at all, although it stages, drains, fetches,  *)
(* commits, restages and fails in many steps beside others.  The one       *)
(* exception is the batch that close discards.                             *)
THEOREM LockerIsAMap == Spec => OnlyDiscardLoses
BY InitMaps, NextMaps, MapInvHolds, PTL DEF Spec, OnlyDiscardLoses

(* With immediate commits there is no exception: nothing is ever staged    *)
(* for a close to discard.                                                 *)
THEOREM ImmediateLockerIsAMap ==
  ASSUME ~Deferred
  PROVE  Spec => ImplementsMap
<1>1. MapInv /\ [Next]_vars => [Map!Next]_(Map!vars)
  <2> SUFFICES ASSUME MapInv, [Next]_vars PROVE [Map!Next]_(Map!vars)
    OBVIOUS
  <2>1. [Map!Next \/ \E t \in Tasks : CloseDiscard(t)]_(Map!vars)
    BY NextMaps
  <2>2. ASSUME NEW t \in Tasks, CloseDiscard(t) PROVE UNCHANGED Map!vars
    <3>1. staged' = staged
      BY <2>2 DEF CloseDiscard, MapInv, Inv, ImmediateStagesNothing
    <3>2. /\ records' = records /\ chunks' = chunks /\ writeLock' = writeLock
          /\ taken' = taken /\ call' = call /\ res' = res
          /\ pc[t] = "discarding" /\ pc' = [pc EXCEPT ![t] = "marking"]
      BY <2>2 DEF CloseDiscard, store, progress
    <3>3. View' = View
      <4>1. pc \in [Tasks -> PCs]
        BY DEF MapInv, Inv, TypeOK
      <4>2. InFlight' = InFlight
        BY <3>2, <4>1 DEF InFlight
      <4> QED
        BY <3>1, <3>2, <4>2, ViewSame
    <3>4. \A u \in Tasks : StatusOf(u)' = StatusOf(u) /\ OutcomeOf(u)' = OutcomeOf(u)
      BY <3>2 DEF StatusOf, OutcomeOf, MapInv, Inv, TypeOK, Locked
    <3> QED
      BY <3>2, <3>3, <3>4 DEF Map!vars
  <2> QED
    BY <2>1, <2>2
<1> QED
  BY InitMaps, <1>1, MapInvHolds, PTL DEF Spec, ImplementsMap, Map!Spec

-----------------------------------------------------------------------------
(* Streaming writers beside the calls.  The argument: a value id belongs   *)
(* to one writer or one commit until a record names it, and to the key of  *)
(* that record ever after.  So whoever deletes by id deletes chunks of a   *)
(* record it replaces, or of a writer that no record will name.            *)

(* Chunks by their ids. *)

LEMMA IdsAfterRemoval ==
  ASSUME NEW S, chunks' = {c \in chunks : c.id \notin S}
  PROVE  ChunkIds' = ChunkIds \ S
BY DEF ChunkIds

LEMMA IdsAfterPiece ==
  ASSUME NEW i, NEW v, chunks' = chunks \cup {[id |-> i, val |-> v]}
  PROVE  ChunkIds' = ChunkIds \cup {i}
<1> DEFINE piece == [id |-> i, val |-> v]
<1>1. piece.id = i /\ chunks' = chunks \cup {piece}
  OBVIOUS
<1> HIDE DEF piece
<1> QED
  BY <1>1 DEF ChunkIds

LEMMA RecordIdsBelow ==
  ASSUME NoDanglingPointer, IdsFresh, NEW k \in Chunked
  PROVE  records[k].id \in ChunkIds /\ records[k].id < nextId
BY DEF NoDanglingPointer, IdsFresh

-----------------------------------------------------------------------------
(* A step of a call, beside writers that stand still. *)

(* While the locker commits nothing, its records and chunks stand, and so  *)
(* do the commits being built by others.                                   *)
LEMMA StandingCommits ==
  ASSUME NEW t \in Tasks, Frame(t), ~Build(t), NEW u \in Tasks, pc'[u] = "committing"
  PROVE  /\ pc[u] = "committing" /\ plan'[u] = plan[u]
         /\ Commits(u)' = Commits(u) /\ LargeIn(Commits(u))' = LargeIn(Commits(u))
         /\ Touched(Commits(u))' = Touched(Commits(u))
<1>1. u # t
  BY DEF Frame
<1>2. /\ pc'[u] = pc[u] /\ plan'[u] = plan[u]
      /\ taken'[u] = taken[u] /\ call'[u] = call[u]
  BY <1>1 DEF Frame
<1>3. Commits(u)' = Commits(u) /\ LargeIn(Commits(u))' = LargeIn(Commits(u))
  BY <1>2, SameCommits
<1> QED
  BY <1>2, <1>3 DEF Touched

LEMMA QuietStreams ==
  ASSUME StreamsInv, NEW t \in Tasks, Frame(t), ~Build(t), ~Commit(t), UNCHANGED wvars
  PROVE  NoDanglingPointer' /\ NoSharedIds' /\ StreamIds' /\ DeletesReplaced'
<1>1. /\ records' = records /\ chunks' = chunks /\ nextId' = nextId
      /\ Chunked' = Chunked /\ ChunkIds' = ChunkIds
  BY DEF Frame, Chunked, ChunkIds
<1>2. /\ wpc' = wpc /\ wkey' = wkey /\ wid' = wid /\ wold' = wold
  BY DEF wvars
<1>3. NoDanglingPointer' /\ NoSharedIds'
  BY <1>1 DEF StreamsInv, NoDanglingPointer, NoSharedIds
<1>4. StreamIds'
  BY <1>1, <1>2, StandingCommits DEF StreamsInv, StreamIds, Streaming
<1>5. DeletesReplaced'
  BY <1>1, <1>2, StandingCommits DEF StreamsInv, DeletesReplaced
<1> QED
  BY <1>3, <1>4, <1>5

LEMMA BuildStreams ==
  ASSUME StreamsInv, NEW t \in Tasks, Frame(t), Build(t), UNCHANGED wvars
  PROVE  NoDanglingPointer' /\ NoSharedIds' /\ StreamIds' /\ DeletesReplaced'
<1> USE DEF StreamsInv
<1> DEFINE large == LargeIn(Commits(t))
<1>1. /\ records' = records /\ chunks' = chunks
      /\ Chunked' = Chunked /\ ChunkIds' = ChunkIds
      /\ taken' = taken /\ call' = call
  BY DEF Build, Chunked, ChunkIds, resident
<1>2. wpc' = wpc /\ wkey' = wkey /\ wid' = wid /\ wold' = wold
  BY DEF wvars
<1>3. \A u \in Tasks : pc'[u] = "committing" => u = t
  BY OnlyHolder DEF Build, Frame, Locked
<1>4. LargeIn(Commits(t))' = large /\ Touched(Commits(t))' = Touched(Commits(t))
  BY <1>1 DEF LargeIn, Commits, Then, Touched
<1>5. /\ nextId' \in Nat /\ nextId \in Nat /\ nextId <= nextId'
      /\ \A k \in large : plan'[t].ids[k] \in Nat /\ nextId <= plan'[t].ids[k]
      /\ plan'[t].gc \subseteq ReplacedIds(Commits(t))
  BY BuildPlan DEF StreamsTypeOK, TypeOK
<1>6. \A i \in plan'[t].gc : \E l \in Touched(Commits(t)) \cap Chunked : i = records[l].id
  BY <1>5 DEF ReplacedIds
<1>7. /\ \A k \in Chunked : records[k].id \in Nat /\ records[k].id < nextId
      /\ wid \in [Writers -> Nat] /\ wold \in [Writers -> SUBSET Nat]
  BY RecordIdsBelow DEF StreamsTypeOK, TypeOK, Chunked, Records
<1> HIDE DEF large
<1>8. NoDanglingPointer' /\ NoSharedIds'
  BY <1>1 DEF NoDanglingPointer, NoSharedIds
<1>9. StreamIds'
  <2>1. ASSUME NEW w \in Writers, Streaming(w)
        PROVE  /\ wid[w] < nextId'
               /\ wid[w] \notin plan'[t].gc
               /\ \A k \in large : plan'[t].ids[k] # wid[w]
    <3>1. wid[w] \in Nat /\ wid[w] < nextId /\ \A k \in Chunked : records[k].id # wid[w]
      BY <1>7, <2>1 DEF StreamIds
    <3> QED
      BY <1>5, <1>6, <3>1
  <2> QED
    BY <1>1, <1>2, <1>3, <1>4, <2>1 DEF StreamIds, Streaming
<1>10. DeletesReplaced'
  <2>1. ASSUME NEW i \in plan'[t].gc
        PROVE  /\ i < nextId'
               /\ \A k \in Chunked : records[k].id = i => k \in Touched(Commits(t))
    <3>1. PICK l \in Touched(Commits(t)) \cap Chunked : i = records[l].id
      BY <1>6
    <3> QED
      BY <1>5, <1>7, <3>1 DEF NoSharedIds
  <2>2. ASSUME NEW w \in Writers, wpc[w] = "finishing", NEW i \in wold[w]
        PROVE  i < nextId' /\ \A k \in large : plan'[t].ids[k] # i
    <3>1. i \in Nat /\ i < nextId
      BY <1>7, <2>2 DEF DeletesReplaced
    <3> QED
      BY <1>5, <3>1
  <2> QED
    BY <1>1, <1>2, <1>3, <1>4, <2>1, <2>2 DEF DeletesReplaced
<1> QED
  BY <1>8, <1>9, <1>10

LEMMA CommitStreams ==
  ASSUME StreamsInv, NEW t \in Tasks, Frame(t), Commit(t), UNCHANGED wvars
  PROVE  NoDanglingPointer' /\ NoSharedIds' /\ StreamIds' /\ DeletesReplaced'
<1> USE DEF StreamsInv
<1> DEFINE large == LargeIn(Commits(t))
           gc    == plan[t].gc
<1>1. wpc' = wpc /\ wkey' = wkey /\ wid' = wid /\ wold' = wold
  BY DEF wvars
<1>2. pc[t] = "committing" /\ nextId' = nextId
  BY DEF Commit
<1>3. \A u \in Tasks : pc'[u] # "committing"
  BY <1>2, OnlyHolder DEF Commit, Frame, Locked, StreamsTypeOK, TypeOK
<1>4. ChunkIds' = (ChunkIds \ gc) \cup {plan[t].ids[k] : k \in large}
  BY CommitIds
<1>5. \A k \in large : /\ plan[t].ids[k] \notin ChunkIds
                       /\ \A l \in large : plan[t].ids[k] = plan[t].ids[l] => k = l
  BY <1>2 DEF IdsFresh
<1>6. ASSUME NEW k \in Chunked'
      PROVE  \/ k \in large /\ records'[k].id = plan[t].ids[k]
             \/ /\ k \in Chunked /\ records'[k] = records[k]
                /\ records[k].id \in ChunkIds /\ records[k].id \notin gc
  <2>1. k \in Keys
    BY DEF Chunked
  <2>2. CASE k \in large
    <3>1. records'[k] = Pointer(plan[t].ids[k])
      BY <2>1, <2>2, CommitRecords DEF StreamsTypeOK
    <3> QED
      BY <2>2, <3>1 DEF Pointer
  <2>3. CASE k \notin large
    <3>1. k \in Chunked /\ Commits(t)[k] = Kept /\ records'[k] = records[k]
      BY <2>1, <2>3, CommitRecords DEF StreamsTypeOK
    <3>2. k \notin Touched(Commits(t))
      BY <3>1 DEF Touched
    <3> QED
      BY <1>2, <3>1, <3>2, RecordIdsBelow DEF DeletesReplaced
  <2> QED
    BY <2>2, <2>3
<1> HIDE DEF large, gc
<1>7. NoDanglingPointer'
  BY <1>4, <1>6 DEF NoDanglingPointer
<1>8. NoSharedIds'
  BY <1>5, <1>6 DEF NoSharedIds
<1>9. StreamIds'
  <2>1. ASSUME NEW w \in Writers, Streaming(w)
        PROVE  /\ \A k \in Chunked' : records'[k].id # wid[w]
               /\ wid[w] \in ChunkIds => wid[w] \in ChunkIds'
    <3>1. /\ \A k \in Chunked : records[k].id # wid[w]
          /\ wid[w] \notin gc /\ \A k \in large : plan[t].ids[k] # wid[w]
      BY <1>2, <2>1 DEF StreamIds, large, gc
    <3> QED
      BY <1>4, <1>6, <3>1
  <2> QED
    BY <1>1, <1>2, <1>3, <2>1 DEF StreamIds, Streaming
<1>10. DeletesReplaced'
  <2>1. ASSUME NEW w \in Writers, wpc[w] = "finishing", NEW i \in wold[w], NEW k \in Chunked',
               records'[k].id = i
        PROVE  k = wkey[w]
    <3>1. \A l \in large : plan[t].ids[l] # i
      BY <1>2, <2>1 DEF DeletesReplaced, large
    <3> QED
      BY <1>6, <2>1, <3>1 DEF DeletesReplaced
  <2> QED
    BY <1>1, <1>2, <1>3, <2>1 DEF DeletesReplaced
<1> QED
  BY <1>7, <1>8, <1>9, <1>10

LEMMA LockerStreams ==
  ASSUME StreamsInv, NEW t \in Tasks, Call(t) \/ Step(t), UNCHANGED wvars
  PROVE  StreamsInv'
<1> USE DEF StreamsInv
<1>1. StreamsTypeOK'
  BY CallType, StepType DEF StreamsTypeOK, wvars
<1>2. LockHeld' /\ ClearingIsClosed' /\ IdsFresh'
  BY LockStep, IdsFreshStep DEF StreamsTypeOK
<1>3. Frame(t)
  BY NextFrame DEF StreamsTypeOK
<1>4. NoDanglingPointer' /\ NoSharedIds' /\ StreamIds' /\ DeletesReplaced'
  BY <1>3, QuietStreams, BuildStreams, CommitStreams
<1> QED
  BY <1>1, <1>2, <1>4

-----------------------------------------------------------------------------
(* A step of a writer, beside calls that stand still. *)

(* What no writer touches. *)
WriterFrame(w) ==
  /\ wkey' = wkey /\ wval' = wval
  /\ pc' = pc /\ call' = call /\ taken' = taken /\ plan' = plan /\ staged' = staged
  /\ writeLock' = writeLock /\ closed' = closed
  /\ \A v \in Writers \ {w} : /\ wpc'[v] = wpc[v] /\ wid'[v] = wid[v]
                              /\ wold'[v] = wold[v]
  /\ \A u \in Tasks : /\ Commits(u)' = Commits(u)
                      /\ LargeIn(Commits(u))' = LargeIn(Commits(u))
                      /\ Touched(Commits(u))' = Touched(Commits(u))

LEMMA WriterFrames ==
  ASSUME StreamsTypeOK, NEW w \in Writers, WriterStep(w)
  PROVE  WriterFrame(w)
<1>1. /\ pc' = pc /\ call' = call /\ taken' = taken /\ plan' = plan /\ staged' = staged
      /\ writeLock' = writeLock /\ closed' = closed /\ wkey' = wkey /\ wval' = wval
  BY DEF WriterStep, WriterEnter, WriterStart, WritePiece, FinishRead, FinishCommit,
     FinishIndex, WriterAbort, WriterDrop, vars, locker
<1>2. \A v \in Writers \ {w} : /\ wpc'[v] = wpc[v] /\ wid'[v] = wid[v]
                               /\ wold'[v] = wold[v]
  BY DEF StreamsTypeOK, WriterStep, WriterEnter, WriterStart, WritePiece, FinishRead,
     FinishCommit, FinishIndex, WriterAbort, WriterDrop, Move
<1>3. \A u \in Tasks : Commits(u)' = Commits(u)
  BY <1>1 DEF Commits, Then
<1> QED
  BY <1>1, <1>2, <1>3 DEF WriterFrame, LargeIn, Touched

LEMMA WriterTypes ==
  ASSUME StreamsTypeOK, NEW w \in Writers, WriterStep(w)
  PROVE  StreamsTypeOK'
<1> USE DEF StreamsTypeOK, TypeOK, store, locker, Move, WriterPCs
<1>1. CASE WriterEnter(w)
  BY <1>1 DEF WriterEnter, vars
<1>2. CASE WriterStart(w)
  <2>1. Cardinality({wkey[w]}) = 1
    BY FS_Singleton
  <2>2. nextId' = nextId + 1
    BY <1>2, <2>1 DEF WriterStart, CursorAfter
  <2> QED
    BY <1>2, <2>2 DEF WriterStart
<1>3. CASE WritePiece(w)
  <2>1. [id |-> wid[w], val |-> wval[w]] \in [id : Nat, val : LargeVals]
    OBVIOUS
  <2> QED
    BY <1>3, <2>1 DEF WritePiece
<1>4. CASE FinishRead(w)
  <2>1. {records[k].id : k \in {wkey[w]} \cap Chunked} \subseteq Nat
    BY DEF Chunked, Records
  <2> QED
    BY <1>4, <2>1 DEF FinishRead, vars
<1>5. CASE FinishCommit(w)
  <2>1. Pointer(wid[w]) \in Records
    BY DEF Pointer, Records
  <2> QED
    BY <1>5, <2>1 DEF FinishCommit
<1>6. CASE FinishIndex(w)
  BY <1>6 DEF FinishIndex
<1>7. CASE WriterAbort(w)
  BY <1>7 DEF WriterAbort
<1>8. CASE WriterDrop(w)
  BY <1>8 DEF WriterDrop
<1> QED
  BY <1>1, <1>2, <1>3, <1>4, <1>5, <1>6, <1>7, <1>8 DEF WriterStep

(* Steps that leave the store alone, and give the writer no id to stream   *)
(* under and nothing to delete.                                            *)
LEMMA IdleStep ==
  ASSUME StreamsInv, NEW w \in Writers,
         WriterEnter(w) \/ FinishIndex(w) \/ WriterDrop(w)
  PROVE  IdsFresh' /\ NoDanglingPointer' /\ NoSharedIds' /\ StreamIds' /\ DeletesReplaced'
<1> USE DEF StreamsInv
<1>1. WriterFrame(w)
  BY WriterFrames DEF WriterStep
<1>2. /\ records' = records /\ chunks' = chunks /\ nextId' = nextId
      /\ Chunked' = Chunked /\ ChunkIds' = ChunkIds
      /\ wpc'[w] \in {"queued", "done", "dropped"}
  BY DEF WriterEnter, FinishIndex, WriterDrop, vars, store, Chunked, ChunkIds, Move,
     StreamsTypeOK
<1>3. IdsFresh' /\ NoDanglingPointer' /\ NoSharedIds'
  BY <1>1, <1>2 DEF IdsFresh, NoDanglingPointer, NoSharedIds, WriterFrame
<1>4. StreamIds'
  BY <1>1, <1>2 DEF StreamIds, Streaming, WriterFrame
<1>5. DeletesReplaced'
  BY <1>1, <1>2 DEF DeletesReplaced, WriterFrame
<1> QED
  BY <1>3, <1>4, <1>5

(* An id is handed out under the lock, while no commit is being built. *)
LEMMA StartStep ==
  ASSUME StreamsInv, NEW w \in Writers, WriterStart(w)
  PROVE  IdsFresh' /\ NoDanglingPointer' /\ NoSharedIds' /\ StreamIds' /\ DeletesReplaced'
<1> USE DEF StreamsInv
<1>1. WriterFrame(w)
  BY WriterFrames DEF WriterStep
<1>2. /\ records' = records /\ chunks' = chunks /\ wold' = wold
      /\ Chunked' = Chunked /\ ChunkIds' = ChunkIds
      /\ wpc'[w] = "open" /\ wid'[w] = nextId
  BY DEF WriterStart, Chunked, ChunkIds, Move, StreamsTypeOK
<1>3. nextId' = nextId + 1 /\ nextId \in Nat
  BY FS_Singleton DEF WriterStart, CursorAfter, StreamsTypeOK, TypeOK
<1>4. \A u \in Tasks : pc[u] # "committing"
  BY LockerAssumption DEF WriterStart, LockHeld, Locked
<1>5. /\ ChunkIds \subseteq Nat /\ wid \in [Writers -> Nat] /\ wold \in [Writers -> SUBSET Nat]
  BY DEF ChunkIds, StreamsTypeOK, TypeOK
<1>6. IdsFresh' /\ NoDanglingPointer' /\ NoSharedIds'
  BY <1>1, <1>2, <1>3, <1>4, <1>5
     DEF IdsFresh, NoDanglingPointer, NoSharedIds, WriterFrame
<1>7. \A k \in Chunked : records[k].id # nextId
  BY <1>3, <1>5, RecordIdsBelow
<1>8. StreamIds'
  <2>1. ASSUME NEW v \in Writers, wpc[v] = "finishing" PROVE nextId \notin wold[v]
    BY <1>3, <2>1 DEF DeletesReplaced
  <2>2. ASSUME NEW v \in Writers \ {w}, Streaming(v)
        PROVE  wid[v] # nextId /\ wid[v] < nextId'
    <3>1. wid[v] \in Nat /\ wid[v] < nextId
      BY <1>5, <2>2 DEF StreamIds
    <3> QED
      BY <1>3, <3>1
  <2> QED
    BY <1>1, <1>2, <1>3, <1>4, <1>7, <2>1, <2>2 DEF StreamIds, Streaming, WriterFrame
<1>9. DeletesReplaced'
  <2>1. ASSUME NEW v \in Writers, wpc[v] = "finishing", NEW i \in wold[v]
        PROVE  i < nextId'
    <3>1. i \in Nat /\ i < nextId
      BY <1>5, <2>1 DEF DeletesReplaced
    <3> QED
      BY <1>3, <3>1
  <2> QED
    BY <1>1, <1>2, <1>4, <2>1 DEF DeletesReplaced, WriterFrame
<1> QED
  BY <1>6, <1>8, <1>9

LEMMA PieceStep ==
  ASSUME StreamsInv, NEW w \in Writers, WritePiece(w)
  PROVE  IdsFresh' /\ NoDanglingPointer' /\ NoSharedIds' /\ StreamIds' /\ DeletesReplaced'
<1> USE DEF StreamsInv
<1>1. WriterFrame(w)
  BY WriterFrames DEF WriterStep
<1>2. /\ records' = records /\ nextId' = nextId /\ wid' = wid /\ wold' = wold
      /\ Chunked' = Chunked /\ Streaming(w) /\ wpc'[w] = "flushed"
  BY DEF WritePiece, Chunked, Move, Streaming, StreamsTypeOK
<1>3. ChunkIds' = ChunkIds \cup {wid[w]}
  BY IdsAfterPiece DEF WritePiece
<1>4. IdsFresh'
  BY <1>1, <1>2, <1>3 DEF IdsFresh, StreamIds, WriterFrame
<1>5. NoDanglingPointer' /\ NoSharedIds'
  BY <1>2, <1>3 DEF NoDanglingPointer, NoSharedIds
<1>6. StreamIds'
  BY <1>1, <1>2, <1>3 DEF StreamIds, Streaming, WriterFrame
<1>7. DeletesReplaced'
  BY <1>1, <1>2 DEF DeletesReplaced, WriterFrame
<1> QED
  BY <1>4, <1>5, <1>6, <1>7

(* finish reads the record it will replace: its key owns what it names. *)
LEMMA FinishReadStep ==
  ASSUME StreamsInv, NEW w \in Writers, FinishRead(w)
  PROVE  IdsFresh' /\ NoDanglingPointer' /\ NoSharedIds' /\ StreamIds' /\ DeletesReplaced'
<1> USE DEF StreamsInv
<1>1. WriterFrame(w)
  BY WriterFrames DEF WriterStep
<1>2. /\ records' = records /\ chunks' = chunks /\ nextId' = nextId /\ wid' = wid
      /\ Chunked' = Chunked /\ ChunkIds' = ChunkIds
      /\ wpc[w] = "flushed" /\ wpc'[w] = "finishing"
  BY DEF FinishRead, vars, Chunked, ChunkIds, Move, StreamsTypeOK
<1>3. wold'[w] = {records[k].id : k \in {wkey[w]} \cap Chunked}
  BY DEF FinishRead, StreamsTypeOK
<1>4. \A i \in wold'[w] : wkey[w] \in Chunked /\ i = records[wkey[w]].id
  BY <1>3
<1>5. IdsFresh' /\ NoDanglingPointer' /\ NoSharedIds'
  BY <1>1, <1>2 DEF IdsFresh, NoDanglingPointer, NoSharedIds, WriterFrame
<1>6. StreamIds'
  <2>1. \A v \in Writers : Streaming(v) => wid[v] \notin wold'[w]
    BY <1>4 DEF StreamIds
  <2> QED
    BY <1>1, <1>2, <2>1 DEF StreamIds, Streaming, WriterFrame
<1>7. DeletesReplaced'
  <2>1. ASSUME NEW i \in wold'[w]
        PROVE  /\ i < nextId
               /\ \A k \in Chunked : records[k].id = i => k = wkey[w]
               /\ \A u \in Tasks : pc[u] = "committing" =>
                    \A k \in LargeIn(Commits(u)) : plan[u].ids[k] # i
    BY <1>4, <2>1, RecordIdsBelow DEF NoSharedIds, IdsFresh
  <2> QED
    BY <1>1, <1>2, <2>1 DEF DeletesReplaced, WriterFrame
<1> QED
  BY <1>5, <1>6, <1>7

(* finish publishes the id, and deletes what the key held when it read it. *)
LEMMA FinishCommitStep ==
  ASSUME StreamsInv, NEW w \in Writers, FinishCommit(w)
  PROVE  IdsFresh' /\ NoDanglingPointer' /\ NoSharedIds' /\ StreamIds' /\ DeletesReplaced'
<1> USE DEF StreamsInv
<1>1. WriterFrame(w)
  BY WriterFrames DEF WriterStep
<1>2. /\ nextId' = nextId /\ wid' = wid /\ wold' = wold
      /\ wpc[w] = "finishing" /\ wpc'[w] = "published" /\ Streaming(w)
  BY DEF FinishCommit, Move, Streaming, StreamsTypeOK
<1>3. ChunkIds' = ChunkIds \ wold[w]
  BY IdsAfterRemoval DEF FinishCommit
<1>4. /\ records'[wkey[w]] = Pointer(wid[w])
      /\ \A k \in Keys : k # wkey[w] => records'[k] = records[k]
  BY DEF FinishCommit, StreamsTypeOK, TypeOK
<1>5. ASSUME NEW k \in Chunked'
      PROVE  \/ k = wkey[w] /\ records'[k].id = wid[w]
             \/ k # wkey[w] /\ k \in Chunked /\ records'[k] = records[k]
  BY <1>4 DEF Chunked, Pointer
<1>6. IdsFresh'
  BY <1>1, <1>2, <1>3 DEF IdsFresh, WriterFrame
<1>7. NoDanglingPointer'
  BY <1>2, <1>3, <1>5, RecordIdsBelow DEF NoDanglingPointer, StreamIds, DeletesReplaced
<1>8. NoSharedIds'
  BY <1>2, <1>5 DEF NoSharedIds, StreamIds
<1>9. StreamIds'
  <2>1. ASSUME NEW v \in Writers \ {w}, Streaming(v)
        PROVE  /\ \A k \in Chunked' : records'[k].id # wid[v]
               /\ wid[v] \in ChunkIds => wid[v] \in ChunkIds'
    BY <1>2, <1>3, <1>5, <2>1 DEF StreamIds
  <2> QED
    BY <1>1, <1>2, <2>1 DEF StreamIds, Streaming, WriterFrame
<1>10. DeletesReplaced'
  <2>1. ASSUME NEW t \in Tasks, pc[t] = "committing", NEW i \in plan[t].gc,
               NEW k \in Chunked', records'[k].id = i
        PROVE  k \in Touched(Commits(t))
    BY <1>2, <1>5, <2>1 DEF StreamIds, DeletesReplaced
  <2>2. ASSUME NEW v \in Writers \ {w}, wpc[v] = "finishing", NEW i \in wold[v],
               NEW k \in Chunked', records'[k].id = i
        PROVE  k = wkey[v]
    BY <1>2, <1>5, <2>2 DEF StreamIds, DeletesReplaced
  <2> QED
    BY <1>1, <1>2, <2>1, <2>2 DEF DeletesReplaced, WriterFrame
<1> QED
  BY <1>6, <1>7, <1>8, <1>9, <1>10

LEMMA AbortStep ==
  ASSUME StreamsInv, NEW w \in Writers, WriterAbort(w)
  PROVE  IdsFresh' /\ NoDanglingPointer' /\ NoSharedIds' /\ StreamIds' /\ DeletesReplaced'
<1> USE DEF StreamsInv
<1>1. WriterFrame(w)
  BY WriterFrames DEF WriterStep
<1>2. /\ records' = records /\ nextId' = nextId /\ wid' = wid /\ wold' = wold
      /\ Chunked' = Chunked /\ Streaming(w) /\ wpc'[w] = "done"
  BY DEF WriterAbort, Chunked, Move, Streaming, StreamsTypeOK
<1>3. ChunkIds' = ChunkIds \ {wid[w]}
  BY IdsAfterRemoval DEF WriterAbort, AbortedIds
<1>4. IdsFresh'
  BY <1>1, <1>2, <1>3 DEF IdsFresh, WriterFrame
<1>5. NoDanglingPointer' /\ NoSharedIds'
  BY <1>2, <1>3 DEF NoDanglingPointer, NoSharedIds, StreamIds
<1>6. StreamIds'
  BY <1>1, <1>2, <1>3 DEF StreamIds, Streaming, WriterFrame
<1>7. DeletesReplaced'
  BY <1>1, <1>2 DEF DeletesReplaced, WriterFrame
<1> QED
  BY <1>4, <1>5, <1>6, <1>7

LEMMA WriterStreams ==
  ASSUME StreamsInv, NEW w \in Writers, WriterStep(w)
  PROVE  StreamsInv'
<1>1. StreamsTypeOK'
  BY WriterTypes DEF StreamsInv
<1>2. LockHeld' /\ ClearingIsClosed'
  BY WriterFrames DEF StreamsInv, WriterFrame, LockHeld, ClearingIsClosed
<1>3. IdsFresh' /\ NoDanglingPointer' /\ NoSharedIds' /\ StreamIds' /\ DeletesReplaced'
  BY IdleStep, StartStep, PieceStep, FinishReadStep, FinishCommitStep, AbortStep
     DEF WriterStep
<1> QED
  BY <1>1, <1>2, <1>3 DEF StreamsInv

-----------------------------------------------------------------------------
(* The invariant, and what a piece, an abort or a drop leaves alone. *)

LEMMA StreamsInitInv == StreamsInit => StreamsInv
<1> SUFFICES ASSUME StreamsInit PROVE StreamsInv
  OBVIOUS
<1>1. Inv
  BY InitInv DEF StreamsInit
<1>2. StreamsTypeOK
  BY <1>1 DEF StreamsInit, StreamsTypeOK, Inv, WriterPCs
<1>3. StreamIds /\ DeletesReplaced
  BY DEF StreamsInit, Init, StreamIds, DeletesReplaced, Streaming
<1> QED
  BY <1>1, <1>2, <1>3 DEF Inv, StreamsInv

LEMMA StreamsNextInv == StreamsInv /\ [StreamsNext]_allvars => StreamsInv'
<1> SUFFICES ASSUME StreamsInv, [StreamsNext]_allvars PROVE StreamsInv'
  OBVIOUS
<1>1. CASE Next /\ UNCHANGED wvars
  BY <1>1, LockerStreams DEF Next
<1>2. CASE \E w \in Writers : WriterStep(w)
  BY <1>2, WriterStreams
<1>3. CASE UNCHANGED allvars
  <2>1. UNCHANGED vars /\ UNCHANGED wvars
    BY <1>3 DEF allvars
  <2>2. /\ Chunked' = Chunked /\ ChunkIds' = ChunkIds
        /\ \A u \in Tasks : Commits(u)' = Commits(u)
    BY <2>1 DEF vars, Chunked, ChunkIds, Commits, Then
  <2>3. \A u \in Tasks : /\ LargeIn(Commits(u))' = LargeIn(Commits(u))
                         /\ Touched(Commits(u))' = Touched(Commits(u))
    BY <2>2 DEF LargeIn, Touched
  <2>4. StreamsTypeOK' /\ LockHeld' /\ ClearingIsClosed'
    BY <2>1 DEF StreamsInv, vars, wvars, StreamsTypeOK, TypeOK, LockHeld, ClearingIsClosed
  <2>5. IdsFresh' /\ NoDanglingPointer' /\ NoSharedIds'
    BY <2>1, <2>2, <2>3 DEF StreamsInv, vars, IdsFresh, NoDanglingPointer, NoSharedIds
  <2>6. StreamIds'
    BY <2>1, <2>2, <2>3 DEF StreamsInv, vars, wvars, StreamIds, Streaming
  <2>7. DeletesReplaced'
    BY <2>1, <2>2, <2>3 DEF StreamsInv, vars, wvars, DeletesReplaced
  <2> QED
    BY <2>4, <2>5, <2>6, <2>7 DEF StreamsInv
<1> QED
  BY <1>1, <1>2, <1>3 DEF StreamsNext

(* Every pointer, put or streamed, finds its chunks, however many writers  *)
(* stream, finish, abort and drop beside the locker's own commits.         *)
THEOREM StreamsInvHolds == StreamsSpec => []StreamsInv
BY StreamsInitInv, StreamsNextInv, PTL DEF StreamsSpec

(* Chunks that no record names do not show. *)
LEMMA UnnamedUnseen ==
  ASSUME TypeOK, records' = records,
         \A k \in Chunked : {c \in chunks' : c.id = records[k].id}
                              = {c \in chunks : c.id = records[k].id}
  PROVE  \A k \in Keys : ValueAt(k)' = ValueAt(k)
<1> SUFFICES ASSUME NEW k \in Keys PROVE ValueAt(k)' = ValueAt(k)
  OBVIOUS
<1>1. Readable(k)' = Readable(k)
  <2>1. CASE k \in Chunked
    BY <2>1 DEF Readable, Chunked
  <2>2. CASE k \notin Chunked
    <3>1. records[k].kind \in {"none", "inline"}
      BY <2>2 DEF Chunked, TypeOK, Records
    <3> QED
      BY <3>1 DEF Readable
  <2> QED
    BY <2>1, <2>2
<1> QED
  BY <1>1 DEF ValueAt

LEMMA WriterView ==
  ASSUME StreamsInv, NEW w \in Writers,
         WritePiece(w) \/ WriterAbort(w) \/ FinishIndex(w) \/ WriterDrop(w)
  PROVE  View' = View
<1> USE DEF StreamsInv
<1>1. WriterFrame(w) /\ TypeOK
  BY WriterFrames DEF WriterStep, StreamsTypeOK
<1>2. records' = records
  BY DEF WritePiece, WriterAbort, FinishIndex, WriterDrop, store
<1>3. \A k \in Chunked : {c \in chunks' : c.id = records[k].id}
                           = {c \in chunks : c.id = records[k].id}
  <2>1. CASE WritePiece(w) \/ WriterAbort(w)
    <3>1. \A k \in Chunked : records[k].id # wid[w]
      BY <2>1 DEF WritePiece, WriterAbort, StreamIds, Streaming
    <3>2. \/ chunks' = chunks \cup {[id |-> wid[w], val |-> wval[w]]}
          \/ chunks' = {c \in chunks : c.id # wid[w]}
      BY <2>1 DEF WritePiece, WriterAbort, AbortedIds
    <3> QED
      BY <3>1, <3>2
  <2>2. CASE FinishIndex(w) \/ WriterDrop(w)
    BY <2>2 DEF FinishIndex, WriterDrop, store
  <2> QED
    BY <2>1, <2>2
<1>4. InFlight' = InFlight /\ staged' = staged
  BY <1>1 DEF WriterFrame, InFlight
<1> QED
  BY <1>1, <1>2, <1>3, <1>4, UnnamedUnseen, ViewAt DEF Held

(* Nothing under any key changes while a writer writes pieces, aborts, is  *)
(* dropped, or only updates the index after its finish.                    *)
THEOREM StreamsUnseen == StreamsSpec => UnfinishedUnseen
<1>1. ASSUME StreamsInv, [StreamsNext]_allvars
      PROVE  [\A w \in Writers : wpc'[w] # wpc[w] /\ wpc'[w] \in {"flushed", "done", "dropped"}
                => View' = View]_allvars
  <2>1. CASE Next /\ UNCHANGED wvars
    BY <2>1 DEF wvars
  <2>2. ASSUME NEW w \in Writers, WriterStep(w),
               NEW v \in Writers, wpc'[v] # wpc[v], wpc'[v] \in {"flushed", "done", "dropped"}
        PROVE  View' = View
    <3>1. v = w
      BY <1>1, <2>2, WriterFrames DEF StreamsInv, WriterFrame
    <3>2. WritePiece(w) \/ WriterAbort(w) \/ FinishIndex(w) \/ WriterDrop(w)
      BY <1>1, <2>2, <3>1 DEF WriterStep, WriterEnter, WriterStart, FinishRead,
         FinishCommit, Move, StreamsInv, StreamsTypeOK
    <3> QED
      BY <1>1, <3>2, WriterView
  <2> QED
    BY <1>1, <2>1, <2>2 DEF StreamsNext
<1> QED
  BY <1>1, StreamsInvHolds, PTL DEF StreamsSpec, UnfinishedUnseen

=============================================================================

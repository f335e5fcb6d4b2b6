------------------------------ MODULE ValueIds ------------------------------
(***************************************************************************)
(* The bank-wide allocator of chunk value ids (src/src/locker/chunk.rs)    *)
(* and everything that takes an id from it: the chunked puts of several    *)
(* lockers and their streaming writers, over a store that survives the     *)
(* process.                                                                *)
(*                                                                         *)
(* The cursor lives in RAM and starts unseeded; the store keeps a counter  *)
(* that every allocating commit overwrites with what the cursor was when   *)
(* the commit was built.  Commits of different lockers land in any order.  *)
(* Each task writes a locker of its own, so it holds that locker's lock.   *)
(*                                                                         *)
(* Abstracted: the chunks of one value id are one entry, labelled with the *)
(* locker that wrote it; inline records take no id and are left out.       *)
(***************************************************************************)
EXTENDS Naturals

CONSTANTS Banks,     \* open banks over one store: one, or one per browser tab
          Tasks,     \* one writer per locker
          BankOf,    \* which bank the task's locker belongs to
          NoTask,
          LastId,    \* u64::MAX, which is never handed out
          MaxBatch,  \* bound: chunked values in one commit
          Readable,  \* lockers somebody reads from meanwhile
          Unseeded   \* ValueIds::next = None

ASSUME IdsAssumption == /\ NoTask \notin Tasks
                        /\ BankOf \in [Tasks -> Banks]
                        /\ LastId \in Nat /\ MaxBatch \in Nat \ {0}
                        /\ Unseeded \notin Nat
                        /\ Readable \subseteq Tasks

Ids == 0..LastId

VARIABLES
  \* the store
  stored,    \* META_NEXT_VALUE_ID; 0 when absent
  chunks,    \* of each id, the locker whose value its chunks hold
  named,     \* of each locker, the ids its pointer records name
  \* RAM
  cursor,    \* of each bank
  pc,        \* of each task
  kind,      \* put: a batch of chunked puts; writer: a streaming Writer
  left,      \* chunked values of its batch still without an id
  ids,       \* the ids it has taken
  replaced,  \* the ids its commit deletes
  floor,     \* what seeding has read so far
  counter,   \* the counter op its commit carries
  reader     \* a Reader, or a get between record and chunks; whether its bank
             \* had handed out an id by the time it was opened

vars == <<stored, chunks, named, cursor, pc, kind, left, ids, replaced, floor,
          counter, reader>>

NoReader == [of |-> NoTask, id |-> 0, seeded |-> FALSE]
StoredIds == {i \in Ids : chunks[i] # NoTask}

PCs == {"idle", "taking", "counted", "floored", "taken", "built", "streaming"}
Goto(t, s) == pc' = [pc EXCEPT ![t] = s]

TypeOK == /\ stored \in Ids
          /\ chunks \in [Ids -> Tasks \cup {NoTask}]
          /\ named \in [Tasks -> SUBSET Ids]
          /\ cursor \in [Banks -> Ids \cup {Unseeded}]
          /\ pc \in [Tasks -> PCs]
          /\ kind \in [Tasks -> {"put", "writer"}]
          /\ left \in [Tasks -> 0..MaxBatch]
          /\ ids \in [Tasks -> SUBSET Ids]
          /\ replaced \in [Tasks -> SUBSET Ids]
          /\ floor \in [Tasks -> Ids]
          /\ counter \in [Tasks -> Ids]
          /\ reader \in [of : Tasks \cup {NoTask}, id : Ids, seeded : BOOLEAN]

Init == /\ stored = 0
        /\ chunks = [i \in Ids |-> NoTask]
        /\ named = [t \in Tasks |-> {}]
        /\ cursor = [b \in Banks |-> Unseeded]
        /\ pc = [t \in Tasks |-> "idle"]
        /\ kind = [t \in Tasks |-> "put"]
        /\ left = [t \in Tasks |-> 0]
        /\ ids = [t \in Tasks |-> {}]
        /\ replaced = [t \in Tasks |-> {}]
        /\ floor = [t \in Tasks |-> 0]
        /\ counter = [t \in Tasks |-> 0]
        /\ reader = NoReader

-----------------------------------------------------------------------------
(* Beginning a write. *)

(* Some puts of chunked values, over records whose chunks they replace. *)
BeginPut(t) ==
  /\ pc[t] = "idle"
  /\ \E n \in 1..MaxBatch, old \in SUBSET named[t] :
       /\ left' = [left EXCEPT ![t] = n]
       /\ replaced' = [replaced EXCEPT ![t] = old]
  /\ kind' = [kind EXCEPT ![t] = "put"]
  /\ Goto(t, "taking")
  /\ UNCHANGED <<stored, chunks, named, cursor, ids, floor, counter, reader>>

(* Writer::start. *)
BeginWriter(t) ==
  /\ pc[t] = "idle"
  /\ left' = [left EXCEPT ![t] = 1]
  /\ kind' = [kind EXCEPT ![t] = "writer"]
  /\ Goto(t, "taking")
  /\ UNCHANGED <<stored, chunks, named, cursor, ids, replaced, floor, counter, reader>>

-----------------------------------------------------------------------------
(* ValueIds::allocate. *)

(* advance: checked_add.  Slip: the last id is handed out too. *)
CanAdvanceAlways(id) == id <= LastId
CanAdvance(id) == id < LastId

(* take and seed_and_take both leave the cursor one past the id. *)
HandOut(t, id) ==
  /\ CanAdvance(id)
  /\ cursor' = [cursor EXCEPT ![BankOf[t]] = id + 1]
  /\ ids' = [ids EXCEPT ![t] = @ \cup {id}]
  /\ left' = [left EXCEPT ![t] = @ - 1]
  /\ Goto(t, "taken")

(* The cursor is seeded already. *)
Take(t) ==
  /\ pc[t] = "taking" /\ cursor[BankOf[t]] # Unseeded
  /\ HandOut(t, cursor[BankOf[t]])
  /\ UNCHANGED <<stored, chunks, named, kind, replaced, floor, counter, reader>>

(* It is not: seed_floor reads the stored counter, *)
ReadCounter(t) ==
  /\ pc[t] = "taking" /\ cursor[BankOf[t]] = Unseeded
  /\ floor' = [floor EXCEPT ![t] = stored]
  /\ Goto(t, "counted")
  /\ UNCHANGED <<stored, chunks, named, cursor, kind, left, ids, replaced, counter, reader>>

(* then the highest id in the chunks table; the floor is one past it, or   *)
(* the counter if that is larger.  Slip: the counter alone is trusted.     *)
IsPast(n, S) == (\A i \in S : i < n) /\ (n = 0 \/ n - 1 \in S)
Larger(m, n) == IF m > n THEN m ELSE n
FloorFromCounter(t, past) == floor[t]
Floor(t, past) == Larger(floor[t], past)

ReadHighest(t) ==
  /\ pc[t] = "counted"
  /\ \E past \in Ids : /\ IsPast(past, StoredIds)
                       /\ floor' = [floor EXCEPT ![t] = Floor(t, past)]
  /\ Goto(t, "floored")
  /\ UNCHANGED <<stored, chunks, named, cursor, kind, left, ids, replaced, counter, reader>>

(* seed_and_take: another task may have seeded the cursor meanwhile.       *)
(* Slip: a plain assignment.                                               *)
SeedAssigned(t) == floor[t]
Seed(t) == IF cursor[BankOf[t]] = Unseeded THEN floor[t]
           ELSE Larger(cursor[BankOf[t]], floor[t])

SeedAndTake(t) ==
  /\ pc[t] = "floored"
  /\ HandOut(t, Seed(t))
  /\ UNCHANGED <<stored, chunks, named, kind, replaced, floor, counter, reader>>

(* counter_op, built from the cursor of now.  In a batch the last one of   *)
(* these is the one that counts.                                           *)
BuildCounter(t) ==
  /\ pc[t] = "taken"
  /\ counter' = [counter EXCEPT ![t] = cursor[BankOf[t]]]
  /\ Goto(t, IF left[t] > 0 THEN "taking" ELSE "built")
  /\ UNCHANGED <<stored, chunks, named, cursor, kind, left, ids, replaced, floor, reader>>

-----------------------------------------------------------------------------
(* Commits, and what else can end a write. *)

Rest(t) == /\ left' = [left EXCEPT ![t] = 0]
           /\ ids' = [ids EXCEPT ![t] = {}]
           /\ replaced' = [replaced EXCEPT ![t] = {}]
           /\ floor' = [floor EXCEPT ![t] = 0]
           /\ counter' = [counter EXCEPT ![t] = 0]
           /\ kind' = [kind EXCEPT ![t] = "put"]
           /\ Goto(t, "idle")

(* The chunks table after a commit of t that deletes the ids gone (gc_ops: *)
(* a delete of the id's whole prefix) and then writes the ids new.         *)
ChunksAfter(t, gone, new) ==
  [i \in Ids |-> IF i \in new THEN t ELSE IF i \in gone THEN NoTask ELSE chunks[i]]

(* put_payload_ops, committed. *)
CommitPut(t) ==
  /\ pc[t] = "built" /\ kind[t] = "put"
  /\ chunks' = ChunksAfter(t, replaced[t], ids[t])
  /\ named' = [named EXCEPT ![t] = (@ \ replaced[t]) \cup ids[t]]
  /\ stored' = counter[t]
  /\ Rest(t)
  /\ UNCHANGED <<cursor, reader>>

(* Writer::start commits its counter op alone. *)
CommitStart(t) ==
  /\ pc[t] = "built" /\ kind[t] = "writer"
  /\ stored' = counter[t]
  /\ Goto(t, "streaming")
  /\ UNCHANGED <<chunks, named, cursor, kind, left, ids, replaced, floor,
                 counter, reader>>

(* Writer::flush_piece. *)
FlushPiece(t) ==
  /\ pc[t] = "streaming"
  /\ chunks' = ChunksAfter(t, {}, ids[t])
  /\ UNCHANGED <<stored, named, cursor, pc, kind, left, ids, replaced, floor,
                 counter, reader>>

(* Writer::finish: read the record, delete its chunks, name the new ones.  *)
(* (A value of no pieces has a pointer too; it shares its chunks with      *)
(* nobody and is left out.)                                                *)
Finish(t) ==
  /\ pc[t] = "streaming" /\ \A i \in ids[t] : chunks[i] = t
  /\ \E old \in SUBSET named[t] :
       /\ chunks' = ChunksAfter(t, old, {})
       /\ named' = [named EXCEPT ![t] = (@ \ old) \cup ids[t]]
  /\ Rest(t)
  /\ UNCHANGED <<stored, cursor, reader>>

(* Writer::abort. *)
Abort(t) ==
  /\ pc[t] = "streaming"
  /\ chunks' = ChunksAfter(t, ids[t], {})
  /\ Rest(t)
  /\ UNCHANGED <<stored, named, cursor, reader>>

(* An error, an exhausted id space, or a dropped Writer: the ids are lost, *)
(* and the pieces a Writer has flushed stay.                               *)
GiveUp(t) ==
  /\ pc[t] # "idle"
  /\ Rest(t)
  /\ UNCHANGED <<stored, chunks, named, cursor, reader>>

(* delete and clear: delete_value_ops, clear_value_ops, committed. *)
Delete(t) ==
  /\ pc[t] = "idle"
  /\ \E old \in (SUBSET named[t]) \ {{}} :
       /\ chunks' = ChunksAfter(t, old, {})
       /\ named' = [named EXCEPT ![t] = @ \ old]
  /\ UNCHANGED <<stored, cursor, pc, kind, left, ids, replaced, floor, counter,
                 reader>>

(* A Reader, or a get that has read the record and not yet the chunks. *)
OpenReader ==
  /\ reader = NoReader
  /\ \E t \in Readable : \E i \in named[t] :
       reader' = [of |-> t, id |-> i, seeded |-> cursor[BankOf[t]] # Unseeded]
  /\ UNCHANGED <<stored, chunks, named, cursor, pc, kind, left, ids, replaced,
                 floor, counter>>
CloseReader ==
  /\ reader # NoReader /\ reader' = NoReader
  /\ UNCHANGED <<stored, chunks, named, cursor, pc, kind, left, ids, replaced,
                 floor, counter>>

(* The process of a bank ends, at any moment, and the bank is reopened.    *)
(* What is left in RAM is gone.                                            *)
Crash(b) ==
  LET Fresh(old, new) == [t \in Tasks |-> IF BankOf[t] = b THEN new ELSE old[t]] IN
  /\ cursor' = [cursor EXCEPT ![b] = Unseeded]
  /\ pc' = Fresh(pc, "idle") /\ kind' = Fresh(kind, "put")
  /\ left' = Fresh(left, 0) /\ ids' = Fresh(ids, {}) /\ replaced' = Fresh(replaced, {})
  /\ floor' = Fresh(floor, 0) /\ counter' = Fresh(counter, 0)
  /\ reader' = IF reader.of # NoTask /\ BankOf[reader.of] = b THEN NoReader ELSE reader
  /\ UNCHANGED <<stored, chunks, named>>

-----------------------------------------------------------------------------
Step(t) == \/ BeginPut(t) \/ BeginWriter(t)
           \/ Take(t) \/ ReadCounter(t) \/ ReadHighest(t) \/ SeedAndTake(t)
           \/ BuildCounter(t)
           \/ CommitPut(t) \/ CommitStart(t) \/ FlushPiece(t) \/ Finish(t)
           \/ Abort(t) \/ GiveUp(t) \/ Delete(t)

Next == \/ \E t \in Tasks : Step(t)
        \/ OpenReader \/ CloseReader
        \/ \E b \in Banks : Crash(b)

Spec == Init /\ [][Next]_vars

-----------------------------------------------------------------------------
(* Properties. *)

(* Every id a record names holds the chunks of that record's own locker:   *)
(* no allocation, in whatever order commits land and whenever the process  *)
(* ends, gives two values one id (ValueIds, seed_floor).                   *)
NamedIntact == \A t \in Tasks : \A i \in named[t] : chunks[i] = t

(* A bank never hands out an id whose chunks are stored, or that another   *)
(* write in flight has been given (ValueIds::allocate).                    *)
TakesFresh ==
  [][\A t \in Tasks : \A i \in ids'[t] \ ids[t] :
       i \notin StoredIds /\ \A u \in Tasks : i \notin ids[u]]_vars

(* Why: with one bank, the cursor is past every id stored or held, and a   *)
(* floor past every id stored, as long as nobody has seeded; the ids held  *)
(* by different writes differ, and their chunks are stored by nobody but a *)
(* Writer that is streaming them.                                          *)
CursorPastAll ==
  \A t \in Tasks :
    LET at == cursor[BankOf[t]] IN
      /\ at # Unseeded => \A i \in StoredIds \cup ids[t] : i < at
      /\ at = Unseeded => ids[t] = {}
      /\ at = Unseeded /\ pc[t] = "floored" => \A i \in StoredIds : i < floor[t]
Taking ==
  \A t \in Tasks :
    /\ pc[t] \in {"taking", "counted", "floored"} => left[t] > 0
    /\ pc[t] = "idle" => ids[t] = {} /\ replaced[t] = {}
    /\ pc[t] = "taken" => cursor[BankOf[t]] # Unseeded
HeldApart ==
  \A t \in Tasks :
    /\ \A u \in Tasks : t # u => ids[t] \cap ids[u] = {}
    /\ \A i \in ids[t] \cap StoredIds :
         pc[t] = "streaming" /\ chunks[i] = t /\ i \notin named[t]
    /\ replaced[t] \subseteq named[t]
Inv == TypeOK /\ Taking /\ NamedIntact /\ CursorPastAll /\ HeldApart

(* A Reader, or a get that is past its record, never reads the chunks of   *)
(* another locker's value in place of the ones it was opened on: they are  *)
(* still that locker's, or gone.  Its bank must have seeded its cursor by  *)
(* then: when the value of a reader opened earlier is deleted, the highest *)
(* stored id may go down and the id be used again (chunk.rs, seed_floor).  *)
ReaderSeesOwn == reader.of # NoTask /\ reader.seeded =>
                   chunks[reader.id] \in {reader.of, NoTask}

(* Why: the cursor is past its id, and no write holds it, of that locker   *)
(* or another.                                                             *)
ReaderPassed ==
  reader.of # NoTask /\ reader.seeded =>
    LET at == cursor[BankOf[reader.of]] IN
      /\ at # Unseeded /\ reader.id < at
      /\ \A t \in Tasks : reader.id \notin ids[t]
ReaderInv == Inv /\ ReaderSeesOwn /\ ReaderPassed

=============================================================================

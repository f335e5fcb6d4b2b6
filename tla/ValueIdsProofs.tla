--------------------------- MODULE ValueIdsProofs ---------------------------
(***************************************************************************)
(* Proofs about ValueIds: with one bank over the store, no two values ever *)
(* have one id, for any number of lockers, any batch sizes, any order of   *)
(* commits and any number of crashes.                                      *)
(***************************************************************************)
EXTENDS ValueIds, TLAPS

(* One process, or one tab, at a time has the store open. *)
OneBank == \A a, b \in Banks : a = b

USE IdsAssumption DEF Ids

LEMMA InitInv == Init => Inv
BY DEF Init, Inv, TypeOK, Taking, NamedIntact, CursorPastAll, HeldApart,
   NoReader, PCs, StoredIds

-----------------------------------------------------------------------------
(* Types. *)

LEMMA HandOutType ==
  ASSUME TypeOK, Taking, NEW t \in Tasks, NEW id \in Ids, HandOut(t, id),
         pc[t] \in {"taking", "floored"}
  PROVE  /\ cursor' \in [Banks -> Ids \cup {Unseeded}]
         /\ cursor'[BankOf[t]] = id + 1
         /\ ids' \in [Tasks -> SUBSET Ids]
         /\ left' \in [Tasks -> 0..MaxBatch]
         /\ pc' \in [Tasks -> PCs]
<1>1. left[t] \in 1..MaxBatch /\ BankOf[t] \in Banks /\ id + 1 \in Ids
  BY DEF TypeOK, Taking, HandOut, CanAdvance
<1> QED
  BY <1>1 DEF HandOut, Goto, TypeOK, PCs

LEMMA HandOutTaking ==
  ASSUME TypeOK, Taking, NEW t \in Tasks, NEW id \in Ids, HandOut(t, id),
         pc[t] \in {"taking", "floored"}, replaced' = replaced
  PROVE  Taking'
<1>1. /\ cursor'[BankOf[t]] # Unseeded
      /\ \A b \in Banks : b # BankOf[t] => cursor'[b] = cursor[b]
  BY DEF HandOut, CanAdvance, TypeOK
<1>2. \A u \in Tasks : pc'[u] = IF u = t THEN "taken" ELSE pc[u]
  BY DEF HandOut, Goto, TypeOK
<1>3. \A u \in Tasks : u # t => ids'[u] = ids[u] /\ left'[u] = left[u]
  BY DEF HandOut, TypeOK
<1> QED
  BY <1>1, <1>2, <1>3 DEF Taking

LEMMA TypeStep ==
  ASSUME TypeOK, Taking, Next
  PROVE  TypeOK' /\ Taking'
<1>1. ASSUME NEW t \in Tasks, BeginPut(t) \/ BeginWriter(t)
      PROVE  TypeOK' /\ Taking'
  <2>1. PICK n \in 1..MaxBatch, old \in SUBSET Ids :
          /\ left' = [left EXCEPT ![t] = n]
          /\ replaced' = [replaced EXCEPT ![t] = old]
    <3>1. CASE BeginPut(t)
      BY <3>1 DEF BeginPut, TypeOK
    <3>2. CASE BeginWriter(t)
      <4>1. replaced' = [replaced EXCEPT ![t] = replaced[t]] /\ replaced[t] \in SUBSET Ids
        BY <3>2 DEF BeginWriter, TypeOK
      <4>2. left' = [left EXCEPT ![t] = 1] /\ 1 \in 1..MaxBatch
        BY <3>2 DEF BeginWriter
      <4> QED
        BY <4>1, <4>2
    <3> QED
      BY <1>1, <3>1, <3>2
  <2>2. /\ pc' = [pc EXCEPT ![t] = "taking"]
        /\ kind' \in [Tasks -> {"put", "writer"}]
        /\ UNCHANGED <<stored, chunks, named, cursor, ids, floor, counter, reader>>
    BY <1>1 DEF BeginPut, BeginWriter, Goto, TypeOK
  <2>3. TypeOK'
    BY <2>1, <2>2 DEF TypeOK, PCs
  <2>4. Taking'
    BY <2>1, <2>2 DEF TypeOK, Taking
  <2> QED
    BY <2>3, <2>4
<1>2. ASSUME NEW t \in Tasks, Take(t) PROVE TypeOK' /\ Taking'
  <2>1. cursor[BankOf[t]] \in Ids
    BY <1>2 DEF Take, TypeOK
  <2>2. HandOut(t, cursor[BankOf[t]]) /\ pc[t] = "taking"
    BY <1>2 DEF Take
  <2>3. TypeOK'
    BY <1>2, <2>1, <2>2, HandOutType DEF Take, TypeOK
  <2>4. Taking'
    BY <1>2, <2>1, <2>2, HandOutTaking DEF Take
  <2> QED
    BY <2>3, <2>4
<1>3. ASSUME NEW t \in Tasks, ReadCounter(t) \/ ReadHighest(t)
      PROVE  TypeOK' /\ Taking'
  <2>1. floor' \in [Tasks -> Ids]
    BY <1>3 DEF ReadCounter, ReadHighest, TypeOK, Floor, Larger
  <2>2. /\ pc[t] \in {"taking", "counted"}
        /\ pc' \in {[pc EXCEPT ![t] = "counted"], [pc EXCEPT ![t] = "floored"]}
        /\ UNCHANGED <<stored, chunks, named, cursor, kind, left, ids, replaced,
                       counter, reader>>
    BY <1>3 DEF ReadCounter, ReadHighest, Goto
  <2>3. pc' \in [Tasks -> PCs]
    BY <2>2 DEF TypeOK, PCs
  <2>4. TypeOK'
    BY <2>1, <2>2, <2>3 DEF TypeOK
  <2>5. Taking'
    <3>1. \A u \in Tasks : u # t => pc'[u] = pc[u]
      BY <2>2 DEF TypeOK
    <3>2. left[t] > 0 /\ pc'[t] \in {"counted", "floored"}
      BY <2>2 DEF TypeOK, Taking
    <3> QED
      BY <2>2, <3>1, <3>2 DEF Taking
  <2> QED
    BY <2>4, <2>5
<1>4. ASSUME NEW t \in Tasks, SeedAndTake(t) PROVE TypeOK' /\ Taking'
  <2>1. Seed(t) \in Ids
    BY DEF TypeOK, Seed, Larger
  <2>2. HandOut(t, Seed(t)) /\ pc[t] = "floored"
    BY <1>4 DEF SeedAndTake
  <2>3. TypeOK'
    BY <1>4, <2>1, <2>2, HandOutType DEF SeedAndTake, TypeOK
  <2>4. Taking'
    BY <1>4, <2>1, <2>2, HandOutTaking DEF SeedAndTake
  <2> QED
    BY <2>3, <2>4
<1>5. ASSUME NEW t \in Tasks, BuildCounter(t) PROVE TypeOK' /\ Taking'
  BY <1>5 DEF BuildCounter, Goto, TypeOK, Taking, PCs
<1>6. ASSUME NEW t \in Tasks,
             CommitPut(t) \/ CommitStart(t) \/ FlushPiece(t) \/ Finish(t)
               \/ Abort(t) \/ GiveUp(t) \/ Delete(t)
      PROVE  TypeOK' /\ Taking'
  <2>1. ASSUME NEW gone, NEW new
        PROVE  ChunksAfter(t, gone, new) \in [Ids -> Tasks \cup {NoTask}]
    BY DEF ChunksAfter, TypeOK
  <2>2. chunks' \in [Ids -> Tasks \cup {NoTask}]
    <3>1. chunks' = chunks \/ \E gone, new : chunks' = ChunksAfter(t, gone, new)
      BY <1>6 DEF CommitPut, CommitStart, FlushPiece, Finish, Abort, GiveUp, Delete
    <3> QED
      BY <2>1, <3>1 DEF TypeOK
  <2>3. named' \in [Tasks -> SUBSET Ids] /\ stored' \in Ids
    <3>1. /\ stored' \in {stored, counter[t]}
          /\ \/ named' = named
             \/ \E now \in SUBSET (named[t] \cup ids[t]) :
                  named' = [named EXCEPT ![t] = now]
      BY <1>6 DEF CommitPut, CommitStart, FlushPiece, Finish, Abort, GiveUp, Delete
    <3>2. /\ named \in [Tasks -> SUBSET Ids] /\ ids \in [Tasks -> SUBSET Ids]
          /\ counter \in [Tasks -> Ids] /\ stored \in Ids
      BY DEF TypeOK
    <3>3. stored' \in Ids
      BY <3>1, <3>2
    <3>4. named' \in [Tasks -> SUBSET Ids]
      <4>1. named[t] \cup ids[t] \subseteq Ids
        BY <3>2
      <4> QED
        BY <3>1, <3>2, <4>1
    <3> QED
      BY <3>3, <3>4
  <2>4. cursor' = cursor /\ reader' = reader
    BY <1>6 DEF CommitPut, CommitStart, FlushPiece, Finish, Abort, GiveUp, Delete
  <2>5. \/ Rest(t)
        \/ /\ pc' \in {pc, [pc EXCEPT ![t] = "streaming"]}
           /\ UNCHANGED <<kind, left, ids, replaced, floor, counter>>
    BY <1>6 DEF CommitPut, CommitStart, FlushPiece, Finish, Abort, GiveUp, Delete,
       Goto
  <2>6. pc' \in [Tasks -> PCs]
    BY <2>5 DEF TypeOK, Rest, Goto, PCs
  <2>7. /\ kind' \in [Tasks -> {"put", "writer"}] /\ left' \in [Tasks -> 0..MaxBatch]
        /\ ids' \in [Tasks -> SUBSET Ids] /\ replaced' \in [Tasks -> SUBSET Ids]
        /\ floor' \in [Tasks -> Ids] /\ counter' \in [Tasks -> Ids]
    <3>1. CASE Rest(t)
      BY <3>1 DEF TypeOK, Rest
    <3>2. CASE UNCHANGED <<kind, left, ids, replaced, floor, counter>>
      BY <3>2 DEF TypeOK
    <3> QED
      BY <2>5, <3>1, <3>2
  <2>8. TypeOK'
    BY <2>2, <2>3, <2>4, <2>6, <2>7 DEF TypeOK
  <2>9. Taking'
    <3>1. \A u \in Tasks : u # t => /\ pc'[u] = pc[u] /\ left'[u] = left[u]
                                  /\ ids'[u] = ids[u] /\ replaced'[u] = replaced[u]
      BY <2>5 DEF TypeOK, Rest, Goto
    <3>2. \/ pc'[t] = "idle" /\ ids'[t] = {} /\ replaced'[t] = {}
          \/ pc'[t] = "streaming"
          \/ UNCHANGED <<pc, left, ids, replaced>>
      BY <2>5 DEF TypeOK, Rest, Goto
    <3> QED
      BY <2>4, <3>1, <3>2 DEF Taking
  <2> QED
    BY <2>8, <2>9
<1>7. ASSUME OpenReader \/ CloseReader PROVE TypeOK' /\ Taking'
  <2>1. UNCHANGED <<stored, chunks, named, cursor, pc, kind, left, ids, replaced,
                    floor, counter>>
    BY <1>7 DEF OpenReader, CloseReader
  <2>2. reader' \in [of : Tasks \cup {NoTask}, id : Ids, seeded : BOOLEAN]
    <3>1. CASE CloseReader
      BY <3>1 DEF CloseReader, NoReader
    <3>2. CASE OpenReader
      <4>1. PICK t \in Tasks : \E i \in named[t] :
              reader' = [of |-> t, id |-> i, seeded |-> cursor[BankOf[t]] # Unseeded]
        BY <3>2 DEF OpenReader
      <4> QED
        BY <4>1 DEF TypeOK
    <3> QED
      BY <1>7, <3>1, <3>2
  <2>3. TypeOK'
    BY <2>1, <2>2 DEF TypeOK
  <2>4. Taking'
    BY <2>1 DEF Taking
  <2> QED
    BY <2>3, <2>4
<1>8. ASSUME NEW b \in Banks, Crash(b) PROVE TypeOK' /\ Taking'
  BY <1>8 DEF Crash, NoReader, TypeOK, Taking, PCs
<1> QED
  BY <1>1, <1>2, <1>3, <1>4, <1>5, <1>6, <1>7, <1>8 DEF Next, Step

-----------------------------------------------------------------------------
(* Safety, with one bank. *)

Safe == NamedIntact /\ CursorPastAll /\ HeldApart

LEMMA SameCursor ==
  ASSUME OneBank, TypeOK, NEW t \in Tasks, NEW u \in Tasks
  PROVE  BankOf[t] = BankOf[u] /\ BankOf[t] \in Banks
BY DEF OneBank

(* An id past all stored and held ones can be handed out. *)
LEMMA HandOutSafe ==
  ASSUME OneBank, TypeOK, Taking, Safe, NEW t \in Tasks, NEW id \in Ids,
         HandOut(t, id), pc[t] \in {"taking", "floored"},
         \A i \in StoredIds : i < id,
         \A u \in Tasks : \A i \in ids[u] : i < id,
         UNCHANGED <<stored, chunks, named, replaced>>
  PROVE  Safe'
<1>1. cursor'[BankOf[t]] = id + 1
  BY HandOutType
<1>2. /\ ids' = [ids EXCEPT ![t] = ids[t] \cup {id}]
      /\ pc' = [pc EXCEPT ![t] = "taken"]
      /\ StoredIds' = StoredIds
  BY DEF HandOut, Goto, StoredIds
<1>3. NamedIntact'
  BY DEF Safe, NamedIntact
<1>4. CursorPastAll'
  <2> SUFFICES ASSUME NEW u \in Tasks
               PROVE  /\ cursor'[BankOf[u]] = id + 1
                      /\ \A i \in StoredIds' \cup ids'[u] : i < id + 1
    BY DEF CursorPastAll
  <2>1. cursor'[BankOf[u]] = id + 1
    BY <1>1, SameCursor
  <2>2. \A i \in StoredIds' \cup ids'[u] : i \in Nat /\ i <= id
    BY <1>2 DEF TypeOK, StoredIds
  <2> QED
    BY <2>1, <2>2
<1>5. HeldApart'
  <2> SUFFICES ASSUME NEW u \in Tasks
               PROVE  /\ \A w \in Tasks : u # w => ids'[u] \cap ids'[w] = {}
                      /\ \A i \in ids'[u] \cap StoredIds' :
                           pc'[u] = "streaming" /\ chunks'[i] = u /\ i \notin named'[u]
                      /\ replaced'[u] \subseteq named'[u]
    BY DEF HeldApart
  <2>1. id \notin StoredIds /\ \A w \in Tasks : id \notin ids[w]
    OBVIOUS
  <2>2. pc[t] # "streaming"
    OBVIOUS
  <2>3. \A i \in ids[u] \cap StoredIds :
          pc[u] = "streaming" /\ chunks[i] = u /\ i \notin named[u]
    BY DEF Safe, HeldApart
  <2>4. \A w \in Tasks : u # w => ids[u] \cap ids[w] = {}
    BY DEF Safe, HeldApart
  <2>5. \A w \in Tasks : u # w => ids'[u] \cap ids'[w] = {}
    BY <1>2, <2>1, <2>4 DEF TypeOK
  <2>6. \A i \in ids'[u] \cap StoredIds' :
          pc'[u] = "streaming" /\ chunks'[i] = u /\ i \notin named'[u]
    BY <1>2, <2>1, <2>2, <2>3 DEF TypeOK
  <2>7. replaced'[u] \subseteq named'[u]
    BY DEF Safe, HeldApart
  <2> QED
    BY <2>5, <2>6, <2>7
<1> QED
  BY <1>3, <1>4, <1>5 DEF Safe

(* What allocate hands out is past all stored and held ids. *)
LEMMA TakenPastAll ==
  ASSUME OneBank, TypeOK, Taking, Safe, NEW t \in Tasks, NEW id,
         \/ pc[t] = "taking" /\ cursor[BankOf[t]] # Unseeded /\ id = cursor[BankOf[t]]
         \/ pc[t] = "floored" /\ id = Seed(t)
  PROVE  /\ id \in Ids
         /\ \A i \in StoredIds : i < id
         /\ \A u \in Tasks : \A i \in ids[u] : i < id
<1> DEFINE at == cursor[BankOf[t]]
<1>1. at \in Ids \cup {Unseeded} /\ floor[t] \in Ids
  BY DEF TypeOK
<1>2. \A u \in Tasks : cursor[BankOf[u]] = at
  BY SameCursor
<1>3. CASE at # Unseeded
  <2>1. at \in Nat /\ id \in Ids /\ id >= at
    BY <1>1, <1>3 DEF Seed, Larger
  <2>2. \A u \in Tasks : \A i \in StoredIds \cup ids[u] : i < at /\ i \in Nat
    BY <1>2, <1>3 DEF Safe, CursorPastAll, TypeOK, StoredIds
  <2> QED
    BY <2>1, <2>2
<1>4. CASE at = Unseeded
  <2>1. pc[t] = "floored" /\ id = floor[t]
    BY <1>4 DEF Seed
  <2>2. \A u \in Tasks : ids[u] = {}
    BY <1>2, <1>4 DEF Safe, CursorPastAll
  <2> QED
    BY <1>1, <1>4, <2>1, <2>2 DEF Safe, CursorPastAll
<1> QED
  BY <1>3, <1>4

(* A commit of t touches only chunks t's records name or t holds. *)
LEMMA OwnedByT ==
  ASSUME TypeOK, Safe, NEW t \in Tasks, NEW u \in Tasks, u # t, NEW i \in Ids,
         i \in named[u] \/ (i \in ids[u] /\ i \in StoredIds)
  PROVE  chunks[i] = u /\ i \in StoredIds /\ i \notin named[t] /\ i \notin ids[t]
<1>1. chunks[i] = u
  BY DEF Safe, NamedIntact, HeldApart
<1>2. i \in StoredIds
  BY <1>1 DEF StoredIds
<1>3. i \notin named[t]
  BY <1>1 DEF Safe, NamedIntact
<1>4. i \notin ids[t]
  BY <1>1, <1>2 DEF Safe, HeldApart
<1> QED
  BY <1>1, <1>2, <1>3, <1>4

LEMMA StoreSafe ==
  ASSUME OneBank, TypeOK, Safe, NEW t \in Tasks,
         NEW gone \in SUBSET (named[t] \cup ids[t]), NEW new \in SUBSET ids[t],
         chunks' = ChunksAfter(t, gone, new),
         cursor' = cursor, floor'[t] = 0 \/ floor' = floor,
         \A u \in Tasks : u # t => /\ named'[u] = named[u] /\ ids'[u] = ids[u]
                                  /\ replaced'[u] = replaced[u]
                                  /\ pc'[u] = pc[u] /\ floor'[u] = floor[u],
         pc'[t] # "floored",
         \A i \in named'[t] : i \in Ids /\ chunks'[i] = t,
         replaced'[t] \subseteq named'[t],
         \/ ids'[t] = {}
         \/ pc'[t] = "streaming" /\ ids'[t] = ids[t] /\ named'[t] \cap ids[t] = {}
              /\ \A i \in ids[t] : chunks'[i] \in {t, NoTask}
  PROVE  Safe'
<1>1. \A i \in Ids : chunks'[i] = IF i \in new THEN t
                                   ELSE IF i \in gone THEN NoTask ELSE chunks[i]
  BY DEF ChunksAfter
<1>2. StoredIds' \subseteq StoredIds \cup ids[t]
  BY <1>1 DEF StoredIds
<1>3. \A u \in Tasks, i \in Ids :
        u # t /\ (i \in named[u] \/ (i \in ids[u] /\ i \in StoredIds)) => chunks'[i] = u
  BY <1>1, OwnedByT
<1>4. NamedIntact'
  <2> SUFFICES ASSUME NEW u \in Tasks, NEW i \in named'[u] PROVE chunks'[i] = u
    BY DEF NamedIntact
  <2>1. CASE u # t
    BY <1>3, <2>1 DEF TypeOK
  <2> QED
    BY <2>1
<1>5. CursorPastAll'
  <2> SUFFICES ASSUME NEW u \in Tasks
        PROVE  /\ cursor[BankOf[u]] # Unseeded =>
                    \A i \in StoredIds' \cup ids'[u] : i < cursor[BankOf[u]]
               /\ cursor[BankOf[u]] = Unseeded => ids'[u] = {}
               /\ cursor[BankOf[u]] = Unseeded /\ pc'[u] = "floored" =>
                    \A i \in StoredIds' : i < floor'[u]
    BY DEF CursorPastAll
  <2>1. BankOf[u] = BankOf[t]
    BY SameCursor
  <2>2. ids'[u] \subseteq ids[u]
    OBVIOUS
  <2>3. cursor[BankOf[u]] = Unseeded => StoredIds' \subseteq StoredIds
    BY <1>2, <2>1 DEF Safe, CursorPastAll
  <2>4. pc'[u] = "floored" => u # t
    OBVIOUS
  <2> QED
    BY <1>2, <2>1, <2>2, <2>3, <2>4 DEF Safe, CursorPastAll
<1>6. HeldApart'
  <2> SUFFICES ASSUME NEW u \in Tasks
        PROVE  /\ \A w \in Tasks : u # w => ids'[u] \cap ids'[w] = {}
               /\ \A i \in ids'[u] \cap StoredIds' :
                    pc'[u] = "streaming" /\ chunks'[i] = u /\ i \notin named'[u]
               /\ replaced'[u] \subseteq named'[u]
    BY DEF HeldApart
  <2>1. \A w \in Tasks : ids'[w] \subseteq ids[w]
    OBVIOUS
  <2>2. \A w \in Tasks : u # w => ids'[u] \cap ids'[w] = {}
    BY <2>1 DEF Safe, HeldApart
  <2>3. replaced'[u] \subseteq named'[u]
    BY DEF Safe, HeldApart
  <2>4. ASSUME NEW i \in ids'[u] \cap StoredIds'
        PROVE  pc'[u] = "streaming" /\ chunks'[i] = u /\ i \notin named'[u]
    <3>1. i \in Ids /\ chunks'[i] # NoTask
      BY DEF StoredIds
    <3>2. CASE u = t
      BY <3>1, <3>2
    <3>3. CASE u # t
      <4>1. i \in ids[u] /\ i \notin ids[t]
        BY <3>3 DEF Safe, HeldApart
      <4>2. i \in StoredIds
        BY <1>2, <4>1
      <4> QED
        BY <1>3, <3>1, <3>3, <4>1, <4>2 DEF Safe, HeldApart
    <3> QED
      BY <3>2, <3>3
  <2> QED
    BY <2>2, <2>3, <2>4
<1> QED
  BY <1>4, <1>5, <1>6 DEF Safe

(* What a write in flight holds, where the next lemma needs it. *)
LEMMA Held ==
  ASSUME OneBank, TypeOK, Safe, NEW t \in Tasks
  PROVE  /\ pc[t] # "streaming" => ids[t] \cap StoredIds = {}
         /\ named[t] \cap ids[t] = {}
         /\ \A i \in ids[t] : chunks[i] \in {t, NoTask}
         /\ named[t] \subseteq StoredIds
<1>1. named[t] \subseteq StoredIds
  BY DEF Safe, NamedIntact, StoredIds, TypeOK
<1>2. pc[t] # "streaming" => ids[t] \cap StoredIds = {}
  BY DEF Safe, HeldApart
<1>3. named[t] \cap ids[t] = {}
  BY <1>1 DEF Safe, HeldApart
<1>4. \A i \in ids[t] : chunks[i] \in {t, NoTask}
  BY DEF Safe, HeldApart, StoredIds, TypeOK
<1> QED
  BY <1>1, <1>2, <1>3, <1>4

(* A step that hands out no id and commits nothing. *)
LEMMA QuietSafe ==
  ASSUME OneBank, TypeOK, Safe, NEW t \in Tasks, NEW stage,
         pc' = [pc EXCEPT ![t] = stage], pc[t] # "streaming",
         UNCHANGED <<chunks, named, cursor, ids>>,
         \/ floor' = floor /\ stage # "floored"
         \/ /\ \A u \in Tasks : u # t => floor'[u] = floor[u]
            /\ \A i \in StoredIds : i < floor'[t],
         \A u \in Tasks : u # t => replaced'[u] = replaced[u],
         replaced'[t] \subseteq named[t]
  PROVE  Safe'
<1>1. StoredIds' = StoredIds
  BY DEF StoredIds
<1>2. NamedIntact'
  BY DEF Safe, NamedIntact
<1>3. \A u \in Tasks : pc'[u] = IF u = t THEN stage ELSE pc[u]
  BY DEF TypeOK
<1>4. CursorPastAll'
  BY <1>1, <1>3 DEF Safe, CursorPastAll
<1>5. HeldApart'
  BY <1>1, <1>3 DEF Safe, HeldApart
<1> QED
  BY <1>2, <1>4, <1>5 DEF Safe

LEMMA SafeStep ==
  ASSUME OneBank, TypeOK, Taking, Safe, NEW t \in Tasks, Step(t)
  PROVE  Safe'
<1>1. CASE BeginPut(t)
  <2>1. PICK old \in SUBSET named[t] : replaced' = [replaced EXCEPT ![t] = old]
    BY <1>1 DEF BeginPut
  <2>2. replaced'[t] = old /\ \A u \in Tasks : u # t => replaced'[u] = replaced[u]
    BY <2>1 DEF TypeOK
  <2> QED
    BY <1>1, <2>2, QuietSafe DEF BeginPut, Goto
<1>2. CASE BeginWriter(t)
  BY <1>2, QuietSafe DEF BeginWriter, Goto, Safe, HeldApart
<1>3. CASE Take(t)
  BY <1>3, TakenPastAll, HandOutSafe DEF Take
<1>4. CASE ReadCounter(t)
  <2>1. \A u \in Tasks : u # t => floor'[u] = floor[u]
    BY <1>4 DEF ReadCounter, TypeOK
  <2>2. StoredIds' = StoredIds
    BY <1>4 DEF ReadCounter, StoredIds
  <2>3. \A u \in Tasks : pc'[u] = IF u = t THEN "counted" ELSE pc[u]
    BY <1>4 DEF ReadCounter, Goto, TypeOK
  <2>4. CursorPastAll'
    BY <1>4, <2>1, <2>2, <2>3 DEF ReadCounter, Safe, CursorPastAll
  <2>5. NamedIntact' /\ HeldApart'
    BY <1>4, <2>2, <2>3 DEF ReadCounter, Safe, NamedIntact, HeldApart
  <2> QED
    BY <2>4, <2>5 DEF Safe
<1>5. CASE ReadHighest(t)
  <2>1. PICK past \in Ids : /\ \A i \in StoredIds : i < past
                           /\ floor' = [floor EXCEPT ![t] = Larger(floor[t], past)]
    BY <1>5 DEF ReadHighest, IsPast, Floor
  <2>2. \A i \in StoredIds : i < floor'[t]
    BY <2>1 DEF TypeOK, Larger, StoredIds
  <2>3. \A u \in Tasks : u # t => floor'[u] = floor[u]
    BY <2>1 DEF TypeOK
  <2> QED
    BY <1>5, <2>2, <2>3, QuietSafe DEF ReadHighest, Goto, Safe, HeldApart
<1>6. CASE SeedAndTake(t)
  BY <1>6, TakenPastAll, HandOutSafe DEF SeedAndTake
<1>7. CASE BuildCounter(t)
  <2> DEFINE stage == IF left[t] > 0 THEN "taking" ELSE "built"
  <2>1. pc' = [pc EXCEPT ![t] = stage] /\ stage # "floored"
    BY <1>7 DEF BuildCounter, Goto
  <2> HIDE DEF stage
  <2> QED
    BY <1>7, <2>1, QuietSafe DEF BuildCounter, Safe, HeldApart
<1>8. CASE CommitPut(t)
  <2>1. /\ chunks' = ChunksAfter(t, replaced[t], ids[t])
        /\ named'[t] = (named[t] \ replaced[t]) \cup ids[t]
        /\ ids'[t] = {} /\ replaced'[t] = {} /\ floor'[t] = 0 /\ pc'[t] = "idle"
        /\ \A u \in Tasks : u # t => /\ named'[u] = named[u] /\ ids'[u] = ids[u]
                                   /\ replaced'[u] = replaced[u]
                                   /\ pc'[u] = pc[u] /\ floor'[u] = floor[u]
        /\ cursor' = cursor
    BY <1>8 DEF CommitPut, Rest, Goto, TypeOK
  <2>2. replaced[t] \subseteq named[t]
    BY DEF Safe, HeldApart
  <2>3. \A i \in named'[t] : i \in Ids /\ chunks'[i] = t
    BY <2>1, Held DEF ChunksAfter, TypeOK, Safe, NamedIntact
  <2> QED
    BY <2>1, <2>2, <2>3, StoreSafe
<1>9. CASE CommitStart(t)
  <2>1. pc[t] # "streaming" /\ pc' = [pc EXCEPT ![t] = "streaming"]
    BY <1>9 DEF CommitStart, Goto
  <2> QED
    BY <1>9, <2>1, QuietSafe DEF CommitStart, Safe, HeldApart
<1>10. CASE FlushPiece(t)
  <2>1. \A i \in named[t] : i \in Ids /\ chunks'[i] = t
    BY <1>10 DEF FlushPiece, ChunksAfter, TypeOK, Safe, NamedIntact
  <2>2. \A i \in ids[t] : chunks'[i] \in {t, NoTask}
    BY <1>10 DEF FlushPiece, ChunksAfter, TypeOK
  <2>3. replaced'[t] \subseteq named'[t]
    BY <1>10 DEF FlushPiece, Safe, HeldApart
  <2> QED
    BY <1>10, <2>1, <2>2, <2>3, Held, StoreSafe DEF FlushPiece
<1>11. CASE Finish(t)
  <2>1. PICK old \in SUBSET named[t] :
          /\ chunks' = ChunksAfter(t, old, {})
          /\ named' = [named EXCEPT ![t] = (named[t] \ old) \cup ids[t]]
    BY <1>11 DEF Finish
  <2>2. /\ ids'[t] = {} /\ replaced'[t] = {} /\ floor'[t] = 0 /\ pc'[t] = "idle"
        /\ \A u \in Tasks : u # t => /\ named'[u] = named[u] /\ ids'[u] = ids[u]
                                   /\ replaced'[u] = replaced[u]
                                   /\ pc'[u] = pc[u] /\ floor'[u] = floor[u]
        /\ cursor' = cursor
    BY <1>11, <2>1 DEF Finish, Rest, Goto, TypeOK
  <2>3. \A i \in named'[t] : i \in Ids /\ chunks'[i] = t
    BY <1>11, <2>1, Held DEF Finish, ChunksAfter, TypeOK, Safe, NamedIntact
  <2> QED
    BY <2>1, <2>2, <2>3, StoreSafe
<1>12. CASE Abort(t) \/ GiveUp(t)
  <2>1. PICK gone \in SUBSET ids[t] : chunks' = ChunksAfter(t, gone, {})
    <3>1. CASE GiveUp(t)
      <4>1. chunks' = ChunksAfter(t, {}, {})
        BY <3>1 DEF GiveUp, ChunksAfter, TypeOK
      <4> QED
        BY <4>1
    <3>2. CASE Abort(t)
      BY <3>2 DEF Abort
    <3> QED
      BY <1>12, <3>1, <3>2
  <2>2. /\ ids'[t] = {} /\ replaced'[t] = {} /\ floor'[t] = 0 /\ pc'[t] = "idle"
        /\ \A u \in Tasks : u # t => /\ ids'[u] = ids[u] /\ replaced'[u] = replaced[u]
                                   /\ pc'[u] = pc[u] /\ floor'[u] = floor[u]
        /\ cursor' = cursor /\ named' = named
    BY <1>12 DEF Abort, GiveUp, Rest, Goto, TypeOK
  <2>3. \A i \in named'[t] : i \in Ids /\ chunks'[i] = t
    BY <2>1, <2>2, Held DEF ChunksAfter, TypeOK, Safe, NamedIntact
  <2> QED
    BY <2>1, <2>2, <2>3, StoreSafe
<1>13. CASE Delete(t)
  <2>1. PICK old \in SUBSET named[t] :
          /\ chunks' = ChunksAfter(t, old, {})
          /\ named' = [named EXCEPT ![t] = named[t] \ old]
    BY <1>13 DEF Delete
  <2>2. \A i \in named'[t] : i \in Ids /\ chunks'[i] = t
    BY <2>1 DEF ChunksAfter, TypeOK, Safe, NamedIntact
  <2>3. \A u \in Tasks : u # t => named'[u] = named[u]
    BY <2>1 DEF TypeOK
  <2>4. pc[t] = "idle" /\ ids[t] = {} /\ replaced[t] = {}
    BY <1>13 DEF Delete, Taking
  <2> QED
    BY <1>13, <2>1, <2>2, <2>3, <2>4, StoreSafe DEF Delete
<1> QED
  BY <1>1, <1>2, <1>3, <1>4, <1>5, <1>6, <1>7, <1>8, <1>9, <1>10, <1>11, <1>12, <1>13
     DEF Step

LEMMA CrashSafe ==
  ASSUME OneBank, TypeOK, Safe, NEW b \in Banks, Crash(b)
  PROVE  Safe'
<1>1. \A t \in Tasks : BankOf[t] = b
  BY DEF OneBank
<1>2. /\ cursor'[b] = Unseeded
      /\ \A t \in Tasks : pc'[t] = "idle" /\ ids'[t] = {} /\ replaced'[t] = {}
      /\ chunks' = chunks /\ named' = named
  BY <1>1 DEF Crash, TypeOK
<1>3. NamedIntact' /\ HeldApart'
  BY <1>2 DEF Safe, NamedIntact, HeldApart
<1>4. CursorPastAll'
  BY <1>1, <1>2 DEF CursorPastAll
<1> QED
  BY <1>3, <1>4 DEF Safe

LEMMA NextInv == OneBank /\ Inv /\ [Next]_vars => Inv'
<1> SUFFICES ASSUME OneBank, Inv, [Next]_vars PROVE Inv'
  OBVIOUS
<1>1. TypeOK /\ Taking /\ Safe
  BY DEF Inv, Safe
<1>2. CASE Next
  <2>1. TypeOK' /\ Taking'
    BY <1>1, <1>2, TypeStep
  <2>2. ASSUME NEW t \in Tasks, Step(t) PROVE Safe'
    BY <1>1, <2>2, SafeStep
  <2>3. ASSUME NEW b \in Banks, Crash(b) PROVE Safe'
    BY <1>1, <2>3, CrashSafe
  <2>4. ASSUME OpenReader \/ CloseReader PROVE Safe'
    <3>1. /\ chunks' = chunks /\ named' = named /\ cursor' = cursor /\ pc' = pc
          /\ ids' = ids /\ replaced' = replaced /\ floor' = floor
      BY <2>4 DEF OpenReader, CloseReader
    <3>2. StoredIds' = StoredIds
      BY <3>1 DEF StoredIds
    <3>3. NamedIntact' /\ CursorPastAll'
      BY <1>1, <3>1, <3>2 DEF Safe, NamedIntact, CursorPastAll
    <3>4. HeldApart'
      BY <1>1, <3>1, <3>2 DEF Safe, HeldApart
    <3> QED
      BY <3>3, <3>4 DEF Safe
  <2>5. Safe'
    BY <1>2, <2>2, <2>3, <2>4 DEF Next
  <2> QED
    BY <2>1, <2>5 DEF Inv, Safe
<1>3. CASE UNCHANGED vars
  BY <1>3 DEF vars, Inv, TypeOK, Taking, NamedIntact, CursorPastAll, HeldApart,
     StoredIds
<1> QED
  BY <1>2, <1>3

(* The types hold of every reachable state, whatever the number of banks.  *)
THEOREM TypeCorrect == Spec => [](TypeOK /\ Taking)
<1>1. Init => TypeOK /\ Taking
  BY InitInv DEF Inv
<1>2. TypeOK /\ Taking /\ [Next]_vars => TypeOK' /\ Taking'
  <2>1. CASE UNCHANGED vars
    BY <2>1 DEF vars, TypeOK, Taking
  <2> QED
    BY <2>1, TypeStep
<1> QED
  BY <1>1, <1>2, PTL DEF Spec

(* One bank over the store: the invariant holds of every reachable state.  *)
THEOREM InvHolds == ASSUME OneBank PROVE Spec => []Inv
BY InitInv, NextInv, PTL DEF Spec

(* One bank: no id a record names is ever given to another value, in       *)
(* whatever order commits land and however often the process ends          *)
(* (ValueIds::allocate, seed_floor).                                       *)
THEOREM NamesStayIntact == ASSUME OneBank PROVE Spec => []NamedIntact
<1>1. Inv => NamedIntact
  BY DEF Inv
<1> QED
  BY <1>1, InvHolds, PTL

(* What a step does to the chunks of an id no write holds, and to the ids  *)
(* held and the cursor: past an id, they stay past it.                     *)
LEMMA PassedStep ==
  ASSUME OneBank, TypeOK, Taking, Safe, NEW t \in Tasks, Step(t),
         NEW i \in Ids, NEW u \in Tasks,
         cursor[BankOf[u]] # Unseeded, i < cursor[BankOf[u]],
         \A w \in Tasks : i \notin ids[w]
  PROVE  /\ cursor'[BankOf[u]] # Unseeded /\ i < cursor'[BankOf[u]]
         /\ \A w \in Tasks : i \notin ids'[w]
         /\ chunks'[i] \in {chunks[i], NoTask}
<1>1. CASE Take(t) \/ SeedAndTake(t)
  <2>1. PICK id \in Ids : /\ HandOut(t, id)
                         /\ \/ pc[t] = "taking" /\ cursor[BankOf[t]] # Unseeded
                                 /\ id = cursor[BankOf[t]]
                            \/ pc[t] = "floored" /\ id = Seed(t)
    BY <1>1, TakenPastAll DEF Take, SeedAndTake
  <2>2. BankOf[t] = BankOf[u] /\ cursor[BankOf[u]] \in Nat
    <3>1. BankOf[t] = BankOf[u] /\ BankOf[u] \in Banks
      BY SameCursor
    <3>2. cursor[BankOf[u]] \in Ids \cup {Unseeded}
      BY <3>1 DEF TypeOK
    <3> QED
      BY <3>1, <3>2
  <2>3. i < id
    BY <2>1, <2>2 DEF Seed, Larger, TypeOK
  <2>4. cursor'[BankOf[u]] = id + 1
    BY <2>1, <2>2, HandOutType
  <2>5. ids' = [ids EXCEPT ![t] = ids[t] \cup {id}]
    BY <2>1 DEF HandOut
  <2>6. chunks' = chunks
    BY <1>1 DEF Take, SeedAndTake
  <2>7. \A w \in Tasks : ids'[w] \subseteq ids[w] \cup {id}
    BY <2>5 DEF TypeOK
  <2>8. id + 1 \in Nat /\ id + 1 # Unseeded /\ i < id + 1 /\ i # id
    BY <2>3
  <2> QED
    BY <2>4, <2>6, <2>7, <2>8
<1>2. CASE ~(Take(t) \/ SeedAndTake(t))
  <2>1. cursor' = cursor /\ (ids' = ids \/ ids' = [ids EXCEPT ![t] = {}])
    BY <1>2 DEF Step, BeginPut, BeginWriter, ReadCounter, ReadHighest, BuildCounter,
       CommitPut, CommitStart, FlushPiece, Finish, Abort, GiveUp, Delete, Rest
  <2>2. chunks' = chunks \/ \E gone, new : chunks' = ChunksAfter(t, gone, new)
                                            /\ new \subseteq ids[t]
    BY <1>2 DEF Step, BeginPut, BeginWriter, ReadCounter, ReadHighest, BuildCounter,
       CommitPut, CommitStart, FlushPiece, Finish, Abort, GiveUp, Delete
  <2>3. chunks'[i] \in {chunks[i], NoTask}
    BY <2>2 DEF ChunksAfter
  <2>4. \A w \in Tasks : ids'[w] \subseteq ids[w]
    BY <2>1 DEF TypeOK
  <2> QED
    BY <2>1, <2>3, <2>4
<1> QED
  BY <1>1, <1>2

ReaderOK == ReaderSeesOwn /\ ReaderPassed

LEMMA ReaderNext == OneBank /\ ReaderInv /\ [Next]_vars => ReaderInv'
<1> SUFFICES ASSUME OneBank, ReaderInv, [Next]_vars PROVE ReaderInv'
  OBVIOUS
<1>1. Inv /\ Inv' /\ TypeOK /\ Taking /\ Safe
  BY NextInv DEF ReaderInv, Inv, Safe
<1>2. reader \in [of : Tasks \cup {NoTask}, id : Ids, seeded : BOOLEAN]
  BY <1>1 DEF TypeOK
<1>3. ASSUME NEW t \in Tasks, Step(t) PROVE ReaderOK'
  <2>1. reader' = reader
    BY <1>3 DEF Step, BeginPut, BeginWriter, Take, ReadCounter, ReadHighest,
       SeedAndTake, BuildCounter, CommitPut, CommitStart, FlushPiece, Finish, Abort,
       GiveUp, Delete
  <2>2. SUFFICES ASSUME reader.of # NoTask, reader.seeded
                 PROVE  /\ chunks'[reader.id] \in {reader.of, NoTask}
                        /\ cursor'[BankOf[reader.of]] # Unseeded
                        /\ reader.id < cursor'[BankOf[reader.of]]
                        /\ \A w \in Tasks : reader.id \notin ids'[w]
    BY <2>1 DEF ReaderOK, ReaderSeesOwn, ReaderPassed
  <2>3. reader.of \in Tasks /\ reader.id \in Ids
    BY <1>2, <2>2
  <2>4. /\ chunks[reader.id] \in {reader.of, NoTask}
        /\ cursor[BankOf[reader.of]] # Unseeded
        /\ reader.id < cursor[BankOf[reader.of]]
        /\ \A w \in Tasks : reader.id \notin ids[w]
    BY <2>2 DEF ReaderInv, ReaderSeesOwn, ReaderPassed
  <2> QED
    BY <1>1, <1>3, <2>3, <2>4, PassedStep
<1>4. ASSUME OpenReader PROVE ReaderOK'
  <2>0. PICK t \in Tasks : \E i \in named[t] :
          reader' = [of |-> t, id |-> i, seeded |-> cursor[BankOf[t]] # Unseeded]
    BY <1>4, IdsAssumption DEF OpenReader
  <2>1. PICK i \in named[t] :
          reader' = [of |-> t, id |-> i, seeded |-> cursor[BankOf[t]] # Unseeded]
    BY <2>0
  <2>2. /\ chunks' = chunks /\ cursor' = cursor /\ ids' = ids
        /\ reader'.of = t /\ reader'.id = i
        /\ reader'.seeded = (cursor[BankOf[t]] # Unseeded)
    BY <1>4, <2>1 DEF OpenReader
  <2>3. chunks[i] = t /\ i \in Ids /\ i \in StoredIds
    BY <1>1, <2>1 DEF Safe, NamedIntact, TypeOK, StoredIds
  <2>4. \A w \in Tasks : i \notin ids[w]
    BY <1>1, <2>1, <2>3 DEF Safe, HeldApart
  <2>5. cursor[BankOf[t]] # Unseeded => i < cursor[BankOf[t]]
    BY <1>1, <2>3 DEF Safe, CursorPastAll
  <2>6. ReaderSeesOwn'
    BY <2>2, <2>3 DEF ReaderSeesOwn
  <2>7. ReaderPassed'
    BY <2>2, <2>4, <2>5 DEF ReaderPassed
  <2> QED
    BY <2>6, <2>7 DEF ReaderOK
<1>5. ASSUME CloseReader PROVE ReaderOK'
  BY <1>5 DEF CloseReader, NoReader, ReaderOK, ReaderSeesOwn, ReaderPassed
<1>6. ASSUME NEW b \in Banks, Crash(b) PROVE ReaderOK'
  <2>1. reader.of # NoTask => BankOf[reader.of] = b
    BY <1>2 DEF OneBank
  <2>2. reader'.of = NoTask
    BY <1>2, <1>6, <2>1 DEF Crash, NoReader
  <2> QED
    BY <2>2 DEF ReaderOK, ReaderSeesOwn, ReaderPassed
<1>7. ASSUME UNCHANGED vars PROVE ReaderOK'
  BY <1>7 DEF vars, ReaderInv, ReaderOK, ReaderSeesOwn, ReaderPassed
<1>8. ReaderOK'
  BY <1>3, <1>4, <1>5, <1>6, <1>7 DEF Next
<1> QED
  BY <1>1, <1>8 DEF ReaderInv, ReaderOK

(* One bank: what a Reader, or a get past its record, was opened on never  *)
(* turns into another locker's value under it (Reader::read, load_value),  *)
(* once the bank has handed out an id.                                     *)
THEOREM ReadersSeeTheirOwn ==
  ASSUME OneBank PROVE Spec => [](ReaderInv /\ ReaderSeesOwn)
<1>1. Init => ReaderInv
  BY InitInv DEF Init, NoReader, ReaderInv, ReaderSeesOwn, ReaderPassed
<1>2. ReaderInv => ReaderSeesOwn
  BY DEF ReaderInv
<1> QED
  BY <1>1, <1>2, ReaderNext, PTL DEF Spec

(* One bank: an id handed out is stored nowhere and held by no write.      *)
THEOREM IdsAreFresh == ASSUME OneBank PROVE Spec => TakesFresh
<1> DEFINE Fresh == \A t \in Tasks : \A i \in ids'[t] \ ids[t] :
                      i \notin StoredIds /\ \A u \in Tasks : i \notin ids[u]
<1>1. Inv /\ [Next]_vars => [Fresh]_vars
  <2> SUFFICES ASSUME Inv, Next, NEW t \in Tasks, NEW i \in ids'[t] \ ids[t]
               PROVE  i \notin StoredIds /\ \A u \in Tasks : i \notin ids[u]
    BY DEF vars
  <2>1. TypeOK /\ Taking /\ Safe
    BY DEF Inv, Safe
  <2>2. PICK w \in Tasks : Take(w) \/ SeedAndTake(w)
    <3>1. \A w \in Tasks : Step(w) =>
            Take(w) \/ SeedAndTake(w) \/ ids' = ids \/ ids' = [ids EXCEPT ![w] = {}]
      BY DEF Step, BeginPut, BeginWriter, ReadCounter, ReadHighest, BuildCounter,
         CommitPut, CommitStart, FlushPiece, Finish, Abort, GiveUp, Delete, Rest
    <3>2. \A w \in Tasks : ids' # ids /\ ids' # [ids EXCEPT ![w] = {}]
      BY <2>1 DEF TypeOK
    <3>3. \A b \in Banks : ~Crash(b)
      <4>1. ASSUME NEW b \in Banks, Crash(b)
            PROVE  ids' = [u \in Tasks |-> IF BankOf[u] = b THEN {} ELSE ids[u]]
        BY <4>1 DEF Crash
      <4>2. ASSUME NEW b \in Banks, Crash(b) PROVE FALSE
        BY <4>1, <4>2
      <4> QED
        BY <4>2
    <3>4. ~OpenReader /\ ~CloseReader
      BY DEF OpenReader, CloseReader
    <3> QED
      BY <3>1, <3>2, <3>3, <3>4 DEF Next
  <2>3. PICK id : /\ HandOut(w, id)
                  /\ \/ pc[w] = "taking" /\ cursor[BankOf[w]] # Unseeded
                          /\ id = cursor[BankOf[w]]
                     \/ pc[w] = "floored" /\ id = Seed(w)
    BY <2>2 DEF Take, SeedAndTake
  <2>4. /\ id \in Ids /\ \A j \in StoredIds : j < id
        /\ \A u \in Tasks : \A j \in ids[u] : j < id
    BY <2>1, <2>3, TakenPastAll
  <2>5. i = id
    BY <2>1, <2>3 DEF HandOut, TypeOK
  <2> QED
    BY <2>4, <2>5
<1>2. Spec => []Inv
  BY InvHolds
<1> QED
  BY <1>1, <1>2, PTL DEF Spec, TakesFresh

=============================================================================

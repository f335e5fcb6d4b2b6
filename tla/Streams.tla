------------------------------ MODULE Streams ------------------------------
(***************************************************************************)
(* Streaming writers (src/src/locker/io.rs) beside the ordinary calls of   *)
(* the lazy locker they write to.                                          *)
(*                                                                         *)
(* A Writer is opened under the write lock and never takes it again: its   *)
(* pieces, its finish and its abort are commits of their own, which no     *)
(* call of the locker waits for, and it asks no more whether the locker is *)
(* closed.                                                                 *)
(*                                                                         *)
(* Abstracted: all pieces of a value are one entry of the chunks table.    *)
(***************************************************************************)
EXTENDS LazyLocker

CONSTANT Writers   \* bound: the Writers anybody opens

ASSUME StreamsAssumption == Writers \cap Tasks = {}

VARIABLES wpc,    \* where each Writer stands
          wkey, wval, wid,
          wold    \* the value ids its finish will delete

wvars == <<wpc, wkey, wval, wid, wold>>
allvars == <<vars, wvars>>

WriterPCs == {"none", "queued", "open", "flushed", "finishing", "published",
              "done", "dropped"}

StreamsTypeOK == /\ TypeOK
                 /\ wpc \in [Writers -> WriterPCs]
                 /\ wkey \in [Writers -> Keys] /\ wval \in [Writers -> LargeVals]
                 /\ wid \in [Writers -> Nat] /\ wold \in [Writers -> SUBSET Nat]

StreamsInit == /\ Init
               /\ wpc = [w \in Writers |-> "none"]
               /\ wkey \in [Writers -> Keys] /\ wval \in [Writers -> LargeVals]
               /\ wid = [w \in Writers |-> 0]
               /\ wold = [w \in Writers |-> {}]

Move(w, s) == wpc' = [wpc EXCEPT ![w] = s]
locker == <<writeLock, closed, staged, corrupt, pc, call, taken, plan, got, res, calls>>

(* LazyLocker::writer: ensure_open, then queue for the lock. *)
WriterEnter(w) ==
  /\ wpc[w] = "none" /\ ~closed
  /\ Move(w, "queued")
  /\ UNCHANGED <<vars, wkey, wval, wid, wold>>

(* Writer::start under the lock: an id, and a commit of the counter. *)
WriterStart(w) ==
  /\ wpc[w] = "queued" /\ writeLock = NoTask
  /\ wid' = [wid EXCEPT ![w] = nextId]
  /\ nextId' = CursorAfter({wkey[w]})
  /\ Move(w, "open")
  /\ UNCHANGED <<records, chunks, index, knownInline, locker, faults, wkey, wval, wold>>

(* Writer::flush_piece, for each full chunk and for finish's leftover. *)
WritePiece(w) ==
  /\ wpc[w] \in {"open", "flushed"}
  /\ chunks' = chunks \cup {[id |-> wid[w], val |-> wval[w]]}
  /\ Move(w, "flushed")
  /\ UNCHANGED <<records, nextId, index, knownInline, locker, faults, wkey, wval, wid, wold>>

(* Writer::finish reads the record it replaces, *)
FinishRead(w) ==
  /\ wpc[w] = "flushed"
  /\ wold' = [wold EXCEPT ![w] = {records[k].id : k \in {wkey[w]} \cap Chunked}]
  /\ Move(w, "finishing")
  /\ UNCHANGED <<vars, wkey, wval, wid>>

(* commits the pointer together with the deletion of the old chunks, *)
FinishCommit(w) ==
  /\ wpc[w] = "finishing"
  /\ records' = [records EXCEPT ![wkey[w]] = Pointer(wid[w])]
  /\ chunks' = {c \in chunks : c.id \notin wold[w]}
  /\ Move(w, "published")
  /\ UNCHANGED <<nextId, index, knownInline, locker, faults, wkey, wval, wid, wold>>

(* and then updates the locker's index. *)
FinishIndex(w) ==
  /\ wpc[w] = "published"
  /\ index' = index \cup {wkey[w]}
  /\ knownInline' = knownInline \ {wkey[w]}
  /\ Move(w, "done")
  /\ UNCHANGED <<store, locker, faults, wkey, wval, wid, wold>>

(* Writer::abort.  Slip: it deletes what finish would. *)
AbortedIdsOfKey(w) == {records[k].id : k \in {wkey[w]} \cap Chunked}
AbortedIds(w) == {wid[w]}

WriterAbort(w) ==
  /\ wpc[w] \in {"open", "flushed"}
  /\ chunks' = {c \in chunks : c.id \notin AbortedIds(w)}
  /\ Move(w, "done")
  /\ UNCHANGED <<records, nextId, index, knownInline, locker, faults, wkey, wval, wid, wold>>

(* Dropped unfinished, by the caller or by an error of finish. *)
WriterDrop(w) ==
  /\ \/ wpc[w] \in {"open", "flushed"} /\ UNCHANGED faults
     \/ wpc[w] = "finishing" /\ faults < MaxFaults /\ faults' = faults + 1
  /\ Move(w, "dropped")
  /\ UNCHANGED <<store, index, knownInline, locker, wkey, wval, wid, wold>>

WriterStep(w) == \/ WriterEnter(w) \/ WriterStart(w) \/ WritePiece(w)
                 \/ FinishRead(w) \/ FinishCommit(w) \/ FinishIndex(w)
                 \/ WriterAbort(w) \/ WriterDrop(w)

StreamsNext == \/ Next /\ UNCHANGED wvars
               \/ \E w \in Writers : WriterStep(w)

StreamsSpec == StreamsInit /\ [][StreamsNext]_allvars

-----------------------------------------------------------------------------
(* Properties. *)

(* The pieces of a Writer join the chunks that all values share: every     *)
(* pointer, streamed or put, finds its own (io.rs, finish; chunk.rs).      *)
(* It needs that an id given to a Writer is named by no record, by no      *)
(* other Writer and by no commit being built until its finish publishes    *)
(* it, that nobody is about to delete its pieces, and that the old chunks  *)
(* a finish or a commit is about to delete belong to a record it replaces. *)
Streaming(w) == wpc[w] \in {"open", "flushed", "finishing"}
StreamIds ==
  \A w \in Writers : Streaming(w) =>
    /\ wid[w] < nextId
    /\ \A k \in Chunked : records[k].id # wid[w]
    /\ \A v \in Writers : Streaming(v) /\ wid[v] = wid[w] => v = w
    /\ \A v \in Writers : wpc[v] = "finishing" => wid[w] \notin wold[v]
    /\ \A t \in Tasks : pc[t] = "committing" =>
         /\ wid[w] \notin plan[t].gc
         /\ \A k \in LargeIn(Commits(t)) : plan[t].ids[k] # wid[w]
    /\ wpc[w] \in {"flushed", "finishing"} => wid[w] \in ChunkIds
DeletesReplaced ==
  /\ \A t \in Tasks : pc[t] = "committing" =>
       \A i \in plan[t].gc :
         /\ i < nextId
         /\ \A k \in Chunked : records[k].id = i => k \in Touched(Commits(t))
  /\ \A w \in Writers : wpc[w] = "finishing" =>
       \A i \in wold[w] :
         /\ i < nextId
         /\ \A k \in Chunked : records[k].id = i => k = wkey[w]
         /\ \A t \in Tasks : pc[t] = "committing" =>
              \A k \in LargeIn(Commits(t)) : plan[t].ids[k] # i

StreamsInv == /\ StreamsTypeOK /\ NoDanglingPointer
              /\ LockHeld /\ ClearingIsClosed /\ IdsFresh /\ NoSharedIds
              /\ StreamIds /\ DeletesReplaced

(* io.rs, Writer: "Nothing under the key changes until Writer::finish": a  *)
(* piece, an abort or a drop changes no value the locker holds, although   *)
(* the aborted ids are deleted by prefix from the table all values share.  *)
UnfinishedUnseen ==
  [][\A w \in Writers : wpc'[w] # wpc[w] /\ wpc'[w] \in {"flushed", "done", "dropped"}
       => View' = View]_allvars

(* io.rs: a dropped Writer "leaks those orphans until a later overwrite".  *)
(* When a write of its key lands, the pieces of a Writer dropped before    *)
(* are gone.                                                               *)
DroppedReclaimed ==
  [][\A t \in Tasks, w \in Writers :
       pc[t] = "committing" /\ pc'[t] = "landed" /\ Commits(t)[wkey[w]] # Kept
         /\ wpc[w] = "dropped"
       => \A c \in chunks' : c.id # wid[w]]_allvars

(* io.rs, finish: "the records pointer swaps in one commit together with   *)
(* leftover chunk bytes and GC of the old pointer".                        *)
FinishCollectsOld ==
  [][\A w \in Writers : FinishCommit(w) =>
       \A c \in chunks' : \A k \in {wkey[w]} \cap Chunked : c.id # records[k].id]_allvars

(* io.rs, finish: "Publish the value."  What the locker holds under the    *)
(* key is the streamed value once finish has committed.                    *)
FinishPublishes ==
  [][\A w \in Writers : FinishCommit(w) => View'[wkey[w]] = wval[w]]_allvars

=============================================================================

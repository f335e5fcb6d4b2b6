------------------------------ MODULE LruBudget ------------------------------
(***************************************************************************)
(* The byte budget of an Evictable lazy locker (src/src/locker/lru.rs,     *)
(* the budget part of resident.rs, LazySink of lazy.rs): who is evicted,   *)
(* and how the accounting of every tab keeps up with what is stored.       *)
(*                                                                         *)
(* Each stored key has a row in the meta table, written in the commit of   *)
(* the record: the tick of its last use and its payload bytes.  A tab      *)
(* keeps the rows in RAM with a total.  A commit reserves a tick, plans    *)
(* whom to evict, reads the victims, commits records and rows together     *)
(* and applies the plan to RAM; reads take ticks beside it without the     *)
(* lock, and write theirs with the next commit.                            *)
(*                                                                         *)
(* Values are their payload sizes (Vals); keys are numbers, whose order    *)
(* is the byte order that breaks ties between ticks.                       *)
(***************************************************************************)
EXTENDS Coherence, FiniteSets, FiniteSetsExt

CONSTANTS
  Writes,      \* the batches the callers commit: see Batch records below
  MaxBytes,    \* Policy::Evictable { max_bytes }
  EvictTo,     \* what evict_to is asked for
  MaxTick,     \* u64::MAX
  Found,       \* what may be stored, and with a row, before the first open
  PendingPerCommit, \* ticks of reads that one commit carries
  TakeTurns,   \* a tab calls when all news is heard, and alone
  MaxCalls,    \* bound: calls begun
  MaxReads,    \* bound: reads begun
  MaxFaults    \* bound: failed commits, lost messages, tabs that end

(* A batch: what it does, and the keys it names twice as deletes.          *)
Batches == {b \in [does : Effects, cleared : BOOLEAN, again : SUBSET Keys] :
              b.cleared => Touched(b.does) = Keys}

(* A row holds a size under 4 GiB (encode_entry); Vals are such sizes.     *)
ASSUME LruAssumption == /\ Keys \subseteq Nat /\ Vals \subseteq Nat \ {0}
                        /\ IsFiniteSet(Keys) /\ Writes \subseteq Batches
                        /\ MaxBytes \in Nat /\ EvictTo \in Nat /\ MaxTick \in Nat
                        /\ PendingPerCommit \in Nat
                        /\ TakeTurns \in BOOLEAN
                        /\ MaxCalls \in Nat /\ MaxReads \in Nat /\ MaxFaults \in Nat

VARIABLES
  rec,      \* the records table: the payload size under each key
  rows,     \* the lru:: rows: key -> tick and bytes
  nextTick, \* the next_tick row
  tab,      \* Resident::lru, the key index and the bank's Ticks, per tab
  job,      \* the commit each tab has in flight (its holder of write_lock)
  reader,   \* the read each tab has in flight
  chan,
  unrowed,  \* ghost: keys stored by a Precious locker and not written since
  alone,    \* ghost: tabs beside which no other has been open
  behind,   \* ghost: tabs that missed news for good
  calls, reads, faults

vars == <<rec, rows, nextTick, tab, job, reader, chan, unrowed, alone, behind,
          calls, reads, faults>>
disk == <<rec, rows, nextTick, unrowed>>

Entries == [tick : 0..MaxTick, bytes : Nat]
PartlyIn(f, S) == DOMAIN f \subseteq Keys /\ \A k \in DOMAIN f : f[k] \in S
StoredIn(contents) == {k \in Keys : contents[k] # Gone}

(* What is found agrees with itself: a row is about a stored value.        *)
ASSUME FoundAssumption ==
  \A f \in Found :
    /\ f.rec \in Contents /\ f.rows \in [DOMAIN f.rows -> Entries] /\ f.next \in 0..MaxTick
    /\ DOMAIN f.rows \subseteq StoredIn(f.rec)
    /\ \A k \in DOMAIN f.rows : f.rows[k].bytes = f.rec[k]

NoBatch == [does |-> NoEffect, cleared |-> FALSE, again |-> {}]

NoJob == [at |-> "idle", evict |-> FALSE, batch |-> NoBatch, stored |-> 0, tick |-> 0,
          victims |-> {}, total |-> 0, pending |-> <<>>, skipped |-> {}, counter |-> 0]
NoRead == [at |-> "idle", key |-> 0, stored |-> 0]
ClockOf(seeded, next, floor) == [seeded |-> seeded, next |-> next, floor |-> floor]

NewTab == [open |-> FALSE, clock |-> ClockOf(FALSE, 0, 0), entries |-> <<>>, total |-> 0,
           pending |-> <<>>, dirty |-> FALSE, index |-> {}]

Clocks == [seeded : BOOLEAN, next : 0..MaxTick, floor : 0..MaxTick]
SizeNews == [does : [Keys -> Vals \cup {Gone, Kept, Changed}], cleared : BOOLEAN,
             shed : SUBSET Keys]

TypeOK ==
  /\ rec \in Contents /\ PartlyIn(rows, Entries) /\ nextTick \in 0..MaxTick
  /\ \A t \in Tabs :
       /\ tab[t].open \in BOOLEAN /\ tab[t].clock \in Clocks
       /\ PartlyIn(tab[t].entries, Entries) /\ tab[t].total \in Nat
       /\ PartlyIn(tab[t].pending, 0..MaxTick) /\ DOMAIN tab[t].pending \subseteq DOMAIN tab[t].entries
       /\ tab[t].dirty \in BOOLEAN /\ tab[t].index \subseteq Keys
       /\ job[t].at \in {"idle", "reloading", "ticking", "seeding", "fetching", "committing", "landed"}
       /\ job[t].batch \in Batches /\ job[t].victims \subseteq Keys /\ job[t].total \in Nat
       /\ PartlyIn(job[t].pending, Entries) /\ {job[t].tick, job[t].counter} \subseteq 0..MaxTick
       /\ reader[t].at \in {"idle", "ticking", "seeding"}
       /\ \A s \in Tabs : chan[s][t] \in Seq(SizeNews)
  /\ unrowed \subseteq Keys /\ alone \subseteq Tabs /\ behind \subseteq Tabs

-----------------------------------------------------------------------------
(* Helpers.                                                                *)

Without(f, S) == [k \in DOMAIN f \ S |-> f[k]]
Over(f, g) == [k \in DOMAIN f \cup DOMAIN g |-> IF k \in DOMAIN g THEN g[k] ELSE f[k]]
With(f, k, v) == [j \in DOMAIN f \cup {k} |-> IF j = k THEN v ELSE f[j]]
Less(a, b) == IF a > b THEN a - b ELSE 0                    \* saturating_sub
SizeOf(contents, S) == MapThenSumSet(LAMBDA k : contents[k], S)
BytesOf(entries, S) == SizeOf([k \in DOMAIN entries |-> entries[k].bytes], S \cap DOMAIN entries)
Most(S) == Max(S \cup {0})
PutsOf(b) == {k \in Keys : b.does[k] \in Vals}
DeletesOf(b) == {k \in Keys : b.does[k] = Gone}

(* TickState::cursor.  Slip: the ticks found in the rows are not heeded. *)
CursorUnfloored(c) == c.next
Cursor(c) == Max({c.next, c.floor})

(* LruState::plan: the total the batch leaves, and the least recently used *)
(* of the others until it fits.  Slip: a key in the batch is fair game.    *)
TotalAfter(s, b) ==
  IF b.cleared THEN SizeOf(b.does, PutsOf(b))
  ELSE Less(s.total, BytesOf(s.entries, DeletesOf(b)) + BytesOf(s.entries, b.again)
                     + BytesOf(s.entries, PutsOf(b)))
       + SizeOf(b.does, PutsOf(b))
CandidatesAll(s, b) == IF b.cleared THEN {} ELSE DOMAIN s.entries \ DeletesOf(b)
Candidates(s, b) == IF b.cleared THEN {}
                    ELSE DOMAIN s.entries \ (DeletesOf(b) \cup PutsOf(b))
Older(s, j, k) == \/ s.entries[j].tick < s.entries[k].tick
                  \/ s.entries[j].tick = s.entries[k].tick /\ j < k
VictimsOf(s, b, budget) ==
  {k \in Candidates(s, b) :
     TotalAfter(s, b) > budget + BytesOf(s.entries, {j \in Candidates(s, b) : Older(s, j, k)})}

(* pending_ops: the ticks of the first reads, in the order of their keys;  *)
(* those of keys that the commit writes are dropped.                       *)
Carries(s) == {k \in DOMAIN s.pending :
                 Cardinality({j \in DOMAIN s.pending : j < k}) < PendingPerCommit}
PendingRows(s, b) ==
  [k \in Carries(s) \ PutsOf(b) |-> [tick |-> s.pending[k], bytes |-> s.entries[k].bytes]]

-----------------------------------------------------------------------------
(* Opening: the key index, then the rows (lru::load), reconciled with each *)
(* other (open_lru).                                                       *)

Loaded(s, index) ==
  LET entries == Over([k \in index |-> [tick |-> 0, bytes |-> 0]],
                      Without(rows, Keys \ index)) IN
  [s EXCEPT !.entries = entries, !.total = BytesOf(entries, Keys)]

(* Ticks::observe_recorded.  The caller checks the tick space.             *)
Observed(c) ==
  IF DOMAIN rows = {} THEN c
  ELSE LET floor == Max({c.floor, Most({rows[k].tick : k \in DOMAIN rows}) + 1}) IN
       ClockOf(c.seeded, IF c.seeded THEN Max({c.next, floor}) ELSE c.next, floor)
Observable == Most({rows[k].tick : k \in DOMAIN rows}) < MaxTick

Init ==
  /\ \E f \in Found :
       /\ rec = f.rec
       /\ rows = f.rows
       /\ nextTick = f.next
       /\ unrowed = StoredIn(f.rec) \ DOMAIN f.rows
  /\ tab = [t \in Tabs |-> NewTab]
  /\ job = [t \in Tabs |-> NoJob]
  /\ reader = [t \in Tabs |-> NoRead]
  /\ chan = NoNews
  /\ alone = {} /\ behind = {}
  /\ calls = 0 /\ reads = 0 /\ faults = 0

(* A tab has a commit under way, or news of one that is still to be heard. *)
Sends(s) == job[s].at # "idle" \/ \E t \in Tabs : chan[s][t] # <<>>
MyTurn(t) == \A s \in Tabs \ {t} : ~Sends(s)

OpenTab(t) ==
  LET index == StoredIn(rec) IN
  /\ ~tab[t].open /\ Observable
  /\ TakeTurns => MyTurn(t)
  /\ tab' = [tab EXCEPT ![t] =
       [Loaded(@, index) EXCEPT !.open = TRUE, !.clock = Observed(tab[t].clock),
                                !.pending = <<>>, !.dirty = FALSE, !.index = index]]
  /\ alone' = IF \E s \in Tabs : tab[s].open THEN alone \ {s \in Tabs : tab[s].open}
              ELSE {t}
  /\ behind' = behind \ {t}
  /\ UNCHANGED <<disk, job, reader, chan, calls, reads, faults>>

(* LazyLocker::close: the bank, and so the clock, stays.                   *)
CloseTab(t) ==
  /\ tab[t].open /\ job[t].at = "idle" /\ reader[t].at = "idle"
  /\ tab' = [tab EXCEPT ![t].open = FALSE]
  /\ alone' = alone \ {t}
  /\ UNCHANGED <<disk, job, reader, chan, behind, calls, reads, faults>>

(* The tab ends: reads it has not written, its clock and its news go.      *)
EndTab(t) ==
  /\ tab[t].open /\ faults < MaxFaults
  /\ tab' = [tab EXCEPT ![t] = NewTab]
  /\ job' = [job EXCEPT ![t] = NoJob]
  /\ reader' = [reader EXCEPT ![t] = NoRead]
  /\ chan' = Unplugged(chan, t)
  /\ alone' = alone \ {t}
  /\ behind' = IF job[t].at = "landed" THEN Tabs \ {t} ELSE behind \ {t}
  /\ faults' = faults + 1
  /\ UNCHANGED <<disk, calls, reads>>

-----------------------------------------------------------------------------
(* Reads: Resident::note_read.  The clock is seeded by a read of the       *)
(* next_tick row when it has not been used before.                         *)

Ticked(t, c) == [tab[t] EXCEPT !.clock = ClockOf(TRUE, Cursor(c) + 1, c.floor)]
Seeded(c, stored) == ClockOf(TRUE, IF c.seeded THEN Max({c.next, stored}) ELSE stored, c.floor)

Touch(s, k, tick) ==
  IF k \notin DOMAIN s.entries THEN s
  ELSE [s EXCEPT !.entries = With(@, k, [tick |-> tick, bytes |-> s.entries[k].bytes]),
                 !.pending = With(@, k, tick)]

BeginRead(t, k) ==
  /\ tab[t].open /\ reader[t].at = "idle" /\ rec[k] # Gone /\ reads < MaxReads
  /\ reader' = [reader EXCEPT ![t] = [NoRead EXCEPT !.at = "ticking", !.key = k]]
  /\ reads' = reads + 1
  /\ UNCHANGED <<disk, tab, job, chan, alone, behind, calls, faults>>

TouchWith(t, c) ==
  /\ Cursor(c) < MaxTick
  /\ tab' = [tab EXCEPT ![t] = Touch(Ticked(t, c), reader[t].key, Cursor(c))]
  /\ reader' = [reader EXCEPT ![t] = NoRead]

NoteRead(t) ==
  /\ \/ /\ reader[t].at = "ticking" /\ tab[t].clock.seeded
        /\ TouchWith(t, tab[t].clock)
     \/ /\ reader[t].at = "ticking" /\ ~tab[t].clock.seeded
        /\ reader' = [reader EXCEPT ![t].at = "seeding", ![t].stored = nextTick]
        /\ UNCHANGED tab
     \/ /\ reader[t].at = "seeding"
        /\ TouchWith(t, Seeded(tab[t].clock, reader[t].stored))
     \/ /\ reader[t].at # "idle" /\ Cursor(tab[t].clock) >= MaxTick
        /\ reader' = [reader EXCEPT ![t] = NoRead] /\ UNCHANGED tab
  /\ UNCHANGED <<disk, job, chan, alone, behind, calls, reads, faults>>

-----------------------------------------------------------------------------
(* A commit: budget_ops, Inner::commit, apply_budget.                      *)

Begin(t, b) ==
  /\ tab[t].open /\ job[t].at = "idle" /\ calls < MaxCalls
  /\ TakeTurns => MyTurn(t) /\ t \notin behind
  /\ job' = [job EXCEPT ![t] = [NoJob EXCEPT !.batch = b,
                                             !.at = IF tab[t].dirty THEN "reloading" ELSE "ticking"]]
  /\ calls' = calls + 1
  /\ UNCHANGED <<disk, tab, reader, chan, alone, behind, reads, faults>>

(* adopt_loaded. *)
AdoptLoaded(s) ==
  LET l == Loaded(s, DOMAIN rows) IN
  [l EXCEPT !.clock = Observed(@), !.dirty = FALSE,
            !.pending = Without(@, Keys \ DOMAIN rows)]

Reload(t) ==
  /\ job[t].at = "reloading" /\ Observable
  /\ tab' = [tab EXCEPT ![t] = AdoptLoaded(@)]
  /\ job' = [job EXCEPT ![t].at = "ticking"]
  /\ UNCHANGED <<disk, reader, chan, alone, behind, calls, reads, faults>>

ReadTick(t) ==
  /\ job[t].at = "ticking" /\ ~tab[t].clock.seeded
  /\ job' = [job EXCEPT ![t].at = "seeding", ![t].stored = nextTick]
  /\ UNCHANGED <<disk, tab, reader, chan, alone, behind, calls, reads, faults>>

(* Take the tick and plan.  The victims' records are read before the       *)
(* counter row is built, so reads may move the clock in between.           *)
PlanCommit(t) ==
  LET c == IF job[t].at = "seeding" THEN Seeded(tab[t].clock, job[t].stored) ELSE tab[t].clock
      s == tab[t]
      b == job[t].batch
      victims == VictimsOf(s, b, MaxBytes) IN
  /\ \/ job[t].at = "ticking" /\ tab[t].clock.seeded
     \/ job[t].at = "seeding"
  /\ Cursor(c) < MaxTick
  /\ tab' = [tab EXCEPT ![t] = Ticked(t, c)]
  /\ job' = [job EXCEPT ![t] =
       [@ EXCEPT !.tick = Cursor(c), !.victims = victims,
                 !.total = Less(TotalAfter(s, b), BytesOf(s.entries, victims)),
                 !.pending = IF b.cleared THEN <<>> ELSE PendingRows(s, b),
                 !.skipped = IF b.cleared THEN {} ELSE Carries(s) \cap PutsOf(b),
                 !.at = IF victims = {} THEN "committing" ELSE "fetching",
                 !.counter = Cursor(c) + 1]]
  /\ UNCHANGED <<disk, reader, chan, alone, behind, calls, reads, faults>>

Fetched(t) ==
  /\ job[t].at = "fetching"
  /\ job' = [job EXCEPT ![t].at = "committing",
                        ![t].counter = IF job[t].evict THEN @ ELSE Cursor(tab[t].clock)]
  /\ UNCHANGED <<disk, tab, reader, chan, alone, behind, calls, reads, faults>>

(* evict_to: the same plan for a smaller budget, with no tick and no row   *)
(* but those that go.                                                      *)
EvictDown(t) ==
  LET s == tab[t]
      victims == VictimsOf(s, NoBatch, EvictTo) IN
  /\ s.open /\ job[t].at = "idle" /\ calls < MaxCalls
  /\ TakeTurns => MyTurn(t) /\ t \notin behind
  /\ calls' = calls + 1
  /\ job' = IF victims = {} THEN job
            ELSE [job EXCEPT ![t] = [NoJob EXCEPT !.at = "fetching", !.evict = TRUE, !.victims = victims,
                                     !.total = Less(s.total, BytesOf(s.entries, victims))]]
  /\ UNCHANGED <<disk, tab, reader, chan, alone, behind, reads, faults>>

Fail(t) ==
  /\ job[t].at \in {"reloading", "ticking", "seeding", "fetching", "committing"}
  /\ faults < MaxFaults
  /\ job' = [job EXCEPT ![t] = NoJob]
  /\ faults' = faults + 1
  /\ UNCHANGED <<disk, tab, reader, chan, alone, behind, calls, reads>>

(* The rows after a commit: puts, then read ticks, then what is removed.   *)
(* Slip: an evicted key leaves its row behind.                             *)
RowsKept(j) ==
  Without(Over(Over(IF j.batch.cleared THEN <<>> ELSE rows,
                    [k \in PutsOf(j.batch) |-> [tick |-> j.tick, bytes |-> j.batch.does[k]]]),
               j.pending),
          DeletesOf(j.batch))
RowsAfter(j) == Without(RowsKept(j), j.victims)

Land(t) ==
  LET j == job[t] IN
  /\ j.at = "committing"
  /\ rec' = [k \in Keys |-> IF k \in j.victims THEN Gone ELSE Then(rec, j.batch.does)[k]]
  /\ rows' = RowsAfter(j)
  /\ nextTick' = IF j.evict THEN nextTick ELSE j.counter
  /\ unrowed' = unrowed \ (Touched(j.batch.does) \cup j.victims)
  /\ job' = [job EXCEPT ![t].at = "landed"]
  /\ alone' = alone \cap {t}
  /\ UNCHANGED <<tab, reader, chan, behind, calls, reads, faults>>

(* LruState::apply and clear_pending, and the key index.                   *)
Applied(s, j) ==
  LET gone == DeletesOf(j.batch) \cup j.victims
      puts == PutsOf(j.batch)
      base == IF j.batch.cleared THEN <<>> ELSE s.entries IN
  [s EXCEPT !.entries = Without(Over(Without(base, gone),
                                     [k \in puts |-> [tick |-> j.tick, bytes |-> j.batch.does[k]]]),
                                j.victims),
            !.pending = IF j.batch.cleared THEN <<>>
                        ELSE Without(@, gone \cup DOMAIN j.pending \cup j.skipped),
            !.total = j.total,
            !.index = ((IF j.batch.cleared THEN {} ELSE @) \cup puts) \ gone]

Finish(t) ==
  LET j == job[t]
      news == [does |-> [k \in Keys |-> Carried(j.batch.does[k])],
               cleared |-> j.batch.cleared, shed |-> j.victims] IN
  /\ j.at = "landed"
  /\ tab' = [tab EXCEPT ![t] = Applied(@, j)]
  /\ job' = [job EXCEPT ![t] = NoJob]
  /\ \E lost \in BOOLEAN :
       /\ lost => faults < MaxFaults
       /\ faults' = faults + (IF lost THEN 1 ELSE 0)
       /\ chan' = IF lost THEN chan ELSE Posted(chan, t, news, {s \in Tabs : tab[s].open})
       /\ behind' = IF lost THEN behind \cup {s \in Tabs : s # t /\ tab[s].open} ELSE behind
  /\ UNCHANGED <<disk, reader, alone, calls, reads>>

-----------------------------------------------------------------------------
(* LazySink::apply, with remote_put, remote_delete and remote_clear.       *)

RemoteDelete(s, S) ==
  [s EXCEPT !.entries = Without(@, S), !.pending = Without(@, S),
            !.total = Less(@, BytesOf(s.entries, S)), !.index = @ \ S]

(* A size that is not known marks the accounts dirty.  Slip: it does not. *)
UnknownIsClean(s) == s.dirty
UnknownIsDirty(s) == TRUE

NextLocalTick(s) == Min({MaxTick, Most({s.entries[j].tick : j \in DOMAIN s.entries}) + 1})
RemotePut(s, k, bytes) ==
  IF bytes # Changed
  THEN [s EXCEPT !.entries = With(@, k, [tick |-> NextLocalTick(s), bytes |-> bytes]),
                 !.total = Less(@, BytesOf(s.entries, {k})) + bytes, !.index = @ \cup {k}]
  ELSE [s EXCEPT !.entries = IF k \in DOMAIN @ THEN @
                             ELSE With(@, k, [tick |-> NextLocalTick(s), bytes |-> 0]),
                 !.dirty = UnknownIsDirty(s), !.index = @ \cup {k}]

RemoteClear(s) ==
  [s EXCEPT !.entries = <<>>, !.pending = <<>>, !.total = 0, !.dirty = FALSE, !.index = {}]

(* The changes of a message in the order of their keys, then what it shed. *)
Change(n, k, s) == IF n.does[k] = Gone THEN RemoteDelete(s, {k}) ELSE RemotePut(s, k, n.does[k])
Absorbed(s, n) ==
  RemoteDelete(MapThenFoldSet(LAMBDA k, u : Change(n, k, u),
                              IF n.cleared THEN RemoteClear(s) ELSE s,
                              LAMBDA k : k, LAMBDA S : Max(S), Named(n)),
               n.shed)

Hear(s, t) ==
  /\ chan[s][t] # <<>>
  /\ tab' = [tab EXCEPT ![t] = IF @.open THEN Absorbed(@, Head(chan[s][t])) ELSE @]
  /\ chan' = Heard(chan, s, t)
  /\ UNCHANGED <<disk, job, reader, alone, behind, calls, reads, faults>>

Next == \E t \in Tabs :
          \/ OpenTab(t) \/ CloseTab(t) \/ EndTab(t)
          \/ \E k \in Keys : BeginRead(t, k)
          \/ NoteRead(t)
          \/ \E b \in Writes : Begin(t, b)
          \/ Reload(t) \/ ReadTick(t) \/ PlanCommit(t) \/ Fetched(t) \/ EvictDown(t)
          \/ Fail(t) \/ Land(t) \/ Finish(t)
          \/ \E s \in Tabs : Hear(s, t)

Spec == Init /\ [][Next]_vars

-----------------------------------------------------------------------------
(* The total every decision is made against is the sum of the entries,     *)
(* through puts, evictions, reloads and news (lru.rs:470).                 *)
TotalIsSum == \A t \in Tabs : tab[t].open => tab[t].total = BytesOf(tab[t].entries, Keys)

(* Rows and records go in one commit: a row describes a stored value and   *)
(* its payload bytes, and a stored value has a row, but for what a         *)
(* Precious locker left (it is adopted with no bytes; lru.rs:3).           *)
RowsMatchRecords ==
  /\ \A k \in DOMAIN rows : /\ rec[k] # Gone
                            /\ rows[k].bytes = IF k \in unrowed THEN 0 ELSE rec[k]
  /\ \A k \in StoredIn(rec) \ unrowed : k \in DOMAIN rows

(* A tab that has heard everything accounts for exactly what is stored,    *)
(* whoever wrote it; where a size was not in the news it knows that it     *)
(* does not know (resident.rs:462).  What a Precious locker left is        *)
(* accounted for until the first reload, which keeps only rows.            *)
AccountsMatch ==
  /\ TypeOK /\ TotalIsSum
  /\ \A t \in Tabs :
    /\ tab[t].open /\ t \notin behind
    /\ \A s \in Tabs : job[s].at # "landed" /\ chan[s][t] = <<>>
    => /\ tab[t].index = StoredIn(rec)
       /\ StoredIn(rec) \ unrowed \subseteq DOMAIN tab[t].entries
       /\ DOMAIN tab[t].entries \subseteq StoredIn(rec)
       /\ \/ tab[t].dirty
          \/ \A k \in StoredIn(rec) \ unrowed : tab[t].entries[k].bytes = rec[k]

(* A commit leaves what is accounted for within the budget, or nothing of  *)
(* it but the keys it writes; and it never evicts one of those             *)
(* (resident.rs:620).                                                      *)
BudgetHeld ==
  [][\A t \in Tabs : Land(t) /\ ~job[t].evict =>
       LET mine == PutsOf(job[t].batch)
           accounted == StoredIn(rec') \ unrowed' IN
       /\ \A k \in mine : rec'[k] = job[t].batch.does[k]
       /\ SizeOf(rec', accounted) <= MaxBytes \/ accounted \subseteq mine]_vars

(* A bank that has had the store to itself since it opened never issues a  *)
(* tick at or below one that is recorded: what it used last is evicted     *)
(* last, across reads that were never written and across crashes           *)
(* (lru.rs:25).  Only what a Precious locker left, adopted with tick 0,    *)
(* can tie with the very first tick.                                       *)
FreshTicks ==
  [][\A t \in alone : PlanCommit(t) =>
       /\ \A k \in DOMAIN rows : rows[k].tick < job'[t].tick
       /\ \A k \in DOMAIN tab[t].entries :
            \/ tab[t].entries[k].tick < job'[t].tick
            \/ k \in unrowed /\ tab[t].entries[k].tick = 0]_vars

=============================================================================

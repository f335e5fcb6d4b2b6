# A verification development for crossbank

crossbank is an embedded key-value store in Rust: a *bank* holds named
*lockers*, a locker maps keys to values, and everything is kept in one of three
backends (memory, redb, IndexedDB). It runs on many executors at once - native
threads, or one browser tab per process over one shared database - and nearly
every operation is a chain of `await`s, so its hard part is what may happen
between two of them.

This directory holds TLA+ models of that code, the TLC configurations that
check them on small instances, and proofs, checked by TLAPS, of the properties
that matter most for every instance. Line numbers are of `src/src/...`.

1. Inventory of the system - 2. The modules - 3. The runs - 4. What is proved -
5. Where the code and its comments disagree - 6. What is not modelled - 7. Running

## 1. Inventory of the system

| Component | State | Operations | Correct when |
|---|---|---|---|
| **Lazy locker** `locker/lazy.rs`, `inner.rs`, `resident.rs` | stored: `records`, `chunks`; RAM: key index, `known_inline`, staged batch, `corrupt_keys`, `closed`, `write_lock` | `put`, `delete`, `clear`, `transact`, `flush`, `close`, `get`, `len`, `keys`, `range`, `range_rev`, `latest`, `entries`, `subscribe` | each write takes effect once and as a whole; a pointer record always finds its chunks; no chunk is left that no record names; the index shows what the locker holds |
| **Eager locker** `locker/eager.rs` | stored records; the resident map of values, the keys known to be corrupt or too large to have been sent, the epochs | the writes of a lazy locker, synchronous reads, the sink of other tabs' news | the resident map is what is stored, under the staged batch |
| **Write-sets** `locker/transaction.rs`, `Resident::stage/staged_view/ops_for_items/accounting`, `LazyLocker::collect` | a list of staged puts, deletes and clears | stage, read through, list through, commit, account for | the four readers of one list agree |
| **Byte budget** `locker/lru.rs`, `resident.rs` | stored rows (tick, bytes) and clock; RAM: `LruState`, pending read ticks | `plan`, `apply`, `note_read`, `evict_to`, `apply_remote`, reload | the total is what is stored; what is stored fits the budget; what was used last is evicted last |
| **Value ids** `locker/chunk.rs` | stored counter, chunks table; RAM cursor per bank | `allocate`, `seed_floor`, `counter_op` | no two values ever have one id, through crashes and reordered commits |
| **Streams** `locker/io.rs` | a `Writer`'s id and pieces; a `Reader`'s pointer | `start`, `write`, `finish`, `abort`, drop; `read` | nothing of a value is seen before `finish`; other values stay intact |
| **Bank registry** `bank.rs` | stored: `locker::{name}`, the id counter, `schema::{id}`, `chain::{id}`; RAM: `registry` cache, `open_lockers` | open (eager, lazy), share, claim, `delete_locker`, close, `locker_exists` | one name, one live locker; a locker decodes only its own bytes, through the transform that sealed them; what is written is found after a restart |
| **Bank, handle and service** `bank.rs`, `handle.rs` | `closed`, `OPEN_BANKS`, the bounded job queue, one-shot replies | `open`, `flush_all`, `close`, drop, `delete_bank`; every call of `BankHandle`; `into_service` and what it serves | every call ends; an answer of success means stored |
| **Watchers** `watch.rs` | bounded channels, counts of what was skipped | `emit`, `subscribe`, `next` | a watcher sees every event or is told how many it lost |
| **Coherence** `coherence/*` | an epoch per tab, a channel | `next_epoch`, `post`, `absorb` | every tab ends with what is stored |
| **Backends** `backend/*` | the tables | `get_many`, `scan`, `commit`, `flush`, `close` | commits are atomic; durability as asked for; pages are together the range |
| **Keys, codec** `key.rs`, `codec/*` | none | encode, decode, ranges; seal, open | a locker reaches exactly its own keys; a sealed value opens as it was or not at all |
| **Errors, policies** `error.rs`, `locker/policy.rs` | none | | parameters of the models |
| **Fault decorator** `crossbank-conformance/src/fault.rs` | the plan it is armed with | refuse, damage, hold a commit | the fault model of `Service` |
| **Crash child, conformance suite, benches, examples, CI** | | | drivers of the library; read for what they promise, not modelled |

How they interact: a *bank* owns the backend, one value-id allocator and the
registry; every *locker* shares them. A locker's write is a call to the codec,
some backend reads (of the records it will replace), possibly the allocator,
one `Backend::commit`, then an update of RAM, the events of its watchers and,
in a browser, the news for the other tabs. Writes of one deferred or lazy
locker hold its `write_lock` over all that; immediate writes of an eager
locker, reads, listings, `Writer`s, `close`'s last steps and everything in
`bank.rs` hold no lock over an `await`. A `BankHandle` sends jobs through a
queue to the one task that owns the bank, whose raw calls go straight to the
backend, past the lockers. Tabs share only the backend and the coherence channel.

What makes it hard:

* **interleaving at awaits** - a check or a read made before an await, used after it;
* **deferred batches** - a staged write is in the buffer, then in a commit under way, then in the store, and must be seen in all three, and put back if the commit fails;
* **chunked values** - two tables that must agree although only the record is read back;
* **ids allocated in RAM, recovered from disk** - through crashes and through commits that land in another order than they were built;
* **opens and deletes of lockers** - chains of four or five backend calls that can stop or be overtaken anywhere;
* **three writers of one resident map** - immediate calls, the deferred batch, other tabs' news, none of which knows of the others;
* **answers** - what a caller was told is durable, while other tasks flush, commits are refused, the service is dropped and the process dies;
* **bounded channels** - which lose events, and must say so.

`PROJECT.json` lists each such hazard at its line with the property that covers it.

## 2. The modules

| Module | Models | Extends |
|---|---|---|
| `Batch` | the effect of a write-set on a key-value map, and its composition | |
| `AtomicMap` | the abstract specification: a map whose calls take effect atomically, at most once | `Batch` |
| `LazyLocker` | one open lazy locker and the calls in flight on it | `Batch` |
| `StagedList` | the write-set as the list it is, and each of its readers | `Batch` |
| `Listing` | paged listings and transaction closures beside a deferred locker's writes | `StagedList` |
| `ValueIds` | the value-id allocator and everything that takes ids from it | |
| `Streams` | streaming `Writer`s beside a lazy locker's calls | `LazyLocker` |
| `Registry` | names, ids, schemas, chains and open lockers of a bank | |
| `Coherence` | announcements, epochs, the channel between tabs | `Batch` |
| `EagerLocker` | one eager locker opened by several tabs | `Coherence` |
| `LruBudget` | the byte budget of an evictable lazy locker opened by several tabs | `Coherence` |
| `Backend` | what each backend keeps and loses; injected faults | `Batch` |
| `Service` | a bank from opening to death: its typed locker, `flush_all`, `close`, handle, service, `delete_bank`, crash | `Backend` |
| `Watch` | events, bounded channels, gap notices | |
| `Encoding` | encoded keys and ranges, the pages of a walk on each engine | |
| `Envelope` | sealed values and the three shipped filter chains | |
| `EncodedListing` | a listing with the encodings it takes for granted | `Listing`, `Encoding`, `Envelope` |
| `MC...` | small instances for TLC: constants, symmetry | |
| `LazyLockerProofs`, `ListingProofs`, `EagerProofs`, `LruProofs`, `ValueIdsProofs`, `RegistryProofs`, `WatchProofs`, `ServiceProofs` | theorems and their proofs | the module each is named after; `LazyLockerProofs` is about `LazyLocker` and `Streams`, `ListingProofs` about `StagedList`, `Listing`, `Encoding` and `Envelope`, `LruProofs` about `LruBudget` |

Definitions whose comment calls them a *slip* are not part of a model: each is
a plausible mistake in the definition that follows it, kept to show that a
property notices it (`PROJECT.json`, "mutants"). Variables called *ghost* are
read by properties only; no guard depends on them.

### LazyLocker

A step is the stretch of code between two awaits. `pc` says where a call is:

| `pc` | where in the code |
|---|---|
| `entered`, `waiting` | past the argument checks; queueing for `write_lock` (after `ensure_open`) |
| `closure` | a `transact` closure is running, lock held |
| `fetching` / `trusting` | about to read the records to be replaced / `Resident::prior` said that is unnecessary |
| `committing`, `landed` | the ops are built, `Inner::commit` under way; it has landed, RAM not yet updated |
| `reading`, `chunks` | a `get` before its record, and between record and chunks |
| `discarding`, `marking`, `clearing` | `close` after its flush, where it holds no lock |

`StageOnly`, `StageAndFlush`, `LockWrite`, `LockTransact` and `LockFlush` take
the lock and run to the next await; `Build` stands for `put_payload_ops`,
`delete_value_ops`, `clear_value_ops` and `ops_for_pending` with the allocation
of ids; `Commit` is the backend's atomic commit; `Finish` the tail
(`touch_index`, `known_inline`); `Fail` any error from the first read to the
commit, with `restage`. `LazyLocker::open` is `Init`.

What is abstracted: payloads are inline or chunked, and one chunk stands for
all of a value's chunks (the code writes and deletes them by id prefix in one
commit); a batch is its effect on each key, which is what `Listing` checks the
real list against; value ids start at 1 and the cursor is seeded (`ValueIds`
models seeding); which key of a batch gets which id, decided by byte order in
the code, is left open. The policy is `Precious`, so no eviction (that is
`LruBudget`'s); corruption is `OnCorrupt::Skip`.

### ValueIds

Several lockers of one bank allocate from one cursor. `ReadCounter`,
`ReadHighest` and `SeedAndTake` are the three stretches of `seed_floor` and
`seed_and_take`; `Take` the fast path; `BuildCounter` the `counter_op` that
every allocating commit carries, built from the cursor of that moment although
the commit lands later. `CommitPut`, `CommitStart`, `FlushPiece`, `Finish`,
`Abort` and `Delete` are the commits that store or delete chunks; `GiveUp` is
an error or a dropped future, `Crash` the end of a process. `BankOf` says which
bank a writer uses, so the same module describes two tabs. The chunks of an id
are one entry labelled with its locker.

### Streams

`Writer`s (`start`, `write` with its `flush_piece`, `finish`'s read and commit,
`abort`, drop) as further processes over `LazyLocker`'s store; they take no
write lock. The pieces of a value are one entry; a `Writer` of no pieces is left out.

### Registry

`Open`/`Exists`/`Cached`/`LookUp`/`Register`/`Cache`/`ReadSchema`/`BindSchema`/
`ReadChain`/`BindChain`/`ClaimOpen` are the stretches of `locker_with` and
`lazy_locker_with`; `Delete`/`Exists`/.../`Erase`/`Forget` those of
`delete_locker`. A locker's data are the ways in which its records were sealed.
`Init` includes a store left by a build that knew no chain rows. The weak
references in `open_lockers` are pruned when the last handle goes, rather than
at the next look. `Bank::close` is seen only as `Crash`.

### StagedList and Listing

`StagedList` has the list of staged mutations and its readers as separate
definitions, each translated from its own code: `Committed`
(`ops_for_items`), `StagedView`, `Overlay` (`collect`'s overlay) and the byte
accounting. `Listing` walks the records page by page beside `Stage`, `Flush`,
`TxBegin`... `Land`; both ways a backend may resume after a page that is
exactly full are allowed, which `Encoding` justifies. Values are inline there.

### Coherence and EagerLocker

A message of `Coherence` is what a commit did, derived from its ops as
`announcement_from_ops` does, with the epoch its sender counted; a value over
`INLINE_LIMIT` (`Mute`) is only named. Messages of one sender arrive in order,
of two senders in any order; a tab that ends loses what was on its way to it.

`EagerLocker` keeps, per tab, the resident map (`values`), the keys it knows to
be unreadable (`corrupt`) or knows nothing of (`dropped`), the staged batch, the
bank's epoch counter and the two clocks of `Epochs` (`local`, `applied`).
`Load` and `JoinCoherence` are the two stretches of `Locker::open` - news heard
in between finds no sink. `Begin` starts a call: an immediate `put`, `delete`,
`clear`, `put_all` or `delete_all` commits at once and takes no lock, a
deferred one stages, `transact`, `flush` and `close` go through `TakeLock`,
`Drain` and `Built`; `Fail`, `Land` and `Finish` end a commit, the last of them
mirroring it into the map and posting the news. `Hear` is the sink. `EndTab`
closes a tab at any moment.

`Staging` is what the code does between `stage` and the check whether the batch
is full.

`excuse` is a ghost: the keys for which the design itself gives up on a
resident value being the stored one. Each place where a key enters it is a
behaviour listed at the end of section 5; outside it, `ResidentIsStored` has to
hold. `late`, in messages and calls, notes for it on which keys a later commit
has landed.

### LruBudget

Values are their payload sizes. A tab's commit goes through `Begin`, `Reload`
(when it is `dirty`), `ReadTick` (seeding the clock), `PlanCommit` (the tick,
the victims, the planned total and the rows of reads still pending), `Fetched`
(the victims' records are read), `Land` (records, rows and clock in one
commit) and `Finish` (the plan is applied to RAM, the news posted); `EvictDown`
is `evict_to`, `BeginRead`/`NoteRead` a `get` with its await, `Hear` the sink,
`OpenTab`, `CloseTab` and `EndTab` the life of a tab. `Found` includes a store
that a `Precious` locker wrote, whose keys have no rows. The ghosts `unrowed`,
`alone` and `behind` say which keys those are, which tabs have had the store to
themselves, and which have missed news for good.

A commit carries the rows of at most `PendingPerCommit` reads
(`PENDING_PER_COMMIT`, 64 in the code; 1 in the run, where at most one read is
pending). Sizes are naturals: `encode_entry` writes four bytes, and `Vals` stand
for payloads below 4 GiB. Under `TakeTurns` a tab begins a call, or opens, when
no other tab has a commit under way or news that somebody has yet to hear
(`MyTurn`), and calls only if it has missed none; without it tabs overlap as
they like.

### Backend and Service

A store has two contents: `live`, what its reads answer, and `safe`, what the
next process finds. They differ on redb after `Durability::Eventual` commits
and on a file that has been unlinked while open. `Intercept` is the `Fault`
decorator: one commit refused as a whole, or one of its values damaged.

`Service` follows one bank: `OpenBackend` and `Register` (the entry in
`OPEN_BANKS` comes an await later), `OpenLocker`, `Stage` and the locker's own
flush (`OwnFlush`, `OwnDrain`, `OwnCommit`, `OwnSync`); `flush_all` with its
lock, commit and backend flush (`SweepStart`, `SweepDrain`, `SweepCommit`,
`SweepSync`); `close` (`CloseBegin`, `CloseSwap`, `CloseBackend`,
`CloseRelease`); `IntoService`, the queue (`Dispatch`, `TakeJob`, `Reply`) and
the jobs (`ServeRead`, `ServeWrite`, `ServeFlushAll` to `EndFlushAll`,
`ServeDeleteLocker` with `EraseLocker`); and what may happen to all of them:
`GiveUp` (a caller drops its call), `DropService`, `DropBank`, `DropLocker`,
`DeleteBank`, `Crash`. The ghost `owed` is what somebody has been told is
durable, until it is overwritten; `sweep.owes` what the `flush_all` in progress
will say; `job.seen` what a read may answer.

Simplifications: the locker's own calls are `LazyLocker`'s subject, here it
only stages and flushes; one `flush_all` runs at a time, and a locker handle is
not dropped in the middle of a flush; a bank is opened again only when nothing
of the one before is alive. `flush_all` does not promise what another task has
drained and not yet committed, because the code does not wait for it.

### Watch

`Change` is a write before its announcement, `Announce` is `Watchers::emit`
with the bounded channels, the notice that must fit before the event, and the
pruning of dropped streams. A subscriber is modelled as what it is for: it
holds a copy, and reads a key again when an event names it, everything after
`Cleared` or `Lagged`; `stale` is what its copy is behind on.

### Encoding and Envelope

Pure functions, checked over every input of a small alphabet by the run of
`EncodedListing`, which states what a listing takes for granted: `Encoding` has
encoded keys, prefix and user ranges, degenerate ranges, and for each engine
which ranges it refuses and how its pages follow each other; `Envelope` what
each filter answers to what it is handed, with the header before it. Checksums
and compression are not computed: a checksum misses no damage, a decompressor
handed anything but its own output may fail or answer garbage.

## 3. The runs

Every run is in `PROJECT.json`. The bounds are constants named in the cfg; the
number of distinct states is in brackets.

| Run | Question | Bounds, and why they are enough |
|---|---|---|
| `LazyImmediate` [465k] | with immediate commits, is the locker one atomic map (`ImplementsMap`), and are its two tables and its index consistent? | 2 keys, an inline and a chunked payload, 2 tasks, 3 calls, 1 error, every initial content. The lock admits one writer, so a third party can only be a read, a waiting call or `close`: two tasks and a third call show each pair, and one call after it. |
| `LazyDeferred` [685k] | with a batch of two (`After = 2`), where a batch is drained, merged, restaged: is anything lost, does the index show it (`MapInv` is the inductive form), does every call end? | as above, without `get` and with three closures, because a run with liveness admits no symmetry; two entries are enough for "older under newer" |
| `IdsOneBank` | with one bank, are ids unique through crashes, and do readers keep theirs? | 2 writers, batches of 2, ids 0..2 and their exhaustion, unbounded crashes and writes |
| `StreamsImmediate` [2.35M] | do unfinished streams stay invisible, do pointers resolve (`StreamsInv`, the invariant of the proof)? | 1 key, 1 task, 2 writers |
| `RegistryAlone` | calls one at a time: does a locker read only its own bytes? | 2 names, 2 types, 2 chains, ids 0..2, 2 lockers open at once, unbounded calls, writes, crashes |
| `RegistryRace` | racing opens: one locker per name? | 2 tasks, 1 name, 2 types, 2 chains |
| `RegistrySharedId` | a statement the code does not keep (section 5) | 2 tasks, 2 names |
| `Listing` [870k] | do listings show what the locker held, do the four readers of a list agree, and do the pages of every engine make up the range? | 3 keys, 2 values, pages of one entry, lists of 2, 5 ranges and limits; bytes 0..1, prefixes of 2 and keys of up to 2 bytes, which has every carry, prefix and empty-key case |
| `EagerTabs` [2.42M] | does the resident map stay what is stored, whatever order commits and news come in (with `EagerInv`, the invariant of the proof)? | 2 tabs, 2 tasks in one of them, 1 key, a value a message can carry and one it cannot, immediate and `after = 2`, 3 calls, 1 failure, lost message or ended tab. Keys do not interact except through a clear, which names all of them. |
| `LruTurns` [2.42M] | is every tab's accounting the stored sizes, is the budget held, are ticks fresh? | 2 tabs whose commits do not overlap (`TakeTurns`), 2 keys, sizes 1 and 2 against a budget of 2, ticks to 5, 2 calls, a read and a fault; found empty, without rows, and with a row for one key of two. Two keys are a victim and a survivor. |
| `BankService` [619k] | are durable answers durable, reads current, do calls end? | 1 key, memory, IndexedDB, and redb with `Eventual` commits; 1 caller, whose abandoned job runs beside its next call; 2 calls, 1 staged write, 2 openings, 1 `delete_bank`; a commit refused or damaged. One key: only `delete_locker` touches more, all at once. |
| `Watching` [353k] | is any change lost in silence? | 2 keys, 2 writers, a filtered and an unfiltered subscriber, channels of 1 + 1, 5 changes: enough to fill, lag, read one and fill again |

Symmetry is used only in runs without liveness and over sets the configuration
does not tell apart. Deadlock is checked in the `Ids`, `Registry` and `Listing`
runs, where something can always happen; the others count their calls
(`MaxCalls`, `MaxChanges`, ...) and stop when these are spent, so there it is off.

**Fairness.** `LazyDeferred` runs under `FairSpec`: weak fairness of each
task's `Step` - an executor polls every future that was woken, and the closure
of a `transact` ends. Weak fairness of a task is enough although the lock is
contended, because only finitely many calls are made in the model; nothing is
claimed about starvation under an endless stream of writers, for which
`async_lock`'s fairness would have to be modelled. `Service!Spec` has weak
fairness of `Serve`, `Sweep`, `Own` and `Close`: somebody polls the service, and
a flush or close that has begun goes on. Nothing makes the application call,
stage, drop or crash anything.

**The properties and what they guard against.**

| Properties | Hazard |
|---|---|
| `NoDanglingPointer`, `NoOrphanWhileOpen`, `NoSharedIds`, `Inv` (LazyLocker), `StreamsInv` | a record's chunks deleted, left or shared by a commit built several awaits ago, on an old record, or on the index's word; among writers of streams, too |
| `ImplementsMap`, `OnlyDiscardLoses` | a write lost, applied twice, in part or in the wrong order through drains, merges, restaging, errors and `close`: the refinement of `AtomicMap`, with `content <- View`; the second with `close`'s discard as its one exception |
| `IndexShowsView`, `MapInv` | between a landed commit and the update of the index, and after a failed one |
| `CallsEnd`, `EveryCallEnds` | a lock kept on an error path, a job that is never answered, a close that waits for ever |
| `NamedIntact`, `TakesFresh`, `ReaderSeesOwn` | an id handed out twice: concurrent seeding, a stored counter set back, a crash, the end of the id space |
| `UnfinishedUnseen` | pieces, aborts and drops that touch a value before `finish` |
| `OneLockerPerName`, `HandlesAgree` | two opens that passed the same check |
| `ReadsOwnBytes`, `OpenIsRegistered`, `AloneInv` | opens interrupted between their four commits, deleted and reopened names, cached ids |
| `ViewsAgree`, `AccountingAgrees`, `LandsInOrder` | four readers of one list of puts, deletes and clears, written separately |
| `ListingFaithful` | a listing walked page by page beside staging, flushes and restaging; limits with staged deletes |
| `RangesStayInside`, `WalksAreWhole` | carries at 0xFF, degenerate ranges, a last page that is exactly full, on each engine, both ways |
| `EnvelopeHonest` | bytes opened with another chain than sealed them, or damaged |
| `ResidentIsStored`, `AbsentIsProven`, `EagerInv` | commits that land and are mirrored in different orders; news late, dropped, out of order or not carrying its value; a delete skipped on a wrong "absent" |
| `RowsMatchRecords`, `AccountsMatch`, `BudgetHeld`, `FreshTicks` | totals that drift, rows that outlive their records, an eviction of what is being written, a clock set back by a reopen |
| `DurableAnswers`, `ReadsAreCurrent` | an answer of success for what is neither stored nor will be; a read that misses an answered write |
| `NoSilentGap`, `GapsCounted` | an event lost without notice, or counted twice, when channels are full or dropped |

`PROJECT.json` gives each property a mutant: a plausible slip in a definition
of the model under which TLC finds the property violated.

## 4. What is proved

Proofs hold for every value of the constants under the modules' `ASSUME`s,
which say no more than what kind of thing each constant is. `BackendAssumption`,
`LruAssumption` and `ListingAssumption` also say that there are finitely many keys:
a fault is aimed at an op by counting, a budget is a sum, a page is a sorted set.
`FoundAssumption` says what a store is
that this build's own lockers left: a row describes a record, its tick is below
the stored clock.

**LazyLockerProofs.** `Spec => []Inv`, and from it `TypeCorrect`,
`PointersResolve` (`NoDanglingPointer`), `IdsAreOwnedOnce` (`NoSharedIds`) and
`NoOrphans` (`NoOrphanWhileOpen`). None of the three is inductive. A commit
built several awaits ago deletes and writes chunks by id; that this is right when
it lands needs `PlanMatchesStore` (what was read of the old records still
holds), which rests on `LockHeld` (nobody else commits meanwhile); that new
chunks land on free ids needs `IdsFresh`. An immediate put may skip the read on
the word of the index, so the index has to be right: `IndexCovers`, and
`LandedMatchesStore` for the gap between a commit and its index update. `close`
clears the index without the lock, which is why everything that trusts it is
claimed only while the locker is open. The proof has a step per action and, for
`Build`, `Commit` and `Finish`, lemmas per conjunct.

The same module proves that the locker is one map, whatever interleaves. From
`Spec => []MapInv`: `IndexIsTheView` (`IndexShowsView`); `LockerIsAMap`
(`OnlyDiscardLoses`), that every step of the locker, seen through `View`, is a
step of `AtomicMap`, a stutter, or the discard of `close`; and
`ImmediateLockerIsAMap`, that with immediate commits the refinement
`ImplementsMap` has no such exception. Its hypothesis `~Deferred` is a policy
the code has (`After` 0 or 1), the one `LazyImmediate` runs.

The argument is about what a step does to the view. A write that is staged, or
whose commit lands, puts its effect on it; the discard takes the staged batch off
it; every other step leaves it as it is, because a batch only moves between
buffer, call and store. For that the invariant must know where batches are:
`DrainedUnderLock` (what is drained is in a call that holds the lock, and nothing
is staged over it, so it goes back where it was), `WriteIsDrained` (the call
that fills a batch does not write its own entry a second time over a newer one),
`OneChunkPerId` (a pointer is read in one way) and `CallsInPlace`. The index
follows the view but for the keys of a commit that has landed and whose call has
yet to touch it: `IndexFollows`.

And about `Streams`: `StreamsInvHolds` (`StreamsInv`) and `StreamsUnseen`
(`UnfinishedUnseen`), for any number of `Writer`s beside any number of calls. A
value id is owned: by a `Writer` from its allocation, by a commit while it is
being built, by one key once a record names it. `StreamIds` and
`DeletesReplaced` say that the owners exclude each other, and that who is about
to delete an id deletes what its own commit replaces. `Writer`s take no lock,
so nothing of this may rest on `LockHeld` alone: each proof of a commit has to
show that no `Writer` owns what it deletes, and the other way round. That the
records of `LazyLocker` leave no orphan is not claimed here; with `Writer`s it
is false (section 5, `FinishCollectsOld`).

**ListingProofs.** `ViewsAlwaysAgree` (`ViewsAgree`), `AccountingAlwaysAgrees`
(`AccountingAgrees`), `AlwaysLandsInOrder` (`LandsInOrder`, an action property)
and `ListingsAreFaithful` (`ListingFaithful`), for any finite set of keys, any
lists, page size, ranges and limits.

The first three are about the readers of one list. Each reader and `EffectOf`
are folds or backward scans of their own; the proofs bring them to one form, the
entry that is the last to name the key behind the last clear. `EffectOfList`
does so for the fold, `CommittedIsEffect` for the ops of a commit, `TailSays` for
the scans, `AccountingIsSums` for the accounting. A fold has no induction here
(its theorems take an operator as parameter), so each of these is shown by the
shortest list that would break it.

The last rests on `Spec => []ListInv` (`ListInvHolds`). `ListingFaithful` alone
says nothing until a listing is over; what is true at each page is

* `WalkInv` - what the walk has behind it comes before what is ahead, and what
  was found is from behind, once per key;
* `Remembers` - what the locker holds now is among what it has held;
* `HistoryInv` - where the copy of the staged list speaks of a key, the locker has
  held that since the listing began; where it is silent, it has held what the
  records say now, and what the walk found there; and a key behind the walk that
  was never absent is shown. The second is why a listing may read records that
  a commit has just replaced: a commit moves to the records what the locker
  showed before it (`OneBatch` says where it was);
* `Shown` - "shown" means found, or cut off by the limit with everything found
  before it. Only a listing without a copy may stop at its limit; one with a
  copy keeps all it finds, because the copy may delete some of it (`Cap`).

The end of a listing lays the copy over what was found and cuts at the limit
(`OverlayFact`, `ListedFact`). Pages are sorted sequences; that a finite set of
keys has one is shown by the smallest set that has none.

The module also proves, of any largest byte, length of locker ids and length of
keys, `RangesAlwaysInside` (`RangesStayInside`). `EncodedOrder` is its core: two
encoded keys compare as their lockers and then as their keys do, because numbers
of equally many bytes compare as their bytes (`IdOrder`, by the first byte that
differs). `SuccessorFact` says what the carry in `KeyRange::prefix` amounts to:
what is below the successor of a prefix is below the prefix or begins with it.
`WalksAlwaysWhole` (`WalksAreWhole`) is about the pages: for any content, range,
size of a page and direction, and on each engine. `OrderedFact` says that there
is one list of a set of keys in order; the loop is then shown to have a closed
form, `RequestAt`: the k-th request reaches what comes after the first k pages
of that list (`RequestReaches`), or is not made because nothing does
(`FinishedAt`). `NextIs` is one turn of the loop, `FlattenParts` puts the pages
together, and `FirstRefused` shows that no request after the first is refused -
by IndexedDB because it looks at the key beyond before it says where to resume.
`EnvelopesAlwaysHonest` (`EnvelopeHonest`) follows a value through the filters
of a chain, on the way in and back out: `OpensWhatItSealed` and `DamageShows`
hold for chains of any length, of which the shipped ones are three. That a
checksum misses no damage is an assumption of the model, not a result.

**EagerProofs.** `GetsAreStored` (`ResidentIsStored`) and
`SkippedDeletesAreEmpty` (`AbsentIsProven`), for any tabs, tasks, keys, values
and batch sizes, from `Spec => []EagerInv`. The argument follows a key from commit to
mirror. When a commit lands on it, all that is under way about the key becomes
`late`, and one thing is not: the call that has landed, and after it the news of
it. `NewsTold` and `LandedTold` say that what is not late tells the truth about the
store; `Awaited`, that a tab still has such a thing to come; `ResidentRight`,
that a tab which awaits nothing about a key agrees with the store under its own
batch, unless the key is excused - and that it does in any case on a key its own
batch writes, which no commit of others can make stale. Neither property is
inductive without `Awaited`: they speak of tabs about which nothing is under way,
and the step that makes the last message heard needs to know what that message
says. `LockHeld`, `StagesWhenDeferred` and `LoadsAlone` place the batches, as in
`LazyLockerProofs`. What enters `excuse` is part of the model, so the theorems say
as much as the list in section 5 is short; the run and the proofs share it.

**ValueIdsProofs.** Under `OneBank` (one process or tab has the store open, the
case the code claims): `Spec => []Inv`, hence `NamesStayIntact`
(`NamedIntact`), `IdsAreFresh` (`TakesFresh`, an action property) and
`ReadersSeeTheirOwn` (`ReaderSeesOwn`). The argument: the cursor, once seeded,
is past every stored and every held id (`CursorPastAll`); before it is seeded
nobody holds an id, so nothing new is stored and a floor already read stays
past everything stored; a later seeding takes the larger of cursor and floor.
The stored counter, which goes back and forth, is never needed. `TypeCorrect`
needs no such assumption and holds for any number of banks.

**RegistryProofs.** Two invariants. `ClaimInv`, for any number of racing opens
while nothing is deleted (`MayDelete = FALSE`): every live locker holds its name
and every handle is a view of the holder; `OneNameOneLocker`,
`HandlesAreViews`. `AloneInv`, for any sequence of opens, deletes, writes,
closes and crashes, one call at a time (`Tasks` a singleton): `RowsDescribe`
(what lies under an id was sealed as its rows say), `IdsInOrder` (ids below the
counter, one name each) and `FindingsHold` (what a call has found so far is
still so); `LockersReadTheirOwn`, `LockersAreRegistered`. Section 5 shows that
neither restriction can be dropped.

**WatchProofs.** `GapsAreTold` (`NoSilentGap`) and `EveryEventCounts`
(`GapsCounted`), for any capacity, filters and
numbers of writers and subscribers. It becomes inductive with two facts: every
live stream is listed, or a broadcast would pass it by; and a subscriber is
behind only on keys it watches, or the filter would keep the event from it.
The channel operators have lemmas of their own (what `try_send` keeps, that a
skipped event is counted). The second is an equation, `AddsUp`: what was meant for
a live stream is what it was told, what lies in its channel and what it has been
made to skip. The content of a channel is a fold over it, in which a notice
weighs as much as it reports; the proof counts it as the size of a set with one
element for each event (`Units`), which an append extends and a receive
shortens. `FromChanges` bounds the sum by the changes made less those whose
announcement is still owed, so that nothing is counted twice.

**ServiceProofs.** `AnswersAreDurable` (`DurableAnswers`) and
`ReadsSeeTheStore` (`ReadsAreCurrent`), for any keys, values and callers, any
backends, faults and bounds. The invariant `IInv` adds to the types (`Shape`):

* `Control` - who is at work: the lock and the flush that holds it agree, a
  `flush_all` runs for the job being served or for the close in progress, jobs
  exist only while there is a service, and the store a live bank holds is the
  one its name leads to, because `delete_bank` refuses a tracked bank;
* `Promises` - for every backend that keeps anything: `Owed`, what has been
  promised is both live and safe; `Sweeping`, what a `flush_all` without an
  error will promise is staged, drained or stored, as its stage demands, and
  stored safely once it is done; `Replying`, what the answer of a write will
  promise is stored already. Without the last two an answer would promise
  something the invariant knows nothing of;
* `Witnesses` - every read still to be served counts the present contents among
  what it may answer.

`Owed` speaks of the live contents as well, because the safe ones may be
replaced by them at any flush or close. Each action has a lemma with a step for
each conjunct; commits, damaged and refused ones included, go through
`CommitDoes`.

**LruProofs.** `TypeCorrect`, `RowsMatch` (`RowsMatchRecords`), `AccountsHold`
(`AccountsMatch`), and the action properties `BudgetKept` (`BudgetHeld`) and
`TicksAreFresh` (`FreshTicks`), for any finite set of keys, any tabs, sizes,
batches, budgets and stores found. They assume `Callers`: tabs take turns, and no
batch names a key twice among its deletes. Both are needed (section 5): without
the first two tabs undo each other's accounting, without the second bytes are
subtracted twice. Everything else interleaves: reads and their ticks, faults,
lost messages, tabs that open, close and end at any moment, a tab that hears
late, evictions, reloads.

`Spec => []Invariant` (`InvariantHolds`) has, beside `Types`, `TotalIsSum` and
`RowsMatchRecords` themselves:

* `Turns` - one tab at a time has a commit or news under way;
* `Plans` - what a plan is until it is applied: its total is the bytes the tab
  will have left plus those it puts (`Planned`), its victims are none of the keys
  it writes, the rows it carries for pending reads are of records that exist and
  that it does not put; and once it has landed, the store shows what it did.
  A plan is made several awaits before it lands and applied one after;
* `Told` - the last news of a key on its way to a tab says what is stored under
  it, but for the keys of a commit that has landed and is still to be announced
  (`LandedOn`);
* `Right` - a tab accounts rightly for every key about which no news is to come;
* `Clock` - the cursor of a tab that has had the store to itself is past every
  tick in its rows, entries, pending reads and plan (`Ahead`).

None of the four properties is inductive. `AccountsMatch` speaks of tabs that
have heard everything, and what the last message does to them only `Told` knows;
`BudgetHeld` compares the rows that land with a total that was planned before;
a row matches its record after a commit because the plan spoke of the entries
the tab had, and these were right. That totals are sums is an argument of its
own: `SizeOf` is a fold over a set in an order nobody knows, and the lemmas at
the head of the module show that a recursion over the subsets of a finite set
has a solution, that the fold is one, and that it may take the elements in any
order.

The proofs cover all of each module's next-state relation, faults, closes and
ends of tabs included; none is under a bound (`MaxCalls`, `MaxFaults` and the like
are constants of any value, in the guards of the steps they count).

**Model-checked only.**

* Liveness (`CallsEnd`, `EveryCallEnds`): the prover has no rule for fairness here.

## 5. Where the code and its comments disagree

The run `RegistrySharedId` shows that two first opens of different names may
register one id, while `bank.rs:12` says that "two lockers sharing a prefix
would interleave their keys"; `PROJECT.json` ("findings") quotes it.

Further statements are written as properties in the modules but belong to no
run. Each is refuted by TLC when it takes the place of the properties of the
cfg named here, without its `SYMMETRY` and with the change given (action
properties go under `PROPERTY`):

| Property (module) | Statement | cfg, change |
|---|---|---|
| `StagedWriteVisible` (LazyLocker) | `lazy.rs:174` "visible to it immediately, flushed or not" - a drained, not yet stored batch is in neither place a `get` looks | `LazyDeferred`, `"get"` added to `Offered` |
| `FlushStoresAll` (LazyLocker) | `lazy.rs:303` "Commit everything this locker has staged" - a flush that finds the buffer empty does not wait for the commit that emptied it | `LazyDeferred` |
| `DiscardOnlyStored` (LazyLocker) | `lazy.rs:921` "Only discard once the batch is actually stored." - `close` empties the buffer without the lock; a write staged since its flush is lost although its `put` returned `Ok` | `LazyDeferred` |
| `NotedKeysUnreadable` (LazyLocker) | `lazy.rs:944` "known to hold unreadable bytes" - a `get` overtaken between record and chunks notes a healthy key | `LazyImmediate` |
| `ClosedReadsEmpty` (LazyLocker) | `lazy.rs:908` "reads as empty" - a write under way puts its key back into the index | `LazyImmediate`, as `INVARIANT` |
| `PriorNeverWrong` (LazyLocker) | `inner.rs:64` "a wrong `Absent` or `Inline` orphans chunks forever" - a `put` that waits while `close` clears the index takes a chunked record for absent | `LazyImmediate`, as `INVARIANT` |
| `NamedIntact` (ValueIds) | `bank.rs:233` "Storage itself is always consistent" - two tabs with a cursor each hand out one id | `IdsOneBank`, `Banks <- TwoTabs`, `BankOf <- OneEach` |
| `ReaderSeesOwn` without its conjunct `reader.seeded` (ValueIds) | `chunk.rs:241` "never hands out an id that something still points at" - before the bank's first allocation, deleting the value under a reader lets the highest stored id go down below a stale counter | `IdsOneBank` |
| `DroppedReclaimed` (Streams) | `io.rs:9` "Drop without abort leaks those orphans until a later overwrite." - no overwrite finds them | `StreamsImmediate` |
| `FinishCollectsOld` (Streams) | `io.rs:113` the pointer swaps "together with ... GC of the old pointer" - `finish` reads the old record before its commit; chunks of what replaced it meanwhile stay for ever | `StreamsImmediate` |
| `FinishPublishes` (Streams) | `io.rs:113` "Publish the value" - under a deferred batch the key still shows the staged value | `StreamsImmediate`, `After = 2` |
| `FirstWriteWins` (Registry) | `bank.rs:1020` "first-write-wins" - two first opens with different chains | `RegistryRace` |
| `RefusesOnlyOldData` (Registry) | `bank.rs:1036` "Only a genuinely fresh name adopts the chain" - an interrupted open leaves a name without a chain row, refused although it never held data | `RegistryRace`, `Types <- OneType` |
| `DeleteRefusesOpen` (Registry) | `bank.rs:1691` "Refuses ... while a handle to the locker is open." - a locker opened during `delete_locker`'s awaits is erased under its handle | `RegistryRace`, `MayDelete = TRUE` |
| `OneLockerPerName` (Registry) | `bank.rs:819` "one name one locker even then" - the end of `delete_locker` forgets the claim of a locker opened meanwhile | `RegistryRace`, `MayDelete = TRUE`, as `INVARIANT` |
| `TxSeesStaged` (Listing) | `policy.rs:155` "a lazy locker sees staged writes through `get`" - `Transaction::get` reads past the locker's staged batch | `Listing`, as `INVARIANT` |
| `RangesAccepted` (Encoding) | `key.rs:138` "Every range entry point checks this first and answers with nothing" - a range that ends before the empty key is not degenerate by that check, but encoded both its ends are the locker's first key: memory and redb answer with nothing, `IDBKeyRange.bound` throws | `Listing`, as `INVARIANT` (it is false before any step) |

What the remaining models show, or leave out because the code does not promise it:

* **Out of date comments.** `policy.rs:131` says a second open of a deferred
  locker is refused; `locker_with` shares it. `handle.rs:432`, that the service
  completes when every handle has been dropped: `into_service` keeps the `Bank`,
  whose own `job_sender` keeps the channel open. `handle.rs:408`, that a call
  without a service returns `Closed`: one made before `into_service` waits.
  `handle.rs:47`, back-pressure: every dispatch clones a sender, and each clone
  has a slot of its own, so the queue is never full. `bank.rs:1752`, that the
  writes of lockers fail once the bank is closed: a deferred `put` still answers
  `Ok` until its batch is committed. `inner.rs:568`, announcing only after a commit
  lands: a deferred put is announced to local watchers when it is staged.
  `watch.rs:83`, "always learns about a gap": only if a later event comes
  (`NoSilentGap` says what does hold).
* **Tabs of an eager locker** (the keys `excuse` gives up on in `EagerLocker`).
  `bank.rs:226` says that a tab never has its own committed write undone by a
  message that was already in flight; but epochs are counted by each tab for
  itself. (That concurrent writes of two tabs are not ordered the comment says;
  what follows also happens to writes that do not overlap.) News is dropped
  although it is the newest when its sender counts lower - because it restarted (its epoch begins at 0 again), wrote less often,
  or posted two overlapping commits in the other order - and is applied although
  it is older than this tab's own write, when the sender counts higher. News
  posted between the walk and the registration of the sink is missed. News may
  land in the map over a write that is staged, or over one whose commit is under
  way, and a transaction's commit is mirrored over a newer staged put. A commit
  that ends after `close` puts its value into the closed map. Two overlapping
  immediate puts of one key may leave RAM with the one and the store with the
  other (`eager.rs:256`).
* **Byte budget.** A batch that names a key twice among its deletes has its
  bytes subtracted twice (`lru.rs:439`; `again` in the model, empty in the run
  and under `Callers` in the proofs).
  A reload forgets the keys adopted from a `Precious` locker, which have no rows,
  and until then they count as nothing. With `TakeTurns = FALSE`, two tabs whose
  commits overlap undo each other's accounting: the planned total overwrites one
  that news has changed meanwhile, a row still pending revives a deleted key's
  row, and ticks may repeat. With three tabs, news of two that committed one after
  the other may reach the third in the other order, which is why a turn begins
  only when all news is heard. A read during the commit of a put of its key leaves
  the older tick. An adopted key has tick 0, which is also the first tick a new
  store issues: the two tie, and it is not always the adopted one that goes first.
* **Bank and handle.** A raw put through the handle that was answered `Ok` is
  overwritten by an older batch the typed locker had staged, and its calls go
  past the index, the chunk collection, the LRU rows and the news. A bank
  dropped while a locker lives gives up its path, so `delete_bank` may unlink a
  file that is still being written. A second `close()` may return while the first is
  still releasing the backend. `flush_all` does not wait for a batch another
  task has drained. An `Eventual` commit that nobody flushed may be lost when the
  process dies (`redb.rs:254`), though `api.rs:204` says that a process that dies
  still sees the write; the models follow the former.
* **Envelope.** The chain byte of the header is not under the checksum: a value
  whose chain byte is damaged is refused by the chain that sealed it, which is
  what `Honest` says, but may be opened by the other.

## 6. What is not modelled

* `OnCorrupt::Fail`; the corrupt values of `Skip` are in `LazyLocker` (`corrupt`)
  and `EagerLocker` (`Junk`).
* A future dropped in the middle of a locker's call. `Registry` (`GiveUp`) and
  `Service` (`GiveUp`, `DropService`) have dropped futures of opens, jobs and
  callers.
* `verify`, `quarantine`, `locker_bytes`, the format version row, `persist` and
  `usage`: reads, or single commits that no other call relates to.
* The insides of redb and of IndexedDB. Their commits are taken to be atomic,
  their errors are one error. `Fault`'s hold is any interleaving.
* A chunked value under an eager name, reads of a value in several pieces, the
  size limits, the transform of records between chains.
* The crash-test child, the conformance suite, benches, examples and CI are
  drivers of the library.
* Two overlapping openings or closings of banks in one process, beyond what
  section 5 says of them.

What would come next, in order: the maintenance calls beside a typed locker;
cancellation inside the calls of `LazyLocker`.

## 7. Running

```
tlc -config LazyImmediate.cfg MCLazyLocker      # likewise the other runs
tlapm LazyLockerProofs.tla                      # likewise the other ...Proofs
```

The module of each run is in `PROJECT.json`. `EagerTabs`, `StreamsImmediate`,
`LazyDeferred`, `LazyImmediate`, `Listing`, `LruTurns` and `BankService` take up
to a few minutes each, the others seconds.

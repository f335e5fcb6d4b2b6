------------------------------- MODULE Service -------------------------------
(***************************************************************************)
(* A bank, from opening to the death of its process                        *)
(* (src/src/bank.rs, src/src/handle.rs), over a Backend.                   *)
(*                                                                         *)
(* The application opens the bank, may open a typed locker with deferred   *)
(* commits, and then either keeps the bank and closes it, or gives it to   *)
(* into_service.  Callers elsewhere hold a BankHandle: each call is a job  *)
(* in the queue, served in order, one at a time, and answered through a    *)
(* channel of its own.  The handle's calls go straight to the backend,     *)
(* past the typed locker.  The process may die, the service future may be  *)
(* dropped, a caller may drop its call, and one commit may be refused or   *)
(* damaged.                                                                *)
(*                                                                         *)
(* The locker's own calls are module LazyLocker's subject; here it stages  *)
(* writes and flushes them, because flush_all and close reach into it.     *)
(***************************************************************************)
EXTENDS Backend, Sequences

CONSTANTS Callers,    \* who calls through a handle, one call at a time
          RawVals,    \* what they put
          OwnVals,    \* what the typed locker stages
          Setups,     \* backend kinds, and how durable the locker asks its commits to be
          Faults,     \* the plans a Fault around the backend may be armed with
          Nobody,     \* of a job whose caller has dropped its call
          MaxCalls, MaxStages, MaxOpens, MaxDeletes  \* bounds

ASSUME ServiceAssumption == /\ RawVals \cup OwnVals \subseteq Vals
                            /\ Setups \subseteq Kinds \X BOOLEAN
                            /\ Faults \subseteq Plans
                            /\ Nobody \notin Callers
                            /\ {MaxCalls, MaxStages, MaxOpens, MaxDeletes} \subseteq Nat

VARIABLES
  kind,     \* the backend's kind
  eventual, \* whether the typed locker commits with Durability::Eventual
  store,    \* the backend
  plan,     \* the fault in waiting
  bank,     \* the Bank: none, opening, held by the application, served, gone
  tracked,  \* its entry in OPEN_BANKS
  closed,   \* Bank::closed
  closer,   \* where close() is
  locker,   \* whether a handle of the typed locker is alive
  staged,   \* its deferred batch
  lock,     \* who holds its write lock
  flight,   \* the batch that holder has drained and is committing
  own,      \* where the locker's own flush is
  sweep,    \* the flush_all in progress: where it is, its error, and
            \* (ghost) what it will have made durable
  calling,  \* the callers whose call has not ended
  jobs,     \* the queue
  job,      \* the job being served
  owed,     \* ghost: what somebody was told is durable, until overwritten
  used      \* bounds

vars == <<kind, eventual, store, plan, bank, tracked, closed, closer, locker, staged, lock,
          flight, own, sweep, calling, jobs, job, owed, used>>
host  == <<kind, eventual, bank, tracked, closed, closer>>
typed == <<locker, staged, lock, flight, own>>
queue == <<calling, jobs, job>>

Unsaid == "unsaid"
Promised == [Keys -> Vals \cup {Gone, Damaged, Unsaid}]
NoPromise == [k \in Keys |-> Unsaid]

(* The jobs that differ in what they do to the bank: a read, a write (put, *)
(* delete, clear and the bulk forms; an empty bulk never reaches the       *)
(* backend), flush_all and delete_locker.                                  *)
RawWrites == {PutOf(k, v) : k \in Keys, v \in RawVals} \cup {DeleteOf(k) : k \in Keys}
             \cup {ClearAll} \cup [Keys -> RawVals]
Asked == [do : {"get"}, key : Keys, b : {NoEffect}]
         \cup [do : {"write"}, key : {CHOOSE k \in Keys : TRUE}, b : RawWrites]
         \cup [do : {"flush_all", "delete_locker"},
               key : {CHOOSE k \in Keys : TRUE}, b : {NoEffect}]

Answers == {"none", "ok", "failed", "closed"} \cup Vals \cup {Gone}
NoJob == [who |-> Nobody, do |-> "none", key |-> CHOOSE k \in Keys : TRUE, b |-> NoEffect,
          at |-> "none", says |-> "none", seen |-> {}]
JobOf(c, a) == [NoJob EXCEPT !.who = c, !.do = a.do, !.key = a.key, !.b = a.b, !.at = "queued",
                             !.seen = IF a.do = "get" /\ store.held THEN {store.live[a.key]}
                                      ELSE {}]
NoSweep == [at |-> "off", err |-> FALSE, owes |-> NoPromise]

Bounds == [calls |-> MaxCalls, stages |-> MaxStages, opens |-> MaxOpens,
           deletes |-> MaxDeletes]
Spend(what) == used[what] < Bounds[what] /\ used' = [used EXCEPT ![what] = @ + 1]

TypeOK ==
  /\ kind \in Kinds /\ eventual \in BOOLEAN
  /\ store \in Stores /\ plan \in Plans
  /\ bank \in {"none", "opening", "held", "served", "gone"}
  /\ tracked \in BOOLEAN /\ closed \in BOOLEAN
  /\ closer \in {"no", "flush", "swap", "backend", "release"}
  /\ locker \in BOOLEAN /\ staged \in Effects
  /\ lock \in {"free", "sweep", "own"} /\ flight \in Effects
  /\ own \in {"no", "wait", "commit", "sync"}
  /\ sweep.at \in {"off", "start", "wait", "commit", "sync", "done"}
  /\ sweep.err \in BOOLEAN /\ sweep.owes \in Promised
  /\ calling \subseteq Callers
  /\ \A i \in DOMAIN jobs : jobs[i].at = "queued" /\ jobs[i].who \in Callers \cup {Nobody}
  /\ job.at \in {"none", "work", "sweep", "erase", "reply"}
  /\ job.says \in Answers
  /\ owed \in Promised
  /\ \A what \in DOMAIN Bounds : used[what] \in 0 .. Bounds[what]

Init ==
  /\ \E s \in Setups : kind = s[1] /\ eventual = s[2]
  /\ store = [live |-> Nothing, safe |-> Nothing, held |-> FALSE, named |-> FALSE]
  /\ plan \in Faults
  /\ bank = "none" /\ tracked = FALSE /\ closed = FALSE /\ closer = "no"
  /\ locker = FALSE /\ staged = NoEffect /\ lock = "free" /\ flight = NoEffect /\ own = "no"
  /\ sweep = NoSweep
  /\ calling = {} /\ jobs = <<>> /\ job = NoJob
  /\ owed = NoPromise
  /\ used = [what \in DOMAIN Bounds |-> 0]

-----------------------------------------------------------------------------
(* Ghosts.  What is overwritten is no longer owed; what a key comes to     *)
(* hold has been seen by the reads that are under way.                     *)
Unsay(promise, b) == [k \in Keys |-> IF b[k] # Kept THEN Unsaid ELSE promise[k]]
Say(promise, b) == [k \in Keys |-> IF b[k] \notin {Kept, Unsaid} THEN b[k] ELSE promise[k]]
Sees(j, contents) == [j EXCEPT !.seen = IF j.do = "get" THEN @ \cup {contents[j.key]} ELSE @]
Overtaken(j, b) == IF j.at = "reply" THEN [j EXCEPT !.b = [k \in Keys |-> IF b[k] # Kept THEN Kept
                                                                         ELSE @[k]]]
                   ELSE j

(* A commit reaches the backend: through becomes whether it landed, lands  *)
(* what of it did.                                                         *)
Commit(b, relaxed, through, lands) ==
  IF ~store.held
  THEN ~through /\ lands = NoEffect /\ UNCHANGED <<store, plan, owed>>
  ELSE /\ \E i \in Intercept(plan, b) :
            plan' = i.plan /\ through = i.through /\ lands = i.lands
       /\ store' = IF through THEN Committed(store, kind, lands, relaxed) ELSE store
       /\ owed' = Unsay(owed, lands)

Landings(b) == [through : BOOLEAN,
                lands : {b, NoEffect} \cup {[b EXCEPT ![k] = Damaged] : k \in Touched(b)}]

Witnessed == [i \in DOMAIN jobs |-> Sees(jobs[i], store'.live)]

-----------------------------------------------------------------------------
(* Bank::open: the backend first, then, on native, the entry in OPEN_BANKS.*)
(* redb's file lock refuses a second backend; none is modelled beside one  *)
(* whose file has been unlinked, or beside a locker of an earlier bank.    *)
OpenBackend ==
  /\ bank \in {"none", "gone"} /\ ~store.held /\ ~locker /\ Spend("opens")
  /\ bank' = "opening" /\ closed' = FALSE
  /\ store' = Opened(store.safe)
  /\ UNCHANGED <<kind, eventual, tracked, closer, plan, typed, sweep, queue, owed>>

Register ==
  /\ bank = "opening"
  /\ bank' = "held" /\ tracked' = (kind = "redb")
  /\ UNCHANGED <<kind, eventual, closed, closer, store, plan, typed, sweep, queue, owed, used>>

OpenLocker ==
  /\ bank = "held" /\ ~locker /\ ~closed
  /\ locker' = TRUE
  /\ UNCHANGED <<host, store, plan, staged, lock, flight, own, sweep, queue, owed, used>>

(* LazyLocker::put on a deferred locker; it asks whether the locker is     *)
(* closed, never whether the bank is.                                      *)
Stage ==
  /\ locker /\ lock = "free" /\ Spend("stages")
  /\ \E k \in Keys, v \in OwnVals :
       /\ staged' = Then(staged, PutOf(k, v))
       /\ sweep' = [sweep EXCEPT !.owes = Unsay(@, PutOf(k, v))]
  /\ UNCHANGED <<host, store, plan, locker, lock, flight, own, queue, owed>>

(* LazyLocker::flush: Resident::flush, then flush_backend.                 *)
OwnFlush ==
  /\ locker /\ own = "no" /\ staged # NoEffect
  /\ own' = "wait"
  /\ UNCHANGED <<host, store, plan, locker, staged, lock, flight, sweep, queue, owed, used>>

Drain(who) == /\ lock = "free" /\ lock' = who
              /\ flight' = staged /\ staged' = NoEffect

OwnDrain ==
  /\ own = "wait" /\ Drain("own") /\ own' = "commit"
  /\ UNCHANGED <<host, store, plan, locker, sweep, queue, owed, used>>

(* The guard goes when the call ends.  Slip: on an early return it does    *)
(* not.                                                                    *)
LeakedOnError(through) == IF through THEN "free" ELSE lock
Unlocked(through) == "free"

(* flush_locked's commit; a batch that did not land goes back, under what  *)
(* was staged meanwhile.                                                   *)
CommitFlight(at, err) ==
  \E x \in Landings(flight) :
    /\ Commit(flight, eventual, x.through, x.lands)
    /\ staged' = IF x.through THEN staged ELSE Then(flight, staged)
    /\ flight' = NoEffect /\ lock' = Unlocked(x.through)
    /\ jobs' = Witnessed /\ job' = Overtaken(Sees(job, store'.live), x.lands)
    /\ sweep' = [at |-> at, err |-> err \/ (at # sweep.at /\ ~x.through),
                 owes |-> [k \in Keys |-> IF x.lands[k] = Damaged THEN Unsaid
                                          ELSE sweep.owes[k]]]

OwnCommit ==
  /\ own = "commit"
  /\ CommitFlight(sweep.at, sweep.err)
  /\ own' = IF eventual THEN "sync" ELSE "no"
  /\ UNCHANGED <<host, locker, calling, used>>

OwnSync ==
  /\ own = "sync" /\ own' = "no"
  /\ store' = IF store.held THEN Flushed(store) ELSE store
  /\ UNCHANGED <<host, plan, locker, staged, lock, flight, sweep, queue, owed, used>>

(* The last handle of the locker is dropped, and with it what is staged.   *)
(* A handle is not dropped in the middle of a flush.                       *)
DropLocker ==
  /\ locker /\ own = "no" /\ sweep.at = "off"
  /\ locker' = FALSE /\ staged' = NoEffect
  /\ store' \in IF bank \in {"none", "gone"} /\ store.held THEN Released(store, kind) ELSE {store}
  /\ UNCHANGED <<host, plan, lock, flight, own, sweep, queue, owed, used>>

-----------------------------------------------------------------------------
(* Bank::flush_all.  It promises what the locker shows when it is called,  *)
(* except a batch another task has drained already: Resident::flush finds  *)
(* nothing staged and does not wait for it.                                *)
SweepStart ==
  /\ sweep.at = "start"
  /\ sweep' = IF closed THEN [sweep EXCEPT !.at = "done", !.err = TRUE]
              ELSE [sweep EXCEPT !.at = IF staged = NoEffect THEN "sync" ELSE "wait",
                                 !.owes = Unsay(Then(store.live, staged), flight)]
  /\ UNCHANGED <<host, store, plan, typed, queue, owed, used>>

SweepDrain ==
  /\ sweep.at = "wait" /\ Drain("sweep")
  /\ sweep' = [sweep EXCEPT !.at = "commit"]
  /\ UNCHANGED <<host, store, plan, locker, own, queue, owed, used>>

SweepCommit ==
  /\ sweep.at = "commit"
  /\ CommitFlight("sync", sweep.err)
  /\ UNCHANGED <<host, locker, own, calling, used>>

SweepSync ==
  /\ sweep.at = "sync"
  /\ store' = IF store.held THEN Flushed(store) ELSE store
  /\ sweep' = [sweep EXCEPT !.at = "done", !.err = @ \/ ~store.held]
  /\ UNCHANGED <<host, plan, typed, queue, owed, used>>

(* A flush_all that succeeded has been heard of. *)
Heard == owed' = IF sweep.err THEN owed ELSE Say(owed, sweep.owes)

-----------------------------------------------------------------------------
(* Bank::close: flush_all, the flag, the backend, the entry.  Its answer   *)
(* is flush_all's; close of the modelled backends does not fail.           *)
CloseBegin ==
  /\ bank = "held" /\ closer = "no" /\ ~closed
  /\ closer' = "flush" /\ sweep' = [NoSweep EXCEPT !.at = "start"]
  /\ UNCHANGED <<kind, eventual, bank, tracked, closed, store, plan, typed, queue, owed, used>>

CloseSwap ==
  /\ closer = "flush" /\ sweep.at = "done"
  /\ closed' = TRUE /\ closer' = "backend"
  /\ UNCHANGED <<kind, eventual, bank, tracked, store, plan, typed, sweep, queue, owed, used>>

CloseBackend ==
  /\ closer = "backend" /\ closer' = "release"
  /\ store' \in Released(store, kind)
  /\ UNCHANGED <<kind, eventual, bank, tracked, closed, plan, typed, sweep, queue, owed, used>>

CloseRelease ==
  /\ closer = "release" /\ closer' = "no"
  /\ tracked' = FALSE /\ sweep' = NoSweep /\ Heard
  /\ UNCHANGED <<kind, eventual, bank, closed, store, plan, typed, queue, used>>

(* The Bank is dropped, by the application or with the service future: the *)
(* queue goes with it, every call that waits ends with Error::Closed, the  *)
(* path is released, and so is the backend unless a locker still holds it. *)
BankEnds ==
  /\ bank' = "gone" /\ tracked' = FALSE
  /\ store' \in IF locker \/ ~store.held THEN {store} ELSE Released(store, kind)
  /\ calling' = {} /\ jobs' = <<>> /\ job' = NoJob

DropBank ==
  /\ bank = "held" /\ closer = "no" /\ BankEnds
  /\ UNCHANGED <<kind, eventual, closed, closer, plan, typed, sweep, owed, used>>

(* A batch the service had drained is lost with its future. *)
DropService ==
  /\ bank = "served" /\ BankEnds
  /\ sweep' = NoSweep
  /\ IF lock = "sweep" THEN lock' = "free" /\ flight' = NoEffect ELSE UNCHANGED <<lock, flight>>
  /\ UNCHANGED <<kind, eventual, closed, closer, plan, locker, staged, own, owed, used>>

(* delete_bank, refused while the path is tracked.  The look and the       *)
(* removal are one step, and no open is under way.                         *)
DeleteRefused == kind = "redb" /\ tracked
DeleteBank ==
  /\ kind # "memory" /\ store.named /\ bank # "opening" /\ ~DeleteRefused
  /\ kind = "indexeddb" => ~store.held
  /\ Spend("deletes")
  /\ store' = Unlinked(store)
  /\ owed' = NoPromise /\ sweep' = [sweep EXCEPT !.owes = NoPromise]
  /\ UNCHANGED <<host, plan, typed, queue>>

(* The process dies; the next one may open the bank again. *)
Crash ==
  /\ bank # "none"
  /\ bank' = "none" /\ tracked' = FALSE /\ closed' = FALSE /\ closer' = "no"
  /\ store' = Survived(store, kind)
  /\ locker' = FALSE /\ staged' = NoEffect /\ lock' = "free" /\ flight' = NoEffect /\ own' = "no"
  /\ sweep' = NoSweep /\ calling' = {} /\ jobs' = <<>> /\ job' = NoJob
  /\ owed' = IF kind = "memory" THEN NoPromise ELSE owed
  /\ UNCHANGED <<kind, eventual, plan, used>>

-----------------------------------------------------------------------------
(* BankHandle::dispatch.  The queue is bounded by JOB_QUEUE and one slot   *)
(* for every sender; each call clones a sender, so it never finds it full. *)
(* Without a Bank the call ends at once with Error::Closed.                *)
Dispatch(c) ==
  /\ c \notin calling /\ bank \in {"held", "served"} /\ Spend("calls")
  /\ \E a \in Asked : jobs' = Append(jobs, JobOf(c, a))
  /\ calling' = calling \cup {c}
  /\ UNCHANGED <<host, store, plan, typed, sweep, job, owed>>

(* The caller drops its future; the job stays.                             *)
Abandon(j, c) == IF j.who = c THEN [j EXCEPT !.who = Nobody] ELSE j
GiveUp(c) ==
  /\ c \in calling /\ calling' = calling \ {c}
  /\ jobs' = [i \in DOMAIN jobs |-> Abandon(jobs[i], c)]
  /\ job' = Abandon(job, c)
  /\ UNCHANGED <<host, store, plan, typed, sweep, owed, used>>

(* into_service takes the Bank, so no call of the application's is open.   *)
IntoService ==
  /\ bank = "held" /\ closer = "no" /\ bank' = "served"
  /\ UNCHANGED <<kind, eventual, tracked, closed, closer, store, plan, typed, sweep, queue, owed,
                 used>>

TakeJob ==
  /\ bank = "served" /\ job = NoJob /\ jobs # <<>>
  /\ job' = [Head(jobs) EXCEPT !.at = "work"] /\ jobs' = Tail(jobs)
  /\ UNCHANGED <<host, store, plan, typed, sweep, calling, owed, used>>

Answered(says) == job' = [job EXCEPT !.at = "reply", !.says = says]

(* raw_get and the other reads: what the store holds, opened.  Slip: only  *)
(* what is durable.                                                        *)
ReadDurable(v) == IF ~store.held THEN "closed" ELSE IF v = Damaged THEN "failed"
                  ELSE store.safe[job.key]
ReadAnswer(v) == IF ~store.held THEN "closed" ELSE IF v = Damaged THEN "failed" ELSE v
ServeRead ==
  /\ job.at = "work" /\ job.do = "get"
  /\ Answered(ReadAnswer(store.live[job.key]))
  /\ UNCHANGED <<host, store, plan, typed, sweep, calling, jobs, owed, used>>

(* raw_put, raw_delete, raw_clear and the bulk forms: one commit, always   *)
(* Immediate.                                                              *)
RawRelaxed == FALSE
Written(b) ==
  \E x \in Landings(b) :
    /\ Commit(b, RawRelaxed, x.through, x.lands)
    /\ job' = [job EXCEPT !.at = "reply", !.b = x.lands,
                          !.says = IF x.through THEN "ok"
                                   ELSE IF store.held THEN "failed" ELSE "closed"]
    /\ jobs' = Witnessed

ServeWrite ==
  /\ job.at = "work" /\ job.do = "write" /\ Written(job.b)
  /\ UNCHANGED <<host, typed, sweep, calling, used>>

ServeFlushAll ==
  /\ job.at = "work" /\ job.do = "flush_all"
  /\ job' = [job EXCEPT !.at = "sweep"] /\ sweep' = [NoSweep EXCEPT !.at = "start"]
  /\ UNCHANGED <<host, store, plan, typed, calling, jobs, owed, used>>

EndFlushAll ==
  /\ job.at = "sweep" /\ sweep.at = "done"
  /\ Answered(IF sweep.err THEN "failed" ELSE "ok")
  /\ UNCHANGED <<host, store, plan, typed, sweep, calling, jobs, owed, used>>

(* delete_locker: refused while a handle is alive, which it asks before it *)
(* awaits; then everything of the locker in one commit.                    *)
ServeDeleteLocker ==
  /\ job.at = "work" /\ job.do = "delete_locker"
  /\ IF locker THEN Answered("failed") ELSE job' = [job EXCEPT !.at = "erase"]
  /\ UNCHANGED <<host, store, plan, typed, sweep, calling, jobs, owed, used>>

EraseLocker ==
  /\ job.at = "erase" /\ Written(ClearAll)
  /\ UNCHANGED <<host, typed, sweep, calling, used>>

(* reply.send: what the caller has been told stands until overwritten.     *)
(* A promise about a key that was committed to since is not made.          *)
Reply ==
  /\ job.at = "reply"
  /\ job' = NoJob /\ calling' = calling \ {job.who}
  /\ IF job.do = "flush_all" THEN Heard /\ sweep' = NoSweep
     ELSE /\ owed' = IF job.says = "ok" THEN Say(owed, job.b) ELSE owed
          /\ UNCHANGED sweep
  /\ UNCHANGED <<host, store, plan, typed, jobs, used>>

-----------------------------------------------------------------------------
Sweep == SweepStart \/ SweepDrain \/ SweepCommit \/ SweepSync
Own == OwnDrain \/ OwnCommit \/ OwnSync
Serve == TakeJob \/ ServeRead \/ ServeWrite \/ ServeFlushAll \/ EndFlushAll
         \/ ServeDeleteLocker \/ EraseLocker \/ Reply
Close == CloseSwap \/ CloseBackend \/ CloseRelease

Next == \/ OpenBackend \/ Register \/ OpenLocker \/ Stage \/ OwnFlush \/ DropLocker
        \/ CloseBegin \/ DropBank \/ DropService \/ DeleteBank \/ Crash \/ IntoService
        \/ Own \/ Sweep \/ Serve \/ Close
        \/ \E c \in Callers : Dispatch(c) \/ GiveUp(c)

(* Somebody polls the service, and every task that has begun goes on.  The *)
(* application need not do anything else.                                  *)
Fairness == WF_vars(Serve) /\ WF_vars(Sweep) /\ WF_vars(Own) /\ WF_vars(Close)

Spec == Init /\ [][Next]_vars /\ Fairness

-----------------------------------------------------------------------------
(* What a caller or an application has been told is stored, by the answer  *)
(* of a write, of flush_all or of close, is what the next process finds,   *)
(* until it is overwritten or the bank is deleted: whatever is refused,    *)
(* flushed by others, dropped or killed in between.                        *)
DurableAnswers ==
  /\ TypeOK
  /\ kind # "memory" => \A k \in Keys : owed[k] # Unsaid => store.safe[k] = owed[k]

(* A read through the handle answers something the store held between the  *)
(* call and its answer, or an error; never what was there before a write   *)
(* that had been answered, and never bytes that do not open.               *)
ReadsAreCurrent ==
  job.at = "reply" /\ job.do = "get" /\ job.says \notin {"failed", "closed"}
     => job.says \in job.seen \ {Damaged}

(* While the service is polled, every call ends: with the answer of its    *)
(* job, with Error::Closed if the Bank goes, or because the caller left.   *)
(* And close() comes to its end, whatever other tasks do with the locker's *)
(* lock and whatever a commit answers.                                     *)
EveryCallEnds ==
  /\ \A c \in Callers : c \in calling /\ bank = "served" ~> c \notin calling
  /\ closer # "no" ~> closer = "no"

=============================================================================

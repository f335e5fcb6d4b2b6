----------------------------- MODULE EagerLocker -----------------------------
(***************************************************************************)
(* One name opened as an eager Locker by several browser tabs              *)
(* (src/src/locker/eager.rs over resident.rs and inner.rs), with the news  *)
(* the tabs send each other (module Coherence).                            *)
(*                                                                         *)
(* The values are resident: get is a look at a map and never awaits.  The  *)
(* map is filled by a walk at open and then kept up by three writers that  *)
(* do not know of each other: the calls of this tab, its deferred batch,   *)
(* and the sink that absorbs other tabs' news.  A tab is single-threaded,  *)
(* so a step is the stretch between two awaits.                            *)
(*                                                                         *)
(* Abstracted: chunk pointers under an eager name (module LazyLocker has   *)
(* them), the size limits (a refusal before anything changes), the         *)
(* watchers (module Watch).  A walk reads the store at one instant: the    *)
(* locker is one scan page long.                                           *)
(***************************************************************************)
EXTENDS Coherence, FiniteSets

CONSTANTS
  Tasks, NoTask,  \* concurrent callers; nobody
  TabOf,          \* the tab each of them runs in
  Junk,           \* stored bytes that do not decode (OnCorrupt::Skip)
  Afters,         \* Commit: 0 is Immediate, n is Deferred { after : n }
  Authoritative,  \* Inner::index_is_authoritative
  Found,          \* what the store may hold when the first tab opens
  TxWrites,       \* what a transact closure may stage
  MaxCalls,       \* bound: calls begun
  MaxFaults       \* bound: backend errors, lost messages, tabs that end

StoredContents == [Keys -> Vals \cup {Gone, Junk}]

ASSUME EagerAssumption == /\ NoTask \notin Tasks
                          /\ TabOf \in [Tasks -> Tabs]
                          /\ Junk \notin Vals \cup {Gone, Kept, Changed}
                          /\ Afters \subseteq Nat \ {1}
                          /\ Authoritative \in BOOLEAN
                          /\ Found \subseteq StoredContents
                          /\ TxWrites \subseteq WriteSets
                          /\ MaxCalls \in Nat /\ MaxFaults \in Nat

VARIABLES
  store,    \* the records table, as the values it decodes to
  tab,      \* what each tab keeps: see TabStates
  chan,     \* messages under way, per sender and receiver
  lock,     \* Inner::write_lock of each tab
  pc, call, \* the calls in flight
  excuse,   \* ghost: keys whose resident value the design gives up on
  calls, faults

vars == <<store, tab, chan, lock, pc, call, excuse, calls, faults>>

NoClock == [k \in Keys |-> 0]

(* EagerValues, Resident and Epochs of one tab, and its bank's epoch.      *)
(* "shut": no such tab; "loading": walked, the sink not registered yet.    *)
TabStates ==
  [phase : {"shut", "loading", "open", "closed"}, after : Afters,
   values : Contents, dropped : SUBSET Keys, corrupt : SUBSET Keys,
   staged : WriteSets, len : Nat,
   epoch : Nat, local : [Keys -> Nat], applied : Nat]

Ops == {"write", "transact", "flush", "close"}
Calls == [op : Ops, own : WriteSets, taken : WriteSets, len : Nat,
          epoch : Nat, late : SUBSET Keys]
NoCall == [op |-> "flush", own |-> NoWrites, taken |-> NoWrites, len |-> 0,
           epoch |-> 0, late |-> {}]

TypeOK ==
  /\ store \in StoredContents
  /\ tab \in [Tabs -> TabStates]
  /\ chan \in [Tabs -> [Tabs -> Seq(News)]]
  /\ lock \in [Tabs -> Tasks \cup {NoTask}]
  /\ pc \in [Tasks -> {"idle", "waiting", "closure", "building", "committing", "landed"}]
  /\ call \in [Tasks -> Calls]
  /\ excuse \in [Tabs -> SUBSET Keys]
  /\ calls \in 0..MaxCalls /\ faults \in 0..MaxFaults

Mine(t) == {c \in Tasks : TabOf[c] = t}
Listening == {t \in Tabs : tab[t].phase # "shut"}
Deferred(t) == tab[t].after > 1
OneWrite(b) == [does |-> b, cleared |-> b = ClearAll]

(* Slip: a key counts as held only when its value is. *)
HoldsValue(t, k) == tab[t].values[k] # Gone
Holds(t, k) == tab[t].values[k] # Gone \/ k \in tab[t].corrupt \cup tab[t].dropped

(* What the getters answer, and what len, keys, range and entries show:    *)
(* the resident map, at once and without a lock.                           *)
Get(t, k) == tab[t].values[k]
Keyed(t) == {k \in Keys : Get(t, k) # Gone}

-----------------------------------------------------------------------------
(* Locker::open: the walk, then join_coherence.  News heard in between     *)
(* finds no sink.                                                          *)

Init ==
  /\ store \in Found
  /\ tab \in [Tabs -> {[phase |-> "shut", after |-> a,
                        values |-> [k \in Keys |-> Gone], dropped |-> {}, corrupt |-> {},
                        staged |-> NoWrites, len |-> 0,
                        epoch |-> 0, local |-> NoClock, applied |-> 0] : a \in Afters}]
  /\ chan = NoNews
  /\ lock = [t \in Tabs |-> NoTask]
  /\ pc = [c \in Tasks |-> "idle"]
  /\ call = [c \in Tasks |-> NoCall]
  /\ excuse = [t \in Tabs |-> {}]
  /\ calls = 0 /\ faults = 0

Load(t) ==
  /\ tab[t].phase \in {"shut", "closed"}
  /\ \A c \in Mine(t) : pc[c] = "idle"
  /\ tab' = [tab EXCEPT ![t] =
       [@ EXCEPT !.phase = "loading",
                 !.values = [k \in Keys |-> IF store[k] = Junk THEN Gone ELSE store[k]],
                 !.corrupt = {k \in Keys : store[k] = Junk}, !.dropped = {},
                 !.staged = NoWrites, !.len = 0,
                 !.local = NoClock, !.applied = 0]]
  /\ excuse' = [excuse EXCEPT ![t] = {}]
  /\ UNCHANGED <<store, chan, lock, pc, call, calls, faults>>

JoinCoherence(t) ==
  /\ tab[t].phase = "loading"
  /\ tab' = [tab EXCEPT ![t].phase = "open"]
  /\ UNCHANGED <<store, chan, lock, pc, call, excuse, calls, faults>>

-----------------------------------------------------------------------------
(* The calls.  An immediate put, delete or clear takes no lock: it commits *)
(* at once, and prepare takes its epoch as the commit begins.              *)

Begins(c) == pc[c] = "idle" /\ calls < MaxCalls /\ calls' = calls + 1
StillOpen(c) == tab[TabOf[c]].phase = "open"

Commence(c, w) ==
  /\ pc' = [pc EXCEPT ![c] = "committing"]
  /\ tab' = [tab EXCEPT ![TabOf[c]].epoch = @ + 1]
  /\ call' = [call EXCEPT ![c] = [w EXCEPT !.epoch = tab[TabOf[c]].epoch + 1]]

WriteNow(c, b) ==
  /\ Begins(c) /\ StillOpen(c) /\ ~Deferred(TabOf[c])
  /\ \A k \in Keys : b = DeleteOf(k) => Holds(TabOf[c], k) \/ ~Authoritative
  /\ Commence(c, [NoCall EXCEPT !.op = "write", !.own = OneWrite(b)])
  /\ UNCHANGED <<store, chan, lock, excuse, faults>>

(* delete_by: nothing to remove, and nothing this tab could have missed. *)
DeleteNothing(c, k) ==
  /\ Begins(c) /\ StillOpen(c)
  /\ ~Holds(TabOf[c], k) /\ Authoritative
  /\ UNCHANGED <<store, tab, chan, lock, pc, call, excuse, faults>>

(* A deferred write is visible in its tab at once, and goes to storage     *)
(* when the batch is full.                                                 *)
Staging(s, b) ==
  [s EXCEPT !.staged = Both(@, OneWrite(b)), !.len = @ + 1,
            !.values = Then(@, b), !.dropped = @ \ Touched(b)]

WriteLater(c, b) ==
  LET t == TabOf[c] IN
  /\ Begins(c) /\ StillOpen(c) /\ Deferred(t)
  /\ \A k \in Keys : b = DeleteOf(k) => Holds(t, k) \/ ~Authoritative
  /\ tab' = [tab EXCEPT ![t] = Staging(@, b)]
  /\ excuse' = [excuse EXCEPT ![t] = @ \ Touched(b)]
  /\ IF tab[t].len + 1 >= tab[t].after
     THEN /\ pc' = [pc EXCEPT ![c] = "waiting"]
          /\ call' = [call EXCEPT ![c] = [NoCall EXCEPT !.op = "flush"]]
     ELSE UNCHANGED <<pc, call>>
  /\ UNCHANGED <<store, chan, lock, faults>>

Transact(c, w) ==
  /\ Begins(c) /\ StillOpen(c)
  /\ pc' = [pc EXCEPT ![c] = "waiting"]
  /\ call' = [call EXCEPT ![c] = [NoCall EXCEPT !.op = "transact", !.own = w]]
  /\ UNCHANGED <<store, tab, chan, lock, excuse, faults>>

(* flush of a closed locker is allowed; with nothing staged it returns.    *)
Flush(c) ==
  /\ Begins(c) /\ tab[TabOf[c]].phase \in {"open", "closed"} /\ tab[TabOf[c]].len > 0
  /\ pc' = [pc EXCEPT ![c] = "waiting"]
  /\ call' = [call EXCEPT ![c] = [NoCall EXCEPT !.op = "flush"]]
  /\ UNCHANGED <<store, tab, chan, lock, excuse, faults>>

(* The end of close: drop what is staged if the flush went through, refuse *)
(* calls from here on, hold nothing.                                       *)
Shutting(s, flushed) ==
  [s EXCEPT !.phase = "closed", !.values = [k \in Keys |-> Gone],
            !.staged = IF flushed THEN NoWrites ELSE @,
            !.len = IF flushed THEN 0 ELSE @]

Close(c) ==
  LET t == TabOf[c] IN
  /\ Begins(c) /\ StillOpen(c)
  /\ IF tab[t].len > 0
     THEN /\ pc' = [pc EXCEPT ![c] = "waiting"]
          /\ call' = [call EXCEPT ![c] = [NoCall EXCEPT !.op = "close"]]
          /\ UNCHANGED tab
     ELSE /\ tab' = [tab EXCEPT ![t] = Shutting(@, TRUE)]
          /\ UNCHANGED <<pc, call>>
  /\ UNCHANGED <<store, chan, lock, excuse, faults>>

Begin(c) == \/ \E b \in Mutations : WriteNow(c, b) \/ WriteLater(c, b)
            \/ \E k \in Keys : DeleteNothing(c, k)
            \/ \E w \in TxWrites : Transact(c, w)
            \/ Flush(c) \/ Close(c)

-----------------------------------------------------------------------------
(* Under the write lock: transact and flush_locked.                        *)

TakeLock(c) ==
  LET t == TabOf[c] IN
  /\ pc[c] = "waiting" /\ lock[t] = NoTask
  /\ lock' = [lock EXCEPT ![t] = c]
  /\ pc' = [pc EXCEPT ![c] = "closure"]
  /\ UNCHANGED <<store, tab, chan, call, excuse, calls, faults>>

Quit(c, flushed) ==
  LET t == TabOf[c] IN
  /\ pc' = [pc EXCEPT ![c] = "idle"]
  /\ call' = [call EXCEPT ![c] = NoCall]
  /\ lock' = [lock EXCEPT ![t] = IF @ = c THEN NoTask ELSE @]

(* The closure has returned (a flush has none): take_staged and            *)
(* merge_batches.  A closure that staged nothing, a flush that finds the   *)
(* batch already taken: nothing to do.                                     *)
Drain(c) ==
  LET t == TabOf[c]
      taken == tab[t].staged
      empty == IF call[c].op = "transact" THEN call[c].own = NoWrites
                                          ELSE tab[t].len = 0 IN
  /\ pc[c] = "closure"
  /\ IF empty
     THEN /\ Quit(c, TRUE)
          /\ tab' = [tab EXCEPT ![t] = IF call[c].op = "close" THEN Shutting(@, TRUE) ELSE @]
     ELSE /\ call' = [call EXCEPT ![c].taken = taken, ![c].len = tab[t].len]
          /\ tab' = [tab EXCEPT ![t].staged = NoWrites, ![t].len = 0]
          /\ pc' = [pc EXCEPT ![c] = "building"]
          /\ UNCHANGED lock
  /\ UNCHANGED <<store, chan, excuse, calls, faults>>

(* ops_for_items has read what the write-set replaces. *)
Built(c) ==
  /\ pc[c] = "building"
  /\ Commence(c, call[c])
  /\ UNCHANGED <<store, chan, lock, excuse, calls, faults>>

(* A call failed before its commit landed: nothing is stored, nothing is   *)
(* mirrored, and the drained batch goes back under what was staged since.  *)
(* Slip: it does not.                                                      *)
RestageNothing(s, c) == s
Restage(s, c) == [s EXCEPT !.staged = Both(c.taken, @), !.len = c.len + @]

Fail(c) ==
  LET t == TabOf[c]
      back == Restage(tab[t], call[c]) IN
  /\ pc[c] \in {"closure", "building", "committing"} /\ faults < MaxFaults
  /\ (pc[c] = "closure" => call[c].op = "transact")
  /\ tab' = [tab EXCEPT ![t] = IF call[c].op = "close" THEN Shutting(back, FALSE) ELSE back]
  /\ Quit(c, FALSE)
  /\ faults' = faults + 1
  /\ UNCHANGED <<store, chan, excuse, calls>>

Committed(c) == Both(call[c].taken, call[c].own)

(* The backend's commit.  Messages under way and calls that have landed    *)
(* but not finished are now behind the store on these keys; a tab that has *)
(* walked but not joined will never hear of it.                            *)
Land(c) ==
  LET keys == Touched(Committed(c).does) IN
  /\ pc[c] = "committing"
  /\ store' = Then(store, Committed(c).does)
  /\ pc' = [pc EXCEPT ![c] = "landed"]
  /\ chan' = Overtaken(chan, keys)
  /\ call' = [d \in Tasks |-> IF pc[d] = "landed" THEN [call[d] EXCEPT !.late = @ \cup keys]
                                                  ELSE call[d]]
  /\ excuse' = [t \in Tabs |-> IF tab[t].phase = "loading" THEN excuse[t] \cup keys ELSE excuse[t]]
  /\ UNCHANGED <<tab, lock, calls, faults>>

(* note_local, then forget_local after a clear.                            *)
Noted(local, n) == IF n.cleared THEN NoClock
                   ELSE [k \in Keys |-> IF k \in Named(n) THEN n.epoch ELSE local[k]]

(* The mirror of put_by, delete_by, clear and transact.                    *)
Mirrored(s, c) ==
  [s EXCEPT !.values = Then(@, c.own.does),
            !.dropped = IF c.own.cleared THEN {}
                        ELSE IF c.op = "write" THEN @ \ Touched(c.own.does)
                        ELSE @ \ {k \in Keys : c.own.does[k] = Gone}]

(* After the commit, in one stretch: note the epoch, post the news (which  *)
(* may be lost), mirror the call's own writes into the resident map.       *)
Finish(c) ==
  LET t == TabOf[c]
      w == Committed(c)
      n == NewsOf(w, call[c].epoch, call[c].late)
      after == Mirrored([tab[t] EXCEPT !.local = Noted(@, n)], call[c])
      mine == Touched(call[c].own.does)
      behind == mine \cap (call[c].late \cup Touched(tab[t].staged.does)) IN
  /\ pc[c] = "landed"
  /\ tab' = [tab EXCEPT ![t] = IF call[c].op = "close" THEN Shutting(after, TRUE) ELSE after]
  /\ Quit(c, TRUE)
  /\ \E lost \in BOOLEAN :
       /\ lost => faults < MaxFaults
       /\ faults' = faults + (IF lost THEN 1 ELSE 0)
       /\ chan' = IF lost THEN chan ELSE Posted(chan, t, n, Listening)
       /\ excuse' = [s \in Tabs |->
            IF s = t THEN (excuse[s] \ mine) \cup behind
            ELSE IF lost THEN excuse[s] \cup Touched(w.does) ELSE excuse[s]]
  /\ UNCHANGED <<store, calls>>

-----------------------------------------------------------------------------
(* The sink: EagerSink::apply.                                             *)

(* The writes of a tab that are visible in it and not in the store yet.    *)
Draining(t) == lock[t] # NoTask /\ pc[lock[t]] \in {"building", "committing"}
Unlanded(t) == IF Draining(t) THEN Both(call[lock[t]].taken, tab[t].staged) ELSE tab[t].staged
View(t) == Then(store, Unlanded(t).does)

(* Changes whose key this tab committed at an equal or later epoch of its  *)
(* own.  Slip: every change is applied.                                    *)
OwnNone(s, n) == {}
OwnNewer(s, n) == IF n.cleared THEN {} ELSE {k \in Named(n) : n.epoch <= s.local[k]}

(* A change without a value removes the key; it stays noted as stored      *)
(* unless it was a delete.                                                 *)
Heeded(values, n, news) ==
  [k \in Keys |-> IF k \in news THEN IF n.does[k] \in Vals THEN n.does[k] ELSE Gone
                 ELSE IF n.cleared THEN Gone ELSE values[k]]
Absorbed(s, n, news) ==
  [s EXCEPT !.applied = n.epoch,
            !.local = IF n.cleared THEN NoClock ELSE @,
            !.values = Heeded(@, n, news),
            !.dropped = ((IF n.cleared THEN {} ELSE @) \ news)
                        \cup {k \in news : n.does[k] = Changed}]

Covered(n) == IF n.cleared THEN Keys ELSE Touched(n.does)

(* A tab gives up on a key when it refuses news that is the newest there   *)
(* is, when it applies news that is not and that its epochs cannot tell    *)
(* from new, and when news lands in the resident map over a write of its   *)
(* own that is not stored yet.                                             *)
Hear(s, t) ==
  LET n == Head(chan[s][t])
      refused == n.epoch <= tab[t].applied
      own == OwnNewer(tab[t], n)
      heard == Covered(n) \ own
      ordered == {k \in Named(n) : ~n.cleared /\ n.epoch <= tab[t].local[k]} IN
  /\ chan[s][t] # <<>>
  /\ chan' = Heard(chan, s, t)
  /\ IF tab[t].phase # "open" THEN UNCHANGED <<tab, excuse>>
     ELSE IF refused
     THEN /\ excuse' = [excuse EXCEPT ![t] = @ \cup (Covered(n) \ n.late)]
          /\ UNCHANGED tab
     ELSE /\ tab' = [tab EXCEPT ![t] = Absorbed(@, n, Named(n) \ own)]
          /\ excuse' = [excuse EXCEPT ![t] =
               (@ \ heard) \cup (own \ n.late)
               \cup (heard \cap ((n.late \ ordered) \cup Touched(Unlanded(t).does)))]
  /\ UNCHANGED <<store, lock, pc, call, calls, faults>>

(* A tab ends: its calls, its staged batch and its epoch are gone, and so  *)
(* is the news of a commit that had just landed.                           *)
EndTab(t) ==
  LET unsaid == UNION {Touched(Committed(c).does) : c \in {d \in Mine(t) : pc[d] = "landed"}} IN
  /\ tab[t].phase # "shut" /\ faults < MaxFaults
  /\ tab' = [tab EXCEPT ![t] = [@ EXCEPT !.phase = "shut", !.epoch = 0]]
  /\ pc' = [c \in Tasks |-> IF c \in Mine(t) THEN "idle" ELSE pc[c]]
  /\ call' = [c \in Tasks |-> IF c \in Mine(t) THEN NoCall ELSE call[c]]
  /\ lock' = [lock EXCEPT ![t] = NoTask]
  /\ chan' = Unplugged(chan, t)
  /\ excuse' = [s \in Tabs |-> IF s = t THEN {} ELSE excuse[s] \cup unsaid]
  /\ faults' = faults + 1
  /\ UNCHANGED <<store, calls>>

Next == \/ \E t \in Tabs : Load(t) \/ JoinCoherence(t) \/ EndTab(t)
        \/ \E s, t \in Tabs : Hear(s, t)
        \/ \E c \in Tasks : \/ Begin(c) \/ TakeLock(c) \/ Drain(c) \/ Built(c)
                            \/ Fail(c) \/ Land(c) \/ Finish(c)

Spec == Init /\ [][Next]_vars

-----------------------------------------------------------------------------
(* Nothing about the key is on its way to this tab, and the tab has not    *)
(* given up on it.                                                         *)
Settled(t, k) ==
  /\ tab[t].phase = "open"
  /\ k \notin excuse[t]
  /\ \A n \in InFlight(chan, t) : k \notin Covered(n)
  /\ \A c \in Tasks : pc[c] = "landed" => k \notin Touched(Committed(c).does)

(* What get returns is what is stored under the tab's own unflushed        *)
(* writes, once nothing about the key is under way: the three writers of   *)
(* the resident map (eager.rs:226, :343, :571) leave no stale value.       *)
ResidentIsStored ==
  \A t \in Tabs : \A k \in Keyed(t) : Settled(t, k) => Get(t, k) = View(t)[k]

(* A delete that returns at once because nothing is held (eager.rs:394)    *)
(* leaves no record behind: unreadable bytes and values other tabs could   *)
(* not send count as held.                                                 *)
AbsentIsProven ==
  \A t \in Tabs, k \in Keys : Settled(t, k) /\ ~Holds(t, k) => View(t)[k] = Gone

-----------------------------------------------------------------------------
(* The invariant the two rest on, as named parts.                          *)

(* The write lock is held by exactly the call that is past take_lock, and  *)
(* what a call has drained it holds under the lock.                        *)
LockHeld ==
  /\ \A t \in Tabs : lock[t] # NoTask =>
       /\ TabOf[lock[t]] = t
       /\ pc[lock[t]] \in {"closure", "building", "committing", "landed"}
       /\ call[lock[t]].op # "write"
  /\ \A c \in Tasks :
       /\ pc[c] \in {"waiting", "closure", "building"} => call[c].op # "write"
       /\ pc[c] \in {"closure", "building", "committing", "landed"} /\ call[c].op # "write"
            => lock[TabOf[c]] = c
       /\ pc[c] \notin {"building", "committing", "landed"} \/ call[c].op = "write"
            => call[c].taken = NoWrites

(* An immediate tab stages nothing, and only it commits without the lock.  *)
StagesWhenDeferred ==
  /\ \A t \in Tabs : ~Deferred(t) => tab[t].staged = NoWrites
  /\ \A c \in Tasks : IF Deferred(TabOf[c]) THEN call[c].op # "write"
                                            ELSE call[c].taken = NoWrites

(* A tab that is opening has no calls and no batch yet. *)
LoadsAlone ==
  /\ \A t \in Tabs : tab[t].phase \in {"shut", "loading"} => \A c \in Mine(t) : pc[c] = "idle"
  /\ \A t \in Tabs : tab[t].phase = "loading" => tab[t].staged = NoWrites

(* News that no later commit has overtaken says what is stored.            *)
Told(n) == /\ n.cleared => Touched(n.does) = Keys
           /\ \A k \in Touched(n.does) \ n.late :
                store[k] = n.does[k] \/ (n.does[k] = Changed /\ store[k] \in Vals)
NewsTold == \A s, t \in Tabs : \A i \in DOMAIN chan[s][t] : Told(chan[s][t][i])

(* So does what a call has landed and not mirrored. *)
LandedTold ==
  \A c \in Tasks : pc[c] = "landed" =>
    \A k \in Touched(Committed(c).does) \ call[c].late : store[k] = Committed(c).does[k]

LateOnceLanded == \A c \in Tasks : pc[c] # "landed" => call[c].late = {}

(* What the tab is about to be told of the key, by news or by a call of    *)
(* its own, and is true.                                                   *)
Awaited(t, k) ==
  \/ \E s \in Tabs : \E i \in DOMAIN chan[s][t] :
       k \in Touched(chan[s][t][i].does) \ chan[s][t][i].late
  \/ \E c \in Tasks :
       /\ pc[c] = "landed" /\ k \notin call[c].late
       /\ k \in Touched(IF TabOf[c] = t THEN call[c].own.does ELSE Committed(c).does)

(* The map agrees with what is stored under the tab's own batch. *)
Agrees(t, k) == /\ Get(t, k) # Gone => Get(t, k) = View(t)[k]
                /\ ~Holds(t, k) => View(t)[k] = Gone

(* It does from the walk on, but for keys whose news is still to come; a   *)
(* write of the tab's own that is not stored yet is shown whatever comes.  *)
Due(t, k) ==
  /\ k \notin excuse[t]
  /\ \/ tab[t].phase = "loading"
     \/ tab[t].phase = "open" /\ (k \in Touched(Unlanded(t).does) \/ ~Awaited(t, k))
ResidentRight == \A t \in Tabs, k \in Keys : Due(t, k) => Agrees(t, k)

EagerInv == /\ TypeOK /\ LockHeld /\ StagesWhenDeferred /\ LoadsAlone
            /\ NewsTold /\ LandedTold /\ LateOnceLanded /\ ResidentRight

=============================================================================

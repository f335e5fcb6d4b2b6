----------------------------- MODULE EagerProofs -----------------------------
(***************************************************************************)
(* What an eager locker shows is what is stored, and what it takes to be   *)
(* absent is absent: for any number of tabs, concurrent callers, keys and  *)
(* values, any batch sizes, and any number of calls and faults.            *)
(*                                                                         *)
(* The argument follows a key from commit to mirror.  When a commit lands  *)
(* on it, everything older that is still under way becomes late, and one   *)
(* thing that is not late comes into being: the landed call, which turns   *)
(* into its own tab's mirrored value and the other tabs' news.  A tab that *)
(* awaits nothing of the kind agrees with the store, and a tab that hears  *)
(* it comes to agree, or is excused.                                       *)
(***************************************************************************)
EXTENDS EagerLocker, TLAPS

-----------------------------------------------------------------------------
(* Batches, key by key. *)

LEMMA ThenAt ==
  ASSUME NEW a, NEW b, NEW k \in Keys
  PROVE  Then(a, b)[k] = IF b[k] = Kept THEN a[k] ELSE b[k]
BY DEF Then

LEMMA NothingWritten ==
  /\ NoWrites \in WriteSets
  /\ \A k \in Keys : NoWrites.does[k] = Kept
BY BatchAssumption DEF NoWrites, WriteSets, Effects, NoEffect, Touched

(* One write-set after another is a write-set, and touches what both do.   *)
LEMMA BothTogether ==
  ASSUME NEW a \in WriteSets, NEW b \in WriteSets
  PROVE  /\ Both(a, b) \in WriteSets
         /\ \A k \in Keys : Both(a, b).does[k] =
              IF b.does[k] = Kept THEN a.does[k] ELSE b.does[k]
         /\ Touched(Both(a, b).does) = Touched(a.does) \cup Touched(b.does)
<1>1. \A k \in Keys : Both(a, b).does[k] = IF b.does[k] = Kept THEN a.does[k] ELSE b.does[k]
  BY DEF Both, Then
<1>2. Touched(Both(a, b).does) = Touched(a.does) \cup Touched(b.does)
  BY <1>1 DEF Touched
<1>3. Both(a, b).does \in Effects
  BY DEF Both, Then, WriteSets, Effects
<1>4. Both(a, b).cleared \in BOOLEAN /\ (Both(a, b).cleared => a.cleared \/ b.cleared)
  BY DEF Both, WriteSets
<1>5. a.cleared \/ b.cleared => Touched(Both(a, b).does) = Keys
  BY <1>2 DEF WriteSets, Touched
<1>6. Both(a, b) = [does |-> Both(a, b).does, cleared |-> Both(a, b).cleared]
  BY DEF Both
<1> QED
  BY <1>1, <1>2, <1>3, <1>4, <1>5, <1>6 DEF WriteSets

LEMMA MutationTypes ==
  ASSUME NEW b \in Mutations
  PROVE  b \in Effects /\ OneWrite(b) \in WriteSets /\ OneWrite(b).does = b
<1>1. NoEffect \in [Keys -> {Kept}]
  BY DEF NoEffect
<1>2. b \in Effects
  <2>1. CASE \E k \in Keys, v \in Vals : b = PutOf(k, v)
    BY <1>1, <2>1 DEF PutOf, Effects
  <2>2. CASE \E k \in Keys : b = DeleteOf(k)
    BY <1>1, <2>2 DEF DeleteOf, Effects
  <2>3. CASE b = ClearAll
    BY <2>3 DEF ClearAll, Effects
  <2> QED
    BY <2>1, <2>2, <2>3 DEF Mutations
<1>3. b = ClearAll => Touched(b) = Keys
  BY BatchAssumption DEF ClearAll, Touched
<1> QED
  BY <1>2, <1>3 DEF OneWrite, WriteSets

(* What a commit makes of the store and of a map that holds no junk. *)
LEMMA Applied ==
  ASSUME NEW b \in Effects
  PROVE  /\ \A s \in StoredContents : Then(s, b) \in StoredContents
         /\ \A v \in Contents : Then(v, b) \in Contents
BY DEF StoredContents, Contents, Effects, Then

(* News of a write-set: a value it cannot carry is Changed. *)
LEMMA NewsTypes ==
  ASSUME NEW w \in WriteSets, NEW e \in Nat, NEW l \in SUBSET Keys
  PROVE  /\ NewsOf(w, e, l) \in News
         /\ \A k \in Keys : /\ NewsOf(w, e, l).does[k] = Kept <=> w.does[k] = Kept
                            /\ \/ NewsOf(w, e, l).does[k] = w.does[k]
                               \/ NewsOf(w, e, l).does[k] = Changed /\ w.does[k] \in Vals
<1>1. w.does \in [Keys -> Vals \cup {Gone, Kept}] /\ w.cleared \in BOOLEAN
  BY DEF WriteSets, Effects
<1>2. \A k \in Keys : /\ NewsOf(w, e, l).does[k] = Carried(w.does[k])
                      /\ Carried(w.does[k]) \in Vals \cup {Gone, Kept, Changed}
                      /\ Carried(w.does[k]) = Kept <=> w.does[k] = Kept
                      /\ \/ Carried(w.does[k]) = w.does[k]
                         \/ Carried(w.does[k]) = Changed /\ w.does[k] \in Vals
  BY <1>1, CoherenceAssumption, BatchAssumption DEF NewsOf, Carried
<1>3. NewsOf(w, e, l) \in News
  BY <1>1, <1>2 DEF NewsOf, News
<1> QED
  BY <1>2, <1>3
-----------------------------------------------------------------------------
(* The channels. *)

Chans == [Tabs -> [Tabs -> Seq(News)]]

LEMMA ChanTypes ==
  ASSUME chan \in Chans
  PROVE  /\ \A s \in Tabs, n \in News : \A l : Posted(chan, s, n, l) \in Chans
         /\ \A s, t \in Tabs : chan[s][t] # <<>> => Heard(chan, s, t) \in Chans
         /\ \A keys \in SUBSET Keys : Overtaken(chan, keys) \in Chans
         /\ \A t \in Tabs : Unplugged(chan, t) \in Chans
<1>1. \A s \in Tabs, n \in News : \A l : Posted(chan, s, n, l) \in Chans
  BY DEF Posted, Chans
<1>2. \A s, t \in Tabs : chan[s][t] # <<>> => Heard(chan, s, t) \in Chans
  BY DEF Heard, Chans
<1>3. ASSUME NEW keys \in SUBSET Keys
      PROVE  Overtaken(chan, keys) \in Chans
  <2>1. ASSUME NEW s \in Tabs, NEW t \in Tabs
        PROVE  [i \in DOMAIN chan[s][t] |-> [chan[s][t][i] EXCEPT !.late = @ \cup keys]] \in Seq(News)
    <3>1. chan[s][t] \in Seq(News) /\ DOMAIN chan[s][t] = 1..Len(chan[s][t])
      BY DEF Chans
    <3>2. ASSUME NEW i \in DOMAIN chan[s][t]
          PROVE  [chan[s][t][i] EXCEPT !.late = @ \cup keys] \in News
      <4>1. chan[s][t][i] \in News
        BY <3>1
      <4>2. \A n \in News : [n EXCEPT !.late = @ \cup keys] \in News
        BY DEF News
      <4> QED
        BY <4>1, <4>2
    <3> DEFINE q == [i \in DOMAIN chan[s][t] |-> [chan[s][t][i] EXCEPT !.late = @ \cup keys]]
    <3>3. q \in [1..Len(chan[s][t]) -> News]
      BY <3>1, <3>2
    <3>4. Len(chan[s][t]) \in Nat
      BY <3>1
    <3> HIDE DEF q
    <3>5. q \in Seq(News)
      BY <3>3, <3>4
    <3> QED
      BY <3>5 DEF q
  <2> QED
    BY <2>1 DEF Overtaken, Chans
<1>4. \A t \in Tabs : Unplugged(chan, t) \in Chans
  BY DEF Unplugged, Chans
<1> QED
  BY <1>1, <1>2, <1>3, <1>4

(* What is under way after each of the four: nothing that was not before,  *)
(* but the message posted; and overtaken messages are late on more keys.   *)
LEMMA ChanAt ==
  ASSUME chan \in Chans, NEW s \in Tabs, NEW t \in Tabs
  PROVE  /\ \A p \in Tabs : \A n, l :
              \/ Posted(chan, p, n, l)[s][t] = chan[s][t]
              \/ p = s /\ t \in l \ {s} /\ Posted(chan, p, n, l)[s][t] = Append(chan[s][t], n)
         /\ \A p \in Tabs : \A n, l : t \in l \ {s} /\ p = s
              => Posted(chan, p, n, l)[s][t] = Append(chan[s][t], n)
         /\ \A p, r \in Tabs : Heard(chan, p, r)[s][t] =
              IF p = s /\ r = t THEN Tail(chan[s][t]) ELSE chan[s][t]
         /\ \A keys : /\ DOMAIN Overtaken(chan, keys)[s][t] = DOMAIN chan[s][t]
                      /\ \A i \in DOMAIN chan[s][t] : Overtaken(chan, keys)[s][t][i] =
                           [chan[s][t][i] EXCEPT !.late = @ \cup keys]
         /\ \A r \in Tabs : Unplugged(chan, r)[s][t] = IF r = t THEN <<>> ELSE chan[s][t]
<1>1. chan \in [Tabs -> [Tabs -> Seq(News)]]
  BY DEF Chans
<1>2. \A p, r \in Tabs : Heard(chan, p, r)[s][t] =
              IF p = s /\ r = t THEN Tail(chan[s][t]) ELSE chan[s][t]
  BY <1>1 DEF Heard
<1>3. \A p \in Tabs : \A n, l :
        Posted(chan, p, n, l)[s][t] = IF p = s /\ t \in l \ {s} THEN Append(chan[s][t], n)
                                                                ELSE chan[s][t]
  BY <1>1 DEF Posted
<1>4. \A keys : Overtaken(chan, keys)[s][t] =
        [i \in DOMAIN chan[s][t] |-> [chan[s][t][i] EXCEPT !.late = @ \cup keys]]
  BY DEF Overtaken
<1>5. \A r \in Tabs : Unplugged(chan, r)[s][t] = IF r = t THEN <<>> ELSE chan[s][t]
  BY <1>1 DEF Unplugged
<1>6. \A keys : /\ DOMAIN Overtaken(chan, keys)[s][t] = DOMAIN chan[s][t]
                 /\ \A i \in DOMAIN chan[s][t] : Overtaken(chan, keys)[s][t][i] =
                      [chan[s][t][i] EXCEPT !.late = @ \cup keys]
  <2> SUFFICES ASSUME NEW keys
               PROVE  /\ DOMAIN Overtaken(chan, keys)[s][t] = DOMAIN chan[s][t]
                      /\ \A i \in DOMAIN chan[s][t] : Overtaken(chan, keys)[s][t][i] =
                           [chan[s][t][i] EXCEPT !.late = @ \cup keys]
    OBVIOUS
  <2> DEFINE after == Overtaken(chan, keys)[s][t]
             before == chan[s][t]
  <2>1. after = [i \in DOMAIN before |-> [before[i] EXCEPT !.late = @ \cup keys]]
    BY <1>4
  <2> HIDE DEF after, before
  <2>2. DOMAIN after = DOMAIN before
    BY <2>1
  <2>3. \A i \in DOMAIN before : after[i] = [before[i] EXCEPT !.late = @ \cup keys]
    BY <2>1
  <2> QED
    BY <2>2, <2>3 DEF after, before
<1>7. \A p \in Tabs : \A n, l :
        \/ Posted(chan, p, n, l)[s][t] = chan[s][t]
        \/ p = s /\ t \in l \ {s} /\ Posted(chan, p, n, l)[s][t] = Append(chan[s][t], n)
  BY <1>3
<1>8. \A p \in Tabs : \A n, l : t \in l \ {s} /\ p = s
        => Posted(chan, p, n, l)[s][t] = Append(chan[s][t], n)
  BY <1>3
<1> QED
  BY <1>2, <1>5, <1>6, <1>7, <1>8
LEMMA OvertakenAt ==
  \A s, t \in Tabs : \A keys :
    /\ DOMAIN Overtaken(chan, keys)[s][t] = DOMAIN chan[s][t]
    /\ \A i \in DOMAIN chan[s][t] : Overtaken(chan, keys)[s][t][i] =
         [chan[s][t][i] EXCEPT !.late = @ \cup keys]
<1> SUFFICES ASSUME NEW s \in Tabs, NEW t \in Tabs, NEW keys
             PROVE  /\ DOMAIN Overtaken(chan, keys)[s][t] = DOMAIN chan[s][t]
                    /\ \A i \in DOMAIN chan[s][t] : Overtaken(chan, keys)[s][t][i] =
                         [chan[s][t][i] EXCEPT !.late = @ \cup keys]
  OBVIOUS
<1>1. Overtaken(chan, keys)[s][t] =
        [i \in DOMAIN chan[s][t] |-> [chan[s][t][i] EXCEPT !.late = @ \cup keys]]
  BY DEF Overtaken
<1> QED
  BY <1>1

-----------------------------------------------------------------------------
(* Type correctness. *)

LEMMA NoCallType == NoCall \in Calls /\ NoCall.op = "flush" /\ NoCall.taken = NoWrites
BY NothingWritten DEF NoCall, Calls, Ops

(* The pieces the steps change a tab by. *)
LEMMA TabTypes ==
  ASSUME NEW s \in TabStates
  PROVE  /\ [s EXCEPT !.epoch = @ + 1] \in TabStates
         /\ [s EXCEPT !.staged = NoWrites, !.len = 0] \in TabStates
         /\ \A b \in BOOLEAN : Shutting(s, b) \in TabStates
         /\ \A b \in Mutations : Staging(s, b) \in TabStates
         /\ \A c \in Calls : Restage(s, c) \in TabStates
<1>1. [s EXCEPT !.epoch = @ + 1] \in TabStates
  BY DEF TabStates
<1>2. [s EXCEPT !.staged = NoWrites, !.len = 0] \in TabStates
  BY NothingWritten DEF TabStates
<1>3. \A b \in BOOLEAN : Shutting(s, b) \in TabStates
  BY NothingWritten DEF TabStates, Shutting, Contents
<1>4. ASSUME NEW b \in Mutations
      PROVE  Staging(s, b) \in TabStates
  <2>1. s.staged \in WriteSets /\ s.values \in Contents /\ s.len \in Nat /\ s.dropped \in SUBSET Keys
    BY DEF TabStates
  <2>2. /\ Both(s.staged, OneWrite(b)) \in WriteSets /\ Then(s.values, b) \in Contents
        /\ s.len + 1 \in Nat /\ s.dropped \ Touched(b) \in SUBSET Keys
    BY <2>1, MutationTypes, BothTogether, Applied
  <2> QED
    BY <2>2 DEF TabStates, Staging
<1>5. ASSUME NEW c \in Calls
      PROVE  Restage(s, c) \in TabStates
  <2>1. s.staged \in WriteSets /\ s.len \in Nat /\ c.taken \in WriteSets /\ c.len \in Nat
    BY DEF TabStates, Calls
  <2>2. Both(c.taken, s.staged) \in WriteSets /\ c.len + s.len \in Nat
    BY <2>1, BothTogether
  <2> QED
    BY <2>2 DEF TabStates, Restage
<1> QED
  BY <1>1, <1>2, <1>3, <1>4, <1>5

LEMMA InitTypes == Init => TypeOK
<1> SUFFICES ASSUME Init PROVE TypeOK
  OBVIOUS
<1>1. [k \in Keys |-> Gone] \in Contents /\ NoClock \in [Keys -> Nat]
  BY DEF Contents, NoClock
<1>2. tab \in [Tabs -> TabStates]
  BY <1>1, NothingWritten DEF Init, TabStates
<1>3. chan \in [Tabs -> [Tabs -> Seq(News)]]
  BY DEF Init, NoNews
<1>4. call \in [Tasks -> Calls]
  BY NoCallType DEF Init
<1> QED
  BY <1>2, <1>3, <1>4, EagerAssumption DEF Init, TypeOK

LEMMA TabPut ==
  ASSUME TypeOK, NEW t \in Tabs, NEW s \in TabStates
  PROVE  [tab EXCEPT ![t] = s] \in [Tabs -> TabStates]
BY DEF TypeOK

LEMMA CommenceTypes ==
  ASSUME TypeOK, NEW c \in Tasks, NEW w \in Calls, Commence(c, w)
  PROVE  tab' \in [Tabs -> TabStates] /\ call' \in [Tasks -> Calls]
<1>1. TabOf[c] \in Tabs /\ tab[TabOf[c]] \in TabStates /\ tab \in [Tabs -> TabStates]
  BY EagerAssumption DEF TypeOK
<1> DEFINE s == [tab[TabOf[c]] EXCEPT !.epoch = @ + 1]
<1>2. tab' = [tab EXCEPT ![TabOf[c]] = s]
  BY DEF Commence
<1>s. s \in TabStates
  BY <1>1, TabTypes
<1> HIDE DEF s
<1>3. tab' \in [Tabs -> TabStates]
  BY <1>1, <1>2, <1>s, TabPut
<1>4. [w EXCEPT !.epoch = tab[TabOf[c]].epoch + 1] \in Calls
  BY <1>1 DEF TabStates, Calls
<1> QED
  BY <1>3, <1>4 DEF Commence, TypeOK

LEMMA BeginTypes ==
  ASSUME TypeOK, NEW c \in Tasks, Begin(c)
  PROVE  TypeOK'
<1> USE EagerAssumption
<1>t. TabOf[c] \in Tabs /\ tab[TabOf[c]] \in TabStates
  BY DEF TypeOK
<1>n. calls' \in 0..MaxCalls
  <2>1. Begins(c)
    BY DEF Begin, WriteNow, WriteLater, DeleteNothing, Transact, Flush, Close
  <2> QED
    BY <2>1 DEF Begins, TypeOK
<1>1. ASSUME NEW b \in Mutations, WriteNow(c, b)
      PROVE  TypeOK'
  <2> DEFINE w == [NoCall EXCEPT !.op = "write", !.own = OneWrite(b)]
  <2>1. w \in Calls
    BY MutationTypes, NoCallType DEF Calls, Ops
  <2>2. Commence(c, w)
    BY <1>1 DEF WriteNow
  <2> HIDE DEF w
  <2>3. tab' \in [Tabs -> TabStates] /\ call' \in [Tasks -> Calls]
    BY <2>1, <2>2, CommenceTypes
  <2> QED
    BY <1>1, <1>n, <2>2, <2>3 DEF WriteNow, TypeOK, Commence
<1>2. ASSUME NEW b \in Mutations, WriteLater(c, b)
      PROVE  TypeOK'
  <2>s. tab' = [tab EXCEPT ![TabOf[c]] = Staging(tab[TabOf[c]], b)]
    BY <1>2 DEF WriteLater
  <2>1. tab' \in [Tabs -> TabStates]
    BY <1>t, <2>s, TabTypes, TabPut
  <2>2. [NoCall EXCEPT !.op = "flush"] \in Calls
    BY NoCallType DEF Calls, Ops
  <2>3. call' \in [Tasks -> Calls]
    BY <1>2, <2>2 DEF WriteLater, TypeOK
  <2>4. excuse' \in [Tabs -> SUBSET Keys]
    BY <1>2 DEF WriteLater, TypeOK
  <2> QED
    BY <1>2, <1>n, <2>1, <2>3, <2>4 DEF WriteLater, TypeOK
<1>3. ASSUME NEW k \in Keys, DeleteNothing(c, k)
      PROVE  TypeOK'
  BY <1>3, <1>n DEF DeleteNothing, TypeOK
<1>4. ASSUME NEW w \in TxWrites, Transact(c, w)
      PROVE  TypeOK'
  <2>1. [NoCall EXCEPT !.op = "transact", !.own = w] \in Calls
    BY NoCallType DEF Calls, Ops
  <2> QED
    BY <1>4, <1>n, <2>1 DEF Transact, TypeOK
<1>5. CASE Flush(c)
  <2>1. [NoCall EXCEPT !.op = "flush"] \in Calls
    BY NoCallType DEF Calls, Ops
  <2> QED
    BY <1>5, <1>n, <2>1 DEF Flush, TypeOK
<1>6. CASE Close(c)
  <2>1. [NoCall EXCEPT !.op = "close"] \in Calls
    BY NoCallType DEF Calls, Ops
  <2>2. tab' \in [Tabs -> TabStates]
    <3>1. CASE tab' = tab
      BY <3>1 DEF TypeOK
    <3>2. CASE tab' = [tab EXCEPT ![TabOf[c]] = Shutting(tab[TabOf[c]], TRUE)]
      BY <1>t, <3>2, TabTypes, TabPut
    <3> QED
      BY <1>6, <3>1, <3>2 DEF Close
  <2>3. call' \in [Tasks -> Calls]
    BY <1>6, <2>1 DEF Close, TypeOK
  <2>4. pc' \in [Tasks -> {"idle", "waiting", "closure", "building", "committing", "landed"}]
    BY <1>6 DEF Close, TypeOK
  <2> QED
    BY <1>6, <1>n, <2>2, <2>3, <2>4 DEF Close, TypeOK
<1> QED
  BY <1>1, <1>2, <1>3, <1>4, <1>5, <1>6 DEF Begin
LEMMA QuitTypes ==
  ASSUME TypeOK, NEW c \in Tasks, NEW b \in BOOLEAN, Quit(c, b)
  PROVE  /\ lock' \in [Tabs -> Tasks \cup {NoTask}]
         /\ pc' \in [Tasks -> {"idle", "waiting", "closure", "building", "committing", "landed"}]
         /\ call' \in [Tasks -> Calls]
BY NoCallType, EagerAssumption DEF Quit, TypeOK

LEMMA CommittedTypes ==
  ASSUME TypeOK, NEW c \in Tasks
  PROVE  /\ call[c] \in Calls /\ call[c].own \in WriteSets /\ call[c].taken \in WriteSets
         /\ Committed(c) \in WriteSets
         /\ Committed(c).does \in Effects
         /\ \A k \in Keys : Committed(c).does[k] =
              IF call[c].own.does[k] = Kept THEN call[c].taken.does[k] ELSE call[c].own.does[k]
         /\ Touched(Committed(c).does) = Touched(call[c].taken.does) \cup Touched(call[c].own.does)
<1>1. call[c] \in Calls
  BY DEF TypeOK
<1>2. call[c].own \in WriteSets /\ call[c].taken \in WriteSets
  BY <1>1 DEF Calls
<1>3. Committed(c) \in WriteSets
  BY <1>2, BothTogether DEF Committed
<1>4. Committed(c).does \in Effects
  BY <1>3 DEF WriteSets
<1> QED
  BY <1>1, <1>2, <1>3, <1>4, BothTogether DEF Committed

(* What hearing a message and mirroring a call make of a tab. *)
LEMMA AbsorbedType ==
  ASSUME NEW s \in TabStates, NEW n \in News, NEW S \in SUBSET Keys
  PROVE  Absorbed(s, n, S) \in TabStates
<1>1. Heeded(s.values, n, S) \in Contents
  BY DEF TabStates, Contents, Heeded
<1>2. s.dropped \in SUBSET Keys /\ s.local \in [Keys -> Nat] /\ NoClock \in [Keys -> Nat]
  BY DEF TabStates, NoClock
<1>3. n.epoch \in Nat /\ n.cleared \in BOOLEAN
  BY DEF News
<1>4. ((IF n.cleared THEN {} ELSE s.dropped) \ S) \cup {k \in S : n.does[k] = Changed} \in SUBSET Keys
  BY <1>2
<1> QED
  BY <1>1, <1>2, <1>3, <1>4 DEF Absorbed, TabStates

LEMMA MirroredType ==
  ASSUME NEW s \in TabStates, NEW w \in Calls
  PROVE  Mirrored(s, w) \in TabStates
<1>1. w.own.does \in Effects /\ w.own.cleared \in BOOLEAN
  BY DEF Calls, WriteSets
<1>2. s.values \in Contents /\ s.dropped \in SUBSET Keys
  BY DEF TabStates
<1>3. Then(s.values, w.own.does) \in Contents
  BY <1>1, <1>2, Applied
<1> QED
  BY <1>2, <1>3 DEF Mirrored, TabStates

LEMMA NotedType ==
  ASSUME NEW s \in TabStates, NEW n \in News
  PROVE  [s EXCEPT !.local = Noted(@, n)] \in TabStates
<1>1. Noted(s.local, n) \in [Keys -> Nat]
  BY DEF TabStates, News, Noted, NoClock
<1> QED
  BY <1>1 DEF TabStates

LEMMA CallTypes ==
  ASSUME TypeOK, NEW c \in Tasks,
         TakeLock(c) \/ Drain(c) \/ Built(c) \/ Fail(c) \/ Land(c) \/ Finish(c)
  PROVE  TypeOK'
<1> USE EagerAssumption
<1> DEFINE t == TabOf[c]
<1>t. t \in Tabs /\ tab[t] \in TabStates
  BY DEF TypeOK
<1>w. tab[t].staged \in WriteSets /\ tab[t].len \in Nat
  BY <1>t DEF TabStates
<1>c. call[c] \in Calls
  BY DEF TypeOK
<1>1. CASE TakeLock(c)
  BY <1>1 DEF TakeLock, TypeOK
<1>2. CASE Drain(c)
  <2>1. lock' \in [Tabs -> Tasks \cup {NoTask}]
    <3>1. CASE Quit(c, TRUE)
      BY <3>1, QuitTypes
    <3>2. CASE UNCHANGED lock
      BY <3>2 DEF TypeOK
    <3> QED
      BY <1>2, <3>1, <3>2 DEF Drain
  <2>2. pc' \in [Tasks -> {"idle", "waiting", "closure", "building", "committing", "landed"}]
    <3>1. CASE Quit(c, TRUE)
      BY <3>1, QuitTypes
    <3>2. CASE pc' = [pc EXCEPT ![c] = "building"]
      BY <3>2 DEF TypeOK
    <3> QED
      BY <1>2, <3>1, <3>2 DEF Drain
  <2>3. [call[c] EXCEPT !.taken = tab[t].staged, !.len = tab[t].len] \in Calls
    BY <1>w, <1>c DEF Calls
  <2>4. call' \in [Tasks -> Calls]
    <3>1. CASE Quit(c, TRUE)
      BY <3>1, QuitTypes
    <3>2. CASE call' = [call EXCEPT ![c].taken = tab[t].staged, ![c].len = tab[t].len]
      BY <3>2, <2>3 DEF TypeOK
    <3> QED
      BY <1>2, <3>1, <3>2 DEF Drain
  <2>5. tab' \in [Tabs -> TabStates]
    <3>1. Shutting(tab[t], TRUE) \in TabStates /\ [tab[t] EXCEPT !.staged = NoWrites, !.len = 0] \in TabStates
      BY <1>t, TabTypes
    <3>2. \/ tab' = [tab EXCEPT ![t] = Shutting(tab[t], TRUE)]
          \/ tab' = tab
          \/ tab' = [tab EXCEPT ![t] = [tab[t] EXCEPT !.staged = NoWrites, !.len = 0]]
      BY <1>2, <1>t DEF Drain, TypeOK
    <3> QED
      BY <3>1, <3>2, <1>t DEF TypeOK
  <2> QED
    BY <1>2, <2>1, <2>2, <2>4, <2>5 DEF Drain, TypeOK
<1>3. CASE Built(c)
  <2>1. Commence(c, call[c])
    BY <1>3 DEF Built
  <2>2. tab' \in [Tabs -> TabStates] /\ call' \in [Tasks -> Calls]
    BY <1>c, <2>1, CommenceTypes
  <2> QED
    BY <1>3, <2>1, <2>2 DEF Built, TypeOK, Commence
<1>4. CASE Fail(c)
  <2>1. Restage(tab[t], call[c]) \in TabStates
    BY <1>t, <1>c, TabTypes
  <2>2. Shutting(Restage(tab[t], call[c]), FALSE) \in TabStates
    BY <2>1, TabTypes
  <2>3. \/ tab' = [tab EXCEPT ![t] = Shutting(Restage(tab[t], call[c]), FALSE)]
        \/ tab' = [tab EXCEPT ![t] = Restage(tab[t], call[c])]
    BY <1>4 DEF Fail
  <2>4. tab' \in [Tabs -> TabStates]
    BY <1>t, <2>1, <2>2, <2>3 DEF TypeOK
  <2>5. faults' \in 0..MaxFaults
    BY <1>4 DEF Fail, TypeOK
  <2>6. Quit(c, FALSE)
    BY <1>4 DEF Fail
  <2> QED
    BY <1>4, <2>4, <2>5, <2>6, QuitTypes DEF Fail, TypeOK
<1>5. CASE Land(c)
  <2> DEFINE keys == Touched(Committed(c).does)
  <2>1. keys \in SUBSET Keys
    BY DEF Touched
  <2>2. store' \in StoredContents
    BY <1>5, CommittedTypes, Applied DEF Land, TypeOK
  <2>3. chan' \in [Tabs -> [Tabs -> Seq(News)]]
    BY <1>5, <2>1, ChanTypes DEF Land, TypeOK, Chans
  <2>4. call' \in [Tasks -> Calls]
    <3>1. \A d \in Tasks : [call[d] EXCEPT !.late = @ \cup keys] \in Calls
      BY <2>1 DEF TypeOK, Calls
    <3> QED
      BY <1>5, <3>1 DEF Land, TypeOK
  <2>5. excuse' \in [Tabs -> SUBSET Keys]
    BY <1>5, <2>1 DEF Land, TypeOK
  <2> QED
    BY <1>5, <2>2, <2>3, <2>4, <2>5 DEF Land, TypeOK
<1>6. CASE Finish(c)
  <2> DEFINE n == NewsOf(Committed(c), call[c].epoch, call[c].late)
             after == Mirrored([tab[t] EXCEPT !.local = Noted(@, n)], call[c])
  <2>1. n \in News
    BY <1>c, CommittedTypes, NewsTypes DEF Calls
  <2>2. after \in TabStates
    BY <2>1, <1>t, <1>c, NotedType, MirroredType
  <2>3. tab' = [tab EXCEPT ![t] = IF call[c].op = "close" THEN Shutting(after, TRUE) ELSE after]
    BY <1>6 DEF Finish
  <2>4. tab' \in [Tabs -> TabStates]
    BY <1>t, <2>2, <2>3, TabTypes, TabPut
  <2>5. chan' \in [Tabs -> [Tabs -> Seq(News)]]
    <3>1. Posted(chan, t, n, Listening) \in Chans
      BY <1>t, <2>1, ChanTypes DEF TypeOK, Chans
    <3>2. chan' = chan \/ chan' = Posted(chan, t, n, Listening)
      BY <1>6 DEF Finish
    <3> QED
      BY <3>1, <3>2 DEF TypeOK, Chans
  <2>6. faults' \in 0..MaxFaults
    BY <1>6 DEF Finish, TypeOK
  <2>7. excuse' \in [Tabs -> SUBSET Keys]
    <3>1. Touched(Committed(c).does) \in SUBSET Keys /\ Touched(call[c].own.does) \in SUBSET Keys
      BY DEF Touched
    <3> QED
      BY <1>6, <3>1 DEF Finish, TypeOK
  <2>8. Quit(c, TRUE)
    BY <1>6 DEF Finish
  <2> QED
    BY <1>6, <2>4, <2>5, <2>6, <2>7, <2>8, QuitTypes DEF Finish, TypeOK
<1> QED
  BY <1>1, <1>2, <1>3, <1>4, <1>5, <1>6

LEMMA TabStepTypes ==
  ASSUME TypeOK, NEW t \in Tabs,
         Load(t) \/ JoinCoherence(t) \/ EndTab(t) \/ \E s \in Tabs : Hear(s, t)
  PROVE  TypeOK'
<1> USE EagerAssumption
<1>t. tab[t] \in TabStates
  BY DEF TypeOK
<1>1. CASE Load(t)
  <2>1. [k \in Keys |-> IF store[k] = Junk THEN Gone ELSE store[k]] \in Contents
    BY DEF TypeOK, StoredContents, Contents
  <2>2. NoClock \in [Keys -> Nat]
    BY DEF NoClock
  <2>3. tab'[t] \in TabStates /\ tab' \in [Tabs -> TabStates]
    BY <1>1, <1>t, <2>1, <2>2, NothingWritten DEF Load, TypeOK, TabStates
  <2> QED
    BY <1>1, <2>3 DEF Load, TypeOK
<1>2. CASE JoinCoherence(t)
  <2>1. [tab[t] EXCEPT !.phase = "open"] \in TabStates
    BY <1>t DEF TabStates
  <2>2. tab' = [tab EXCEPT ![t] = [tab[t] EXCEPT !.phase = "open"]]
    BY <1>2 DEF JoinCoherence
  <2>3. tab' \in [Tabs -> TabStates]
    BY <2>1, <2>2, TabPut
  <2> QED
    BY <1>2, <2>3 DEF JoinCoherence, TypeOK
<1>3. CASE EndTab(t)
  <2>1. [tab[t] EXCEPT !.phase = "shut", !.epoch = 0] \in TabStates
    BY <1>t DEF TabStates
  <2>2. tab' \in [Tabs -> TabStates]
    BY <1>3, <2>1, TabPut DEF EndTab
  <2>3. chan' \in [Tabs -> [Tabs -> Seq(News)]]
    BY <1>3, ChanTypes DEF EndTab, TypeOK, Chans
  <2>4. call' \in [Tasks -> Calls] /\ lock' \in [Tabs -> Tasks \cup {NoTask}]
    BY <1>3, NoCallType DEF EndTab, TypeOK
  <2>5. excuse' \in [Tabs -> SUBSET Keys]
    BY <1>3 DEF EndTab, TypeOK, Touched
  <2>6. faults' \in 0..MaxFaults
    BY <1>3 DEF EndTab, TypeOK
  <2> QED
    BY <1>3, <2>2, <2>3, <2>4, <2>5, <2>6 DEF EndTab, TypeOK
<1>4. ASSUME NEW s \in Tabs, Hear(s, t)
      PROVE  TypeOK'
  <2> DEFINE n == Head(chan[s][t])
  <2>1. n \in News
    <3>1. chan[s][t] \in Seq(News)
      BY DEF TypeOK
    <3>2. chan[s][t] # <<>>
      BY <1>4 DEF Hear
    <3> QED
      BY <3>1, <3>2
  <2>2. Named(n) \in SUBSET Keys /\ Covered(n) \in SUBSET Keys
    BY DEF Named, Covered, Touched
  <2>3. \A S \in SUBSET Keys : Absorbed(tab[t], n, S) \in TabStates
    BY <1>t, <2>1, AbsorbedType
  <2>4. tab' \in [Tabs -> TabStates]
    <3>1. \/ tab' = tab
          \/ tab' = [tab EXCEPT ![t] = Absorbed(tab[t], n, Named(n) \ OwnNewer(tab[t], n))]
      BY <1>4 DEF Hear
    <3>2. Absorbed(tab[t], n, Named(n) \ OwnNewer(tab[t], n)) \in TabStates
      BY <2>2, <2>3
    <3> QED
      BY <3>1, <3>2, TabPut DEF TypeOK
  <2>5. excuse' \in [Tabs -> SUBSET Keys]
    <3>1. OwnNewer(tab[t], n) \in SUBSET Keys /\ Touched(Unlanded(t).does) \in SUBSET Keys
      BY <2>2 DEF OwnNewer, Touched
    <3>2. n.late \in SUBSET Keys
      BY <2>1 DEF News
    <3>3. PICK S \in SUBSET Keys : excuse' = excuse \/ excuse' = [excuse EXCEPT ![t] = S]
      <4>1. excuse[t] \in SUBSET Keys
        BY DEF TypeOK
      <4> DEFINE own == OwnNewer(tab[t], n)
                 heard == Covered(n) \ own
                 ordered == {k \in Named(n) : ~n.cleared /\ n.epoch <= tab[t].local[k]}
                 A == excuse[t] \cup (Covered(n) \ n.late)
                 B == (excuse[t] \ heard) \cup (own \ n.late)
                      \cup (heard \cap ((n.late \ ordered) \cup Touched(Unlanded(t).does)))
      <4>2. A \in SUBSET Keys /\ B \in SUBSET Keys
        BY <4>1, <2>2, <3>1, <3>2
      <4>3. excuse' = excuse \/ excuse' = [excuse EXCEPT ![t] = A] \/ excuse' = [excuse EXCEPT ![t] = B]
        BY <1>4 DEF Hear
      <4> HIDE DEF A, B
      <4> QED
        BY <4>2, <4>3
    <3> QED
      BY <3>3 DEF TypeOK
  <2>6. chan' \in [Tabs -> [Tabs -> Seq(News)]]
    BY <1>4, ChanTypes DEF Hear, TypeOK, Chans
  <2> QED
    BY <1>4, <2>4, <2>5, <2>6 DEF Hear, TypeOK
<1> QED
  BY <1>1, <1>2, <1>3, <1>4

LEMMA StepTypes ==
  ASSUME TypeOK, Next
  PROVE  TypeOK'
BY BeginTypes, CallTypes, TabStepTypes DEF Next
-----------------------------------------------------------------------------
(* The lock, and what is drained under it. *)

(* What the beginning of a call writes: its own place, call and tab.       *)
LEMMA BeginShape ==
  ASSUME NEW c \in Tasks, Begin(c)
  PROVE  /\ lock' = lock
         /\ tab' = tab \/ \E s : tab' = [tab EXCEPT ![TabOf[c]] = s]
         /\ \/ pc' = pc /\ call' = call
            \/ \E p \in {"waiting", "committing"} : \E w :
                 pc' = [pc EXCEPT ![c] = p] /\ call' = [call EXCEPT ![c] = w]
<1>1. lock' = lock
  BY DEF Begin, WriteNow, WriteLater, DeleteNothing, Transact, Flush, Close
<1>2. tab' = tab \/ \E s : tab' = [tab EXCEPT ![TabOf[c]] = s]
  BY DEF Begin, WriteNow, WriteLater, DeleteNothing, Transact, Flush, Close, Commence
<1>3. \/ pc' = pc /\ call' = call
      \/ \E p \in {"waiting", "committing"} : \E w :
           pc' = [pc EXCEPT ![c] = p] /\ call' = [call EXCEPT ![c] = w]
  BY DEF Begin, WriteNow, WriteLater, DeleteNothing, Transact, Flush, Close, Commence
<1> QED
  BY <1>1, <1>2, <1>3

(* What a call's step leaves alone: other calls, but for the keys they are *)
(* late on, and other tabs.                                                *)
LEMMA CallFrame ==
  ASSUME TypeOK, NEW c \in Tasks,
         Begin(c) \/ TakeLock(c) \/ Drain(c) \/ Built(c) \/ Fail(c) \/ Land(c) \/ Finish(c)
  PROVE  /\ \A d \in Tasks \ {c} :
              /\ pc'[d] = pc[d] /\ call'[d].op = call[d].op
              /\ call'[d].own = call[d].own /\ call'[d].taken = call[d].taken
         /\ \A s \in Tabs \ {TabOf[c]} : lock'[s] = lock[s] /\ tab'[s] = tab[s]
<1>t. TabOf[c] \in Tabs
  BY EagerAssumption
<1>1. CASE Begin(c)
  <2>1. \A d \in Tasks \ {c} : pc'[d] = pc[d] /\ call'[d] = call[d]
    BY <1>1, BeginShape DEF TypeOK
  <2>2. \A s \in Tabs \ {TabOf[c]} : lock'[s] = lock[s] /\ tab'[s] = tab[s]
    BY <1>1, BeginShape DEF TypeOK
  <2> QED
    BY <2>1, <2>2
<1>2. CASE TakeLock(c) \/ Drain(c)
  BY <1>2, <1>t DEF TakeLock, Drain, Quit, TypeOK
<1>3. CASE Built(c) \/ Fail(c)
  BY <1>3, <1>t DEF Built, Commence, Fail, Quit, TypeOK
<1>4. CASE Land(c)
  <2>1. \A d \in Tasks : call[d] \in Calls
    BY DEF TypeOK
  <2>2. \A d \in Tasks : call'[d] = call[d]
          \/ call'[d] = [call[d] EXCEPT !.late = @ \cup Touched(Committed(c).does)]
    BY <1>4 DEF Land
  <2> QED
    BY <1>4, <2>1, <2>2 DEF Land, TypeOK, Calls
<1>5. CASE Finish(c)
  BY <1>5, <1>t DEF Finish, Quit, TypeOK
<1> QED
  BY <1>1, <1>2, <1>3, <1>4, <1>5

(* What it does to its own call and lock. *)
LEMMA CallOwn ==
  ASSUME TypeOK, LockHeld, NEW c \in Tasks
  PROVE  /\ Begin(c) =>
              /\ pc[c] = "idle" /\ lock' = lock
              /\ \/ pc'[c] = "idle" /\ call' = call
                 \/ pc'[c] = "waiting" /\ call'[c].taken = NoWrites /\ call'[c].op # "write"
                 \/ /\ pc'[c] = "committing" /\ call'[c].taken = NoWrites
                    /\ call'[c].op = "write" /\ ~Deferred(TabOf[c])
         /\ TakeLock(c) =>
              /\ pc[c] = "waiting" /\ lock[TabOf[c]] = NoTask /\ lock'[TabOf[c]] = c
              /\ pc'[c] = "closure" /\ call' = call
         /\ Drain(c) =>
              /\ pc[c] = "closure"
              /\ \/ /\ pc'[c] = "building" /\ lock' = lock
                    /\ call'[c].op = call[c].op /\ call'[c].own = call[c].own
                    /\ call'[c].taken = tab[TabOf[c]].staged
                 \/ /\ pc'[c] = "idle" /\ lock'[TabOf[c]] = NoTask /\ call'[c] = NoCall
         /\ Built(c) =>
              /\ pc[c] = "building" /\ pc'[c] = "committing" /\ lock' = lock
              /\ call'[c].op = call[c].op /\ call'[c].own = call[c].own
              /\ call'[c].taken = call[c].taken
         /\ Land(c) =>
              /\ pc[c] = "committing" /\ pc'[c] = "landed" /\ lock' = lock
              /\ call'[c] = call[c]
         /\ Fail(c) \/ Finish(c) =>
              /\ pc[c] \in {"closure", "building", "committing", "landed"}
              /\ pc'[c] = "idle" /\ call'[c] = NoCall
              /\ lock'[TabOf[c]] = IF lock[TabOf[c]] = c THEN NoTask ELSE lock[TabOf[c]]
<1>t. TabOf[c] \in Tabs /\ call[c] \in Calls
  BY EagerAssumption DEF TypeOK
<1>1. ASSUME Begin(c)
      PROVE  /\ pc[c] = "idle" /\ lock' = lock
             /\ \/ pc'[c] = "idle" /\ call' = call
                \/ pc'[c] = "waiting" /\ call'[c].taken = NoWrites /\ call'[c].op # "write"
                \/ /\ pc'[c] = "committing" /\ call'[c].taken = NoWrites
                   /\ call'[c].op = "write" /\ ~Deferred(TabOf[c])
  <2>1. NoCall \in Calls /\ NoCall.op = "flush" /\ NoCall.taken = NoWrites
    BY NoCallType
  <2>2. ASSUME NEW b \in Mutations, WriteNow(c, b)
        PROVE  /\ pc'[c] = "committing" /\ call'[c].taken = NoWrites
               /\ call'[c].op = "write" /\ ~Deferred(TabOf[c])
               /\ pc[c] = "idle" /\ lock' = lock
    BY <1>t, <2>1, <2>2 DEF WriteNow, Begins, Commence, TypeOK, Calls
  <2>3. ASSUME NEW b \in Mutations, WriteLater(c, b)
        PROVE  /\ \/ pc'[c] = "idle" /\ call' = call
                  \/ pc'[c] = "waiting" /\ call'[c].taken = NoWrites /\ call'[c].op # "write"
               /\ pc[c] = "idle" /\ lock' = lock
    BY <1>t, <2>1, <2>3 DEF WriteLater, Begins, TypeOK, Calls
  <2>4. ASSUME NEW k \in Keys, DeleteNothing(c, k)
        PROVE  pc[c] = "idle" /\ pc'[c] = "idle" /\ call' = call /\ lock' = lock
    BY <2>4 DEF DeleteNothing, Begins
  <2>5. ASSUME NEW w \in TxWrites, Transact(c, w)
        PROVE  /\ pc'[c] = "waiting" /\ call'[c].taken = NoWrites /\ call'[c].op # "write"
               /\ pc[c] = "idle" /\ lock' = lock
    BY <1>t, <2>1, <2>5 DEF Transact, Begins, TypeOK, Calls
  <2>6. CASE Flush(c)
    BY <1>t, <2>1, <2>6 DEF Flush, Begins, TypeOK, Calls
  <2>7. CASE Close(c)
    <3>1. CASE pc' = [pc EXCEPT ![c] = "waiting"] /\ call' = [call EXCEPT ![c] = [NoCall EXCEPT !.op = "close"]]
      BY <1>t, <2>1, <2>7, <3>1 DEF Close, Begins, TypeOK, Calls
    <3>2. CASE UNCHANGED <<pc, call>>
      BY <2>7, <3>2 DEF Close, Begins
    <3> QED
      BY <2>7, <3>1, <3>2 DEF Close
  <2> QED
    BY <1>1, <2>2, <2>3, <2>4, <2>5, <2>6, <2>7 DEF Begin
<1>2. TakeLock(c) =>
        /\ pc[c] = "waiting" /\ lock[TabOf[c]] = NoTask /\ lock'[TabOf[c]] = c
        /\ pc'[c] = "closure" /\ call' = call
  BY <1>t DEF TakeLock, TypeOK
<1>3. ASSUME Drain(c)
      PROVE  /\ pc[c] = "closure"
             /\ \/ /\ pc'[c] = "building" /\ lock' = lock
                   /\ call'[c].op = call[c].op /\ call'[c].own = call[c].own
                   /\ call'[c].taken = tab[TabOf[c]].staged
                \/ /\ pc'[c] = "idle" /\ lock'[TabOf[c]] = NoTask /\ call'[c] = NoCall
  <2>1. pc[c] = "closure" /\ lock[TabOf[c]] = c
    <3>1. call[c].op # "write" /\ pc[c] = "closure"
      BY <1>3 DEF Drain, LockHeld
    <3> QED
      BY <3>1 DEF LockHeld
  <2>2. CASE Quit(c, TRUE)
    BY <1>t, <2>1, <2>2 DEF Quit, TypeOK
  <2>3. CASE /\ call' = [call EXCEPT ![c].taken = tab[TabOf[c]].staged, ![c].len = tab[TabOf[c]].len]
             /\ pc' = [pc EXCEPT ![c] = "building"] /\ lock' = lock
    BY <1>t, <2>1, <2>3 DEF TypeOK, Calls
  <2> QED
    BY <1>3, <2>1, <2>2, <2>3 DEF Drain
<1>4. Built(c) =>
        /\ pc[c] = "building" /\ pc'[c] = "committing" /\ lock' = lock
        /\ call'[c].op = call[c].op /\ call'[c].own = call[c].own
        /\ call'[c].taken = call[c].taken
  BY <1>t DEF Built, Commence, TypeOK, Calls
<1>5. Land(c) => /\ pc[c] = "committing" /\ pc'[c] = "landed" /\ lock' = lock
                 /\ call'[c] = call[c]
  BY <1>t DEF Land, TypeOK
<1>6. Fail(c) \/ Finish(c) =>
        /\ pc[c] \in {"closure", "building", "committing", "landed"}
        /\ pc'[c] = "idle" /\ call'[c] = NoCall
        /\ lock'[TabOf[c]] = IF lock[TabOf[c]] = c THEN NoTask ELSE lock[TabOf[c]]
  BY <1>t DEF Fail, Finish, Quit, TypeOK
<1> QED
  BY <1>1, <1>2, <1>3, <1>4, <1>5, <1>6
LEMMA CallLock ==
  ASSUME TypeOK, LockHeld, NEW c \in Tasks,
         Begin(c) \/ TakeLock(c) \/ Drain(c) \/ Built(c) \/ Fail(c) \/ Land(c) \/ Finish(c)
  PROVE  LockHeld'
<1>t. TabOf \in [Tasks -> Tabs] /\ NoTask \notin Tasks
  BY EagerAssumption
<1>1. \A s \in Tabs : lock[s] \in Tasks \cup {NoTask}
  BY DEF TypeOK
<1>f. /\ \A d \in Tasks \ {c} : /\ pc'[d] = pc[d] /\ call'[d].op = call[d].op
                                /\ call'[d].taken = call[d].taken
      /\ \A s \in Tabs \ {TabOf[c]} : lock'[s] = lock[s]
  BY CallFrame
<1>2. CASE Begin(c)
  <2>1. /\ pc[c] = "idle" /\ lock' = lock
        /\ \/ pc'[c] = "idle" /\ call' = call
           \/ pc'[c] = "waiting" /\ call'[c].taken = NoWrites /\ call'[c].op # "write"
           \/ pc'[c] = "committing" /\ call'[c].taken = NoWrites /\ call'[c].op = "write"
    BY <1>2, CallOwn
  <2> QED
    BY <1>t, <1>1, <1>f, <2>1 DEF LockHeld
<1>3. CASE TakeLock(c)
  <2>1. /\ pc[c] = "waiting" /\ lock[TabOf[c]] = NoTask /\ lock'[TabOf[c]] = c
        /\ pc'[c] = "closure" /\ call' = call
    BY <1>3, CallOwn
  <2> QED
    BY <1>t, <1>1, <1>f, <2>1 DEF LockHeld
<1>4. CASE Drain(c)
  <2>1. /\ pc[c] = "closure"
        /\ \/ /\ pc'[c] = "building" /\ lock' = lock
              /\ call'[c].op = call[c].op
           \/ pc'[c] = "idle" /\ lock'[TabOf[c]] = NoTask /\ call'[c] = NoCall
    BY <1>4, CallOwn
  <2>2. lock[TabOf[c]] = c
    BY <2>1 DEF LockHeld
  <2> QED
    BY <1>t, <1>1, <1>f, <2>1, <2>2, NoCallType DEF LockHeld
<1>5. CASE Built(c)
  <2>1. /\ pc[c] = "building" /\ pc'[c] = "committing" /\ lock' = lock
        /\ call'[c].op = call[c].op /\ call'[c].taken = call[c].taken
    BY <1>5, CallOwn
  <2> QED
    BY <1>t, <1>1, <1>f, <2>1 DEF LockHeld
<1>6. CASE Land(c)
  <2>1. /\ pc[c] = "committing" /\ pc'[c] = "landed" /\ lock' = lock /\ call'[c] = call[c]
    BY <1>6, CallOwn
  <2> QED
    BY <1>t, <1>1, <1>f, <2>1 DEF LockHeld
<1>7. CASE Fail(c) \/ Finish(c)
  <2>1. /\ pc[c] \in {"closure", "building", "committing", "landed"}
        /\ pc'[c] = "idle" /\ call'[c] = NoCall
        /\ lock'[TabOf[c]] = IF lock[TabOf[c]] = c THEN NoTask ELSE lock[TabOf[c]]
    BY <1>7, CallOwn
  <2> QED
    BY <1>t, <1>1, <1>f, <2>1, NoCallType DEF LockHeld
<1> QED
  BY <1>2, <1>3, <1>4, <1>5, <1>6, <1>7

(* A tab's own steps: its calls go when it ends, and only then.            *)
LEMMA TabLock ==
  ASSUME TypeOK, LockHeld, NEW t \in Tabs,
         Load(t) \/ JoinCoherence(t) \/ EndTab(t) \/ \E s \in Tabs : Hear(s, t)
  PROVE  LockHeld'
<1>t. TabOf \in [Tasks -> Tabs] /\ NoTask \notin Tasks
  BY EagerAssumption
<1>1. CASE Load(t) \/ JoinCoherence(t) \/ \E s \in Tabs : Hear(s, t)
  <2>1. UNCHANGED <<pc, call, lock>>
    BY <1>1 DEF Load, JoinCoherence, Hear
  <2> QED
    BY <2>1 DEF LockHeld
<1>2. CASE EndTab(t)
  <2>1. /\ \A c \in Tasks : IF TabOf[c] = t THEN pc'[c] = "idle" /\ call'[c] = NoCall
                                            ELSE pc'[c] = pc[c] /\ call'[c] = call[c]
        /\ \A s \in Tabs : lock'[s] = IF s = t THEN NoTask ELSE lock[s]
    BY <1>2 DEF EndTab, Mine, TypeOK
  <2>2. \A s \in Tabs : lock[s] \in Tasks \cup {NoTask}
    BY DEF TypeOK
  <2> QED
    BY <1>t, <2>1, <2>2, NoCallType DEF LockHeld
<1> QED
  BY <1>1, <1>2
LEMMA BothNothing == Both(NoWrites, NoWrites) = NoWrites
<1>1. Then(NoEffect, NoEffect) = NoEffect
  BY DEF Then, NoEffect
<1> QED
  BY <1>1 DEF Both, NoWrites

(* What a step may make of a tab's batch and of the tab's state.           *)
LEMMA CallTab ==
  ASSUME TypeOK, LoadsAlone, NEW c \in Tasks,
         Begin(c) \/ TakeLock(c) \/ Drain(c) \/ Built(c) \/ Fail(c) \/ Land(c) \/ Finish(c)
  PROVE  LET t == TabOf[c] IN
         /\ tab'[t].after = tab[t].after
         /\ tab[t].phase \in {"open", "closed"}
         /\ tab'[t].phase = tab[t].phase \/ tab'[t].phase = "closed"
         /\ \/ tab'[t].staged \in {tab[t].staged, NoWrites, Both(call[c].taken, tab[t].staged)}
            \/ Deferred(t)
<1> DEFINE t == TabOf[c]
<1>t. t \in Tabs /\ tab[t] \in TabStates /\ tab \in [Tabs -> TabStates]
  BY EagerAssumption DEF TypeOK
<1>0. c \in Mine(t)
  BY DEF Mine
<1>1. CASE Begin(c)
  <2>1. tab[t].phase \in {"open", "closed"}
    BY <1>1 DEF Begin, WriteNow, WriteLater, DeleteNothing, Transact, Flush, Close, StillOpen
  <2>2. ASSUME NEW b \in Mutations, WriteNow(c, b)
        PROVE  /\ tab'[t].after = tab[t].after /\ tab'[t].phase = tab[t].phase
               /\ tab'[t].staged = tab[t].staged
    BY <1>t, <2>2 DEF WriteNow, Commence, TabStates
  <2>3. ASSUME NEW b \in Mutations, WriteLater(c, b)
        PROVE  tab'[t].after = tab[t].after /\ tab'[t].phase = tab[t].phase /\ Deferred(t)
    <3>1. tab'[t] = Staging(tab[t], b)
      BY <1>t, <2>3 DEF WriteLater
    <3> QED
      BY <1>t, <2>3, <3>1 DEF WriteLater, Staging, TabStates
  <2>4. CASE Close(c)
    <3>1. tab' = tab \/ tab'[t] = Shutting(tab[t], TRUE)
      BY <1>t, <2>4 DEF Close
    <3> QED
      BY <1>t, <2>1, <3>1 DEF Shutting, TabStates
  <2>5. CASE Flush(c) \/ (\E k \in Keys : DeleteNothing(c, k)) \/ \E w \in TxWrites : Transact(c, w)
    BY <2>1, <2>5 DEF Flush, DeleteNothing, Transact
  <2> QED
    BY <1>1, <2>1, <2>2, <2>3, <2>4, <2>5 DEF Begin
<1>2. ASSUME ~Begin(c)
      PROVE  tab[t].phase \in {"open", "closed"}
  <2>1. pc[c] # "idle"
    BY <1>2 DEF TakeLock, Drain, Built, Fail, Land, Finish
  <2> QED
    BY <1>t, <1>0, <2>1 DEF LoadsAlone, TabStates
<1>3. CASE TakeLock(c) \/ Land(c)
  BY <1>2, <1>3, <1>1 DEF TakeLock, Land
<1>4. CASE Drain(c)
  <2>1. \/ tab'[t] = Shutting(tab[t], TRUE)
        \/ tab' = tab
        \/ tab'[t] = [tab[t] EXCEPT !.staged = NoWrites, !.len = 0]
    BY <1>4, <1>t DEF Drain
  <2> QED
    BY <1>1, <1>2, <1>t, <2>1 DEF Shutting, TabStates
<1>5. CASE Built(c)
  BY <1>1, <1>2, <1>5, <1>t DEF Built, Commence, TabStates
<1>6. CASE Fail(c)
  <2>1. \/ tab'[t] = Shutting(Restage(tab[t], call[c]), FALSE)
        \/ tab'[t] = Restage(tab[t], call[c])
    BY <1>6, <1>t DEF Fail
  <2> QED
    BY <1>1, <1>2, <1>t, <2>1 DEF Shutting, Restage, TabStates
<1>7. CASE Finish(c)
  <2>1. PICK n : LET after == Mirrored([tab[t] EXCEPT !.local = Noted(@, n)], call[c]) IN
                 tab'[t] = IF call[c].op = "close" THEN Shutting(after, TRUE) ELSE after
    BY <1>7, <1>t DEF Finish
  <2> QED
    BY <1>1, <1>2, <1>t, <2>1 DEF Shutting, Mirrored, TabStates
<1> QED
  BY <1>1, <1>3, <1>4, <1>5, <1>6, <1>7

LEMMA HearTab ==
  ASSUME TypeOK, NEW s \in Tabs, NEW t \in Tabs, Hear(s, t)
  PROVE  /\ tab'[t].after = tab[t].after /\ tab'[t].staged = tab[t].staged
         /\ tab'[t].phase = tab[t].phase
         /\ \A r \in Tabs \ {t} : tab'[r] = tab[r]
<1>t. tab[t] \in TabStates /\ tab \in [Tabs -> TabStates]
  BY DEF TypeOK
<1> DEFINE n == Head(chan[s][t])
           a == Absorbed(tab[t], n, Named(n) \ OwnNewer(tab[t], n))
<1>1. tab' = tab \/ tab' = [tab EXCEPT ![t] = a]
  BY DEF Hear
<1>2. a.after = tab[t].after /\ a.staged = tab[t].staged /\ a.phase = tab[t].phase
  BY <1>t DEF Absorbed, TabStates
<1> HIDE DEF a
<1> QED
  BY <1>t, <1>1, <1>2

LEMMA TabTab ==
  ASSUME TypeOK, NEW t \in Tabs,
         Load(t) \/ JoinCoherence(t) \/ EndTab(t) \/ \E s \in Tabs : Hear(s, t)
  PROVE  /\ tab'[t].after = tab[t].after
         /\ tab'[t].staged = tab[t].staged \/ tab'[t].staged = NoWrites
         /\ \A s \in Tabs \ {t} : tab'[s] = tab[s]
<1>t. tab[t] \in TabStates /\ tab \in [Tabs -> TabStates]
  BY DEF TypeOK
<1>1. CASE Load(t)
  BY <1>1, <1>t DEF Load, TabStates
<1>2. CASE JoinCoherence(t)
  BY <1>2, <1>t DEF JoinCoherence, TabStates
<1>3. CASE EndTab(t)
  BY <1>3, <1>t DEF EndTab, TabStates
<1> QED
  BY <1>1, <1>2, <1>3, HearTab

LEMMA CallStages ==
  ASSUME TypeOK, LockHeld, LoadsAlone, StagesWhenDeferred, NEW c \in Tasks,
         Begin(c) \/ TakeLock(c) \/ Drain(c) \/ Built(c) \/ Fail(c) \/ Land(c) \/ Finish(c)
  PROVE  StagesWhenDeferred' /\ LoadsAlone'
<1> DEFINE t == TabOf[c]
<1>t. TabOf \in [Tasks -> Tabs] /\ t \in Tabs
  BY EagerAssumption
<1>1. /\ tab'[t].after = tab[t].after
      /\ tab[t].phase \in {"open", "closed"}
      /\ tab'[t].phase = tab[t].phase \/ tab'[t].phase = "closed"
      /\ \/ tab'[t].staged \in {tab[t].staged, NoWrites, Both(call[c].taken, tab[t].staged)}
         \/ Deferred(t)
  BY CallTab
<1>2. /\ \A d \in Tasks \ {c} : /\ pc'[d] = pc[d] /\ call'[d].op = call[d].op
                                /\ call'[d].taken = call[d].taken
      /\ \A s \in Tabs \ {t} : tab'[s] = tab[s]
  BY CallFrame
<1>3. \A s \in Tabs : tab'[s].after = tab[s].after /\ (Deferred(s)' <=> Deferred(s))
  BY <1>1, <1>2 DEF Deferred
<1>4. \A s \in Tabs : ~Deferred(s)' => tab'[s].staged = NoWrites
  BY <1>t, <1>1, <1>2, <1>3, BothNothing DEF StagesWhenDeferred
<1>5. IF Deferred(t) THEN call'[c].op # "write" ELSE call'[c].taken = NoWrites
  <2>1. \/ call'[c] = NoCall
        \/ call'[c].op = call[c].op /\ call'[c].taken = call[c].taken
        \/ call'[c].op = call[c].op /\ call'[c].taken = tab[t].staged
        \/ call'[c].op # "write" /\ call'[c].taken = NoWrites
        \/ ~Deferred(t) /\ call'[c].taken = NoWrites
    BY CallOwn
  <2> QED
    BY <1>t, <2>1, NoCallType DEF StagesWhenDeferred
<1>6. \A d \in Tasks : IF Deferred(TabOf[d])' THEN call'[d].op # "write"
                                              ELSE call'[d].taken = NoWrites
  BY <1>t, <1>2, <1>3, <1>5 DEF StagesWhenDeferred
<1>7. StagesWhenDeferred'
  BY <1>4, <1>6 DEF StagesWhenDeferred
<1>8. LoadsAlone'
  <2>1. tab'[t].phase \notin {"shut", "loading"}
    BY <1>1
  <2> QED
    BY <1>t, <1>2, <2>1 DEF LoadsAlone, Mine
<1> QED
  BY <1>7, <1>8

LEMMA TabStages ==
  ASSUME TypeOK, LoadsAlone, StagesWhenDeferred, NEW t \in Tabs,
         Load(t) \/ JoinCoherence(t) \/ EndTab(t) \/ \E s \in Tabs : Hear(s, t)
  PROVE  StagesWhenDeferred' /\ LoadsAlone'
<1>t. tab[t] \in TabStates /\ tab \in [Tabs -> TabStates] /\ TabOf \in [Tasks -> Tabs]
  BY EagerAssumption DEF TypeOK
<1>1. /\ tab'[t].after = tab[t].after
      /\ tab'[t].staged = tab[t].staged \/ tab'[t].staged = NoWrites
      /\ \A s \in Tabs \ {t} : tab'[s] = tab[s]
  BY TabTab
<1>2. \A s \in Tabs : Deferred(s)' <=> Deferred(s)
  BY <1>1 DEF Deferred
<1>e. EndTab(t) => \A c \in Tasks : IF TabOf[c] = t THEN pc'[c] = "idle" /\ call'[c] = NoCall
                                              ELSE pc'[c] = pc[c] /\ call'[c] = call[c]
  BY DEF EndTab, Mine
<1>o. EndTab(t) \/ (pc' = pc /\ call' = call)
  BY DEF Load, JoinCoherence, Hear
<1>3. \A c \in Tasks : \/ pc'[c] = pc[c] /\ call'[c] = call[c]
                       \/ pc'[c] = "idle" /\ call'[c] = NoCall
  BY <1>e, <1>o
<1>4. StagesWhenDeferred'
  BY <1>t, <1>1, <1>2, <1>3, NoCallType DEF StagesWhenDeferred
<1>5. CASE EndTab(t)
  <2>1. tab'[t].phase = "shut"
    BY <1>5, <1>t DEF EndTab, TabStates
  <2> QED
    BY <1>1, <1>3, <1>4, <1>5, <1>e, <2>1 DEF LoadsAlone, Mine
<1>6. CASE Load(t)
  <2>1. tab'[t].staged = NoWrites /\ \A c \in Mine(t) : pc[c] = "idle"
    BY <1>6, <1>t DEF Load, TabStates
  <2> QED
    BY <1>1, <1>3, <1>4, <2>1 DEF LoadsAlone, Mine
<1>7. CASE JoinCoherence(t) \/ \E s \in Tabs : Hear(s, t)
  <2>1. pc' = pc /\ (tab'[t].phase = tab[t].phase \/ tab'[t].phase = "open")
    <3>1. CASE JoinCoherence(t)
      BY <3>1, <1>t DEF JoinCoherence, TabStates
    <3>2. ASSUME NEW s \in Tabs, Hear(s, t)
          PROVE  pc' = pc /\ tab'[t].phase = tab[t].phase
      BY <3>2, HearTab DEF Hear
    <3> QED
      BY <1>7, <3>1, <3>2
  <2> QED
    BY <1>1, <1>4, <2>1 DEF LoadsAlone, Mine
<1> QED
  BY <1>5, <1>6, <1>7
-----------------------------------------------------------------------------
(* News and landed calls that are not late say what is stored. *)

LEMMA TabTells ==
  ASSUME TypeOK, NewsTold, LandedTold, NEW t \in Tabs,
         Load(t) \/ JoinCoherence(t) \/ EndTab(t) \/ \E s \in Tabs : Hear(s, t)
  PROVE  NewsTold' /\ LandedTold'
<1>1. chan \in Chans /\ store' = store
  BY DEF TypeOK, Chans, Load, JoinCoherence, EndTab, Hear
<1>2. \A n : Told(n)' <=> Told(n)
  BY <1>1 DEF Told
<1>3. ASSUME NEW r \in Tabs, NEW u \in Tabs, NEW i \in DOMAIN chan'[r][u]
      PROVE  \E j \in DOMAIN chan[r][u] : chan'[r][u][i] = chan[r][u][j]
  <2>0. chan[r][u] \in Seq(News)
    BY <1>1 DEF Chans
  <2>1. \/ chan'[r][u] = chan[r][u]
        \/ chan'[r][u] = <<>>
        \/ chan'[r][u] = Tail(chan[r][u]) /\ chan[r][u] # <<>>
    <3>1. CASE Load(t) \/ JoinCoherence(t)
      BY <3>1 DEF Load, JoinCoherence
    <3>2. CASE EndTab(t)
      BY <1>1, <3>2, ChanAt DEF EndTab
    <3>3. ASSUME NEW s \in Tabs, Hear(s, t)
          PROVE  \/ chan'[r][u] = chan[r][u]
                 \/ chan'[r][u] = Tail(chan[r][u]) /\ chan[r][u] # <<>>
      <4>1. chan' = Heard(chan, s, t) /\ chan[s][t] # <<>>
        BY <3>3 DEF Hear
      <4>2. Heard(chan, s, t)[r][u] = IF s = r /\ t = u THEN Tail(chan[r][u]) ELSE chan[r][u]
        BY <1>1, ChanAt
      <4> QED
        BY <4>1, <4>2
    <3> QED
      BY <3>1, <3>2, <3>3
  <2>2. CASE chan'[r][u] = Tail(chan[r][u]) /\ chan[r][u] # <<>>
    <3>1. i + 1 \in DOMAIN chan[r][u] /\ chan'[r][u][i] = chan[r][u][i + 1]
      BY <2>0, <2>2, <1>3
    <3> QED
      BY <3>1
  <2>3. CASE chan'[r][u] = <<>>
    BY <1>3, <2>3
  <2> QED
    BY <1>3, <2>1, <2>2, <2>3
<1>4. NewsTold'
  BY <1>2, <1>3 DEF NewsTold
<1>5. \A c \in Tasks : pc'[c] = "landed" => pc[c] = "landed" /\ call'[c] = call[c]
  <2>1. CASE EndTab(t)
    BY <2>1 DEF EndTab, Mine
  <2>2. CASE Load(t) \/ JoinCoherence(t) \/ \E s \in Tabs : Hear(s, t)
    BY <2>2 DEF Load, JoinCoherence, Hear
  <2> QED
    BY <2>1, <2>2
<1>6. LandedTold'
  BY <1>1, <1>5 DEF LandedTold, Committed
<1> QED
  BY <1>4, <1>6

(* A commit overtakes everything that is under way on its keys. *)
LEMMA LandTells ==
  ASSUME TypeOK, NewsTold, LandedTold, NEW c \in Tasks, Land(c)
  PROVE  NewsTold' /\ LandedTold'
<1> DEFINE keys == Touched(Committed(c).does)
<1>1. chan \in Chans /\ keys \subseteq Keys
  BY DEF TypeOK, Chans, Touched
<1>2. \A k \in Keys : /\ k \in keys => store'[k] = Committed(c).does[k]
                      /\ k \notin keys => store'[k] = store[k]
  BY DEF Land, Then, Touched
<1>3. NewsTold'
  <2>1. ASSUME NEW r \in Tabs, NEW u \in Tabs, NEW i \in DOMAIN chan'[r][u]
        PROVE  Told(chan[r][u][i])'
    <3>1. /\ i \in DOMAIN chan[r][u]
          /\ chan'[r][u][i] = [chan[r][u][i] EXCEPT !.late = @ \cup keys]
      <4>1. chan' = Overtaken(chan, keys)
        BY DEF Land
      <4>2. /\ DOMAIN Overtaken(chan, keys)[r][u] = DOMAIN chan[r][u]
            /\ \A j \in DOMAIN chan[r][u] : Overtaken(chan, keys)[r][u][j] =
                 [chan[r][u][j] EXCEPT !.late = @ \cup keys]
        BY <1>1, ChanAt
      <4> HIDE DEF keys
      <4> QED
        BY <2>1, <4>1, <4>2
    <3>2. chan[r][u][i] \in News
      BY <1>1, <3>1 DEF Chans
    <3>3. /\ chan'[r][u][i].does = chan[r][u][i].does
          /\ chan'[r][u][i].cleared = chan[r][u][i].cleared
          /\ chan'[r][u][i].late = chan[r][u][i].late \cup keys
      BY <3>1, <3>2 DEF News
    <3>4. Told(chan[r][u][i])
      BY <3>1 DEF NewsTold
    <3> QED
      BY <1>2, <3>3, <3>4 DEF Told, Touched
  <2> QED
    BY <2>1 DEF NewsTold
<1>4. ASSUME NEW d \in Tasks, pc'[d] = "landed",
             NEW k \in Touched(Committed(d).does)' \ call'[d].late
      PROVE  store'[k] = Committed(d)'.does[k]
  <2>k. k \in Keys
    BY DEF Touched
  <2>1. CASE d = c
    <3>1. call'[c] = call[c]
      BY DEF Land, TypeOK
    <3>2. Committed(c)' = Committed(c)
      BY <3>1 DEF Committed
    <3> QED
      BY <1>2, <1>4, <2>1, <2>k, <3>2
  <2>2. CASE d # c
    <3>1. pc[d] = "landed" /\ call'[d] = [call[d] EXCEPT !.late = @ \cup keys]
      BY <1>4, <2>2 DEF Land, TypeOK
    <3>2. call[d] \in Calls
      BY DEF TypeOK
    <3>3. /\ call'[d].own = call[d].own /\ call'[d].taken = call[d].taken
          /\ call'[d].late = call[d].late \cup keys
      BY <3>1, <3>2 DEF Calls
    <3>4. Committed(d)' = Committed(d)
      BY <3>3 DEF Committed
    <3> QED
      BY <1>2, <1>4, <2>k, <3>1, <3>3, <3>4 DEF LandedTold
  <2> QED
    BY <2>1, <2>2
<1>5. LandedTold'
  BY <1>4 DEF LandedTold
<1> QED
  BY <1>3, <1>5

(* What a finished call posts is what its commit stored. *)
LEMMA FinishTells ==
  ASSUME TypeOK, NewsTold, LandedTold, NEW c \in Tasks, Finish(c)
  PROVE  NewsTold' /\ LandedTold'
<1> DEFINE w == Committed(c)
           n == NewsOf(w, call[c].epoch, call[c].late)
<1>1. chan \in Chans /\ store' = store /\ TabOf[c] \in Tabs /\ pc[c] = "landed"
  BY EagerAssumption DEF TypeOK, Chans, Finish
<1>2. w \in WriteSets /\ call[c] \in Calls
  BY CommittedTypes
<1>3. /\ n \in News /\ n.cleared = w.cleared /\ n.late = call[c].late
      /\ \A k \in Keys : /\ n.does[k] = Kept <=> w.does[k] = Kept
                         /\ n.does[k] = w.does[k] \/ (n.does[k] = Changed /\ w.does[k] \in Vals)
  <2>1. call[c].epoch \in Nat /\ call[c].late \in SUBSET Keys
    BY <1>2 DEF Calls
  <2>2. n.cleared = w.cleared /\ n.late = call[c].late
    BY DEF NewsOf
  <2> QED
    BY <1>2, <2>1, <2>2, NewsTypes
<1>4. Told(n)
  <2>1. Touched(n.does) = Touched(w.does)
    BY <1>3 DEF Touched
  <2>2. w.cleared => Touched(w.does) = Keys
    BY <1>2 DEF WriteSets
  <2>3. \A k \in Touched(w.does) \ call[c].late : store[k] = w.does[k] /\ k \in Keys
    BY <1>1 DEF LandedTold, Touched
  <2> HIDE DEF n, w
  <2> QED
    BY <1>3, <2>1, <2>2, <2>3 DEF Told
<1>5. \A m : Told(m)' <=> Told(m)
  BY <1>1 DEF Told
<1>6. NewsTold'
  <2>1. ASSUME NEW r \in Tabs, NEW u \in Tabs, NEW i \in DOMAIN chan'[r][u]
        PROVE  Told(chan'[r][u][i])
    <3>1. chan' = chan \/ chan' = Posted(chan, TabOf[c], n, Listening)
      BY DEF Finish
    <3> HIDE DEF n
    <3>2. chan'[r][u] = chan[r][u] \/ chan'[r][u] = Append(chan[r][u], n)
      BY <1>1, <3>1, ChanAt
    <3>3. chan[r][u] \in Seq(News)
      BY <1>1 DEF Chans
    <3>4. \/ i \in DOMAIN chan[r][u] /\ chan'[r][u][i] = chan[r][u][i]
          \/ chan'[r][u][i] = n
      BY <2>1, <3>2, <3>3
    <3> QED
      BY <1>4, <3>4 DEF NewsTold
  <2> QED
    BY <1>5, <2>1 DEF NewsTold
<1>7. \A d \in Tasks : pc'[d] = "landed" => pc[d] = "landed" /\ call'[d] = call[d]
  BY DEF Finish, Quit, TypeOK
<1>8. LandedTold'
  BY <1>1, <1>7 DEF LandedTold, Committed
<1> QED
  BY <1>6, <1>8

(* The other steps of a call neither store nor tell. *)
LEMMA CallTells ==
  ASSUME TypeOK, NewsTold, LandedTold, NEW c \in Tasks,
         Begin(c) \/ TakeLock(c) \/ Drain(c) \/ Built(c) \/ Fail(c)
  PROVE  NewsTold' /\ LandedTold'
<1>1. chan' = chan /\ store' = store
  BY DEF Begin, WriteNow, WriteLater, DeleteNothing, Transact, Flush, Close, TakeLock, Drain, Built, Fail
<1>2. \A d \in Tasks : pc'[d] = "landed" => pc[d] = "landed" /\ call'[d] = call[d]
  <2>1. CASE Begin(c)
    <3>1. pc'[c] # "landed" \/ (pc' = pc /\ call' = call)
      BY <2>1, BeginShape DEF TypeOK
    <3>2. \A d \in Tasks \ {c} : pc'[d] = pc[d] /\ call'[d] = call[d]
      BY <2>1, BeginShape DEF TypeOK
    <3> QED
      BY <3>1, <3>2
  <2>2. CASE TakeLock(c) \/ Drain(c) \/ Built(c) \/ Fail(c)
    BY <2>2 DEF TakeLock, Drain, Built, Fail, Commence, Quit, TypeOK
  <2> QED
    BY <2>1, <2>2
<1>3. NewsTold'
  BY <1>1 DEF NewsTold, Told
<1>4. LandedTold'
  BY <1>1, <1>2 DEF LandedTold, Committed
<1> QED
  BY <1>3, <1>4
-----------------------------------------------------------------------------
(* The view of a tab, key by key. *)

Pending(s, draining, w, k) ==
  IF s.does[k] # Kept THEN s.does[k] ELSE IF draining THEN w.does[k] ELSE Kept

LEMMA UnlandedAt ==
  ASSUME NEW t \in Tabs, NEW k \in Keys
  PROVE  /\ Unlanded(t).does[k] = Pending(tab[t].staged, Draining(t), call[lock[t]].taken, k)
         /\ Unlanded(t)'.does[k] = Pending(tab'[t].staged, Draining(t)', call'[lock'[t]].taken, k)
BY DEF Unlanded, Pending, Both, Then

LEMMA ViewAt ==
  ASSUME NEW t \in Tabs, NEW k \in Keys
  PROVE  /\ View(t)[k] = IF Unlanded(t).does[k] = Kept THEN store[k] ELSE Unlanded(t).does[k]
         /\ View(t)'[k] = IF Unlanded(t)'.does[k] = Kept THEN store'[k] ELSE Unlanded(t)'.does[k]
BY DEF View, Then

(* The batch of a tab whose lock, buffer and drained batch stay as they    *)
(* are.                                                                    *)
LEMMA UnlandedSame ==
  ASSUME NEW s \in Tabs, NEW k \in Keys, lock'[s] = lock[s],
         tab'[s].staged = tab[s].staged,
         lock[s] # NoTask => /\ pc'[lock[s]] = pc[lock[s]]
                             /\ call'[lock[s]].taken = call[lock[s]].taken
  PROVE  Unlanded(s)'.does[k] = Unlanded(s).does[k]
<1>1. Draining(s)' <=> Draining(s)
  BY DEF Draining
<1>2. Draining(s) => lock[s] # NoTask
  BY DEF Draining
<1> QED
  BY <1>1, <1>2, UnlandedAt DEF Pending

(* The other tabs', when a call takes a step. *)
LEMMA UnlandedElsewhere ==
  ASSUME TypeOK, LockHeld, NEW c \in Tasks,
         Begin(c) \/ TakeLock(c) \/ Drain(c) \/ Built(c) \/ Fail(c) \/ Land(c) \/ Finish(c),
         NEW s \in Tabs, s # TabOf[c], NEW k \in Keys
  PROVE  Unlanded(s)'.does[k] = Unlanded(s).does[k]
<1>1. lock'[s] = lock[s] /\ tab'[s] = tab[s]
  BY CallFrame
<1>2. lock[s] # NoTask => lock[s] \in Tasks \ {c}
  BY DEF TypeOK, LockHeld
<1>3. \A d \in Tasks \ {c} : pc'[d] = pc[d] /\ call'[d].taken = call[d].taken
  BY CallFrame
<1> QED
  BY <1>1, <1>2, <1>3, UnlandedSame

(* Where nothing about a key changes, the map goes on agreeing on it.      *)
LEMMA AgreesStill ==
  ASSUME NEW t \in Tabs, NEW k \in Keys, Agrees(t, k),
         tab'[t].values[k] = tab[t].values[k],
         k \in tab[t].corrupt \cup tab[t].dropped
           => k \in tab'[t].corrupt \cup tab'[t].dropped,
         View(t)'[k] = View(t)[k]
  PROVE  Agrees(t, k)'
BY DEF Agrees, Get, Holds

SameMap(s, k) ==
  /\ tab'[s].values[k] = tab[s].values[k]
  /\ k \in tab[s].corrupt \cup tab[s].dropped => k \in tab'[s].corrupt \cup tab'[s].dropped

(* A step that stores nothing, tells nothing and mirrors nothing: it moves *)
(* a batch from the buffer to the call that stores it, or back.            *)
LEMMA QuietRight ==
  ASSUME ResidentRight, chan' = chan, store' = store, excuse' = excuse,
         \A d \in Tasks : /\ pc'[d] = "landed" <=> pc[d] = "landed"
                          /\ pc[d] = "landed" => call'[d] = call[d],
         \A s \in Tabs : tab'[s].phase # "closed" =>
           /\ tab'[s].phase = tab[s].phase
           /\ \A k \in Keys : SameMap(s, k) /\ Unlanded(s)'.does[k] = Unlanded(s).does[k]
  PROVE  ResidentRight'
<1> SUFFICES ASSUME NEW s \in Tabs, NEW k \in Keys, Due(s, k)'
             PROVE  Agrees(s, k)'
  BY DEF ResidentRight
<1>1. /\ k \notin excuse[s]
      /\ \/ tab'[s].phase = "loading"
         \/ tab'[s].phase = "open" /\ (k \in Touched(Unlanded(s).does)' \/ ~Awaited(s, k)')
  BY DEF Due
<1>2. tab'[s].phase = tab[s].phase /\ SameMap(s, k) /\ Unlanded(s)'.does[k] = Unlanded(s).does[k]
  BY <1>1
<1>3. k \in Touched(Unlanded(s).does)' => k \in Touched(Unlanded(s).does)
  BY <1>2 DEF Touched
<1>4. Awaited(s, k) => Awaited(s, k)'
  <2>1. \A d \in Tasks : pc[d] = "landed" => Committed(d)' = Committed(d)
    BY DEF Committed
  <2> QED
    BY <2>1 DEF Awaited
<1>5. Agrees(s, k)
  BY <1>1, <1>2, <1>3, <1>4 DEF Due, ResidentRight
<1>6. View(s)'[k] = View(s)[k]
  BY <1>2, ViewAt
<1> QED
  BY <1>2, <1>5, <1>6, AgreesStill DEF SameMap
LEMMA QuietCalls ==
  ASSUME TypeOK, LockHeld, ResidentRight, NEW c \in Tasks,
         \/ Begin(c) /\ ~(\E b \in Mutations : WriteLater(c, b))
         \/ TakeLock(c) \/ Drain(c) \/ Built(c) \/ Fail(c)
  PROVE  ResidentRight'
<1> DEFINE t == TabOf[c]
<1>t. t \in Tabs /\ tab[t] \in TabStates /\ tab \in [Tabs -> TabStates] /\ NoTask \notin Tasks
  BY EagerAssumption DEF TypeOK
<1>f. /\ \A d \in Tasks \ {c} : pc'[d] = pc[d] /\ call'[d].taken = call[d].taken
      /\ \A s \in Tabs \ {t} : lock'[s] = lock[s] /\ tab'[s] = tab[s]
  BY CallFrame
<1>o. \A s \in Tabs \ {t}, k \in Keys : Unlanded(s)'.does[k] = Unlanded(s).does[k]
  BY UnlandedElsewhere
<1>h. lock[t] \in Tasks \cup {NoTask}
  BY <1>t DEF TypeOK
<1>1. chan' = chan /\ store' = store /\ excuse' = excuse
  BY DEF Begin, WriteNow, DeleteNothing, Transact, Flush, Close, TakeLock, Drain, Built, Fail
<1>2. \A d \in Tasks : /\ pc'[d] = "landed" <=> pc[d] = "landed"
                       /\ pc[d] = "landed" => call'[d] = call[d]
  <2>1. CASE Begin(c) /\ ~(\E b \in Mutations : WriteLater(c, b))
    BY <2>1 DEF Begin, WriteNow, DeleteNothing, Transact, Flush, Close, Begins, Commence, TypeOK
  <2>2. CASE TakeLock(c) \/ Drain(c) \/ Built(c) \/ Fail(c)
    BY <2>2 DEF TakeLock, Drain, Built, Fail, Commence, Quit, TypeOK
  <2> QED
    BY <2>1, <2>2
<1>3. tab'[t].phase # "closed" =>
        /\ tab'[t].phase = tab[t].phase
        /\ \A k \in Keys : SameMap(t, k) /\ Unlanded(t)'.does[k] = Unlanded(t).does[k]
  <2>1. CASE Begin(c) /\ ~(\E b \in Mutations : WriteLater(c, b))
    <3>1. \/ tab'[t] = tab[t] \/ tab'[t] = Shutting(tab[t], TRUE)
          \/ tab'[t] = [tab[t] EXCEPT !.epoch = @ + 1]
      BY <2>1, <1>t DEF Begin, WriteNow, DeleteNothing, Transact, Flush, Close, Commence
    <3>2. \/ tab'[t].phase = "closed"
          \/ /\ tab'[t].phase = tab[t].phase /\ tab'[t].staged = tab[t].staged
             /\ \A k \in Keys : SameMap(t, k)
      BY <3>1, <1>t DEF Shutting, TabStates, SameMap
    <3>3. lock' = lock /\ lock[t] # c
      BY <1>t, <1>h, <2>1, CallOwn DEF LockHeld
    <3> QED
      BY <1>t, <1>f, <1>h, <3>2, <3>3, UnlandedSame
  <2>2. CASE TakeLock(c)
    <3>1. tab' = tab /\ lock[t] = NoTask /\ lock'[t] = c /\ pc'[c] = "closure"
      BY <2>2, <1>t, CallOwn DEF TakeLock
    <3>2. ~Draining(t) /\ ~Draining(t)'
      BY <3>1 DEF Draining
    <3> QED
      BY <1>t, <3>1, <3>2, UnlandedAt DEF Pending, SameMap
  <2>3. CASE Drain(c)
    <3>1. pc[c] = "closure" /\ lock[t] = c
      BY <2>3 DEF Drain, LockHeld
    <3>2. ~Draining(t)
      BY <3>1 DEF Draining
    <3>3. CASE Quit(c, TRUE)
      <4>1. tab' = tab \/ tab'[t] = Shutting(tab[t], TRUE)
        BY <1>t, <2>3, <3>3, <3>1 DEF Drain, Quit, TypeOK
      <4>2. lock'[t] = NoTask
        BY <1>t, <3>1, <3>3 DEF Quit, TypeOK
      <4>3. ~Draining(t)'
        BY <4>2 DEF Draining
      <4>4. tab'[t].phase = "closed" \/ tab' = tab
        BY <4>1, <1>t DEF Shutting, TabStates
      <4> QED
        BY <1>t, <3>2, <4>3, <4>4, UnlandedAt DEF Pending, SameMap
    <3>4. CASE ~Quit(c, TRUE)
      <4>1. /\ call' = [call EXCEPT ![c].taken = tab[t].staged, ![c].len = tab[t].len]
            /\ tab' = [tab EXCEPT ![t].staged = NoWrites, ![t].len = 0]
            /\ pc' = [pc EXCEPT ![c] = "building"] /\ lock' = lock
        BY <2>3, <3>4 DEF Drain
      <4>2. /\ tab'[t].staged = NoWrites /\ tab'[t].phase = tab[t].phase
            /\ \A k \in Keys : SameMap(t, k)
        BY <1>t, <4>1 DEF TabStates, SameMap
      <4>3. call'[c].taken = tab[t].staged /\ pc'[c] = "building" /\ lock'[t] = c
        BY <1>t, <3>1, <4>1 DEF TypeOK, Calls
      <4>4. Draining(t)'
        BY <1>t, <4>3 DEF Draining
      <4> QED
        BY <1>t, <3>2, <4>2, <4>3, <4>4, UnlandedAt, NothingWritten DEF Pending
    <3> QED
      BY <3>3, <3>4
  <2>4. CASE Built(c)
    <3>1. /\ pc[c] = "building" /\ pc'[c] = "committing" /\ lock' = lock
          /\ call'[c].taken = call[c].taken
      BY <2>4, CallOwn
    <3>2. lock[t] = c
      BY <3>1 DEF LockHeld
    <3>3. Draining(t) /\ Draining(t)'
      BY <1>t, <3>1, <3>2 DEF Draining
    <3>4. /\ tab'[t].phase = tab[t].phase /\ tab'[t].staged = tab[t].staged
          /\ \A k \in Keys : SameMap(t, k)
      BY <2>4, <1>t DEF Built, Commence, TabStates, SameMap
    <3>5. ASSUME NEW k \in Keys PROVE Unlanded(t)'.does[k] = Unlanded(t).does[k]
      <4>1. call'[lock'[t]].taken = call[lock[t]].taken
        BY <3>1, <3>2
      <4>2. Pending(tab'[t].staged, Draining(t)', call'[lock'[t]].taken, k)
              = Pending(tab[t].staged, Draining(t), call[lock[t]].taken, k)
        BY <3>3, <3>4, <4>1 DEF Pending
      <4> QED
        BY <1>t, <4>2, UnlandedAt
    <3> QED
      BY <3>4, <3>5
  <2>5. CASE Fail(c)
    <3>1. /\ pc[c] \in {"closure", "building", "committing"} /\ pc'[c] = "idle"
          /\ lock'[t] = IF lock[t] = c THEN NoTask ELSE lock[t]
      BY <2>5, CallOwn DEF Fail
    <3>2. \/ tab'[t] = Shutting(Restage(tab[t], call[c]), FALSE)
          \/ tab'[t] = Restage(tab[t], call[c])
      BY <2>5, <1>t DEF Fail
    <3>3. \/ tab'[t].phase = "closed"
          \/ /\ tab'[t].phase = tab[t].phase /\ tab'[t].staged = Both(call[c].taken, tab[t].staged)
             /\ \A k \in Keys : SameMap(t, k)
      <4>1. CASE tab'[t] = Shutting(Restage(tab[t], call[c]), FALSE)
        BY <4>1, <1>t DEF Shutting, Restage, TabStates
      <4>2. CASE tab'[t] = Restage(tab[t], call[c])
        <5>1. tab'[t] = [tab[t] EXCEPT !.staged = Both(call[c].taken, tab[t].staged),
                                       !.len = call[c].len + tab[t].len]
          BY <4>2 DEF Restage
        <5>2. /\ tab'[t].phase = tab[t].phase
              /\ tab'[t].staged = Both(call[c].taken, tab[t].staged)
          BY <5>1, <1>t DEF TabStates
        <5>3. /\ tab'[t].values = tab[t].values
              /\ tab'[t].corrupt = tab[t].corrupt /\ tab'[t].dropped = tab[t].dropped
          BY <5>1, <1>t DEF TabStates
        <5> QED
          BY <5>2, <5>3 DEF SameMap
      <4> QED
        BY <3>2, <4>1, <4>2
    <3>4. \A k \in Keys : Both(call[c].taken, tab[t].staged).does[k] =
            IF tab[t].staged.does[k] = Kept THEN call[c].taken.does[k] ELSE tab[t].staged.does[k]
      BY DEF Both, Then
    <3>5. CASE lock[t] = c
      <4>1. ~Draining(t)'
        BY <3>1, <3>5 DEF Draining
      <4>2. \/ Draining(t)
            \/ ~Draining(t) /\ call[c].taken = NoWrites
        BY <1>t, <3>1, <3>5 DEF Draining, LockHeld
      <4> QED
        BY <1>t, <3>3, <3>4, <3>5, <4>1, <4>2, UnlandedAt, NothingWritten DEF Pending
    <3>6. CASE lock[t] # c
      <4>1. call[c].op = "write" /\ call[c].taken = NoWrites
        BY <3>1, <3>6 DEF LockHeld
      <4>2. Draining(t)' <=> Draining(t)
        BY <1>f, <1>h, <3>1, <3>6 DEF Draining
      <4>3. Draining(t) => call'[lock'[t]].taken = call[lock[t]].taken
        BY <1>f, <1>h, <3>1, <3>6 DEF Draining
      <4> QED
        BY <1>t, <3>3, <3>4, <4>1, <4>2, <4>3, UnlandedAt, NothingWritten DEF Pending
    <3> QED
      BY <3>5, <3>6
  <2> QED
    BY <2>1, <2>2, <2>3, <2>4, <2>5
<1>4. \A s \in Tabs : tab'[s].phase # "closed" =>
        /\ tab'[s].phase = tab[s].phase
        /\ \A k \in Keys : SameMap(s, k) /\ Unlanded(s)'.does[k] = Unlanded(s).does[k]
  BY <1>f, <1>o, <1>3 DEF SameMap
<1> QED
  BY <1>1, <1>2, <1>4, QuietRight
LEMMA LateStep ==
  ASSUME TypeOK, LateOnceLanded, Next
  PROVE  LateOnceLanded'
<1>1. ASSUME NEW c \in Tasks, Begin(c)
      PROVE  LateOnceLanded'
  <2>0. NoCall.late = {} /\ NoCall \in Calls
    BY NoCallType DEF NoCall
  <2>1. ASSUME NEW b \in Mutations, WriteNow(c, b)
        PROVE  LateOnceLanded'
    BY <2>0, <2>1 DEF WriteNow, Begins, Commence, TypeOK, Calls, LateOnceLanded
  <2>2. ASSUME NEW b \in Mutations, WriteLater(c, b)
        PROVE  LateOnceLanded'
    <3>1. CASE UNCHANGED <<pc, call>>
      BY <3>1 DEF LateOnceLanded
    <3>2. CASE /\ pc' = [pc EXCEPT ![c] = "waiting"]
               /\ call' = [call EXCEPT ![c] = [NoCall EXCEPT !.op = "flush"]]
      BY <2>0, <3>2 DEF TypeOK, Calls, LateOnceLanded
    <3> QED
      BY <2>2, <3>1, <3>2 DEF WriteLater
  <2>3. CASE \E k \in Keys : DeleteNothing(c, k)
    BY <2>3 DEF DeleteNothing, LateOnceLanded
  <2>4. ASSUME NEW w \in TxWrites, Transact(c, w)
        PROVE  LateOnceLanded'
    BY <2>0, <2>4 DEF Transact, Begins, TypeOK, Calls, LateOnceLanded
  <2>5. CASE Flush(c)
    BY <2>0, <2>5 DEF Flush, Begins, TypeOK, Calls, LateOnceLanded
  <2>6. CASE Close(c)
    <3>1. CASE UNCHANGED <<pc, call>>
      BY <3>1 DEF LateOnceLanded
    <3>2. CASE /\ pc' = [pc EXCEPT ![c] = "waiting"]
               /\ call' = [call EXCEPT ![c] = [NoCall EXCEPT !.op = "close"]]
      BY <2>0, <3>2 DEF TypeOK, Calls, LateOnceLanded
    <3> QED
      BY <2>6, <3>1, <3>2 DEF Close
  <2> QED
    BY <1>1, <2>1, <2>2, <2>3, <2>4, <2>5, <2>6 DEF Begin
<1>2. ASSUME NEW c \in Tasks, TakeLock(c) \/ Drain(c) \/ Built(c) \/ Fail(c) \/ Finish(c)
      PROVE  LateOnceLanded'
  <2>0. NoCall.late = {}
    BY DEF NoCall
  <2>1. CASE TakeLock(c)
    BY <2>1 DEF TakeLock, TypeOK, LateOnceLanded
  <2>2. CASE Quit(c, TRUE) \/ Quit(c, FALSE)
    BY <2>0, <2>2 DEF Quit, TypeOK, LateOnceLanded
  <2>3. CASE Drain(c) /\ ~Quit(c, TRUE)
    <3>1. pc[c] = "closure" /\ call[c] \in Calls
      BY <2>3 DEF Drain, TypeOK
    <3>2. /\ \A d \in Tasks : pc'[d] = "landed" <=> pc[d] = "landed"
          /\ \A d \in Tasks : call'[d].late = call[d].late
      <4>1. /\ call' = [call EXCEPT ![c].taken = tab[TabOf[c]].staged, ![c].len = tab[TabOf[c]].len]
            /\ pc' = [pc EXCEPT ![c] = "building"]
        BY <2>3 DEF Drain
      <4> QED
        BY <3>1, <4>1 DEF TypeOK, Calls
    <3> QED
      BY <3>2 DEF LateOnceLanded
  <2>4. CASE Built(c)
    <3>1. pc[c] = "building" /\ call[c] \in Calls
      BY <2>4 DEF Built, TypeOK
    <3>2. /\ \A d \in Tasks : pc'[d] = "landed" <=> pc[d] = "landed"
          /\ \A d \in Tasks : call'[d].late = call[d].late
      BY <2>4, <3>1 DEF Built, Commence, TypeOK, Calls
    <3> QED
      BY <3>2 DEF LateOnceLanded
  <2> QED
    BY <1>2, <2>1, <2>2, <2>3, <2>4 DEF Fail, Finish
<1>3. ASSUME NEW c \in Tasks, Land(c)
      PROVE  LateOnceLanded'
  BY <1>3 DEF Land, TypeOK, LateOnceLanded
<1>4. ASSUME NEW t \in Tabs, Load(t) \/ JoinCoherence(t) \/ EndTab(t) \/ \E s \in Tabs : Hear(s, t)
      PROVE  LateOnceLanded'
  <2>0. NoCall.late = {}
    BY DEF NoCall
  <2>1. CASE EndTab(t)
    BY <2>0, <2>1 DEF EndTab, Mine, LateOnceLanded
  <2>2. CASE Load(t) \/ JoinCoherence(t) \/ \E s \in Tabs : Hear(s, t)
    BY <2>2 DEF Load, JoinCoherence, Hear, LateOnceLanded
  <2> QED
    BY <1>4, <2>1, <2>2
<1> QED
  BY <1>1, <1>2, <1>3, <1>4 DEF Next

(* A deferred write shows its own value at once, whatever is on its way.   *)
LEMMA WriteLaterRight ==
  ASSUME TypeOK, LockHeld, ResidentRight, NEW c \in Tasks, NEW b \in Mutations,
         WriteLater(c, b)
  PROVE  ResidentRight'
<1> DEFINE t == TabOf[c]
<1>t. t \in Tabs /\ tab[t] \in TabStates /\ tab \in [Tabs -> TabStates]
  BY EagerAssumption DEF TypeOK
<1>b. Begin(c) /\ OneWrite(b).does = b
  BY MutationTypes DEF Begin, WriteLater
<1>f. /\ \A s \in Tabs \ {t} : tab'[s] = tab[s]
      /\ \A d \in Tasks \ {c} : pc'[d] = pc[d] /\ call'[d].taken = call[d].taken
  BY <1>b, CallFrame
<1>1. /\ chan' = chan /\ store' = store /\ lock' = lock
      /\ excuse' = [excuse EXCEPT ![t] = @ \ Touched(b)]
      /\ tab'[t] = Staging(tab[t], b)
  BY <1>t DEF WriteLater
<1>2. \A d \in Tasks : /\ pc'[d] = "landed" <=> pc[d] = "landed"
                       /\ pc[d] = "landed" => call'[d] = call[d]
  BY DEF WriteLater, Begins, TypeOK
<1>3. \A s \in Tabs, k \in Keys : Awaited(s, k) => Awaited(s, k)'
  <2>1. \A d \in Tasks : pc[d] = "landed" => Committed(d)' = Committed(d)
    BY <1>2 DEF Committed
  <2> QED
    BY <1>1, <1>2, <2>1 DEF Awaited
<1>4. Draining(t)' <=> Draining(t)
  <2>1. lock[t] # NoTask => lock[t] \in Tasks \ {c}
    <3>1. pc[c] = "idle" /\ lock[t] \in Tasks \cup {NoTask}
      BY <1>t DEF WriteLater, Begins, TypeOK
    <3>2. lock[t] # NoTask => pc[lock[t]] # "idle"
      BY <1>t DEF LockHeld
    <3> QED
      BY <3>1, <3>2
  <2> QED
    BY <1>f, <1>1, <2>1 DEF Draining
<1>5. Draining(t) => call'[lock'[t]].taken = call[lock[t]].taken
  <2>1. lock[t] # NoTask => lock[t] \in Tasks \ {c}
    <3>1. pc[c] = "idle" /\ lock[t] \in Tasks \cup {NoTask}
      BY <1>t DEF WriteLater, Begins, TypeOK
    <3>2. lock[t] # NoTask => pc[lock[t]] # "idle"
      BY <1>t DEF LockHeld
    <3> QED
      BY <3>1, <3>2
  <2> QED
    BY <1>f, <1>1, <2>1 DEF Draining
<1>6. /\ tab'[t].phase = tab[t].phase /\ tab'[t].corrupt = tab[t].corrupt
      /\ tab'[t].dropped = tab[t].dropped \ Touched(b)
      /\ \A k \in Keys : /\ tab'[t].values[k] = IF b[k] = Kept THEN tab[t].values[k] ELSE b[k]
                         /\ tab'[t].staged.does[k] = IF b[k] = Kept THEN tab[t].staged.does[k] ELSE b[k]
  <2>1. /\ tab'[t].phase = tab[t].phase /\ tab'[t].corrupt = tab[t].corrupt
        /\ tab'[t].dropped = tab[t].dropped \ Touched(b)
        /\ tab'[t].values = Then(tab[t].values, b)
        /\ tab'[t].staged = Both(tab[t].staged, OneWrite(b))
    BY <1>t, <1>1 DEF Staging, TabStates
  <2>2. \A k \in Keys : Both(tab[t].staged, OneWrite(b)).does[k] =
                          IF b[k] = Kept THEN tab[t].staged.does[k] ELSE b[k]
    BY <1>b, ThenAt DEF Both
  <2> QED
    BY <2>1, <2>2, ThenAt
<1> SUFFICES ASSUME NEW s \in Tabs, NEW k \in Keys, Due(s, k)'
             PROVE  Agrees(s, k)'
  BY DEF ResidentRight
<1>7. CASE s = t /\ b[k] # Kept
  <2>1. tab'[t].values[k] = b[k] /\ tab'[t].staged.does[k] = b[k]
    BY <1>6, <1>7
  <2>2. Unlanded(t)'.does[k] = b[k]
    BY <1>7, <1>t, <2>1, UnlandedAt DEF Pending
  <2>3. View(t)'[k] = b[k]
    BY <1>7, <1>t, <2>2, ViewAt
  <2> QED
    BY <1>7, <2>1, <2>3 DEF Agrees, Get, Holds
<1>8. CASE s # t \/ b[k] = Kept
  <2>1. tab'[s].phase = tab[s].phase /\ SameMap(s, k)
    BY <1>t, <1>f, <1>6, <1>8 DEF SameMap, Touched
  <2>2. Unlanded(s)'.does[k] = Unlanded(s).does[k]
    <3>1. CASE s = t
      BY <1>t, <1>4, <1>5, <1>6, <1>8, <3>1, UnlandedAt DEF Pending
    <3>2. CASE s # t
      BY <1>b, <3>2, UnlandedElsewhere
    <3> QED
      BY <3>1, <3>2
  <2>3. Due(s, k)
    <3>1. k \in excuse[s] => k \in excuse'[s]
      BY <1>1, <1>8, <1>t DEF Touched, TypeOK
    <3>2. k \in Touched(Unlanded(s).does)' => k \in Touched(Unlanded(s).does)
      BY <2>2 DEF Touched
    <3> QED
      BY <1>3, <2>1, <3>1, <3>2 DEF Due
  <2>4. View(s)'[k] = View(s)[k]
    BY <1>1, <2>2, ViewAt
  <2> QED
    BY <2>1, <2>3, <2>4, AgreesStill DEF ResidentRight, SameMap
<1> QED
  BY <1>7, <1>8

(* A commit lands: on its keys nothing older is awaited any more, and what *)
(* its tab had staged goes from the drained batch to the store.            *)
LEMMA LandRight ==
  ASSUME TypeOK, LockHeld, StagesWhenDeferred, LoadsAlone, LateOnceLanded, ResidentRight,
         NEW c \in Tasks, Land(c)
  PROVE  ResidentRight'
<1> DEFINE t == TabOf[c]
           keys == Touched(Committed(c).does)
<1>t. t \in Tabs /\ tab' = tab /\ NoTask \notin Tasks
  BY EagerAssumption DEF Land
<1>1. /\ pc[c] = "committing" /\ pc'[c] = "landed" /\ lock' = lock /\ call'[c] = call[c]
  BY CallOwn
<1>2. \A k \in Keys : store'[k] = IF k \in keys THEN Committed(c).does[k] ELSE store[k]
  BY DEF Land, Then, Touched
<1>3. tab[t].phase # "loading"
  BY <1>1, <1>t DEF LoadsAlone, Mine
<1>4. \A s \in Tabs, k \in Keys : k \notin keys /\ Awaited(s, k) => Awaited(s, k)'
  <2> SUFFICES ASSUME NEW s \in Tabs, NEW k \in Keys, k \notin keys, Awaited(s, k)
               PROVE  Awaited(s, k)'
    OBVIOUS
  <2>c. chan \in Chans /\ chan' = Overtaken(chan, keys)
    BY DEF TypeOK, Chans, Land
  <2>1. ASSUME NEW r \in Tabs, NEW i \in DOMAIN chan[r][s],
               k \in Touched(chan[r][s][i].does) \ chan[r][s][i].late
        PROVE  Awaited(s, k)'
    <3>1. i \in DOMAIN chan'[r][s] /\ chan'[r][s][i] = [chan[r][s][i] EXCEPT !.late = @ \cup keys]
      <4>1. /\ DOMAIN Overtaken(chan, keys)[r][s] = DOMAIN chan[r][s]
            /\ \A j \in DOMAIN chan[r][s] : Overtaken(chan, keys)[r][s][j] =
                 [chan[r][s][j] EXCEPT !.late = @ \cup keys]
        BY <2>c, OvertakenAt
      <4> HIDE DEF keys
      <4> QED
        BY <2>1, <2>c, <4>1
    <3>2. chan[r][s][i] \in News
      BY <2>c DEF Chans
    <3>3. chan'[r][s][i].does = chan[r][s][i].does /\ chan'[r][s][i].late = chan[r][s][i].late \cup keys
      BY <3>1, <3>2 DEF News
    <3>4. k \in Touched(chan'[r][s][i].does) \ chan'[r][s][i].late
      BY <2>1, <3>3
    <3> QED
      BY <3>1, <3>4 DEF Awaited
  <2>2. ASSUME NEW d \in Tasks, pc[d] = "landed", k \notin call[d].late,
               k \in Touched(IF TabOf[d] = s THEN call[d].own.does ELSE Committed(d).does)
        PROVE  Awaited(s, k)'
    <3>1. pc'[d] = "landed" /\ call'[d] = [call[d] EXCEPT !.late = @ \cup keys]
      BY <2>2, <1>1 DEF Land, TypeOK
    <3>2. call[d] \in Calls
      BY DEF TypeOK
    <3>3. /\ call'[d].own = call[d].own /\ call'[d].taken = call[d].taken
          /\ call'[d].late = call[d].late \cup keys
      BY <3>1, <3>2 DEF Calls
    <3>4. Committed(d)' = Committed(d)
      BY <3>3 DEF Committed
    <3> HIDE DEF keys
    <3> QED
      BY <2>2, <3>1, <3>3, <3>4 DEF Awaited
  <2> QED
    BY <2>1, <2>2 DEF Awaited
<1>5. \A k \in Keys : /\ k \in Touched(call[c].own.does) => Awaited(t, k)'
                      /\ \A s \in Tabs \ {t} : k \in keys => Awaited(s, k)'
  <2>1. Committed(c)' = Committed(c)
    BY <1>1 DEF Committed
  <2>2. call'[c].late = {}
    BY <1>1 DEF LateOnceLanded
  <2> QED
    BY <1>1, <2>1, <2>2 DEF Awaited
<1> SUFFICES ASSUME NEW s \in Tabs, NEW k \in Keys, Due(s, k)'
             PROVE  Agrees(s, k)'
  BY DEF ResidentRight
<1>6. /\ k \notin excuse'[s]
      /\ \/ tab[s].phase = "loading"
         \/ tab[s].phase = "open" /\ (k \in Touched(Unlanded(s).does)' \/ ~Awaited(s, k)')
  BY <1>t DEF Due
<1>x. k \notin excuse[s] /\ (tab[s].phase = "loading" => k \notin keys)
  BY <1>6 DEF Land
<1>7. CASE Unlanded(s)'.does[k] = Unlanded(s).does[k] /\ (k \notin keys \/ k \in Touched(Unlanded(s).does))
  <2>1. k \in Touched(Unlanded(s).does)' => k \in Touched(Unlanded(s).does)
    BY <1>7 DEF Touched
  <2>2. Due(s, k)
    BY <1>4, <1>6, <1>7, <1>x, <2>1 DEF Due
  <2>3. View(s)'[k] = View(s)[k]
    BY <1>2, <1>7, ViewAt DEF Touched
  <2> QED
    BY <1>t, <2>2, <2>3, AgreesStill DEF ResidentRight
<1>8. CASE s # t
  <2>1. Unlanded(s)'.does[k] = Unlanded(s).does[k]
    BY <1>8, UnlandedElsewhere
  <2>2. k \notin keys \/ k \in Touched(Unlanded(s).does)
    BY <1>5, <1>6, <1>8, <1>x, <2>1 DEF Touched
  <2> QED
    BY <1>7, <2>1, <2>2
<1>9. CASE s = t
  <2>1. CASE lock[t] # c
    <3>1. call[c].op = "write" /\ call[c].taken = NoWrites
      BY <1>1, <2>1 DEF LockHeld
    <3>2. \A j \in Keys : Unlanded(t)'.does[j] = Unlanded(t).does[j]
      <4>1. lock[t] # NoTask => lock[t] \in Tasks \ {c}
        BY <1>t, <2>1 DEF TypeOK
      <4>2. \A d \in Tasks \ {c} : pc'[d] = pc[d] /\ call'[d].taken = call[d].taken
        BY CallFrame
      <4> QED
        BY <1>t, <1>1, <4>1, <4>2, UnlandedSame
    <3>3. k \in keys => k \in Touched(call[c].own.does)
      BY <3>1, CommittedTypes, NothingWritten DEF Touched
    <3>4. k \in Touched(Unlanded(t).does)' => k \in Touched(Unlanded(t).does)
      BY <3>2 DEF Touched
    <3>5. k \notin keys \/ k \in Touched(Unlanded(t).does)
      BY <1>3, <1>5, <1>6, <1>9, <3>3, <3>4
    <3> QED
      BY <1>7, <1>9, <3>2, <3>5
  <2>2. CASE lock[t] = c
    <3>1. Draining(t) /\ ~Draining(t)'
      BY <1>t, <1>1, <2>2 DEF Draining
    <3>2. /\ Unlanded(t)'.does[k] = tab[t].staged.does[k]
          /\ Unlanded(t).does[k] = Pending(tab[t].staged, TRUE, call[c].taken, k)
      BY <1>t, <2>2, <3>1, UnlandedAt DEF Pending
    <3>3. CASE tab[t].staged.does[k] # Kept
      <4>1. Unlanded(t)'.does[k] = Unlanded(t).does[k] /\ k \in Touched(Unlanded(t).does)
        BY <3>2, <3>3 DEF Pending, Touched
      <4> QED
        BY <1>7, <1>9, <4>1
    <3>4. CASE tab[t].staged.does[k] = Kept
      <4>1. k \notin Touched(Unlanded(t).does)'
        BY <3>2, <3>4 DEF Touched
      <4>2. k \notin Touched(call[c].own.does)
        BY <1>3, <1>5, <1>6, <1>9, <4>1
      <4>3. Committed(c).does[k] = call[c].taken.does[k]
        BY <4>2, CommittedTypes DEF Touched
      <4>4. Unlanded(t).does[k] = call[c].taken.does[k] /\ Unlanded(t)'.does[k] = Kept
        BY <3>2, <3>4 DEF Pending
      <4>5. CASE k \notin keys
        <5>1. call[c].taken.does[k] = Kept
          BY <4>3, <4>5 DEF Touched
        <5> QED
          BY <1>7, <1>9, <4>4, <4>5, <5>1
      <4>6. CASE k \in keys
        <5>1. call[c].taken.does[k] # Kept /\ k \in Touched(Unlanded(t).does)
          BY <4>3, <4>4, <4>6 DEF Touched
        <5>2. Due(t, k)
          BY <1>6, <1>9, <1>x, <5>1 DEF Due
        <5>3. View(t)[k] = call[c].taken.does[k] /\ View(t)'[k] = call[c].taken.does[k]
          BY <1>t, <1>2, <4>3, <4>4, <4>6, <5>1, ViewAt
        <5> QED
          BY <1>t, <1>9, <5>2, <5>3, AgreesStill DEF ResidentRight
      <4> QED
        BY <4>5, <4>6
    <3> QED
      BY <3>3, <3>4
  <2> QED
    BY <2>1, <2>2
<1> QED
  BY <1>8, <1>9
(* A call finishes: its own tab shows its writes, but for what has been    *)
(* overtaken or overwritten since; the others are told, or excused.        *)
LEMMA FinishRight ==
  ASSUME TypeOK, LockHeld, StagesWhenDeferred, LandedTold, ResidentRight,
         NEW c \in Tasks, Finish(c)
  PROVE  ResidentRight'
<1> DEFINE t == TabOf[c]
           w == Committed(c)
           n == NewsOf(w, call[c].epoch, call[c].late)
           mine == Touched(call[c].own.does)
           behind == mine \cap (call[c].late \cup Touched(tab[t].staged.does))
           after == Mirrored([tab[t] EXCEPT !.local = Noted(@, n)], call[c])
<1>t. t \in Tabs /\ tab[t] \in TabStates /\ tab \in [Tabs -> TabStates] /\ NoTask \notin Tasks
  BY EagerAssumption DEF TypeOK
<1>c. call[c] \in Calls /\ call[c].own \in WriteSets /\ call[c].late \in SUBSET Keys
  BY CommittedTypes DEF Calls
<1>1. /\ pc[c] = "landed" /\ pc'[c] = "idle" /\ store' = store
      /\ lock'[t] = IF lock[t] = c THEN NoTask ELSE lock[t]
  BY CallOwn DEF Finish
<1>2. \A d \in Tasks \ {c} : pc'[d] = pc[d] /\ call'[d] = call[d]
  BY DEF Finish, Quit, TypeOK
<1>3. \A s \in Tabs \ {t} : tab'[s] = tab[s] /\ lock'[s] = lock[s]
  BY CallFrame
<1>4. /\ \/ chan' = Posted(chan, t, n, Listening)
         \/ \A s \in Tabs \ {t} : Touched(w.does) \subseteq excuse'[s]
      /\ chan' = chan \/ chan' = Posted(chan, t, n, Listening)
      /\ \A s \in Tabs \ {t} : excuse[s] \subseteq excuse'[s]
      /\ excuse'[t] = (excuse[t] \ mine) \cup behind
  <2>1. PICK lost \in BOOLEAN :
          /\ chan' = IF lost THEN chan ELSE Posted(chan, t, n, Listening)
          /\ excuse' = [s \in Tabs |->
               IF s = t THEN (excuse[s] \ mine) \cup behind
               ELSE IF lost THEN excuse[s] \cup Touched(w.does) ELSE excuse[s]]
    BY DEF Finish
  <2> HIDE DEF n, mine, behind, w
  <2> QED
    BY <1>t, <2>1
<1>5. \/ tab'[t].phase = "closed"
      \/ /\ tab'[t].phase = tab[t].phase /\ tab'[t].staged = tab[t].staged
         /\ \A k \in Keys \ mine : SameMap(t, k)
         /\ \A k \in mine : tab'[t].values[k] = call[c].own.does[k]
  <2>1. \/ tab'[t] = Shutting(after, TRUE)
        \/ tab'[t] = after
    BY <1>t DEF Finish
  <2>2. /\ after.phase = tab[t].phase /\ after.staged = tab[t].staged
        /\ after.values = Then(tab[t].values, call[c].own.does)
        /\ after.corrupt = tab[t].corrupt
        /\ after.dropped = IF call[c].own.cleared THEN {}
                           ELSE IF call[c].op = "write" THEN tab[t].dropped \ mine
                           ELSE tab[t].dropped \ {k \in Keys : call[c].own.does[k] = Gone}
    BY <1>t DEF Mirrored, TabStates
  <2>3. Shutting(after, TRUE).phase = "closed"
    <3>1. [tab[t] EXCEPT !.local = Noted(@, n)].phase = tab[t].phase
      BY <1>t DEF TabStates
    <3> QED
      BY <1>t DEF Shutting, Mirrored, TabStates
  <2>4. call[c].own.cleared => mine = Keys
    BY <1>c DEF WriteSets
  <2>5. \A k \in Keys \ mine : call[c].own.does[k] = Kept
    BY DEF Touched
  <2>6. \A k \in mine : k \in Keys /\ call[c].own.does[k] # Kept
    BY DEF Touched
  <2>7. \A k \in Keys \ mine : k \in tab[t].dropped => k \in after.dropped
    BY <2>2, <2>4, <2>5, BatchAssumption
  <2>8. \A k \in Keys : after.values[k] = IF call[c].own.does[k] = Kept THEN tab[t].values[k]
                                                                     ELSE call[c].own.does[k]
    BY <2>2, ThenAt
  <2> HIDE DEF after, mine
  <2> QED
    BY <2>1, <2>2, <2>3, <2>5, <2>6, <2>7, <2>8 DEF SameMap
<1>6. tab'[t].staged = tab[t].staged => \A k \in Keys :
        /\ Unlanded(t)'.does[k] = Unlanded(t).does[k]
        /\ Unlanded(t).does[k] = tab[t].staged.does[k]
  <2>1. CASE lock[t] = c
    <3>1. ~Draining(t) /\ ~Draining(t)'
      BY <1>1, <2>1 DEF Draining
    <3> QED
      BY <1>t, <3>1, UnlandedAt DEF Pending
  <2>2. CASE lock[t] # c
    <3>1. call[c].op = "write" /\ lock'[t] = lock[t]
      BY <1>1, <2>2 DEF LockHeld
    <3>2. \A d \in Tasks : TabOf[d] = t => call[d].taken = NoWrites
      BY <3>1 DEF StagesWhenDeferred
    <3>3. lock[t] # NoTask => lock[t] \in Tasks \ {c} /\ TabOf[lock[t]] = t
      BY <1>t, <2>2 DEF LockHeld, TypeOK
    <3>4. Draining(t) => call[lock[t]].taken = NoWrites
      BY <3>2, <3>3 DEF Draining
    <3> QED
      BY <1>t, <1>2, <3>1, <3>3, <3>4, UnlandedAt, UnlandedSame, NothingWritten DEF Pending
  <2> QED
    BY <2>1, <2>2
<1> SUFFICES ASSUME NEW s \in Tabs, NEW k \in Keys, Due(s, k)'
             PROVE  Agrees(s, k)'
  BY DEF ResidentRight
<1>7. /\ k \notin excuse'[s] /\ tab'[s].phase \in {"loading", "open"}
      /\ \/ tab'[s].phase = "loading"
         \/ k \in Touched(Unlanded(s).does)' \/ ~Awaited(s, k)'
  BY DEF Due
<1>8. ASSUME NEW r \in Tabs, NEW i \in DOMAIN chan[r][s],
             k \in Touched(chan[r][s][i].does) \ chan[r][s][i].late
      PROVE  Awaited(s, k)'
  <2>1. chan \in Chans /\ chan[r][s] \in Seq(News)
    BY DEF TypeOK, Chans
  <2>2. chan'[r][s] = chan[r][s] \/ chan'[r][s] = Append(chan[r][s], n)
    <3> HIDE DEF n
    <3> QED
      BY <1>t, <1>4, <2>1, ChanAt
  <2>3. i \in DOMAIN chan'[r][s] /\ chan'[r][s][i] = chan[r][s][i]
    <3> HIDE DEF n
    <3> QED
      BY <1>8, <2>1, <2>2
  <2> QED
    BY <1>8, <2>3 DEF Awaited
<1>9. ASSUME NEW d \in Tasks \ {c}, pc[d] = "landed", k \notin call[d].late,
             k \in Touched(IF TabOf[d] = s THEN call[d].own.does ELSE Committed(d).does)
      PROVE  Awaited(s, k)'
  <2>1. Committed(d)' = Committed(d)
    BY <1>2 DEF Committed
  <2> QED
    BY <1>2, <1>9, <2>1 DEF Awaited
<1>10. CASE s = t /\ k \in mine
  <2>1. tab'[t].staged = tab[t].staged /\ tab'[t].values[k] = call[c].own.does[k]
    BY <1>5, <1>7, <1>10
  <2>2. k \notin call[c].late /\ tab[t].staged.does[k] = Kept
    BY <1>4, <1>7, <1>10 DEF Touched
  <2>3. Unlanded(t)'.does[k] = Kept
    BY <1>6, <2>1, <2>2
  <2>4. Committed(c).does[k] = call[c].own.does[k] /\ k \in Touched(Committed(c).does)
    BY <1>10, CommittedTypes DEF Touched
  <2>5. store[k] = call[c].own.does[k]
    BY <1>1, <2>2, <2>4 DEF LandedTold
  <2>6. View(t)'[k] = call[c].own.does[k]
    BY <1>t, <1>1, <2>3, <2>5, ViewAt
  <2> QED
    BY <1>10, <2>1, <2>6 DEF Agrees, Get, Holds
<1>11. CASE s = t /\ k \notin mine
  <2>1. tab'[t].phase = tab[t].phase /\ tab'[t].staged = tab[t].staged /\ SameMap(t, k)
    BY <1>5, <1>7, <1>11
  <2>2. Unlanded(t)'.does[k] = Unlanded(t).does[k]
    BY <1>6, <2>1
  <2>3. Awaited(t, k) => Awaited(t, k)'
    BY <1>8, <1>9, <1>11 DEF Awaited
  <2>4. k \notin excuse[t] /\ (k \in Touched(Unlanded(t).does)' => k \in Touched(Unlanded(t).does))
    BY <1>4, <1>7, <1>11, <2>2 DEF Touched
  <2>5. Due(t, k)
    BY <1>7, <1>11, <2>1, <2>3, <2>4 DEF Due
  <2>6. View(t)'[k] = View(t)[k]
    BY <1>t, <1>1, <2>2, ViewAt
  <2> QED
    BY <1>t, <1>11, <2>1, <2>5, <2>6, AgreesStill DEF ResidentRight, SameMap
<1>12. CASE s # t
  <2>1. tab'[s] = tab[s] /\ k \notin excuse[s]
    BY <1>3, <1>4, <1>7, <1>12
  <2>2. Unlanded(s)'.does[k] = Unlanded(s).does[k]
    BY <1>12, UnlandedElsewhere
  <2>3. tab[s].phase = "open" /\ k \notin call[c].late /\ k \in Touched(w.does) => Awaited(s, k)'
    <3> SUFFICES ASSUME tab[s].phase = "open", k \notin call[c].late, k \in Touched(w.does)
                 PROVE  Awaited(s, k)'
      OBVIOUS
    <3>1. s \in Listening \ {t}
      BY <1>12 DEF Listening
    <3>2. chan' = Posted(chan, t, n, Listening)
      BY <1>4, <1>7, <1>12
    <3>3. chan \in Chans /\ chan[t][s] \in Seq(News)
      BY <1>t DEF TypeOK, Chans
    <3>4. n \in News /\ n.late = call[c].late /\ k \in Touched(n.does)
      <4>1. call[c].epoch \in Nat /\ call[c].late \in SUBSET Keys /\ w \in WriteSets
        BY <1>c, CommittedTypes DEF Calls
      <4>2. n.late = call[c].late
        BY DEF NewsOf
      <4> QED
        BY <4>1, <4>2, NewsTypes DEF Touched
    <3> HIDE DEF n
    <3>5. chan'[t][s] = Append(chan[t][s], n)
      BY <1>t, <3>1, <3>2, <3>3, ChanAt
    <3>6. Len(chan[t][s]) + 1 \in DOMAIN chan'[t][s] /\ chan'[t][s][Len(chan[t][s]) + 1] = n
      BY <3>3, <3>4, <3>5
    <3> QED
      BY <1>t, <3>4, <3>6 DEF Awaited
  <2>4. tab[s].phase = "open" /\ Awaited(s, k) => Awaited(s, k)'
    BY <1>8, <1>9, <1>12, <2>3 DEF Awaited
  <2>5. Due(s, k)
    <3>1. k \in Touched(Unlanded(s).does)' => k \in Touched(Unlanded(s).does)
      BY <2>2 DEF Touched
    <3> QED
      BY <1>7, <2>1, <2>4, <3>1 DEF Due
  <2>6. View(s)'[k] = View(s)[k]
    BY <1>1, <2>2, ViewAt
  <2> QED
    BY <2>1, <2>5, <2>6, AgreesStill DEF ResidentRight
<1> QED
  BY <1>10, <1>11, <1>12
-----------------------------------------------------------------------------
(* A tab's own steps. *)

(* The lock and the batches of every tab, when no call takes a step. *)
LEMMA UnlandedIdle ==
  ASSUME UNCHANGED <<lock, pc, call>>, NEW s \in Tabs, tab'[s].staged = tab[s].staged,
         NEW k \in Keys
  PROVE  Unlanded(s)'.does[k] = Unlanded(s).does[k]
BY UnlandedSame

(* Opening: the walk finds what is stored. *)
LEMMA LoadRight ==
  ASSUME TypeOK, LockHeld, ResidentRight, NEW t \in Tabs, Load(t)
  PROVE  ResidentRight'
<1>t. tab[t] \in TabStates /\ tab \in [Tabs -> TabStates]
  BY DEF TypeOK
<1>1. /\ UNCHANGED <<store, chan, lock, pc, call>>
      /\ excuse' = [excuse EXCEPT ![t] = {}]
      /\ \A s \in Tabs \ {t} : tab'[s] = tab[s]
  BY DEF Load, TypeOK
<1>2. /\ tab'[t].staged = NoWrites
      /\ \A k \in Keys : tab'[t].values[k] = IF store[k] = Junk THEN Gone ELSE store[k]
      /\ tab'[t].corrupt = {k \in Keys : store[k] = Junk}
  BY <1>t DEF Load, TabStates
<1> SUFFICES ASSUME NEW s \in Tabs, NEW k \in Keys, Due(s, k)'
             PROVE  Agrees(s, k)'
  BY DEF ResidentRight
<1>3. CASE s = t
  <2>1. lock[t] = NoTask
    <3>1. \A c \in Mine(t) : pc[c] = "idle"
      BY DEF Load
    <3>2. lock[t] # NoTask => lock[t] \in Mine(t) /\ pc[lock[t]] # "idle"
      <4>1. lock[t] \in Tasks \cup {NoTask}
        BY DEF TypeOK
      <4> QED
        BY <4>1 DEF LockHeld, Mine
    <3> QED
      BY <3>1, <3>2
  <2>2. ~Draining(t)'
    BY <1>1, <2>1 DEF Draining
  <2>3. Unlanded(t)'.does[k] = Kept
    BY <1>2, <2>2, UnlandedAt, NothingWritten DEF Pending
  <2>4. View(t)'[k] = store[k]
    BY <1>1, <2>3, ViewAt
  <2> QED
    BY <1>2, <1>3, <2>4 DEF Agrees, Get, Holds
<1>4. CASE s # t
  <2>1. tab'[s] = tab[s] /\ Unlanded(s)'.does[k] = Unlanded(s).does[k]
    BY <1>1, <1>4, UnlandedIdle
  <2>2. View(s)'[k] = View(s)[k]
    BY <1>1, <2>1, ViewAt
  <2>3. Due(s, k)
    <3>1. Awaited(s, k)' <=> Awaited(s, k)
      BY <1>1 DEF Awaited, Committed
    <3>2. excuse'[s] = excuse[s] /\ (k \in Touched(Unlanded(s).does)' <=> k \in Touched(Unlanded(s).does))
      BY <1>1, <1>4, <2>1 DEF Touched, TypeOK
    <3> QED
      BY <2>1, <3>1, <3>2 DEF Due
  <2> QED
    BY <2>1, <2>2, <2>3, AgreesStill DEF ResidentRight
<1> QED
  BY <1>3, <1>4

LEMMA JoinRight ==
  ASSUME TypeOK, ResidentRight, NEW t \in Tabs, JoinCoherence(t)
  PROVE  ResidentRight'
<1>t. tab[t] \in TabStates /\ tab \in [Tabs -> TabStates]
  BY DEF TypeOK
<1>1. /\ UNCHANGED <<store, chan, lock, pc, call, excuse>>
      /\ \A s \in Tabs \ {t} : tab'[s] = tab[s]
      /\ tab[t].phase = "loading" /\ tab'[t].staged = tab[t].staged
      /\ \A k \in Keys : SameMap(t, k)
  BY <1>t DEF JoinCoherence, TabStates, SameMap
<1> SUFFICES ASSUME NEW s \in Tabs, NEW k \in Keys, Due(s, k)'
             PROVE  Agrees(s, k)'
  BY DEF ResidentRight
<1>2. Unlanded(s)'.does[k] = Unlanded(s).does[k]
  BY <1>1, UnlandedIdle
<1>3. Due(s, k)
  <2>1. Awaited(s, k)' <=> Awaited(s, k)
    BY <1>1 DEF Awaited, Committed
  <2>2. k \in Touched(Unlanded(s).does)' <=> k \in Touched(Unlanded(s).does)
    BY <1>2 DEF Touched
  <2> QED
    BY <1>1, <2>1, <2>2 DEF Due
<1>4. View(s)'[k] = View(s)[k]
  BY <1>1, <1>2, ViewAt
<1> QED
  BY <1>1, <1>3, <1>4, AgreesStill DEF ResidentRight, SameMap

(* A tab ends: what its landed calls have not told, the others are excused *)
(* from; what it posted is still delivered.                                *)
LEMMA EndRight ==
  ASSUME TypeOK, LockHeld, ResidentRight, NEW t \in Tabs, EndTab(t)
  PROVE  ResidentRight'
<1>t. tab[t] \in TabStates /\ tab \in [Tabs -> TabStates] /\ chan \in Chans
  BY DEF TypeOK, Chans
<1>1. /\ store' = store /\ chan' = Unplugged(chan, t)
      /\ \A s \in Tabs \ {t} : tab'[s] = tab[s] /\ lock'[s] = lock[s]
      /\ tab'[t].phase = "shut"
      /\ \A c \in Tasks \ Mine(t) : pc'[c] = pc[c] /\ call'[c] = call[c]
  BY <1>t DEF EndTab, TabStates, TypeOK
<1>2. \A s \in Tabs \ {t} : excuse[s] \subseteq excuse'[s] /\
        \A c \in Mine(t) : pc[c] = "landed" => Touched(Committed(c).does) \subseteq excuse'[s]
  <2> DEFINE unsaid == UNION {Touched(Committed(c).does) : c \in {d \in Mine(t) : pc[d] = "landed"}}
  <2>1. \A c \in Mine(t) : pc[c] = "landed" => Touched(Committed(c).does) \subseteq unsaid
    OBVIOUS
  <2>2. excuse' = [s \in Tabs |-> IF s = t THEN {} ELSE excuse[s] \cup unsaid]
    BY DEF EndTab
  <2> HIDE DEF unsaid
  <2> QED
    BY <2>1, <2>2
<1> SUFFICES ASSUME NEW s \in Tabs, NEW k \in Keys, Due(s, k)'
             PROVE  Agrees(s, k)'
  BY DEF ResidentRight
<1>3. s # t
  BY <1>1 DEF Due
<1>4. Unlanded(s)'.does[k] = Unlanded(s).does[k]
  <2>1. lock[s] # NoTask => lock[s] \in Tasks \ Mine(t)
    BY <1>3 DEF LockHeld, Mine, TypeOK
  <2> QED
    BY <1>1, <1>3, <2>1, UnlandedSame
<1>5. Awaited(s, k) => Awaited(s, k)'
  <2> SUFFICES ASSUME Awaited(s, k)
               PROVE  Awaited(s, k)'
    OBVIOUS
  <2>1. ASSUME NEW r \in Tabs, NEW i \in DOMAIN chan[r][s],
               k \in Touched(chan[r][s][i].does) \ chan[r][s][i].late
        PROVE  Awaited(s, k)'
    <3>1. chan'[r][s] = chan[r][s]
      BY <1>t, <1>1, <1>3, ChanAt
    <3> QED
      BY <2>1, <3>1 DEF Awaited
  <2>2. ASSUME NEW d \in Tasks, pc[d] = "landed", k \notin call[d].late,
               k \in Touched(IF TabOf[d] = s THEN call[d].own.does ELSE Committed(d).does)
        PROVE  Awaited(s, k)'
    <3>1. d \notin Mine(t)
      <4>1. ASSUME d \in Mine(t)
            PROVE  FALSE
        <5>1. TabOf[d] = t
          BY <4>1 DEF Mine
        <5>2. k \in Touched(Committed(d).does)
          BY <1>3, <2>2, <5>1
        <5>3. k \in excuse'[s]
          BY <1>2, <1>3, <2>2, <4>1, <5>2
        <5> QED
          BY <5>3 DEF Due
      <4> QED
        BY <4>1
    <3>2. pc'[d] = "landed" /\ call'[d] = call[d]
      BY <1>1, <2>2, <3>1
    <3>3. Committed(d)' = Committed(d)
      BY <3>2 DEF Committed
    <3> QED
      BY <2>2, <3>2, <3>3 DEF Awaited
  <2> QED
    BY <2>1, <2>2 DEF Awaited
<1>6. Due(s, k)
  <2>1. k \in Touched(Unlanded(s).does)' <=> k \in Touched(Unlanded(s).does)
    BY <1>4 DEF Touched
  <2> QED
    BY <1>1, <1>2, <1>3, <1>5, <2>1 DEF Due
<1>7. View(s)'[k] = View(s)[k]
  BY <1>1, <1>4, ViewAt
<1> QED
  BY <1>1, <1>3, <1>6, <1>7, AgreesStill DEF ResidentRight

(* News is heard: the newest there is makes the map agree; what is refused *)
(* or applied out of turn is excused.                                      *)
LEMMA HearRight ==
  ASSUME TypeOK, NewsTold, ResidentRight, NEW r \in Tabs, NEW t \in Tabs, Hear(r, t)
  PROVE  ResidentRight'
<1> DEFINE n == Head(chan[r][t])
           own == OwnNewer(tab[t], n)
           a == Absorbed(tab[t], n, Named(n) \ own)
           heard == Covered(n) \ own
           ordered == {k \in Named(n) : ~n.cleared /\ n.epoch <= tab[t].local[k]}
<1>t. tab[t] \in TabStates /\ tab \in [Tabs -> TabStates] /\ chan \in Chans /\ chan[r][t] \in Seq(News)
  BY DEF TypeOK, Chans
<1>1. /\ UNCHANGED <<store, lock, pc, call>> /\ chan' = Heard(chan, r, t) /\ chan[r][t] # <<>>
      /\ \A s \in Tabs \ {t} : tab'[s] = tab[s] /\ excuse'[s] = excuse[s]
      /\ tab'[t].staged = tab[t].staged /\ tab'[t].phase = tab[t].phase
  <2>1. \A s \in Tabs \ {t} : excuse'[s] = excuse[s]
    BY DEF Hear, TypeOK
  <2> QED
    BY <2>1, HearTab DEF Hear
<1>2. n \in News /\ 1 \in DOMAIN chan[r][t] /\ chan[r][t][1] = n
  BY <1>t, <1>1
<1>3. Told(n)
  BY <1>2 DEF NewsTold
<1>4. Covered(n) = Touched(n.does)
  BY <1>3 DEF Told, Covered
<1> SUFFICES ASSUME NEW s \in Tabs, NEW k \in Keys, Due(s, k)'
             PROVE  Agrees(s, k)'
  BY DEF ResidentRight
<1>5. Unlanded(s)'.does[k] = Unlanded(s).does[k]
  BY <1>1, UnlandedIdle
<1>6. View(s)'[k] = View(s)[k]
  BY <1>1, <1>5, ViewAt
<1>7. s # t \/ k \notin Touched(n.does) \ n.late => (Awaited(s, k) => Awaited(s, k)')
  <2> SUFFICES ASSUME s # t \/ k \notin Touched(n.does) \ n.late, Awaited(s, k)
               PROVE  Awaited(s, k)'
    OBVIOUS
  <2>1. ASSUME NEW p \in Tabs, NEW i \in DOMAIN chan[p][s],
               k \in Touched(chan[p][s][i].does) \ chan[p][s][i].late
        PROVE  Awaited(s, k)'
    <3>1. CASE chan'[p][s] = chan[p][s]
      BY <2>1, <3>1 DEF Awaited
    <3>2. CASE p = r /\ s = t /\ chan'[r][t] = Tail(chan[r][t])
      <4>1. i # 1
        BY <1>2, <2>1, <3>2
      <4> HIDE DEF n
      <4>2. i - 1 \in DOMAIN chan'[r][t] /\ chan'[r][t][i - 1] = chan[r][t][i]
        BY <1>t, <1>1, <2>1, <3>2, <4>1
      <4> QED
        BY <2>1, <3>2, <4>2 DEF Awaited
    <3> QED
      BY <1>t, <1>1, <3>1, <3>2, ChanAt
  <2>2. CASE \E d \in Tasks :
               /\ pc[d] = "landed" /\ k \notin call[d].late
               /\ k \in Touched(IF TabOf[d] = s THEN call[d].own.does ELSE Committed(d).does)
    BY <1>1, <2>2 DEF Awaited, Committed
  <2> QED
    BY <2>1, <2>2 DEF Awaited
<1>8. ASSUME tab'[s].phase = tab[s].phase, SameMap(s, k), k \notin excuse[s],
             s # t \/ tab[s].phase = "loading" \/ k \notin Touched(n.does) \ n.late
      PROVE  Agrees(s, k)'
  <2>1. k \in Touched(Unlanded(s).does)' <=> k \in Touched(Unlanded(s).does)
    BY <1>5 DEF Touched
  <2>2. Due(s, k)
    BY <1>7, <1>8, <2>1 DEF Due
  <2> QED
    BY <1>6, <1>8, <2>2, AgreesStill DEF ResidentRight, SameMap
<1>9. CASE s # t
  BY <1>1, <1>8, <1>9 DEF SameMap, Due
<1>10. CASE s = t /\ tab[t].phase # "open"
  <2>1. tab' = tab /\ excuse' = excuse /\ tab[t].phase = "loading"
    BY <1>1, <1>10 DEF Hear, Due
  <2> QED
    BY <1>8, <1>10, <2>1 DEF SameMap, Due
<1>11. CASE s = t /\ tab[t].phase = "open" /\ n.epoch <= tab[t].applied
  <2>1. tab' = tab /\ excuse' = [excuse EXCEPT ![t] = @ \cup (Covered(n) \ n.late)]
    BY <1>11 DEF Hear
  <2>2. k \notin excuse[t] /\ k \notin Touched(n.does) \ n.late
    BY <1>4, <1>11, <2>1 DEF Due, TypeOK
  <2> QED
    BY <1>8, <1>11, <2>1, <2>2 DEF SameMap
<1>12. CASE s = t /\ tab[t].phase = "open" /\ ~(n.epoch <= tab[t].applied)
  <2>1. /\ tab'[t] = a
        /\ excuse'[t] = (excuse[t] \ heard) \cup (own \ n.late)
             \cup (heard \cap ((n.late \ ordered) \cup Touched(Unlanded(t).does)))
    BY <1>t, <1>12 DEF Hear, TypeOK
  <2>2. /\ a.corrupt = tab[t].corrupt
        /\ a.values = Heeded(tab[t].values, n, Named(n) \ own)
        /\ a.dropped = ((IF n.cleared THEN {} ELSE tab[t].dropped) \ (Named(n) \ own))
                       \cup {j \in Named(n) \ own : n.does[j] = Changed}
    BY <1>t DEF Absorbed, TabStates
  <2>3. k \notin excuse'[t]
    BY <1>12 DEF Due
  <2>4. /\ n.cleared => own = {} /\ Touched(n.does) = Keys
        /\ ~n.cleared => own = ordered /\ Named(n) = Touched(n.does)
        /\ own \subseteq Named(n)
    BY <1>3 DEF OwnNewer, Named, Touched, Told
  <2>5. CASE k \in heard
    <3>1. k \in Touched(n.does) \ n.late /\ Unlanded(t).does[k] = Kept
      <4>1. k \notin ordered
        BY <2>4, <2>5
      <4> HIDE DEF ordered, own, n
      <4> QED
        BY <1>4, <2>1, <2>3, <2>5, <4>1 DEF Touched
    <3>2. store[k] = n.does[k] \/ (n.does[k] = Changed /\ store[k] \in Vals)
      BY <1>3, <3>1 DEF Told
    <3>3. View(t)'[k] = store[k]
      BY <1>1, <1>5, <1>12, <3>1, ViewAt
    <3>4. n.does[k] \in Vals \cup {Gone, Changed} /\ n.does[k] # Kept
      BY <1>2, <3>1 DEF News, Touched
    <3>5. CASE k \in Named(n)
      <4>1. k \in Named(n) \ own
        BY <2>5, <3>5
      <4>2. a.values[k] = IF n.does[k] \in Vals THEN n.does[k] ELSE Gone
        BY <2>2, <4>1 DEF Heeded
      <4>3. n.does[k] = Changed => k \in a.dropped
        BY <2>2, <4>1
      <4> HIDE DEF a, n
      <4> QED
        BY <1>12, <2>1, <3>2, <3>3, <3>4, <4>2, <4>3, BatchAssumption, CoherenceAssumption
           DEF Agrees, Get, Holds
    <3>6. CASE k \notin Named(n)
      <4>1. n.cleared /\ n.does[k] = Gone
        <5>1. n.cleared
          BY <2>4, <3>1, <3>6
        <5>2. n.does[k] # Kept
          BY <3>1 DEF Touched
        <5> HIDE DEF n
        <5> QED
          BY <3>6, <5>1, <5>2 DEF Named
      <4>2. a.values[k] = Gone
        BY <2>2, <3>6, <4>1 DEF Heeded
      <4>3. store[k] = Gone
        BY <3>2, <4>1, CoherenceAssumption
      <4> HIDE DEF a, n
      <4> QED
        BY <1>12, <2>1, <3>3, <4>2, <4>3 DEF Agrees, Get, Holds
    <3> QED
      BY <3>5, <3>6
  <2>6. CASE k \notin heard
    <3>1. k \notin excuse[t] /\ (k \in own => k \in n.late)
      <4> HIDE DEF own, heard, ordered, n
      <4> QED
        BY <2>1, <2>3, <2>6
    <3>2. k \in Touched(n.does) => k \in own
      BY <1>4, <2>6
    <3>3. k \notin Named(n) \ own /\ (n.cleared => FALSE)
      BY <2>4, <3>2 DEF Named, Touched
    <3>4. SameMap(t, k)
      <4>1. a.values[k] = tab[t].values[k]
        BY <2>2, <3>3 DEF Heeded
      <4>2. k \in tab[t].dropped => k \in a.dropped
        BY <2>2, <3>3
      <4> HIDE DEF a
      <4> QED
        BY <2>1, <2>2, <4>1, <4>2 DEF SameMap
    <3> QED
      BY <1>1, <1>8, <1>12, <3>1, <3>2, <3>4
  <2> QED
    BY <2>5, <2>6
<1> QED
  BY <1>9, <1>10, <1>11, <1>12
-----------------------------------------------------------------------------
(* The theorems. *)

LEMMA InitEager == Init => EagerInv
<1> SUFFICES ASSUME Init
             PROVE  EagerInv
  OBVIOUS
<1>1. TypeOK
  BY InitTypes
<1>2. /\ \A c \in Tasks : pc[c] = "idle" /\ call[c] = NoCall
      /\ \A t \in Tabs : lock[t] = NoTask /\ tab[t].phase = "shut" /\ tab[t].staged = NoWrites
      /\ \A s, t \in Tabs : chan[s][t] = <<>>
  BY DEF Init, NoNews
<1>3. LockHeld /\ StagesWhenDeferred /\ LoadsAlone
  BY <1>2, NoCallType DEF LockHeld, StagesWhenDeferred, LoadsAlone, Mine
<1>4. NewsTold /\ LandedTold /\ LateOnceLanded
  BY <1>2 DEF NewsTold, LandedTold, LateOnceLanded, NoCall
<1>5. ResidentRight
  BY <1>2 DEF ResidentRight, Due
<1> QED
  BY <1>1, <1>3, <1>4, <1>5 DEF EagerInv

LEMMA NextEager ==
  ASSUME EagerInv, Next
  PROVE  EagerInv'
<1> USE DEF EagerInv
<1>1. TypeOK' /\ LateOnceLanded'
  BY StepTypes, LateStep
<1>2. ASSUME NEW c \in Tasks,
             Begin(c) \/ TakeLock(c) \/ Drain(c) \/ Built(c) \/ Fail(c) \/ Land(c) \/ Finish(c)
      PROVE  EagerInv'
  <2>1. LockHeld' /\ StagesWhenDeferred' /\ LoadsAlone'
    BY <1>2, CallLock, CallStages
  <2>2. NewsTold' /\ LandedTold'
    BY <1>2, LandTells, FinishTells, CallTells
  <2>3. ResidentRight'
    <3>1. CASE \E b \in Mutations : WriteLater(c, b)
      BY <3>1, WriteLaterRight
    <3>2. CASE ~(\E b \in Mutations : WriteLater(c, b))
      BY <1>2, <3>2, QuietCalls, LandRight, FinishRight
    <3> QED
      BY <3>1, <3>2
  <2> QED
    BY <1>1, <2>1, <2>2, <2>3
<1>3. ASSUME NEW t \in Tabs,
             Load(t) \/ JoinCoherence(t) \/ EndTab(t) \/ \E s \in Tabs : Hear(s, t)
      PROVE  EagerInv'
  <2>1. LockHeld' /\ StagesWhenDeferred' /\ LoadsAlone'
    BY <1>3, TabLock, TabStages
  <2>2. NewsTold' /\ LandedTold'
    BY <1>3, TabTells
  <2>3. ResidentRight'
    BY <1>3, LoadRight, JoinRight, EndRight, HearRight
  <2> QED
    BY <1>1, <2>1, <2>2, <2>3
<1> QED
  BY <1>2, <1>3 DEF Next

(* The inductive invariant: locks and batches are in order, what is under  *)
(* way and not late is true, and a map agrees with the store wherever the  *)
(* tab awaits nothing.                                                     *)
THEOREM EagerInvHolds == Spec => []EagerInv
<1>1. EagerInv /\ UNCHANGED vars => EagerInv'
  BY DEF EagerInv, vars, TypeOK, LockHeld, StagesWhenDeferred, LoadsAlone, NewsTold, LandedTold,
     LateOnceLanded, ResidentRight, Due, Awaited, Agrees, Get, Holds, View, Unlanded, Draining,
     Committed, Told, Deferred
<1> QED
  BY InitEager, NextEager, <1>1, PTL DEF Spec

(* Nothing that is settled is awaited. *)
LEMMA SettledIsDue ==
  ASSUME NEW t \in Tabs, NEW k \in Keys, TypeOK, NewsTold, Settled(t, k)
  PROVE  Due(t, k)
<1>1. ASSUME NEW s \in Tabs, NEW i \in DOMAIN chan[s][t],
             k \in Touched(chan[s][t][i].does) \ chan[s][t][i].late
      PROVE  FALSE
  <2>1. chan[s][t][i] \in InFlight(chan, t)
    BY <1>1 DEF InFlight
  <2>2. k \in Covered(chan[s][t][i])
    BY <1>1 DEF Covered
  <2> QED
    BY <2>1, <2>2 DEF Settled
<1>2. ASSUME NEW c \in Tasks, pc[c] = "landed",
             k \in Touched(IF TabOf[c] = t THEN call[c].own.does ELSE Committed(c).does)
      PROVE  FALSE
  <2>1. k \in Touched(Committed(c).does)
    BY <1>2, CommittedTypes
  <2> QED
    BY <1>2, <2>1 DEF Settled
<1>3. ~Awaited(t, k)
  BY <1>1, <1>2 DEF Awaited
<1> QED
  BY <1>3 DEF Settled, Due

(* A get answers what is stored under the tab's own batch, once the key is *)
(* settled: for any number of tabs and callers.                            *)
THEOREM GetsAreStored == Spec => []ResidentIsStored
<1>1. EagerInv => ResidentIsStored
  BY SettledIsDue DEF EagerInv, ResidentRight, Agrees, ResidentIsStored, Keyed
<1> QED
  BY <1>1, EagerInvHolds, PTL

(* A delete that is skipped because nothing is held skips nothing.         *)
THEOREM SkippedDeletesAreEmpty == Spec => []AbsentIsProven
<1>1. EagerInv => AbsentIsProven
  BY SettledIsDue DEF EagerInv, ResidentRight, Agrees, AbsentIsProven
<1> QED
  BY <1>1, EagerInvHolds, PTL

=============================================================================

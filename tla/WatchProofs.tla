----------------------------- MODULE WatchProofs -----------------------------
(***************************************************************************)
(* NoSilentGap and GapsCounted of module Watch, for any number of keys,    *)
(* writers and subscribers, any filters, any capacity of the channels and  *)
(* any number of changes.                                                  *)
(*                                                                         *)
(* NoSilentGap is inductive once two things are added: that every stream   *)
(* that is alive is listed, or a broadcast would pass it by; and that a    *)
(* subscriber is only ever behind on keys it watches, or the filter would  *)
(* keep the event from it.                                                 *)
(*                                                                         *)
(* GapsCounted rests on what a channel holds being a sum, and on every     *)
(* event meant for a subscriber coming from a change: the second part.     *)
(***************************************************************************)
EXTENDS Watch, FiniteSetTheorems, WellFoundedInduction, TLAPS

(* Any event, its count unbounded. *)
Message == [what : {"key", "cleared", "lagged", "none"}, keys : SUBSET Keys, skipped : Nat]

Coming(q, k) == \E i \in DOMAIN q : k \in q[i].keys
Shape == /\ changing \in [Writers -> Message]
         /\ chan \in [Subscribers -> Seq(Message)]
         /\ skipped \in [Subscribers -> Nat]
         /\ alive \subseteq listed /\ listed \subseteq Subscribers
         /\ stale \in [Subscribers -> SUBSET Keys]
WatchesWhatIsStale == \A s \in Subscribers : stale[s] \subseteq Watched(s)
Covered == \A s \in alive : \A k \in stale[s] :
             \/ skipped[s] > 0
             \/ Coming(chan[s], k)
             \/ \E w \in Writers : k \in changing[w].keys
IInv == Shape /\ WatchesWhatIsStale /\ Covered

LEMMA CoveredIsNoSilentGap == Covered <=> NoSilentGap
  BY DEF Covered, NoSilentGap, Coming

(* What an event is, and whom it reaches. *)
LEMMA MessagesOfChanges ==
  /\ Changed \subseteq Message /\ NoEvent \in Message
  /\ \A n \in Nat : Lagged(n) \in Message /\ Lagged(n).keys = Keys
  /\ NoEvent.keys = {}
<1>1. \A k \in Keys : OfKey(k) \in Message
  BY DEF OfKey, Message
<1>2. Cleared \in Message
  BY DEF Cleared, Message
<1>3. NoEvent \in Message /\ NoEvent.keys = {}
  BY DEF NoEvent, Message
<1>4. \A n \in Nat : Lagged(n) \in Message /\ Lagged(n).keys = Keys
  BY DEF Lagged, Message
<1> QED BY <1>1, <1>2, <1>3, <1>4 DEF Changed

LEMMA WatchedIsKeys == \A s \in Subscribers : Watched(s) \subseteq Keys
  BY WatchAssumption DEF Watched

(* try_send keeps what the channel holds, and either the event goes in or  *)
(* it is counted as missed.                                                *)
LEMMA SentKeeps ==
  ASSUME NEW q \in Seq(Message), NEW e \in Message
  PROVE  /\ Sent(q, e).q \in Seq(Message) /\ Sent(q, e).missed \in {0, 1}
         /\ \A k : Coming(q, k) => Coming(Sent(q, e).q, k)
         /\ \A k \in e.keys : Sent(q, e).missed = 1 \/ Coming(Sent(q, e).q, k)
<1>1. CASE Room(q)
  <2>1. Sent(q, e).q = Append(q, e) /\ Sent(q, e).missed = 0
    BY <1>1 DEF Sent
  <2>2. Append(q, e) \in Seq(Message)
    OBVIOUS
  <2>3. ASSUME NEW k, Coming(q, k) PROVE Coming(Append(q, e), k)
    <3>1. PICK i \in DOMAIN q : k \in q[i].keys
      BY <2>3 DEF Coming
    <3>2. i \in DOMAIN Append(q, e) /\ Append(q, e)[i] = q[i]
      BY <3>1
    <3> QED BY <3>1, <3>2 DEF Coming
  <2>4. ASSUME NEW k \in e.keys PROVE Coming(Append(q, e), k)
    <3>1. Len(q) + 1 \in DOMAIN Append(q, e) /\ Append(q, e)[Len(q) + 1] = e
      OBVIOUS
    <3> QED BY <3>1 DEF Coming
  <2> QED BY <2>1, <2>2, <2>3, <2>4
<1>2. CASE ~Room(q)
  <2>1. Sent(q, e).q = q /\ Sent(q, e).missed = 1
    BY <1>2 DEF Sent
  <2> QED BY <2>1
<1> QED BY <1>1, <1>2

(* broadcast, for one subscriber: what was coming still is, and the event  *)
(* and any gap before it are coming too, or are still counted.             *)
LEMMA OfferKeeps ==
  ASSUME NEW q \in Seq(Message), NEW n \in Nat, NEW e \in Message
  PROVE  /\ Offer(q, n, e).q \in Seq(Message) /\ Offer(q, n, e).missed \in Nat
         /\ \A k : Coming(q, k) => Coming(Offer(q, n, e).q, k)
         /\ \A k \in Keys : n > 0 \/ k \in e.keys
              => Offer(q, n, e).missed > 0 \/ Coming(Offer(q, n, e).q, k)
<1>1. CASE n = 0
  <2>1. Offer(q, n, e) = Sent(q, e)
    BY <1>1 DEF Offer
  <2> QED BY <1>1, <2>1, SentKeeps
<1>2. CASE n # 0
  <2> DEFINE notice == Sent(q, Lagged(n))
  <2>1. Lagged(n) \in Message /\ Lagged(n).keys = Keys
    BY MessagesOfChanges
  <2>2. /\ notice.q \in Seq(Message) /\ notice.missed \in {0, 1}
        /\ \A k : Coming(q, k) => Coming(notice.q, k)
        /\ \A k \in Keys : notice.missed = 1 \/ Coming(notice.q, k)
    BY <2>1, SentKeeps
  <2>3. CASE notice.missed = 1
    <3>1. Offer(q, n, e).q = q /\ Offer(q, n, e).missed = n + 1
      BY <1>2, <2>3 DEF Offer
    <3> QED BY <3>1
  <2>4. CASE notice.missed # 1
    <3>1. Offer(q, n, e) = Sent(notice.q, e)
      BY <1>2, <2>4 DEF Offer
    <3>2. /\ Sent(notice.q, e).q \in Seq(Message) /\ Sent(notice.q, e).missed \in {0, 1}
          /\ \A k : Coming(notice.q, k) => Coming(Sent(notice.q, e).q, k)
      BY <2>2, SentKeeps
    <3> QED BY <2>2, <2>4, <3>1, <3>2
  <2> QED BY <2>3, <2>4
<1> QED BY <1>1, <1>2

-----------------------------------------------------------------------------
LEMMA Initially == Init => IInv
<1> SUFFICES ASSUME Init PROVE IInv
  OBVIOUS
<1>1. Shape
  BY MessagesOfChanges DEF Init, Shape
<1>2. WatchesWhatIsStale /\ Covered
  BY DEF Init, WatchesWhatIsStale, Covered
<1> QED BY <1>1, <1>2 DEF IInv

(* Watchers::subscribe: the new stream is listed, and has nothing to make  *)
(* up for.                                                                 *)
LEMMA SubscribeKeeps ==
  ASSUME IInv, NEW s \in Subscribers, Subscribe(s)
  PROVE  IInv'
<1> USE DEF IInv
<1>1. Shape'
  BY DEF Shape, Subscribe
<1>2. WatchesWhatIsStale'
  BY DEF Shape, WatchesWhatIsStale, Watched, Subscribe
<1>3. Covered'
  BY DEF Shape, Covered, Subscribe
<1> QED BY <1>1, <1>2, <1>3

(* The EventStream is dropped: nothing is owed to it any more.             *)
LEMMA DropKeeps ==
  ASSUME IInv, NEW s \in Subscribers, Drop(s)
  PROVE  IInv'
<1> USE DEF IInv
<1>1. Shape'
  BY DEF Shape, Drop
<1>2. WatchesWhatIsStale'
  BY DEF WatchesWhatIsStale, Watched, Drop
<1>3. Covered'
  BY DEF Shape, Covered, Drop
<1> QED BY <1>1, <1>2, <1>3

(* What a change makes stale is covered by the announcement it owes.       *)
LEMMA ChangeKeeps ==
  ASSUME IInv, NEW w \in Writers, Change(w)
  PROVE  IInv'
<1> USE DEF IInv
<1>1. PICK e \in Changed :
        /\ changing' = [changing EXCEPT ![w] = e]
        /\ stale' = [s \in Subscribers |-> stale[s] \cup (e.keys \cap Watched(s))]
  BY DEF Change
<1>2. /\ UNCHANGED <<chan, skipped, alive, listed>>
      /\ changing[w].keys = {}
  BY MessagesOfChanges DEF Change
<1>3. e \in Message
  BY MessagesOfChanges
<1>4. Shape'
  BY <1>1, <1>2, <1>3, WatchedIsKeys DEF Shape
<1>5. WatchesWhatIsStale'
  BY <1>1 DEF Shape, WatchesWhatIsStale, Watched
<1>6. Covered'
  <2> SUFFICES ASSUME NEW s \in alive', NEW k \in stale'[s],
                      ~(skipped'[s] > 0), ~Coming(chan'[s], k)
               PROVE  \E v \in Writers : k \in changing'[v].keys
    BY <1>2 DEF Covered, Coming
  <2>1. s \in alive /\ s \in Subscribers
    BY <1>2 DEF Shape
  <2>2. CASE k \in e.keys
    BY <1>1, <2>2 DEF Shape
  <2>3. CASE k \in stale[s]
    <3>1. PICK v \in Writers : k \in changing[v].keys
      BY <1>2, <2>1, <2>3 DEF Covered
    <3>2. v # w
      BY <1>2, <3>1
    <3> QED BY <1>1, <3>1, <3>2 DEF Shape
  <2> QED BY <1>1, <2>1, <2>2, <2>3
<1> QED BY <1>4, <1>5, <1>6

(* broadcast: a listed stream that watches the keys of the event is offered *)
(* it; the other streams keep what they have.                              *)
LEMMA AnnounceKeeps ==
  ASSUME IInv, NEW w \in Writers, Announce(w)
  PROVE  IInv'
<1> USE DEF IInv
<1> DEFINE e == changing[w]
           to == {s \in listed \cap alive : Matches(e, s)}
           got(s) == Offer(chan[s], skipped[s], e)
<1>1. /\ changing' = [changing EXCEPT ![w] = NoEvent]
      /\ listed' = {s \in listed : s \in alive \/ ~Matches(e, s)}
      /\ UNCHANGED <<alive, stale>>
  BY DEF Announce
<1>2. chan' = [s \in Subscribers |-> IF s \in to THEN got(s).q ELSE chan[s]]
  BY DEF Announce, Shape
<1>3. skipped' = [s \in Subscribers |-> IF s \in to THEN got(s).missed ELSE skipped[s]]
  BY DEF Announce, Shape
<1>4. e \in Message
  BY DEF Shape
<1>5. ASSUME NEW s \in Subscribers
      PROVE  /\ got(s).q \in Seq(Message) /\ got(s).missed \in Nat
             /\ \A k : Coming(chan[s], k) => Coming(got(s).q, k)
             /\ \A k \in Keys : skipped[s] > 0 \/ k \in e.keys
                  => got(s).missed > 0 \/ Coming(got(s).q, k)
  <2>1. chan[s] \in Seq(Message) /\ skipped[s] \in Nat
    BY DEF Shape
  <2> QED BY <1>4, <2>1, OfferKeeps
<1> HIDE DEF e, to, got
<1>6. Shape'
  <2>1. changing' \in [Writers -> Message]
    BY <1>1, MessagesOfChanges DEF Shape
  <2>2. chan' \in [Subscribers -> Seq(Message)]
    BY <1>2, <1>5 DEF Shape
  <2>3. skipped' \in [Subscribers -> Nat]
    BY <1>3, <1>5 DEF Shape
  <2> QED BY <1>1, <2>1, <2>2, <2>3 DEF Shape
<1>7. WatchesWhatIsStale'
  BY <1>1 DEF WatchesWhatIsStale, Watched
<1>8. Covered'
  <2> SUFFICES ASSUME NEW s \in alive, NEW k \in stale[s]
               PROVE  \/ skipped'[s] > 0
                      \/ Coming(chan'[s], k)
                      \/ \E v \in Writers : k \in changing'[v].keys
    BY <1>1 DEF Covered, Coming
  <2>1. s \in Subscribers /\ s \in listed /\ k \in Keys /\ k \in Watched(s)
    BY DEF Shape, WatchesWhatIsStale
  <2>2. CASE s \in to
    <3>1. chan'[s] = got(s).q /\ skipped'[s] = got(s).missed
      BY <1>2, <1>3, <2>1, <2>2
    <3>2. CASE skipped[s] > 0 \/ k \in e.keys \/ Coming(chan[s], k)
      BY <1>5, <2>1, <3>1, <3>2
    <3>3. CASE ~(skipped[s] > 0 \/ k \in e.keys \/ Coming(chan[s], k))
      <4>1. PICK v \in Writers : k \in changing[v].keys
        BY <3>3 DEF Covered
      <4>2. v # w
        BY <3>3, <4>1 DEF e
      <4> QED BY <1>1, <4>1, <4>2 DEF Shape
    <3> QED BY <3>2, <3>3
  <2>3. CASE s \notin to
    <3>1. chan'[s] = chan[s] /\ skipped'[s] = skipped[s]
      BY <1>2, <1>3, <2>1, <2>3
    <3>2. k \notin e.keys
      BY <2>1, <2>3 DEF to, Matches
    <3>3. ASSUME NEW v \in Writers, k \in changing[v].keys
          PROVE  \E u \in Writers : k \in changing'[u].keys
      <4>1. v # w
        BY <3>2, <3>3 DEF e
      <4> QED BY <1>1, <3>3, <4>1 DEF Shape
    <3> QED BY <3>1, <3>3 DEF Covered
  <2> QED BY <2>2, <2>3
<1> QED BY <1>6, <1>7, <1>8

(* What a subscriber has heard of it has read again.                       *)
LEMMA ReceiveKeeps ==
  ASSUME IInv, NEW s \in Subscribers, Receive(s)
  PROVE  IInv'
<1> USE DEF IInv
<1>1. /\ chan[s] # <<>> /\ chan[s] \in Seq(Message)
      /\ stale' = [stale EXCEPT ![s] = @ \ Head(chan[s]).keys]
      /\ chan' = [chan EXCEPT ![s] = Tail(@)]
      /\ UNCHANGED <<changing, skipped, alive, listed>>
  BY DEF Receive, Shape
<1>2. Shape'
  BY <1>1 DEF Shape
<1>3. WatchesWhatIsStale'
  BY <1>1 DEF Shape, WatchesWhatIsStale, Watched
<1>4. Covered'
  <2> SUFFICES ASSUME NEW r \in alive, NEW k \in stale'[r],
                      ~(skipped[r] > 0), \A w \in Writers : k \notin changing[w].keys
               PROVE  Coming(chan'[r], k)
    BY <1>1 DEF Covered, Coming
  <2>1. r \in Subscribers /\ k \in stale[r]
    BY <1>1 DEF Shape
  <2>2. PICK i \in DOMAIN chan[r] : k \in chan[r][i].keys
    BY <2>1 DEF Covered, Coming
  <2>3. CASE r # s
    BY <1>1, <2>1, <2>2, <2>3 DEF Shape, Coming
  <2>4. CASE r = s
    <3>1. k \notin Head(chan[s]).keys
      BY <1>1, <2>1, <2>4 DEF Shape
    <3>2. i # 1
      BY <1>1, <2>2, <2>4, <3>1
    <3>3. i - 1 \in DOMAIN Tail(chan[s]) /\ Tail(chan[s])[i - 1] = chan[s][i]
      BY <1>1, <2>2, <2>4, <3>2
    <3>4. chan'[s] = Tail(chan[s])
      BY <1>1 DEF Shape
    <3> QED BY <2>2, <2>4, <3>3, <3>4 DEF Coming
  <2> QED BY <2>3, <2>4
<1> QED BY <1>2, <1>3, <1>4

LEMMA Stays == IInv /\ [Next]_vars => IInv'
<1> SUFFICES ASSUME IInv, [Next]_vars PROVE IInv'
  OBVIOUS
<1>1. ASSUME NEW s \in Subscribers, Subscribe(s) \/ Drop(s) \/ Receive(s) PROVE IInv'
  BY <1>1, SubscribeKeeps, DropKeeps, ReceiveKeeps
<1>2. ASSUME NEW w \in Writers, Change(w) \/ Announce(w) PROVE IInv'
  BY <1>2, ChangeKeeps, AnnounceKeeps
<1>3. CASE UNCHANGED vars
  BY <1>3 DEF vars, IInv, Shape, WatchesWhatIsStale, Watched, Covered, Coming
<1> QED BY <1>1, <1>2, <1>3 DEF Next

(* The invariant of the events of a locker.                                *)
THEOREM InvHolds == Spec => []IInv
<1>1. Init => IInv
  BY Initially
<1>2. IInv /\ [Next]_vars => IInv'
  BY Stays
<1> QED BY <1>1, <1>2, PTL DEF Spec

(* No subscriber is out of date with nothing coming to tell it so: however *)
(* writers announce (Watchers::broadcast), streams fill up, are read and   *)
(* are dropped.                                                            *)
THEOREM GapsAreTold == Spec => []NoSilentGap
<1>1. IInv => NoSilentGap
  BY CoveredIsNoSilentGap DEF IInv
<1> QED BY <1>1, InvHolds, PTL

-----------------------------------------------------------------------------
(* What a channel holds: InChannel folds over it in an order nobody knows. *)
(* It is the number of pairs of a place and one of the events told there,  *)
(* and pairs can be counted place by place.                                *)

Units(q, S) == {p \in S \X Nat : p[2] \in 1 .. Worth(q[p[1]])}

(* Every message tells of a natural number of events.                      *)
LEMMA WorthType ==
  /\ \A e \in Message : Worth(e) \in Nat
  /\ \A e \in Changed : Worth(e) = 1
  /\ \A n \in Nat : Worth(Lagged(n)) = n
BY DEF Worth, Message, Changed, OfKey, Cleared, Lagged

(* Among sets of finite subsets there is a least one.                      *)
LEMMA LeastSubset ==
  ASSUME NEW U, IsFiniteSet(U), NEW B, B \subseteq SUBSET U, B # {}
  PROVE  \E x \in B : \A y \in B : y \subseteq x => y = x
<1>1. B \subseteq FiniteSubsetsOf(U)
  BY FS_Subset DEF FiniteSubsetsOf
<1>2. PICK x \in B : \A y \in B : ~(<<y, x>> \in StrictSubsetOrdering(U))
  BY <1>1, WFMin, FS_StrictSubsetOrderingWellFounded, Zenon
<1>3. \A y \in B : y \subseteq x => y = x
  BY <1>2 DEF StrictSubsetOrdering
<1> QED
  BY <1>3

(* The pairs of one place are as many as the events told there.            *)
LEMMA UnitsOfOne ==
  ASSUME NEW q \in Seq(Message), NEW i \in DOMAIN q
  PROVE  IsFiniteSet(Units(q, {i})) /\ Cardinality(Units(q, {i})) = Worth(q[i])
<1>1. Worth(q[i]) \in Nat
  BY WorthType
<1>2. Units(q, {i}) = {i} \X (1 .. Worth(q[i]))
  BY <1>1 DEF Units
<1>3. IsFiniteSet(1 .. Worth(q[i])) /\ Cardinality(1 .. Worth(q[i])) = Worth(q[i])
  BY <1>1, FS_Interval
<1>4. IsFiniteSet({i}) /\ Cardinality({i}) = 1
  BY FS_Singleton
<1>5. /\ IsFiniteSet({i} \X (1 .. Worth(q[i])))
      /\ Cardinality({i} \X (1 .. Worth(q[i]))) = 1 * Worth(q[i])
  <2> DEFINE place == {i}
             events == 1 .. Worth(q[i])
  <2>1. IsFiniteSet(place) /\ Cardinality(place) = 1
    BY <1>4
  <2>2. IsFiniteSet(events) /\ Cardinality(events) = Worth(q[i])
    BY <1>3
  <2> HIDE DEF place, events
  <2>3. /\ IsFiniteSet(place \X events)
        /\ Cardinality(place \X events) = Cardinality(place) * Cardinality(events)
    BY <2>1, <2>2, FS_Product
  <2> QED
    BY <2>1, <2>2, <2>3 DEF place, events
<1>6. 1 * Worth(q[i]) = Worth(q[i])
  BY <1>1
<1> QED
  BY <1>2, <1>5, <1>6, Zenon

(* The pairs of any places are finitely many, and one place can be counted *)
(* apart.                                                                  *)
LEMMA UnitsFinite ==
  ASSUME NEW q \in Seq(Message), NEW S \in SUBSET DOMAIN q
  PROVE  IsFiniteSet(Units(q, S)) /\ Cardinality(Units(q, S)) \in Nat
<1> DEFINE B == {T \in SUBSET DOMAIN q : ~IsFiniteSet(Units(q, T))}
<1>1. B = {}
  <2> SUFFICES ASSUME B # {} PROVE FALSE
    OBVIOUS
  <2>1. PICK T \in B : \A y \in B : y \subseteq T => y = T
    <3>1. B \subseteq SUBSET DOMAIN q
      OBVIOUS
    <3>2. IsFiniteSet(DOMAIN q)
      BY FS_Interval
    <3> HIDE DEF B
    <3> QED
      BY <3>1, <3>2, LeastSubset
  <2>2. T # {}
    <3>1. Units(q, {}) = {}
      BY DEF Units
    <3> QED
      BY <2>1, <3>1, FS_EmptySet
  <2>3. PICK i \in T : TRUE
    BY <2>2
  <2>4. i \in DOMAIN q /\ T \ {i} \notin B
    BY <2>1, <2>3
  <2>5. IsFiniteSet(Units(q, T \ {i})) /\ IsFiniteSet(Units(q, {i}))
    BY <2>1, <2>4, UnitsOfOne
  <2>6. Units(q, T) = Units(q, T \ {i}) \cup Units(q, {i})
    BY <2>3 DEF Units
  <2> DEFINE rest == Units(q, T \ {i})
             one == Units(q, {i})
  <2> HIDE DEF rest, one
  <2>7. IsFiniteSet(rest \cup one)
    <3>1. IsFiniteSet(rest) /\ IsFiniteSet(one)
      BY <2>5 DEF rest, one
    <3> QED
      BY <3>1, FS_Union
  <2>8. IsFiniteSet(Units(q, T))
    BY <2>6, <2>7 DEF rest, one
  <2> QED
    BY <2>1, <2>8
<1> QED
  BY <1>1, FS_CardinalityType

(* A message fewer counts for what it is worth less.                       *)
LEMMA UnitsTake ==
  ASSUME NEW q \in Seq(Message), NEW S \in SUBSET DOMAIN q, NEW i \in S
  PROVE  Cardinality(Units(q, S)) = Cardinality(Units(q, S \ {i})) + Worth(q[i])
<1>1. /\ IsFiniteSet(Units(q, S \ {i})) /\ Cardinality(Units(q, S \ {i})) \in Nat
      /\ IsFiniteSet(Units(q, {i})) /\ Cardinality(Units(q, {i})) = Worth(q[i])
  BY UnitsFinite, UnitsOfOne
<1>2. /\ Units(q, S) = Units(q, S \ {i}) \cup Units(q, {i})
      /\ Units(q, S \ {i}) \cap Units(q, {i}) = {}
  BY DEF Units
<1>3. Cardinality({}) = 0
  BY FS_EmptySet
<1>4. Cardinality(Units(q, S \ {i}) \cup Units(q, {i}))
        = Cardinality(Units(q, S \ {i})) + Worth(q[i]) - 0
  <2> DEFINE rest == Units(q, S \ {i})
             one == Units(q, {i})
  <2>1. IsFiniteSet(rest) /\ IsFiniteSet(one) /\ Cardinality(one) = Worth(q[i])
    BY <1>1
  <2>2. rest \cap one = {}
    BY <1>2
  <2> HIDE DEF rest, one
  <2>3. Cardinality(rest \cup one) = Cardinality(rest) + Cardinality(one) - Cardinality(rest \cap one)
    BY <2>1, FS_Union
  <2>4. Cardinality(rest \cup one) = Cardinality(rest) + Worth(q[i]) - 0
    BY <1>3, <2>1, <2>2, <2>3
  <2> QED
    BY <2>4 DEF rest, one
<1> QED
  BY <1>1, <1>2, <1>4, WorthType

(* The fold is the number of pairs.                                        *)
Pick(S) == CHOOSE x \in S : TRUE
LEMMA InChannelCounts ==
  ASSUME NEW q \in Seq(Message)
  PROVE  InChannel(q) = Cardinality(Units(q, DOMAIN q))
<1> DEFINE D == DOMAIN q
           Rec(g) == g = [s \in SUBSET D |->
                            IF s = {} THEN 0 ELSE g[s \ {Pick(s)}] + Worth(q[Pick(s)])]
           g == [s \in SUBSET D |-> Cardinality(Units(q, s))]
           h == CHOOSE e : Rec(e)
<1>0. \A s \in SUBSET D : s # {} => Pick(s) \in s
  BY DEF Pick
<1>1. \A s \in SUBSET D : g[s] = IF s = {} THEN 0 ELSE g[s \ {Pick(s)}] + Worth(q[Pick(s)])
  <2> TAKE s \in SUBSET D
  <2>1. CASE s = {}
    <3>1. Units(q, s) = {}
      BY <2>1 DEF Units
    <3> QED
      BY <2>1, <3>1, FS_EmptySet
  <2>2. CASE s # {}
    <3>1. Pick(s) \in s /\ s \ {Pick(s)} \in SUBSET D
      BY <1>0, <2>2
    <3> QED
      BY <2>2, <3>1, UnitsTake
  <2> QED
    BY <2>1, <2>2
<1>2. Rec(g)
  <2> HIDE DEF D
  <2>1. g = [s \in SUBSET D |-> g[s]]
    OBVIOUS
  <2> HIDE DEF g
  <2> QED
    BY <1>1, <2>1
<1>3. Rec(h)
  BY <1>2
<1>4. InChannel(q) = h[D]
  BY Zenon DEF InChannel, FoldSeq, FoldFunction, FoldFunctionOnSet, MapThenFoldSet, Pick
<1>5. \A s \in SUBSET D : h[s] = IF s = {} THEN 0 ELSE h[s \ {Pick(s)}] + Worth(q[Pick(s)])
  <2> HIDE DEF h, D
  <2> QED
    BY <1>3
<1> HIDE DEF h, g
<1> DEFINE B == {s \in SUBSET D : h[s] # g[s]}
<1>6. B = {}
  <2> SUFFICES ASSUME B # {} PROVE FALSE
    OBVIOUS
  <2>1. PICK s \in B : \A y \in B : y \subseteq s => y = s
    <3>1. B \subseteq SUBSET D /\ IsFiniteSet(D)
      BY FS_Interval
    <3> HIDE DEF B, D
    <3> QED
      BY <3>1, LeastSubset
  <2>2. s # {} /\ Pick(s) \in s
    BY <2>1, <1>0, <1>1, <1>5
  <2>3. s \ {Pick(s)} \notin B
    BY <2>1, <2>2
  <2> QED
    BY <2>1, <2>2, <2>3, <1>1, <1>5
<1> QED
  BY <1>4, <1>6 DEF g

(* What is sent is counted, what is received no longer is.                 *)
LEMMA InChannelType ==
  ASSUME NEW q \in Seq(Message)
  PROVE  InChannel(q) \in Nat
BY InChannelCounts, UnitsFinite

(* An empty channel counts nothing.                                        *)
LEMMA InChannelEmpty == InChannel(<<>>) = 0
<1>1. <<>> \in Seq(Message) /\ DOMAIN <<>> = {}
  OBVIOUS
<1>2. Units(<<>>, {}) = {}
  BY DEF Units
<1> QED
  BY <1>1, <1>2, InChannelCounts, FS_EmptySet

(* A message more counts for what it is worth,                             *)
LEMMA InChannelAppend ==
  ASSUME NEW q \in Seq(Message), NEW e \in Message
  PROVE  InChannel(Append(q, e)) = InChannel(q) + Worth(e)
<1> DEFINE p == Append(q, e)
           last == Len(q) + 1
<1>1. /\ p \in Seq(Message) /\ last \in DOMAIN p /\ p[last] = e
      /\ DOMAIN p \ {last} = DOMAIN q /\ \A i \in DOMAIN q : p[i] = q[i]
  <2>1. p \in Seq(Message) /\ last \in DOMAIN p /\ p[last] = e
    OBVIOUS
  <2>2. \A i \in DOMAIN q : p[i] = q[i]
    OBVIOUS
  <2>3. Len(q) \in Nat /\ DOMAIN q = 1 .. Len(q) /\ DOMAIN p = 1 .. last
    OBVIOUS
  <2>4. (1 .. last) \ {last} = 1 .. Len(q)
    BY <2>3
  <2> HIDE DEF p, last
  <2> QED
    BY <2>1, <2>2, <2>3, <2>4, Zenon
<1> HIDE DEF p, last
<1>2. Units(p, DOMAIN q) = Units(q, DOMAIN q)
  BY <1>1 DEF Units
<1>3. Cardinality(Units(p, DOMAIN p)) = Cardinality(Units(q, DOMAIN q)) + Worth(e)
  BY <1>1, <1>2, UnitsTake
<1> QED
  BY <1>1, <1>3, InChannelCounts DEF p

(* and the one received for as much less.                                  *)
LEMMA InChannelTail ==
  ASSUME NEW q \in Seq(Message), q # <<>>
  PROVE  InChannel(q) = InChannel(Tail(q)) + Worth(Head(q))
<1> DEFINE p == Tail(q)
           R == DOMAIN q \ {1}
<1>0. Len(q) \in Nat \ {0} /\ DOMAIN q = 1 .. Len(q)
  OBVIOUS
<1>1. /\ p \in Seq(Message) /\ 1 \in DOMAIN q /\ q[1] = Head(q)
      /\ DOMAIN p = 1 .. Len(q) - 1 /\ R = 2 .. Len(q) /\ Len(q) \in Nat
      /\ \A i \in 1 .. Len(q) - 1 : p[i] = q[i + 1]
  <2>1. R = 2 .. Len(q)
    BY <1>0
  <2>2. p \in Seq(Message) /\ Len(p) = Len(q) - 1
    BY <1>0
  <2>3. \A i \in 1 .. Len(q) - 1 : p[i] = q[i + 1]
    OBVIOUS
  <2>4. DOMAIN p = 1 .. Len(q) - 1
    BY <2>2
  <2>5. q[1] = Head(q)
    OBVIOUS
  <2> HIDE DEF p, R
  <2> QED
    BY <1>0, <2>1, <2>2, <2>3, <2>4, <2>5
<1> HIDE DEF p
<1>2. Cardinality(Units(q, DOMAIN q)) = Cardinality(Units(q, R)) + Worth(Head(q))
  BY <1>1, UnitsTake
<1>3. ExistsBijection(Units(p, DOMAIN p), Units(q, R))
  <2> HIDE DEF R
  <2> DEFINE S == Units(p, DOMAIN p)
             T == Units(q, R)
             f == [x \in S |-> <<x[1] + 1, x[2]>>]
  <2>1. \A x : x \in S <=> \E i \in 1 .. Len(q) - 1, j \in Nat : x = <<i, j>> /\ j \in 1 .. Worth(q[i + 1])
    BY <1>1 DEF Units
  <2>2. \A x : x \in T <=> \E i \in 2 .. Len(q), j \in Nat : x = <<i, j>> /\ j \in 1 .. Worth(q[i])
    BY <1>1 DEF Units
  <2> HIDE DEF S, T
  <2>3. f \in [S -> T]
    <3> SUFFICES ASSUME NEW x \in S PROVE <<x[1] + 1, x[2]>> \in T
      OBVIOUS
    <3>1. PICK i \in 1 .. Len(q) - 1, j \in Nat : x = <<i, j>> /\ j \in 1 .. Worth(q[i + 1])
      BY <2>1
    <3>2. i + 1 \in 2 .. Len(q) /\ x[1] = i /\ x[2] = j
      BY <1>1, <3>1
    <3> QED
      BY <2>2, <3>1, <3>2
  <2>4. \A x, y \in S : f[x] = f[y] => x = y
    <3> SUFFICES ASSUME NEW x \in S, NEW y \in S, f[x] = f[y] PROVE x = y
      OBVIOUS
    <3>1. PICK i \in 1 .. Len(q) - 1, j \in Nat : x = <<i, j>>
      BY <2>1
    <3>2. PICK m \in 1 .. Len(q) - 1, n \in Nat : y = <<m, n>>
      BY <2>1
    <3>3. <<i + 1, j>> = <<m + 1, n>>
      BY <3>1, <3>2
    <3> QED
      BY <1>1, <3>1, <3>2, <3>3
  <2>5. \A y \in T : \E x \in S : f[x] = y
    <3> TAKE y \in T
    <3>1. PICK i \in 2 .. Len(q), j \in Nat : y = <<i, j>> /\ j \in 1 .. Worth(q[i])
      BY <2>2
    <3> DEFINE x == <<i - 1, j>>
    <3>2. i - 1 \in 1 .. Len(q) - 1 /\ (i - 1) + 1 = i
      BY <1>1
    <3>3. x \in S
      BY <2>1, <3>1, <3>2
    <3>4. f[x] = y
      BY <3>1, <3>2, <3>3
    <3> QED
      BY <3>3, <3>4
  <2> HIDE DEF f
  <2>6. f \in Bijection(S, T)
    BY <2>3, <2>4, <2>5 DEF Bijection, Injection, Surjection, IsInjective
  <2> QED
    BY <2>6 DEF ExistsBijection, S, T
<1>4. Cardinality(Units(q, R)) = Cardinality(Units(p, DOMAIN p))
  BY <1>1, <1>3, UnitsFinite, FS_Bijection
<1> QED
  BY <1>1, <1>2, <1>4, InChannelCounts DEF p

-----------------------------------------------------------------------------
(* Every event meant for a subscriber comes from a change, and is told,    *)
(* held or counted.                                                        *)

Owing == {w \in Writers : changing[w] # NoEvent}
Bounded == /\ changing \in [Writers -> Changed \cup {NoEvent}]
           /\ chan \in [Subscribers -> Seq(Events)]
           /\ \A s \in Subscribers : Len(chan[s]) <= Capacity + 1
           /\ skipped \in [Subscribers -> Nat] /\ meant \in [Subscribers -> Nat]
           /\ told \in [Subscribers -> Nat] /\ changes \in Counts
FromChanges == /\ IsFiniteSet(Owing)
               /\ \A s \in Subscribers : /\ meant[s] + Cardinality(Owing) <= changes
                                         /\ skipped[s] <= meant[s] /\ told[s] <= meant[s]
AddsUp == \A s \in alive : meant[s] = told[s] + InChannel(chan[s]) + skipped[s]
CInv == IInv /\ Bounded /\ FromChanges /\ AddsUp

(* What is announced is a message; a count of missed ones is a number.     *)
LEMMA EventsAreMessages ==
  /\ Events \subseteq Message /\ Changed \subseteq Events
  /\ \A n \in Counts : Lagged(n) \in Events /\ n \in Nat
  /\ \A q \in Seq(Events) : q \in Seq(Message)
<1>1. \A n \in Counts : n \in Nat
  BY WatchAssumption DEF Counts
<1>2. Events \subseteq Message
  BY <1>1, MessagesOfChanges DEF Events
<1> QED
  BY <1>1, <1>2 DEF Events

(* What a subscriber is owed stays within what was announced.              *)
LEMMA EventsOwed ==
  ASSUME Bounded, FromChanges, NEW s \in Subscribers
  PROVE  /\ Cardinality(Owing) \in Nat /\ changes \in Nat /\ changes <= MaxChanges
         /\ meant[s] \in Counts /\ told[s] \in Counts /\ skipped[s] \in Counts
<1>1. Cardinality(Owing) \in Nat
  BY FS_CardinalityType DEF FromChanges
<1>2. changes \in Nat /\ changes <= MaxChanges /\ MaxChanges \in Nat
  BY WatchAssumption DEF Bounded, Counts
<1>3. /\ meant[s] \in Nat /\ told[s] \in Nat /\ skipped[s] \in Nat
      /\ meant[s] + Cardinality(Owing) <= changes
      /\ skipped[s] <= meant[s] /\ told[s] <= meant[s]
  BY DEF Bounded, FromChanges
<1> QED
  BY <1>1, <1>2, <1>3 DEF Counts

(* The invariant gives what the runs check.                                *)
LEMMA CountedFollows == CInv => GapsCounted
<1> SUFFICES ASSUME CInv PROVE GapsCounted
  OBVIOUS
<1>1. \A s \in Subscribers : meant[s] \in Counts /\ told[s] \in Counts /\ skipped[s] \in Counts
  BY EventsOwed DEF CInv
<1>2. skipped \in [Subscribers -> Counts] /\ meant \in [Subscribers -> Counts]
      /\ told \in [Subscribers -> Counts]
  BY <1>1 DEF CInv, Bounded
<1>3. alive \subseteq Subscribers /\ listed \subseteq Subscribers
  BY DEF CInv, IInv, Shape
<1>4. \A s \in Subscribers : /\ Len(chan[s]) <= Capacity + 1
                             /\ \A i \in DOMAIN chan[s] : chan[s][i] \in Events
  BY DEF CInv, Bounded
<1>5. \A s \in Subscribers : stale[s] \subseteq Watched(s)
  BY DEF CInv, IInv, WatchesWhatIsStale
<1>6. TypeOK
  BY <1>2, <1>3, <1>4, <1>5 DEF CInv, Bounded, TypeOK
<1> QED
  BY <1>6 DEF CInv, AddsUp, GapsCounted

(* try_send: the channel takes the events a message tells of, or the       *)
(* message is missed.                                                      *)
LEMMA SentCounts ==
  ASSUME NEW q \in Seq(Events), Len(q) <= Capacity + 1, NEW e \in Events
  PROVE  /\ Sent(q, e).q \in Seq(Events) /\ Len(Sent(q, e).q) <= Capacity + 1
         /\ \/ Sent(q, e).missed = 0 /\ InChannel(Sent(q, e).q) = InChannel(q) + Worth(e)
            \/ Sent(q, e).missed = 1 /\ Sent(q, e).q = q
<1>1. CASE Room(q)
  <2>1. Sent(q, e).q = Append(q, e) /\ Sent(q, e).missed = 0
    BY <1>1 DEF Sent
  <2>2. Append(q, e) \in Seq(Events) /\ Len(Append(q, e)) = Len(q) + 1 /\ Len(q) \in Nat
    OBVIOUS
  <2>3. Len(q) <= Capacity /\ Capacity \in Nat
    BY <1>1, WatchAssumption DEF Room
  <2>4. InChannel(Append(q, e)) = InChannel(q) + Worth(e)
    BY EventsAreMessages, InChannelAppend
  <2> QED
    BY <2>1, <2>2, <2>3, <2>4
<1>2. CASE ~Room(q)
  BY <1>2 DEF Sent
<1> QED
  BY <1>1, <1>2

(* broadcast, for one subscriber: one event more is held or counted.       *)
LEMMA OfferCounts ==
  ASSUME NEW q \in Seq(Events), Len(q) <= Capacity + 1, NEW n \in Counts, NEW e \in Changed
  PROVE  /\ Offer(q, n, e).q \in Seq(Events) /\ Len(Offer(q, n, e).q) <= Capacity + 1
         /\ Offer(q, n, e).missed \in Nat /\ Offer(q, n, e).missed <= n + 1
         /\ InChannel(Offer(q, n, e).q) + Offer(q, n, e).missed = InChannel(q) + n + 1
<1>1. /\ e \in Events /\ Worth(e) = 1 /\ n \in Nat /\ InChannel(q) \in Nat
      /\ Lagged(n) \in Events /\ Worth(Lagged(n)) = n
  BY EventsAreMessages, WorthType, InChannelType
<1>2. CASE n = 0
  <2>1. Offer(q, n, e) = Sent(q, e)
    BY <1>2 DEF Offer
  <2>2. /\ Sent(q, e).q \in Seq(Events) /\ Len(Sent(q, e).q) <= Capacity + 1
        /\ \/ Sent(q, e).missed = 0 /\ InChannel(Sent(q, e).q) = InChannel(q) + 1
           \/ Sent(q, e).missed = 1 /\ Sent(q, e).q = q
    BY <1>1, SentCounts
  <2> QED
    BY <1>1, <1>2, <2>1, <2>2
<1>3. CASE n # 0
  <2> DEFINE notice == Sent(q, Lagged(n))
             after == Sent(notice.q, e)
  <2>1. /\ notice.q \in Seq(Events) /\ Len(notice.q) <= Capacity + 1
        /\ \/ notice.missed = 0 /\ InChannel(notice.q) = InChannel(q) + n
           \/ notice.missed = 1 /\ notice.q = q
    BY <1>1, SentCounts
  <2>2. CASE notice.missed = 1
    <3>1. Offer(q, n, e).q = q /\ Offer(q, n, e).missed = n + 1
      BY <1>3, <2>2 DEF Offer
    <3> QED
      BY <1>1, <3>1
  <2>3. CASE notice.missed # 1
    <3>1. Offer(q, n, e) = after
      BY <1>3, <2>3 DEF Offer
    <3>2. InChannel(notice.q) = InChannel(q) + n
      BY <2>1, <2>3
    <3>3. /\ after.q \in Seq(Events) /\ Len(after.q) <= Capacity + 1
          /\ \/ after.missed = 0 /\ InChannel(after.q) = InChannel(notice.q) + 1
             \/ after.missed = 1 /\ after.q = notice.q
      BY <1>1, <2>1, SentCounts
    <3> HIDE DEF after, notice
    <3> QED
      BY <1>1, <3>1, <3>2, <3>3
  <2> QED
    BY <2>2, <2>3
<1> QED
  BY <1>2, <1>3

(* The count holds at first.                                               *)
LEMMA CountedInitially == Init => CInv
<1> SUFFICES ASSUME Init PROVE CInv
  OBVIOUS
<1>1. Bounded
  <2>1. \A s \in Subscribers : chan[s] = <<>>
    BY DEF Init
  <2>2. 0 <= Capacity + 1 /\ 0 \in Counts
    BY WatchAssumption DEF Counts
  <2>3. <<>> \in Seq(Events) /\ Len(<<>>) = 0
    OBVIOUS
  <2> QED
    BY <2>1, <2>2, <2>3 DEF Init, Bounded
<1>2. FromChanges
  <2>1. Owing = {}
    BY DEF Init, Owing
  <2> QED
    BY <2>1, FS_EmptySet DEF Init, FromChanges
<1>3. AddsUp
  BY DEF Init, AddsUp
<1> QED
  BY <1>1, <1>2, <1>3, Initially DEF CInv

(* A new stream begins at nothing; a dropped one is no longer counted.     *)
LEMMA SubscribeCounts ==
  ASSUME CInv, NEW s \in Subscribers, Subscribe(s)
  PROVE  Bounded' /\ FromChanges' /\ AddsUp'
<1> USE DEF CInv
<1>1. /\ alive' = alive \cup {s}
      /\ chan' = [chan EXCEPT ![s] = <<>>] /\ skipped' = [skipped EXCEPT ![s] = 0]
      /\ meant' = [meant EXCEPT ![s] = 0] /\ told' = [told EXCEPT ![s] = 0]
      /\ changing' = changing /\ changes' = changes
  BY DEF Subscribe
<1>2. Bounded'
  <2>1. <<>> \in Seq(Events) /\ Len(<<>>) = 0 /\ 0 <= Capacity + 1
    BY WatchAssumption
  <2> QED
    BY <1>1, <2>1 DEF Bounded
<1>3. FromChanges'
  <2>1. Owing' = Owing
    BY <1>1 DEF Owing
  <2>2. \A r \in Subscribers : /\ meant[r] + Cardinality(Owing) <= changes
                               /\ meant[r] \in Nat /\ changes \in Nat
    BY EventsOwed DEF Bounded, FromChanges
  <2>3. 0 + Cardinality(Owing) <= changes
    BY <2>2, EventsOwed
  <2> QED
    BY <1>1, <2>1, <2>2, <2>3 DEF FromChanges, Bounded
<1>4. AddsUp'
  BY <1>1, InChannelEmpty DEF AddsUp, Bounded, IInv, Shape
<1> QED
  BY <1>2, <1>3, <1>4

(* A subscriber that goes takes its count along.                           *)
LEMMA DropCounts ==
  ASSUME CInv, NEW s \in Subscribers, Drop(s)
  PROVE  Bounded' /\ FromChanges' /\ AddsUp'
<1> USE DEF CInv
<1>1. /\ alive' = alive \ {s} /\ chan' = [chan EXCEPT ![s] = <<>>]
      /\ UNCHANGED <<changing, skipped, meant, told, changes>>
  BY DEF Drop
<1>2. Bounded'
  <2>1. <<>> \in Seq(Events) /\ Len(<<>>) = 0 /\ 0 <= Capacity + 1
    BY WatchAssumption
  <2> QED
    BY <1>1, <2>1 DEF Bounded
<1>3. FromChanges'
  BY <1>1 DEF FromChanges, Owing
<1>4. AddsUp'
  BY <1>1 DEF AddsUp, Bounded, IInv, Shape
<1> QED
  BY <1>2, <1>3, <1>4

(* A change owes one announcement.                                         *)
LEMMA ChangeCounts ==
  ASSUME CInv, NEW w \in Writers, Change(w)
  PROVE  Bounded' /\ FromChanges' /\ AddsUp'
<1> USE DEF CInv
<1>1. PICK e \in Changed : changing' = [changing EXCEPT ![w] = e]
  BY DEF Change
<1>2. /\ changing[w] = NoEvent /\ changes < MaxChanges /\ changes' = changes + 1
      /\ UNCHANGED <<chan, skipped, alive, listed, meant, told>>
  BY DEF Change
<1>3. Bounded'
  <2>1. changes' \in Counts
    BY <1>2, WatchAssumption DEF Bounded, Counts
  <2> QED
    BY <1>1, <1>2, <2>1 DEF Bounded
<1>4. FromChanges'
  <2>1. Owing' \subseteq Owing \cup {w}
    BY <1>1 DEF Owing, Bounded
  <2>2. IsFiniteSet(Owing) /\ Cardinality(Owing) \in Nat
    BY FS_CardinalityType DEF FromChanges
  <2>3. IsFiniteSet(Owing \cup {w}) /\ Cardinality(Owing \cup {w}) <= Cardinality(Owing) + 1
    <3>1. /\ IsFiniteSet(Owing \cup {w})
          /\ Cardinality(Owing \cup {w}) = IF w \in Owing THEN Cardinality(Owing) ELSE Cardinality(Owing) + 1
      BY <2>2, FS_AddElement, Zenon
    <3> QED
      BY <2>2, <3>1
  <2>4. IsFiniteSet(Owing') /\ Cardinality(Owing') <= Cardinality(Owing \cup {w})
    BY <2>1, <2>3, FS_Subset
  <2>5. Cardinality(Owing') \in Nat /\ Cardinality(Owing \cup {w}) \in Nat
    BY <2>3, <2>4, FS_CardinalityType
  <2>6. ASSUME NEW s \in Subscribers
        PROVE  /\ meant'[s] + Cardinality(Owing') <= changes'
               /\ skipped'[s] <= meant'[s] /\ told'[s] <= meant'[s]
    <3>1. /\ meant[s] \in Nat /\ changes \in Nat /\ meant[s] + Cardinality(Owing) <= changes
          /\ skipped[s] <= meant[s] /\ told[s] <= meant[s]
      BY EventsOwed DEF Bounded, FromChanges
    <3> QED
      BY <1>2, <2>2, <2>3, <2>4, <2>5, <3>1
  <2> QED
    BY <2>4, <2>6 DEF FromChanges
<1>5. AddsUp'
  BY <1>2 DEF AddsUp
<1> QED
  BY <1>3, <1>4, <1>5

(* The announcement: one event more is meant, and one owed less.           *)
LEMMA AnnounceCounts ==
  ASSUME CInv, NEW w \in Writers, Announce(w)
  PROVE  Bounded' /\ FromChanges' /\ AddsUp'
<1> USE DEF CInv
<1> DEFINE e == changing[w]
           to == {s \in listed \cap alive : Matches(e, s)}
           got(s) == Offer(chan[s], skipped[s], e)
<1>1. /\ e # NoEvent /\ changing' = [changing EXCEPT ![w] = NoEvent]
      /\ UNCHANGED <<alive, stale, told, changes>>
  BY DEF Announce
<1>2. chan' = [s \in Subscribers |-> IF s \in to THEN got(s).q ELSE chan[s]]
  BY DEF Announce, IInv, Shape
<1>3. skipped' = [s \in Subscribers |-> IF s \in to THEN got(s).missed ELSE skipped[s]]
  BY DEF Announce, IInv, Shape
<1>4. meant' = [s \in Subscribers |-> IF s \in to THEN meant[s] + 1 ELSE meant[s]]
  <2>1. \A s \in Subscribers : s \in alive /\ e.keys \cap Watched(s) # {} <=> s \in to
    BY DEF IInv, Shape, Matches
  <2>2. meant' = [s \in Subscribers |-> IF s \in alive /\ e.keys \cap Watched(s) # {}
                                         THEN meant[s] + 1 ELSE meant[s]]
    BY DEF Announce
  <2> HIDE DEF e, to
  <2> QED
    BY <2>1, <2>2
<1>5. e \in Changed
  BY <1>1 DEF Bounded
<1>6. to \subseteq alive
  OBVIOUS
<1> HIDE DEF to, e
<1>7. ASSUME NEW s \in Subscribers
      PROVE  /\ got(s).q \in Seq(Events) /\ Len(got(s).q) <= Capacity + 1
             /\ got(s).missed \in Nat /\ got(s).missed <= skipped[s] + 1
             /\ InChannel(got(s).q) + got(s).missed = InChannel(chan[s]) + skipped[s] + 1
  <2>1. chan[s] \in Seq(Events) /\ Len(chan[s]) <= Capacity + 1
    BY DEF Bounded
  <2>2. skipped[s] \in Counts
    BY EventsOwed
  <2> QED
    BY <1>5, <2>1, <2>2, OfferCounts
<1> HIDE DEF got
<1>8. Bounded'
  <2>1. changing' \in [Writers -> Changed \cup {NoEvent}]
    BY <1>1 DEF Bounded
  <2>2. chan' \in [Subscribers -> Seq(Events)]
    BY <1>2, <1>7 DEF Bounded
  <2>3. \A s \in Subscribers : Len(chan'[s]) <= Capacity + 1
    BY <1>2, <1>7 DEF Bounded
  <2>4. skipped' \in [Subscribers -> Nat] /\ meant' \in [Subscribers -> Nat]
    BY <1>3, <1>4, <1>7 DEF Bounded
  <2> QED
    BY <1>1, <2>1, <2>2, <2>3, <2>4 DEF Bounded
<1>9. FromChanges'
  <2>1. Owing' = Owing \ {w} /\ w \in Owing
    BY <1>1 DEF Owing, e, Bounded
  <2>2. IsFiniteSet(Owing) /\ Cardinality(Owing) \in Nat
    BY FS_CardinalityType DEF FromChanges
  <2>3. IsFiniteSet(Owing') /\ Cardinality(Owing') = Cardinality(Owing) - 1
    BY <2>1, <2>2, FS_RemoveElement
  <2>4. ASSUME NEW s \in Subscribers
        PROVE  /\ meant'[s] + Cardinality(Owing') <= changes'
               /\ skipped'[s] <= meant'[s] /\ told'[s] <= meant'[s]
    <3>1. /\ meant[s] \in Nat /\ skipped[s] \in Nat /\ told[s] \in Nat /\ changes \in Nat
          /\ meant[s] + Cardinality(Owing) <= changes
          /\ skipped[s] <= meant[s] /\ told[s] <= meant[s]
      BY EventsOwed DEF Bounded, FromChanges
    <3>2. got(s).missed \in Nat /\ got(s).missed <= skipped[s] + 1
      BY <1>7
    <3>3. /\ skipped'[s] = IF s \in to THEN got(s).missed ELSE skipped[s]
          /\ meant'[s] = IF s \in to THEN meant[s] + 1 ELSE meant[s]
          /\ told'[s] = told[s] /\ changes' = changes
      BY <1>1, <1>3, <1>4
    <3> QED
      BY <2>2, <2>3, <3>1, <3>2, <3>3
  <2> QED
    BY <2>3, <2>4 DEF FromChanges
<1>10. AddsUp'
  <2> SUFFICES ASSUME NEW s \in alive
               PROVE  meant'[s] = told'[s] + InChannel(chan'[s]) + skipped'[s]
    BY <1>1 DEF AddsUp
  <2>1. s \in Subscribers
    BY DEF IInv, Shape
  <2>2. /\ meant[s] = told[s] + InChannel(chan[s]) + skipped[s]
        /\ meant[s] \in Nat /\ told[s] \in Nat /\ skipped[s] \in Nat
    BY <2>1 DEF AddsUp, Bounded
  <2>3. InChannel(chan[s]) \in Nat
    BY <2>1, EventsAreMessages, InChannelType DEF Bounded
  <2>4. CASE s \in to
    <3>1. chan'[s] = got(s).q /\ skipped'[s] = got(s).missed /\ meant'[s] = meant[s] + 1 /\ told'[s] = told[s]
      BY <1>1, <1>2, <1>3, <1>4, <2>1, <2>4
    <3>2. InChannel(got(s).q) + got(s).missed = InChannel(chan[s]) + skipped[s] + 1
      BY <1>7, <2>1
    <3>3. InChannel(got(s).q) \in Nat /\ got(s).missed \in Nat
      BY <1>7, <2>1, EventsAreMessages, InChannelType
    <3> QED
      BY <2>2, <2>3, <3>1, <3>2, <3>3
  <2>5. CASE s \notin to
    <3>1. chan'[s] = chan[s] /\ skipped'[s] = skipped[s] /\ meant'[s] = meant[s] /\ told'[s] = told[s]
      BY <1>1, <1>2, <1>3, <1>4, <2>1, <2>5
    <3> QED
      BY <2>2, <3>1
  <2> QED
    BY <2>4, <2>5
<1> QED
  BY <1>8, <1>9, <1>10

(* What was in the channel has been told.                                  *)
LEMMA ReceiveCounts ==
  ASSUME CInv, NEW s \in Subscribers, Receive(s)
  PROVE  Bounded' /\ FromChanges' /\ AddsUp'
<1> USE DEF CInv
<1> DEFINE q == chan[s]
<1>1. /\ s \in alive /\ q # <<>> /\ q \in Seq(Events)
      /\ told' = [told EXCEPT ![s] = told[s] + Worth(Head(q))]
      /\ chan' = [chan EXCEPT ![s] = Tail(q)]
      /\ UNCHANGED <<changing, skipped, alive, meant, changes>>
  BY DEF Receive, Bounded
<1>2. q \in Seq(Message) /\ Head(q) \in Message /\ Worth(Head(q)) \in Nat
  <2>1. q \in Seq(Message)
    BY <1>1, EventsAreMessages
  <2>2. Head(q) \in Message
    BY <1>1, <2>1
  <2> QED
    BY <2>1, <2>2, WorthType
<1>3. Tail(q) \in Seq(Events) /\ Len(Tail(q)) <= Capacity + 1
  <2>1. Len(q) <= Capacity + 1 /\ Capacity \in Nat
    BY WatchAssumption DEF Bounded
  <2>2. Tail(q) \in Seq(Events) /\ Len(Tail(q)) = Len(q) - 1 /\ Len(q) \in Nat
    BY <1>1
  <2> QED
    BY <2>1, <2>2
<1>4. InChannel(q) = InChannel(Tail(q)) + Worth(Head(q))
  BY <1>1, <1>2, InChannelTail
<1>5. InChannel(Tail(q)) \in Nat
  BY <1>3, EventsAreMessages, InChannelType
<1>6. /\ meant[s] = told[s] + InChannel(q) + skipped[s]
      /\ meant[s] \in Nat /\ told[s] \in Nat /\ skipped[s] \in Nat
  BY <1>1 DEF AddsUp, Bounded
<1> HIDE DEF q
<1>7. Bounded'
  BY <1>1, <1>2, <1>3, <1>6 DEF Bounded
<1>8. FromChanges'
  <2>1. told[s] + Worth(Head(q)) <= meant[s]
    BY <1>2, <1>4, <1>5, <1>6
  <2>2. told' = [told EXCEPT ![s] = told[s] + Worth(Head(q))] /\ told \in [Subscribers -> Nat]
    BY <1>1 DEF Bounded
  <2>3. Owing' = Owing
    BY <1>1 DEF Owing
  <2> QED
    BY <1>1, <2>1, <2>2, <2>3 DEF FromChanges
<1>9. AddsUp'
  <2> SUFFICES ASSUME NEW r \in alive
               PROVE  meant[r] = told'[r] + InChannel(chan'[r]) + skipped[r]
    BY <1>1 DEF AddsUp
  <2>1. r \in Subscribers
    BY DEF IInv, Shape
  <2>2. CASE r = s
    <3>1. told'[s] = told[s] + Worth(Head(q)) /\ chan'[s] = Tail(q)
      BY <1>1 DEF Bounded
    <3> QED
      BY <1>2, <1>4, <1>5, <1>6, <2>2, <3>1
  <2>3. CASE r # s
    <3>1. told'[r] = told[r] /\ chan'[r] = chan[r]
      BY <1>1, <2>1, <2>3 DEF Bounded
    <3> QED
      BY <3>1 DEF AddsUp
  <2> QED
    BY <2>2, <2>3
<1> QED
  BY <1>7, <1>8, <1>9

(* It holds through every step.                                            *)
LEMMA CountedStays == CInv /\ [Next]_vars => CInv'
<1> SUFFICES ASSUME CInv, [Next]_vars PROVE CInv'
  OBVIOUS
<1>1. IInv'
  BY Stays DEF CInv
<1>2. ASSUME NEW s \in Subscribers, Subscribe(s) \/ Drop(s) \/ Receive(s)
      PROVE  Bounded' /\ FromChanges' /\ AddsUp'
  BY <1>2, SubscribeCounts, DropCounts, ReceiveCounts
<1>3. ASSUME NEW w \in Writers, Change(w) \/ Announce(w)
      PROVE  Bounded' /\ FromChanges' /\ AddsUp'
  BY <1>3, ChangeCounts, AnnounceCounts
<1>4. CASE UNCHANGED vars
  <2>1. Bounded' /\ FromChanges' /\ AddsUp'
    BY <1>4 DEF vars, CInv, Bounded, FromChanges, Owing, AddsUp
  <2> QED
    BY <1>1, <2>1 DEF CInv
<1> QED
  BY <1>1, <1>2, <1>3, <1>4 DEF Next, CInv

(* Every event meant for a subscriber that is alive has reached it, is in  *)
(* its channel, or is in a count of skipped ones, and in one of them only  *)
(* (Watchers::broadcast, Event::Lagged); and no channel holds more than it   *)
(* may.                                                                    *)
THEOREM EveryEventCounts == Spec => []GapsCounted
<1>1. Init => CInv
  BY CountedInitially
<1>2. CInv /\ [Next]_vars => CInv'
  BY CountedStays
<1>3. CInv => GapsCounted
  BY CountedFollows
<1> QED
  BY <1>1, <1>2, <1>3, PTL DEF Spec

=============================================================================

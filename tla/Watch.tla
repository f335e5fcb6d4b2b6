-------------------------------- MODULE Watch --------------------------------
(***************************************************************************)
(* The events a locker sends its subscribers (src/src/watch.rs).           *)
(*                                                                         *)
(* A writer changes the locker and then announces it; a subscriber's       *)
(* channel is bounded, so an event may be skipped, and the subscriber is   *)
(* told how many it missed before the next event that fits.  A subscriber  *)
(* is modelled as what it is for: it holds a copy of what it watches, and  *)
(* rereads the key an event names, or everything after Cleared or Lagged.  *)
(***************************************************************************)
EXTENDS Integers, Sequences, SequencesExt

CONSTANTS Keys,
          Writers,      \* tasks that call the locker
          Subscribers,
          Filter,       \* of each subscriber, the keys it asked for, or {} for all
          Capacity,     \* of a channel
          MaxChanges    \* bound: changes of the locker

ASSUME WatchAssumption == /\ Filter \in [Subscribers -> SUBSET Keys]
                          /\ Capacity \in Nat /\ MaxChanges \in Nat

VARIABLES changing,  \* of each writer, the event it has yet to announce
          chan,      \* of each subscriber, its channel
          skipped,   \* Subscriber::skipped
          alive,     \* the streams that exist and have not been dropped
          listed,    \* the subscribers in Watchers
          stale,     \* of each subscriber, the keys changed since it read them
          meant,     \* ghost: of each subscriber, the events it should hear of
          told,      \* ghost: and those it has heard of, one by one or in a notice
          changes

vars == <<changing, chan, skipped, alive, listed, stale, meant, told, changes>>

Counts == 0 .. MaxChanges

(* Put, Deleted, Stale and Evicted name one key; nothing else of them      *)
(* matters here.                                                           *)
OfKey(k) == [what |-> "key", keys |-> {k}, skipped |-> 0]
Cleared == [what |-> "cleared", keys |-> Keys, skipped |-> 0]
Lagged(n) == [what |-> "lagged", keys |-> Keys, skipped |-> n]
NoEvent == [what |-> "none", keys |-> {}, skipped |-> 0]
Changed == {OfKey(k) : k \in Keys} \cup {Cleared}
Events == Changed \cup {Lagged(n) : n \in Counts}

(* How many events it tells of.                                            *)
Worth(e) == IF e.what = "lagged" THEN e.skipped ELSE 1

Watched(s) == IF Filter[s] = {} THEN Keys ELSE Filter[s]

(* Event::matches: Cleared passes every filter.  Slip: a clear passes the  *)
(* subscribers without a filter only.                                      *)
MatchesExactly(e, s) == Filter[s] = {} \/ \E k \in Filter[s] : e.keys = {k}
Matches(e, s) == e.keys \cap Watched(s) # {}

(* futures::mpsc::channel has room for its buffer and one message for its  *)
(* one sender.                                                             *)
Room(q) == Len(q) <= Capacity

TypeOK == /\ changing \in [Writers -> Changed \cup {NoEvent}]
          /\ \A s \in Subscribers : /\ Len(chan[s]) <= Capacity + 1
                                    /\ \A i \in DOMAIN chan[s] : chan[s][i] \in Events
          /\ skipped \in [Subscribers -> Counts]
          /\ alive \subseteq Subscribers /\ listed \subseteq Subscribers
          /\ \A s \in Subscribers : stale[s] \subseteq Watched(s)
          /\ meant \in [Subscribers -> Counts] /\ told \in [Subscribers -> Counts]
          /\ changes \in Counts

Init == /\ changing = [w \in Writers |-> NoEvent]
        /\ chan = [s \in Subscribers |-> <<>>]
        /\ skipped = [s \in Subscribers |-> 0]
        /\ alive = {} /\ listed = {}
        /\ stale = [s \in Subscribers |-> {}]
        /\ meant = [s \in Subscribers |-> 0] /\ told = [s \in Subscribers |-> 0]
        /\ changes = 0

-----------------------------------------------------------------------------
(* Watchers::subscribe, and a first reading of what it watches.  An event  *)
(* under way may still reach it.                                           *)
Subscribe(s) ==
  /\ s \notin alive \cup listed
  /\ alive' = alive \cup {s} /\ listed' = listed \cup {s}
  /\ chan' = [chan EXCEPT ![s] = <<>>] /\ skipped' = [skipped EXCEPT ![s] = 0]
  /\ stale' = [stale EXCEPT ![s] = {}]
  /\ meant' = [meant EXCEPT ![s] = 0] /\ told' = [told EXCEPT ![s] = 0]
  /\ UNCHANGED <<changing, changes>>

(* The EventStream is dropped; Watchers finds out at its next event.       *)
Drop(s) ==
  /\ s \in alive
  /\ alive' = alive \ {s} /\ chan' = [chan EXCEPT ![s] = <<>>]
  /\ UNCHANGED <<changing, skipped, listed, stale, meant, told, changes>>

(* What a write changed can be read before it is announced.                *)
Change(w) ==
  /\ changing[w] = NoEvent /\ changes < MaxChanges
  /\ changes' = changes + 1
  /\ \E e \in Changed :
       /\ changing' = [changing EXCEPT ![w] = e]
       /\ stale' = [s \in Subscribers |-> stale[s] \cup (e.keys \cap Watched(s))]
  /\ UNCHANGED <<chan, skipped, alive, listed, meant, told>>

(* broadcast, for one subscriber: the notice of a gap, then the event.     *)
Sent(q, e) == [q |-> IF Room(q) THEN Append(q, e) ELSE q, missed |-> IF Room(q) THEN 0 ELSE 1]
(* Slip: the count is dropped before the notice has got through.           *)
OfferForgetful(q, n, e) ==
  IF n = 0 THEN Sent(q, e)
  ELSE LET notice == Sent(q, Lagged(n))
       IN Sent(notice.q, e)
Offer(q, n, e) ==
  IF n = 0 THEN Sent(q, e)
  ELSE LET notice == Sent(q, Lagged(n))
       IN IF notice.missed = 1 THEN [q |-> q, missed |-> n + 1] ELSE Sent(notice.q, e)

Announce(w) ==
  LET e == changing[w]
      to == {s \in listed \cap alive : Matches(e, s)}
      offered == [s \in to |-> Offer(chan[s], skipped[s], e)]
  IN /\ e # NoEvent
     /\ changing' = [changing EXCEPT ![w] = NoEvent]
     /\ listed' = {s \in listed : s \in alive \/ ~Matches(e, s)}
     /\ chan' = [s \in Subscribers |-> IF s \in to THEN offered[s].q ELSE chan[s]]
     /\ skipped' = [s \in Subscribers |-> IF s \in to THEN offered[s].missed ELSE skipped[s]]
     /\ meant' = [s \in Subscribers |-> IF s \in alive /\ e.keys \cap Watched(s) # {}
                                        THEN meant[s] + 1 ELSE meant[s]]
     /\ UNCHANGED <<alive, stale, told, changes>>

(* EventStream::try_recv or poll_next, and what the subscriber does then.  *)
Receive(s) ==
  /\ s \in alive /\ chan[s] # <<>>
  /\ LET e == Head(chan[s])
     IN /\ stale' = [stale EXCEPT ![s] = @ \ e.keys]
        /\ told' = [told EXCEPT ![s] = @ + Worth(e)]
  /\ chan' = [chan EXCEPT ![s] = Tail(@)]
  /\ UNCHANGED <<changing, skipped, alive, listed, meant, changes>>

Next == \/ \E s \in Subscribers : Subscribe(s) \/ Drop(s) \/ Receive(s)
        \/ \E w \in Writers : Change(w) \/ Announce(w)

Spec == Init /\ [][Next]_vars

-----------------------------------------------------------------------------
(* A subscriber whose copy of a key is out of date has something coming    *)
(* that makes it read the key again, or a gap it has yet to be told of, or *)
(* the writer has yet to announce the change: nothing is lost in silence,  *)
(* whatever the order in which writers announce, streams are read, full or *)
(* dropped.                                                                *)
NoSilentGap ==
  \A s \in alive : \A k \in stale[s] :
    \/ skipped[s] > 0
    \/ \E i \in DOMAIN chan[s] : k \in chan[s][i].keys
    \/ \E w \in Writers : k \in changing[w].keys

(* Event::Lagged counts: every event meant for a subscriber has reached    *)
(* it, is in its channel, or is in a count, and in one of them only.       *)
InChannel(q) == FoldSeq(LAMBDA e, n : n + Worth(e), 0, q)
GapsCounted ==
  TypeOK /\ \A s \in alive : meant[s] = told[s] + InChannel(chan[s]) + skipped[s]

=============================================================================

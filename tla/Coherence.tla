------------------------------ MODULE Coherence ------------------------------
(***************************************************************************)
(* The news one browser tab sends the others                               *)
(* (src/src/coherence/api.rs, web.rs; used by Inner::commit).              *)
(*                                                                         *)
(* After a commit has landed, the bank posts what it changed on a          *)
(* BroadcastChannel.  A message reaches every other tab, in the order its  *)
(* sender posted it; nothing orders the messages of two senders.  News is  *)
(* derived from the ops of the commit, so a write-set is enough to say     *)
(* what it contains.  On native the channel does not exist.                *)
(***************************************************************************)
EXTENDS Batch, Naturals, Sequences

CONSTANTS Tabs,     \* banks over one database, one per tab
          Mute,     \* values a message cannot carry (over INLINE_LIMIT)
          Changed   \* "this key changed and you will have to read it"

ASSUME CoherenceAssumption == /\ Mute \subseteq Vals
                              /\ Changed \notin Vals \cup {Gone, Kept}

(* A write-set: what it does, and whether it begins with a clear.          *)
WriteSets == {w \in [does : Effects, cleared : BOOLEAN] :
                w.cleared => Touched(w.does) = Keys}
NoWrites == [does |-> NoEffect, cleared |-> FALSE]
Both(a, b) == [does |-> Then(a.does, b.does), cleared |-> a.cleared \/ b.cleared]

(* A message: what happened to each key, and the epoch its sender counted. *)
News == [does : [Keys -> Vals \cup {Gone, Kept, Changed}], cleared : BOOLEAN,
         epoch : Nat, late : SUBSET Keys]

(* Change::value: the sealed bytes when they are small enough to carry.    *)
Carried(v) == IF v \in Mute THEN Changed ELSE v

(* announcement_from_ops.  late is not in the message: it notes on which   *)
(* keys a later commit has landed that the message knows nothing of.       *)
NewsOf(w, epoch, late) ==
  [does |-> [k \in Keys |-> Carried(w.does[k])], cleared |-> w.cleared,
   epoch |-> epoch, late |-> late]

(* The keys a message names as changes; a clear names none of those it     *)
(* removed.                                                                *)
Named(n) == {k \in Keys : IF n.cleared THEN n.does[k] \notin {Kept, Gone}
                                       ELSE n.does[k] # Kept}

NoNews == [s \in Tabs |-> [t \in Tabs |-> <<>>]]

(* Coherence::post: to the tabs that listen, but never to the sender.      *)
Posted(chan, s, n, listening) ==
  [chan EXCEPT ![s] = [t \in Tabs |-> IF t \in listening \ {s} THEN Append(chan[s][t], n)
                                                            ELSE chan[s][t]]]

(* The message at the head of a channel has been handled. *)
Heard(chan, s, t) == [chan EXCEPT ![s][t] = Tail(@)]

(* A write-set has landed on some keys: the messages still under way do    *)
(* not know of it.                                                         *)
Overtaken(chan, keys) ==
  [s \in Tabs |-> [t \in Tabs |-> [i \in DOMAIN chan[s][t] |->
     [chan[s][t][i] EXCEPT !.late = @ \cup keys]]]]

(* The channel of a tab that ended: what it posted is still delivered,     *)
(* what was on its way to it is lost with it.                              *)
Unplugged(chan, t) == [s \in Tabs |-> [chan[s] EXCEPT ![t] = <<>>]]

InFlight(chan, t) == UNION {{chan[s][t][i] : i \in DOMAIN chan[s][t]} : s \in Tabs}

=============================================================================

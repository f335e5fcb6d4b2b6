---------------------------- MODULE EncodedListing ----------------------------
(***************************************************************************)
(* Listing names its records and ranges by number and keeps its values as  *)
(* they were written.  What lets it: Encoding, by which a backend compares *)
(* and pages the keys, and Envelope, in which it holds the values.         *)
(***************************************************************************)
EXTENDS Listing, Encoding, Envelope

(* The encodings do not change with the state: once per listing is enough. *)
Begins == pc = "walking" /\ range = query /\ writes = 0

(* key.rs, encode_range: the range a listing asks for reaches exactly its  *)
(* own locker's keys, at the edges of the id space and of the bytes too;   *)
(* and the stored keys are in the order of the keys it returns (encode,    *)
(* KeyRange::prefix).                                                      *)
RangesStayInside ==
  Begins => /\ KeysKeepOrder /\ PrefixesStayInside
            /\ StaysInside(query.start.kind, query.end.kind)

(* inner.rs, walk: "Excluding the last key returned works identically in   *)
(* both directions".  What ReadPage takes for granted: on each engine the  *)
(* pages of this walk are the range, and none of them is refused, the one  *)
(* after a page that was exactly full included.                            *)
WalksAreWhole ==
  Begins => \A engine \in Engines : WalksWhole(engine, query.reverse, Page)

(* codec/api.rs: "data written under a different chain fails loudly on     *)
(* open instead of being fed to the wrong inverse transform"; codec/mod.rs: *)
(* "the checksum covers what is actually stored".  A value that is listed  *)
(* is the one that was written, whichever shipped chain sealed it.         *)
EnvelopeHonest == Begins => \A chain \in ShippedChains : Honest(chain)

===============================================================================

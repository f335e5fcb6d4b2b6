------------------------------ MODULE Encoding ------------------------------
(***************************************************************************)
(* Keys as a backend sees them (src/src/key.rs), the ranges asked of it    *)
(* (KeyRange in src/src/backend/api.rs), and the pages it answers a walk   *)
(* of them with (src/src/locker/inner.rs, and each backend's scan).        *)
(*                                                                         *)
(* Pure functions: the properties range over every locker, key, bound and  *)
(* content of a small alphabet of bytes.                                   *)
(***************************************************************************)
EXTENDS Integers, SequencesExt, FiniteSets

CONSTANTS Top,         \* the largest byte; 255 in the code
          PrefixLen,   \* bytes of a locker id; 4 in the code
          MaxLen       \* bound: bytes of a user key

ASSUME EncodingAssumption == Top \in Nat /\ {PrefixLen, MaxLen} \subseteq Nat \ {0}

Bytes == 0..Top
UserKeys == UNION {[1..n -> Bytes] : n \in 0..MaxLen}

(* Bytewise, a prefix first: Vec<u8>, redb and IndexedDB's binary keys. *)
Less(s, t) ==
  \/ IsStrictPrefix(s, t)
  \/ \E i \in DOMAIN s \cap DOMAIN t : s[i] < t[i] /\ SubSeq(s, 1, i - 1) = SubSeq(t, 1, i - 1)
AtMost(s, t) == s = t \/ Less(s, t)

(* Locker ids are the numbers of PrefixLen bytes, big-endian: from_be_bytes *)
(* and to_be_bytes.                                                        *)
FromBytes(p) == FoldLeft(LAMBDA n, byte : n * (Top + 1) + byte, 0, p)
IdBytes == [1..PrefixLen -> Bytes]
LockerIds == {FromBytes(p) : p \in IdBytes}
Prefix == [l \in LockerIds |-> CHOOSE p \in IdBytes : FromBytes(p) = l]

Encode(l, k) == Prefix[l] \o k

(* decode_bytes: a short or a foreign key is an error, here no answer.     *)
Decode(l, stored) ==
  {SubSeq(s, PrefixLen + 1, Len(s)) :
     s \in {x \in {stored} : Len(x) >= PrefixLen /\ FromBytes(SubSeq(x, 1, PrefixLen)) = l}}

-----------------------------------------------------------------------------
(* Ranges. *)

Unbounded == [kind |-> "unbounded", key |-> <<>>]
Included(k) == [kind |-> "included", key |-> k]
Excluded(k) == [kind |-> "excluded", key |-> k]
UserBounds == {Unbounded} \cup [kind : {"included", "excluded"}, key : UserKeys]

AfterStart(k, b) == CASE b.kind = "unbounded" -> TRUE
                      [] b.kind = "included" -> AtMost(b.key, k)
                      [] b.kind = "excluded" -> Less(b.key, k)
BeforeEnd(k, b) == CASE b.kind = "unbounded" -> TRUE
                     [] b.kind = "included" -> AtMost(k, b.key)
                     [] b.kind = "excluded" -> Less(k, b.key)
InKeyRange(r, k) == AfterStart(k, r.start) /\ BeforeEnd(k, r.end)

(* KeyRange::prefix: up to the prefix with its last byte that can be       *)
(* incremented incremented, the bytes after it dropped.  Slip: the last    *)
(* byte, whichever it is.                                                  *)
SuccessorWrapping(p) == Excluded([p EXCEPT ![Len(p)] = (@ + 1) % (Top + 1)])
Successor(p) ==
  LET i == SelectLastInSeq(p, LAMBDA b : b # Top)
  IN IF i = 0 THEN Unbounded ELSE Excluded(Append(SubSeq(p, 1, i - 1), p[i] + 1))
WithPrefix(p) == [start |-> Included(p), end |-> Successor(p)]

LockerRange(l) == WithPrefix(Prefix[l])
PrefixRange(l, p) == WithPrefix(Encode(l, p))

(* encode_range_bytes: an open end is the locker's edge.                   *)
EncodeBound(l, b, edge) ==
  IF b.kind = "unbounded" THEN edge ELSE [b EXCEPT !.key = Encode(l, b.key)]
EncodeRange(l, start, end) ==
  [start |-> EncodeBound(l, start, LockerRange(l).start),
   end |-> EncodeBound(l, end, LockerRange(l).end)]

Empty(r) ==  \* is_degenerate, before a walk or a bulk read asks for anything
  /\ "unbounded" \notin {r.start.kind, r.end.kind}
  /\ IF {r.start.kind, r.end.kind} = {"included"}
     THEN Less(r.end.key, r.start.key) ELSE AtMost(r.end.key, r.start.key)

-----------------------------------------------------------------------------
(* Pages of a walk.                                                        *)

Engines == {"memory", "redb", "indexeddb"}

(* Ranges an engine refuses: BTreeMap::range panics (redb answers with     *)
(* nothing), IDBKeyRange.bound throws.                                     *)
Refuses(engine, r) ==
  /\ "unbounded" \notin {r.start.kind, r.end.kind}
  /\ \/ engine = "memory" /\ \/ Less(r.end.key, r.start.key)
                             \/ r.start = r.end /\ r.start.kind = "excluded"
     \/ engine = "indexeddb" /\ Empty(r)

(* The keys as a scan meets them: each after the one before it. *)
Goes(k, next, reverse) == IF reverse THEN Less(next, k) ELSE Less(k, next)
Ordered(S, reverse) ==
  CHOOSE s \in [1..Cardinality(S) -> S] :
    \A i, j \in DOMAIN s : i < j => Goes(s[i], s[j], reverse)
PageOf(stored, r, reverse, limit) ==
  LET all == Ordered({k \in stored : InKeyRange(r, k)}, reverse)
  IN SubSeq(all, 1, IF limit < Len(all) THEN limit ELSE Len(all))

(* Whether a page says where to resume: memory and redb whenever it is     *)
(* full, IndexedDB after a look at the key beyond it.  Slip: no look.      *)
ResumesFull(engine, beyond) == TRUE
Resumes(engine, beyond) == engine = "indexeddb" => beyond

(* Inner::walk's loop: the range of the n-th page; Finished when the page  *)
(* before it said nothing.                                                 *)
Finished == [start |-> Unbounded, end |-> Unbounded, done |-> TRUE]
Resumed(r, reverse, last) ==
  IF reverse THEN [r EXCEPT !.end = Excluded(last)] ELSE [r EXCEPT !.start = Excluded(last)]
Requests(engine, stored, range, reverse, limit) ==
  LET request[n \in 0..Cardinality(stored) + 1] ==
        IF n = 0 THEN range
        ELSE LET r == request[n - 1]
                 page == PageOf(stored, r, reverse, limit) IN
             IF r = Finished \/ Len(page) < limit THEN Finished
             ELSE IF Resumes(engine, Len(PageOf(stored, r, reverse, limit + 1)) > limit)
             THEN Resumed(r, reverse, Last(page)) ELSE Finished
  IN request

(* decode_bytes of every key the pages bring. *)
Walked(engine, stored, range, reverse, limit) ==
  LET request == Requests(engine, stored, range, reverse, limit)
      page(n) == IF request[n] = Finished THEN <<>> ELSE PageOf(stored, request[n], reverse, limit)
  IN FlattenSeq([n \in 1..Cardinality(stored) + 2 |-> page(n - 1)])

-----------------------------------------------------------------------------
(* What the properties of a listing rest on (module EncodedListing). *)

(* key.rs, Layout: lockers sort by number and keys within a locker by      *)
(* their bytes; a key is read back by its own locker and by no other.      *)
KeysKeepOrder ==
  \A l, m \in LockerIds : \A j, k \in UserKeys :
    /\ Less(Encode(l, j), Encode(m, k)) <=> l < m \/ (l = m /\ Less(j, k))
    /\ Decode(m, Encode(l, j)) = IF l = m THEN {j} ELSE {}

(* Prefix ranges reach every key of the locker with the prefix, no other.  *)
PrefixesStayInside ==
  \A l, m \in LockerIds : \A p, k \in UserKeys :
    InKeyRange(PrefixRange(l, p), Encode(m, k)) <=> l = m /\ IsPrefix(p, k)

(* A range of one locker with bounds of these kinds reaches exactly the    *)
(* keys of that locker within it.                                          *)
StaysInside(startKind, endKind) ==
  \A s \in {b \in UserBounds : b.kind = startKind} :
  \A e \in {b \in UserBounds : b.kind = endKind} :
    \A l, m \in LockerIds : \A k \in UserKeys :
      InKeyRange(EncodeRange(l, s, e), Encode(m, k))
        <=> l = m /\ InKeyRange([start |-> s, end |-> e], k)

(* The pages of a walk, over any content and range, are together the       *)
(* range, in its order, each key once, and none of them asks for a range   *)
(* the engine refuses.                                                     *)
(* Excepted is the range that ends before the empty key: it does not count *)
(* as degenerate, but encoded both its ends are the locker's first key,    *)
(* which IndexedDB refuses (RangesAccepted).                               *)
WalkKeys == {k \in UserKeys : Len(k) < MaxLen \/ \A i \in DOMAIN k : k[i] = Top}
WalkBounds(S) == {Unbounded} \cup [kind : {"included", "excluded"}, key : S]
WholeWalk(engine, reverse, limit, S, l, s, e) ==
  LET stored == {Encode(l, k) : k \in S}
      range == EncodeRange(l, s, e)
      requests == Requests(engine, stored, range, reverse, limit) IN
    /\ Walked(engine, stored, range, reverse, limit)
         = Ordered({k \in stored : InKeyRange(range, k)}, reverse)
    /\ \A n \in DOMAIN requests :
         Refuses(engine, requests[n]) => engine = "indexeddb" /\ e = Excluded(<<>>)
WalksWhole(engine, reverse, limit) ==
  \A S \in SUBSET WalkKeys : \A l \in {FromBytes([i \in 1..PrefixLen |-> b]) : b \in {0, Top}} :
  \A s, e \in WalkBounds(S) :
    Empty([start |-> s, end |-> e]) \/ WholeWalk(engine, reverse, limit, S, l, s, e)

(* A statement of a doc, checked against what the code does.  key.rs, of   *)
(* ranges that cannot contain anything: "Every range entry point checks    *)
(* this first and answers with nothing".                                   *)
RangesAccepted ==
  \A l \in LockerIds, s, e \in UserBounds, engine \in Engines :
    Refuses(engine, EncodeRange(l, s, e)) => Empty([start |-> s, end |-> e])

=============================================================================

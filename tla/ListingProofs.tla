---------------------------- MODULE ListingProofs ----------------------------
(***************************************************************************)
(* Theorems about StagedList and Listing, for any lists, keys, values and  *)
(* sizes of pages: the readers of a staged list agree with one another and *)
(* with its entries applied one after the other, a commit lands them in    *)
(* their order, and a listing shows what the locker held.  And about       *)
(* Encoding and Envelope, for any bytes, ids and lengths of keys: a        *)
(* locker's ranges reach its own keys, the pages of a walk are its range,  *)
(* and a sealed value opens as it was.                                     *)
(*                                                                         *)
(* The order: folds over a list; what each reader of a list answers; lists *)
(* of keys in order and their pages; the invariant and its actions; the    *)
(* theorems about it; the order of bytes; encoded keys and their ranges;   *)
(* sealed values; the pages of a walk; the theorems about those.           *)
(***************************************************************************)
EXTENDS EncodedListing, FiniteSetTheorems, SequenceTheorems, WellFoundedInduction, TLAPS

-----------------------------------------------------------------------------
(* Least sets, least and largest numbers.                                  *)

(* Among sets of finite subsets there is a least one.                      *)
LEMMA LeastSubset ==
  ASSUME NEW U, IsFiniteSet(U), NEW B, B \subseteq SUBSET U, B # {}
  PROVE  \E x \in B : \A y \in B : y \subseteq x => y = x
<1>1. B \subseteq FiniteSubsetsOf(U)
  BY FS_Subset DEF FiniteSubsetsOf
<1>2. PICK x \in B : \A y \in B : ~(<<y, x>> \in StrictSubsetOrdering(U))
  BY <1>1, WFMin, FS_StrictSubsetOrderingWellFounded, Zenon
<1>3. \A y \in B : y \subseteq x => y = x
  BY <1>2 DEF StrictSubsetOrdering
<1> QED
  BY <1>3

(* A finite set of naturals that is not empty has a first and a last       *)
(* element in either direction.                                            *)
LEMMA HasLast ==
  ASSUME NEW S, IsFiniteSet(S), S \subseteq Nat, S # {}, NEW r \in BOOLEAN
  PROVE  \E m \in S : \A x \in S : x = m \/ Precedes(x, m, r)
<1> DEFINE Has(T) == \E m \in T : \A x \in T : x = m \/ Precedes(x, m, r)
           B == {T \in SUBSET S : T # {} /\ ~Has(T)}
<1>1. B = {}
  <2> SUFFICES ASSUME B # {} PROVE FALSE
    OBVIOUS
  <2>1. PICK T \in B : \A y \in B : y \subseteq T => y = T
    <3> DEFINE U == S
    <3>1. B \subseteq SUBSET U /\ B # {} /\ IsFiniteSet(U)
      OBVIOUS
    <3> HIDE DEF B, Has, U
    <3>2. \E x \in B : \A y \in B : y \subseteq x => y = x
      BY <3>1, LeastSubset
    <3> QED
      BY <3>2
  <2>2. PICK a \in T : TRUE
    BY <2>1
  <2> DEFINE R == T \ {a}
  <2>3. CASE R = {}
    BY <2>1, <2>2, <2>3
  <2>4. CASE R # {}
    <3>1. R \notin B
      BY <2>1, <2>2
    <3>2. PICK m \in R : \A x \in R : x = m \/ Precedes(x, m, r)
      BY <3>1, <2>4, <2>1
    <3>3. m \in T /\ a \in T /\ m # a
      BY <3>2, <2>2
    <3>4. m \in Nat /\ a \in Nat /\ \A x \in T : x \in Nat
      BY <3>3, <2>1
    <3>5. CASE Precedes(a, m, r)
      BY <3>2, <3>3, <3>5, <2>1
    <3>6. CASE ~Precedes(a, m, r)
      <4>1. \A x \in T : x = a \/ Precedes(x, a, r)
        BY <3>2, <3>3, <3>4, <3>6 DEF Precedes
      <4> QED
        BY <3>3, <4>1, <2>1
    <3> QED
      BY <3>5, <3>6
  <2> QED
    BY <2>3, <2>4
<1> QED
  BY <1>1

(* Max of a finite set of naturals is one of them and above them all.      *)
LEMMA MaxFact ==
  ASSUME NEW S, IsFiniteSet(S), S \subseteq Nat, S # {}
  PROVE  Max(S) \in S /\ Max(S) \in Nat /\ \A x \in S : x <= Max(S)
<1>1. PICK m \in S : \A x \in S : x = m \/ Precedes(x, m, FALSE)
  BY HasLast
<1>2. \A x \in S : m >= x
  BY <1>1 DEF Precedes
<1>3. Max(S) \in S /\ \A x \in S : Max(S) >= x
  BY <1>2, Zenon DEF Max
<1> QED
  BY <1>3

(* It is the only such one.                                                *)
LEMMA MaxIs ==
  ASSUME NEW S, IsFiniteSet(S), S \subseteq Nat, NEW m \in S, \A x \in S : x <= m
  PROVE  Max(S) = m
<1>1. Max(S) \in S /\ Max(S) \in Nat /\ \A x \in S : x <= Max(S)
  BY MaxFact
<1> QED
  BY <1>1

(* The places of a list that satisfy anything are finitely many naturals.  *)
LEMMA PlacesFact ==
  ASSUME NEW n \in Nat, NEW S, S \subseteq 1 .. n
  PROVE  IsFiniteSet(S) /\ S \subseteq Nat
<1>1. IsFiniteSet(1 .. n)
  BY FS_Interval
<1>2. S \in SUBSET (1 .. n) /\ S \subseteq Nat
  OBVIOUS
<1>3. IsFiniteSet(S)
  BY <1>1, <1>2, FS_Subset, Zenon
<1> QED
  BY <1>2, <1>3

(* The last place of a set of places of a list, 0 for none, and SubSeq's   *)
(* part of a list.                                                         *)
LEMMA LastPlace ==
  ASSUME NEW n \in Nat, NEW I, I \subseteq 1 .. n,
         NEW m, m = IF I # {} THEN Max(I) ELSE 0
  PROVE  /\ m \in 0 .. n
         /\ \/ m = 0 /\ I = {}
            \/ m # 0 /\ m \in 1 .. n /\ m \in I /\ \A j \in 1 .. n : j > m => j \notin I
<1>1. CASE I = {}
  BY <1>1
<1>2. CASE I # {}
  <2> DEFINE x == Max(I)
  <2>1. x \in I /\ x \in Nat /\ \A j \in I : j <= x
    BY <1>2, PlacesFact, MaxFact
  <2>2. m = x
    BY <1>2
  <2> HIDE DEF x
  <2>3. x \in 1 .. n /\ \A j \in 1 .. n : j > x => j \notin I
    <3>1. x \in 1 .. n
      BY <2>1
    <3>2. ASSUME NEW j \in 1 .. n, j > x, j \in I PROVE FALSE
      <4>1. j <= x
        BY <2>1, <3>2
      <4> QED
        BY <2>1, <3>2, <4>1
    <3> QED
      BY <3>1, <3>2
  <2>4. m \in 1 .. n /\ m \in I /\ \A j \in 1 .. n : j > m => j \notin I
    BY <2>1, <2>2, <2>3
  <2>5. m # 0 /\ m \in 0 .. n
    BY <2>4
  <2> QED
    BY <2>4, <2>5
<1> QED
  BY <1>1, <1>2

(* SubSeq's part of a list, element by element.                            *)
LEMMA PartOf ==
  ASSUME NEW T, NEW q \in Seq(T), NEW a \in Nat \ {0}, NEW b \in 0 .. Len(q), a <= b + 1
  PROVE  /\ SubSeq(q, a, b) \in Seq(T)
         /\ Len(SubSeq(q, a, b)) = b - (a - 1)
         /\ \A i \in 1 .. b - (a - 1) : SubSeq(q, a, b)[i] = q[(a - 1) + i]
<1> DEFINE p == SubSeq(q, a, b)
<1>1. \A i \in a .. b : q[i] \in T
  OBVIOUS
<1>2. p \in Seq(T)
  <2>1. CASE a > b
    BY <2>1
  <2>2. CASE a <= b
    BY <1>1, <2>2
  <2> QED
    BY <2>1, <2>2
<1>3. Len(p) = IF a <= b THEN b - a + 1 ELSE 0
  OBVIOUS
<1>4. ASSUME NEW i \in 1 .. b - (a - 1) PROVE p[i] = q[(a - 1) + i]
  <2>1. i \in Nat /\ i >= 1 /\ i <= (b - a) + 1 /\ a + i - 1 = (a - 1) + i
    OBVIOUS
  <2>2. p[i] = q[a + i - 1]
    BY <2>1
  <2> QED
    BY <2>1, <2>2
<1> HIDE DEF p
<1>5. Len(p) = b - (a - 1)
  BY <1>3
<1> QED
  BY <1>2, <1>4, <1>5 DEF p
-----------------------------------------------------------------------------
(* Folds over a list.  FoldLeft recurses over the sets of places, taking   *)
(* the last one off.                                                       *)

(* What a list does to a key: what its last entry for the key does.        *)
Hits(q, s, k) == {i \in s : Effect(q[i])[k] # Kept}
LastHit(q, s, k) == IF Hits(q, s, k) = {} THEN Kept ELSE Effect(q[Max(Hits(q, s, k))])[k]
Done(q, s) == [k \in Keys |-> LastHit(q, s, k)]

(* What an entry does is an effect on every key.                           *)
LEMMA EffectTypes ==
  /\ NoEffect \in Effects /\ NoEffect = [k \in Keys |-> Kept]
  /\ \A m \in Pending : Effect(m) \in Effects
<1>1. NoEffect \in Effects /\ NoEffect = [k \in Keys |-> Kept]
  BY DEF NoEffect, Effects
<1>2. ASSUME NEW m \in Pending PROVE Effect(m) \in Effects
  <2>1. CASE m \in [op : {"put"}, key : Keys, val : Vals]
    BY <2>1, <1>1 DEF Effect, PutOf, Effects
  <2>2. CASE m \in [op : {"delete"}, key : Keys, val : {Gone}]
    BY <2>2, <1>1 DEF Effect, DeleteOf, Effects
  <2>3. CASE m \in [op : {"clear"}, key : {Kept}, val : {Gone}]
    BY <2>3 DEF Effect, ClearAll, Effects
  <2> QED
    BY <2>1, <2>2, <2>3 DEF Pending
<1> QED
  BY <1>1, <1>2

(* What an entry does to a key: it names it, or clears it, or keeps it.    *)
Names(m, k) == m.key = k \/ IsClear(m)
LEMMA EffectOfEntry ==
  ASSUME NEW m \in Pending, NEW k \in Keys
  PROVE  /\ IsClear(m) => Effect(m)[k] = Gone /\ m.val = Gone
         /\ ~IsClear(m) => m.key \in Keys /\ Effect(m)[k] = IF m.key = k THEN m.val ELSE Kept
         /\ Effect(m)[k] # Kept <=> Names(m, k)
         /\ Names(m, k) => Effect(m)[k] = m.val
         /\ m.val \in Vals \cup {Gone}
<1>0. Kept # Gone /\ Kept \notin Vals
  BY BatchAssumption
<1>1. CASE m \in [op : {"put"}, key : Keys, val : Vals]
  <2>1. Effect(m) = PutOf(m.key, m.val) /\ ~IsClear(m)
    BY <1>1 DEF Effect, IsClear
  <2>2. Effect(m)[k] = IF m.key = k THEN m.val ELSE Kept
    BY <1>1, <2>1 DEF PutOf, NoEffect
  <2> QED
    BY <1>0, <1>1, <2>1, <2>2 DEF Names
<1>2. CASE m \in [op : {"delete"}, key : Keys, val : {Gone}]
  <2>1. Effect(m) = DeleteOf(m.key) /\ ~IsClear(m)
    BY <1>2 DEF Effect, IsClear
  <2>2. Effect(m)[k] = IF m.key = k THEN m.val ELSE Kept
    BY <1>2, <2>1 DEF DeleteOf, NoEffect
  <2> QED
    BY <1>0, <1>2, <2>1, <2>2 DEF Names
<1>3. CASE m \in [op : {"clear"}, key : {Kept}, val : {Gone}]
  <2>1. Effect(m) = ClearAll /\ IsClear(m)
    BY <1>3 DEF Effect, IsClear
  <2> QED
    BY <1>0, <1>3, <2>1 DEF ClearAll, Names
<1> QED
  BY <1>1, <1>2, <1>3 DEF Pending

(* One place more.                                                         *)
LEMMA DoneStep ==
  ASSUME NEW q \in Seq(Pending), NEW s \in SUBSET DOMAIN q
  PROVE  Done(q, s) = IF s = {} THEN NoEffect
                      ELSE Then(Done(q, s \ {Max(s)}), Effect(q[Max(s)]))
<1>0. DOMAIN q = 1 .. Len(q) /\ Len(q) \in Nat
  OBVIOUS
<1>1. CASE s = {}
  <2>1. \A k \in Keys : Hits(q, s, k) = {}
    BY <1>1 DEF Hits
  <2> QED
    BY <1>1, <2>1 DEF Done, LastHit, NoEffect
<1>2. CASE s # {}
  <2> DEFINE m == Max(s)
             r == s \ {m}
  <2>1. m \in s /\ m \in Nat /\ \A x \in s : x <= m
    BY <1>0, <1>2, PlacesFact, MaxFact
  <2> HIDE DEF m
  <2>2. ASSUME NEW k \in Keys
        PROVE  LastHit(q, s, k) = IF Effect(q[m])[k] = Kept THEN LastHit(q, r, k) ELSE Effect(q[m])[k]
    <3>1. CASE Effect(q[m])[k] = Kept
      <4>1. Hits(q, s, k) = Hits(q, r, k)
        BY <3>1 DEF Hits
      <4> QED
        BY <3>1, <4>1 DEF LastHit
    <3>2. CASE Effect(q[m])[k] # Kept
      <4>1. m \in Hits(q, s, k) /\ Hits(q, s, k) \subseteq s
        BY <2>1, <3>2 DEF Hits
      <4>2. Max(Hits(q, s, k)) = m
        BY <1>0, <2>1, <4>1, PlacesFact, MaxIs
      <4> QED
        BY <3>2, <4>1, <4>2 DEF LastHit
    <3> QED
      BY <3>1, <3>2
  <2>3. Done(q, s) = Then(Done(q, r), Effect(q[m]))
    BY <2>2 DEF Done, Then
  <2> QED
    BY <1>2, <2>3 DEF m
<1> QED
  BY <1>1, <1>2

(* EffectOf is the last hit of each key.                                   *)
LEMMA EffectOfList ==
  ASSUME NEW q \in Seq(Pending)
  PROVE  EffectOf(q) = Done(q, DOMAIN q)
<1> DEFINE D == DOMAIN q
           g == [s \in SUBSET D |-> Done(q, s)]
           Rec(e) == e = [s \in SUBSET D |->
                            IF s = {} THEN NoEffect
                            ELSE Then(e[s \ {Max(s)}], Effect(q[Max(s)]))]
           h == CHOOSE e : Rec(e)
<1>0. D = 1 .. Len(q) /\ Len(q) \in Nat /\ \A i \in D : q[i] \in Pending
  OBVIOUS
<1>1. ASSUME NEW s \in SUBSET D
      PROVE  Done(q, s) = IF s = {} THEN NoEffect
                          ELSE Then(Done(q, s \ {Max(s)}), Effect(q[Max(s)]))
  BY DoneStep
<1>2. Rec(g)
  <2>1. \A s \in SUBSET D : s \ {Max(s)} \in SUBSET D
    OBVIOUS
  <2>2. \A s \in SUBSET D : g[s] = IF s = {} THEN NoEffect
                                   ELSE Then(g[s \ {Max(s)}], Effect(q[Max(s)]))
    BY <1>1, <2>1
  <2>3. g = [s \in SUBSET D |-> g[s]]
    OBVIOUS
  <2> HIDE DEF g, D
  <2> QED
    BY <2>2, <2>3
<1>3. Rec(h)
  BY <1>2
<1>4. EffectOf(q) = h[D]
  BY Zenon DEF EffectOf, FoldLeft, MapThenFoldSet
<1>5. \A s \in SUBSET D : h[s] = IF s = {} THEN NoEffect
                                 ELSE Then(h[s \ {Max(s)}], Effect(q[Max(s)]))
  <2> HIDE DEF h, D
  <2> QED
    BY <1>3
<1>6. \A s \in SUBSET D : g[s] = IF s = {} THEN NoEffect
                                 ELSE Then(g[s \ {Max(s)}], Effect(q[Max(s)]))
  <2> HIDE DEF g, D
  <2> QED
    BY <1>2
<1> HIDE DEF h, g
<1> DEFINE B == {s \in SUBSET D : h[s] # g[s]}
<1>7. B = {}
  <2> SUFFICES ASSUME B # {} PROVE FALSE
    OBVIOUS
  <2>1. PICK s \in B : \A y \in B : y \subseteq s => y = s
    <3>1. B \subseteq SUBSET D /\ IsFiniteSet(D)
      BY <1>0, FS_Interval
    <3> HIDE DEF B, D
    <3> QED
      BY <3>1, LeastSubset
  <2>2. s # {} /\ s \in SUBSET D
    BY <2>1, <1>5, <1>6
  <2>3. Max(s) \in s
    BY <1>0, <2>2, PlacesFact, MaxFact
  <2>4. s \ {Max(s)} \notin B
    BY <2>1, <2>2, <2>3
  <2> QED
    BY <2>1, <2>2, <2>3, <2>4, <1>5, <1>6
<1> QED
  BY <1>4, <1>7 DEF g

(* The same, entry by entry: a key that no entry names is kept, and the    *)
(* last entry that names it decides.                                       *)
LEMMA EffectAt ==
  ASSUME NEW q \in Seq(Pending)
  PROVE  /\ EffectOf(q) \in Effects
         /\ \A k \in Keys : (\A i \in DOMAIN q : ~Names(q[i], k)) => EffectOf(q)[k] = Kept
         /\ \A k \in Keys, i \in DOMAIN q :
              Names(q[i], k) /\ (\A j \in DOMAIN q : j > i => ~Names(q[j], k))
                => EffectOf(q)[k] = q[i].val /\ q[i].val # Kept
<1>0. DOMAIN q = 1 .. Len(q) /\ Len(q) \in Nat /\ \A i \in DOMAIN q : q[i] \in Pending
  OBVIOUS
<1>1. EffectOf(q) = [k \in Keys |-> LastHit(q, DOMAIN q, k)]
  BY EffectOfList DEF Done
<1>2. ASSUME NEW k \in Keys
      PROVE  /\ LastHit(q, DOMAIN q, k) \in Vals \cup {Gone, Kept}
             /\ (\A i \in DOMAIN q : ~Names(q[i], k)) => LastHit(q, DOMAIN q, k) = Kept
             /\ \A i \in DOMAIN q :
                  Names(q[i], k) /\ (\A j \in DOMAIN q : j > i => ~Names(q[j], k))
                    => LastHit(q, DOMAIN q, k) = q[i].val /\ q[i].val # Kept
  <2> DEFINE H == Hits(q, DOMAIN q, k)
  <2>1. H = {i \in DOMAIN q : Names(q[i], k)}
    BY <1>0, EffectOfEntry DEF Hits
  <2>2. \A i \in DOMAIN q : Names(q[i], k) => Effect(q[i])[k] = q[i].val /\ q[i].val \in Vals \cup {Gone}
    BY <1>0, EffectOfEntry
  <2>3. H # {} => Max(H) \in H
    BY <1>0, <2>1, PlacesFact, MaxFact
  <2>4. LastHit(q, DOMAIN q, k) = IF H = {} THEN Kept ELSE Effect(q[Max(H)])[k]
    BY DEF LastHit
  <2> HIDE DEF H
  <2>5. LastHit(q, DOMAIN q, k) \in Vals \cup {Gone, Kept}
    BY <2>1, <2>2, <2>3, <2>4
  <2>6. (\A i \in DOMAIN q : ~Names(q[i], k)) => LastHit(q, DOMAIN q, k) = Kept
    BY <2>1, <2>4
  <2>7. ASSUME NEW i \in DOMAIN q, Names(q[i], k), \A j \in DOMAIN q : j > i => ~Names(q[j], k)
        PROVE  LastHit(q, DOMAIN q, k) = q[i].val /\ q[i].val # Kept
    <3>1. i \in H /\ \A j \in H : j <= i
      BY <1>0, <2>1, <2>7
    <3>2. Max(H) = i
      BY <1>0, <2>1, <3>1, PlacesFact, MaxIs
    <3>3. q[i].val # Kept
      BY <2>2, <2>7, BatchAssumption
    <3> QED
      BY <2>2, <2>4, <2>7, <3>1, <3>2, <3>3
  <2> QED
    BY <2>5, <2>6, <2>7
<1> QED
  BY <1>1, <1>2 DEF Effects

(* A list of nothing does nothing.                                         *)
LEMMA EffectOfNothing == EffectOf(<<>>) = NoEffect
<1>1. <<>> \in Seq(Pending) /\ DOMAIN <<>> = {}
  OBVIOUS
<1>2. EffectOf(<<>>) \in Effects /\ \A k \in Keys : EffectOf(<<>>)[k] = Kept
  BY <1>1, EffectAt
<1> QED
  BY <1>2, EffectTypes DEF Effects

(* One list after the other.                                               *)
LEMMA EffectOfConcat ==
  ASSUME NEW p \in Seq(Pending), NEW q \in Seq(Pending)
  PROVE  /\ p \o q \in Seq(Pending)
         /\ EffectOf(p \o q) = Then(EffectOf(p), EffectOf(q))
<1> DEFINE r == p \o q
           n == Len(p)
           m == Len(q)
<1>1. r \in Seq(Pending)
  OBVIOUS
<1>2. n \in Nat /\ m \in Nat /\ DOMAIN p = 1 .. n /\ DOMAIN q = 1 .. m
  OBVIOUS
<1>3. DOMAIN r = 1 .. n + m
  OBVIOUS
<1>4. \A i \in 1 .. n : r[i] = p[i]
  OBVIOUS
<1>5. \A i \in 1 .. m : r[n + i] = q[i]
  OBVIOUS
<1>6. /\ EffectOf(p) \in Effects /\ EffectOf(q) \in Effects /\ EffectOf(r) \in Effects
  BY <1>1, EffectAt
<1> HIDE DEF r, n, m
<1>7. ASSUME NEW k \in Keys
      PROVE  EffectOf(r)[k] = IF EffectOf(q)[k] = Kept THEN EffectOf(p)[k] ELSE EffectOf(q)[k]
  <2>1. CASE \E i \in 1 .. m : Names(q[i], k)
    <3> DEFINE H == {i \in 1 .. m : Names(q[i], k)}
               i == Max(H)
    <3>1. i \in 1 .. m /\ Names(q[i], k) /\ \A j \in 1 .. m : j > i => ~Names(q[j], k)
      <4>1. H # {} /\ H \subseteq 1 .. m
        BY <2>1
      <4>2. i \in H /\ i \in Nat /\ \A j \in H : j <= i
        BY <1>2, <4>1, PlacesFact, MaxFact
      <4> HIDE DEF i
      <4> QED
        BY <1>2, <4>2
    <3> HIDE DEF i, H
    <3>2. EffectOf(q)[k] = q[i].val /\ q[i].val # Kept
      BY <1>2, <3>1, EffectAt
    <3>3. n + i \in 1 .. n + m /\ r[n + i] = q[i]
      BY <1>2, <1>5, <3>1
    <3>4. ASSUME NEW j \in 1 .. n + m, j > n + i PROVE ~Names(r[j], k)
      <4>1. j - n \in 1 .. m /\ j - n > i /\ n + (j - n) = j
        BY <1>2, <3>1, <3>4
      <4> QED
        BY <1>5, <3>1, <4>1
    <3>5. EffectOf(r)[k] = r[n + i].val
      BY <1>1, <1>3, <3>1, <3>3, <3>4, EffectAt
    <3> QED
      BY <3>2, <3>3, <3>5
  <2>2. CASE ~ \E i \in 1 .. m : Names(q[i], k)
    <3>1. EffectOf(q)[k] = Kept
      BY <1>2, <2>2, EffectAt
    <3>2. \A j \in 1 .. n + m : j > n => ~Names(r[j], k)
      <4> TAKE j \in 1 .. n + m
      <4> HAVE j > n
      <4>1. j - n \in 1 .. m /\ n + (j - n) = j
        BY <1>2
      <4> QED
        BY <1>5, <2>2, <4>1
    <3>3. CASE \E i \in 1 .. n : Names(p[i], k)
      <4> DEFINE H == {i \in 1 .. n : Names(p[i], k)}
                 i == Max(H)
      <4>1. i \in 1 .. n /\ Names(p[i], k) /\ \A j \in 1 .. n : j > i => ~Names(p[j], k)
        <5>1. H # {} /\ H \subseteq 1 .. n
          BY <3>3
        <5>2. i \in H /\ i \in Nat /\ \A j \in H : j <= i
          BY <1>2, <5>1, PlacesFact, MaxFact
        <5> HIDE DEF i
        <5> QED
          BY <1>2, <5>2
      <4> HIDE DEF i, H
      <4>2. EffectOf(p)[k] = p[i].val
        BY <1>2, <4>1, EffectAt
      <4>3. i \in 1 .. n + m /\ r[i] = p[i]
        BY <1>2, <1>4, <4>1
      <4>4. \A j \in 1 .. n + m : j > i => ~Names(r[j], k)
        <5> TAKE j \in 1 .. n + m
        <5> HAVE j > i
        <5>1. CASE j > n
          BY <3>2, <5>1
        <5>2. CASE ~(j > n)
          <6>1. j \in 1 .. n
            BY <1>2, <5>2
          <6> QED
            BY <1>4, <4>1, <6>1
        <5> QED
          BY <5>1, <5>2
      <4>5. EffectOf(r)[k] = r[i].val
        BY <1>1, <1>3, <4>1, <4>3, <4>4, EffectAt
      <4> QED
        BY <3>1, <4>2, <4>3, <4>5
    <3>4. CASE ~ \E i \in 1 .. n : Names(p[i], k)
      <4>1. \A j \in 1 .. n + m : ~Names(r[j], k)
        <5> TAKE j \in 1 .. n + m
        <5>1. j > n \/ j \in 1 .. n
          BY <1>2
        <5> QED
          BY <1>4, <3>2, <3>4, <5>1
      <4>2. EffectOf(r)[k] = Kept
        BY <1>1, <1>3, <4>1, EffectAt
      <4>3. EffectOf(p)[k] = Kept
        BY <1>2, <3>4, EffectAt
      <4> QED
        BY <3>1, <4>2, <4>3
    <3> QED
      BY <3>3, <3>4
  <2> QED
    BY <2>1, <2>2
<1>8. EffectOf(r) = Then(EffectOf(p), EffectOf(q))
  BY <1>6, <1>7 DEF Effects, Then
<1> QED
  BY <1>1, <1>8 DEF r

-----------------------------------------------------------------------------
(* What the readers of a list answer.                                      *)

(* staged_view, scanning backwards to the first hit, answers what the      *)
(* entries leave.                                                          *)
LEMMA ViewIsEffect ==
  ASSUME NEW q \in Seq(Pending), NEW k \in Keys
  PROVE  StagedView(q, k) = EffectOf(q)[k]
<1> DEFINE I == {i \in 1 .. Len(q) : q[i].key = k \/ IsClear(q[i])}
<1>0. Len(q) \in Nat /\ DOMAIN q = 1 .. Len(q)
  OBVIOUS
<1>1. StagedView(q, k) = IF I = {} THEN Kept ELSE q[Max(I)].val
  <2>1. SelectLastInSeq(q, LAMBDA m : m.key = k \/ IsClear(m)) = IF I # {} THEN Max(I) ELSE 0
    BY DEF SelectLastInSeq
  <2>2. I # {} => Max(I) # 0
    <3>1. I # {} => Max(I) \in I
      BY <1>0, PlacesFact, MaxFact
    <3> QED
      BY <3>1
  <2> HIDE DEF I
  <2> QED
    BY <2>1, <2>2 DEF StagedView
<1>2. I = {i \in DOMAIN q : Names(q[i], k)}
  BY <1>0 DEF Names
<1> HIDE DEF I
<1>3. CASE I = {}
  BY <1>1, <1>2, <1>3, EffectAt
<1>4. CASE I # {}
  <2> DEFINE n == IF I # {} THEN Max(I) ELSE 0
  <2>1. n # 0 /\ n \in 1 .. Len(q) /\ n \in I /\ \A j \in 1 .. Len(q) : j > n => j \notin I
    <3> I \subseteq 1 .. Len(q)
      BY <1>0, <1>2
    <3> HIDE DEF n
    <3> n = IF I # {} THEN Max(I) ELSE 0
      BY DEF n
    <3> QED
      BY <1>0, <1>4, LastPlace
  <2>2. StagedView(q, k) = q[n].val
    BY <1>1, <1>4
  <2> HIDE DEF n
  <2>3. n \in DOMAIN q /\ Names(q[n], k) /\ \A j \in DOMAIN q : j > n => ~Names(q[j], k)
    BY <1>0, <1>2, <2>1
  <2> QED
    BY <2>2, <2>3, EffectAt
<1> QED
  BY <1>3, <1>4

(* The last entry of a list that names a key.                              *)
LEMMA LastOfFact ==
  ASSUME NEW q \in Seq(Pending), NEW k
  PROVE  LET n == LastOf(q, k) IN
         \/ n = 0 /\ \A i \in DOMAIN q : q[i].key # k
         \/ n \in DOMAIN q /\ n # 0 /\ q[n].key = k /\ \A j \in DOMAIN q : j > n => q[j].key # k
<1> DEFINE I == {i \in 1 .. Len(q) : q[i].key = k}
<1>0. Len(q) \in Nat /\ DOMAIN q = 1 .. Len(q)
  OBVIOUS
<1> DEFINE n == LastOf(q, k)
<1>1. n = IF I # {} THEN Max(I) ELSE 0
  BY DEF LastOf, SelectLastInSeq
<1>2. I \subseteq 1 .. Len(q) /\ \A i \in 1 .. Len(q) : i \in I <=> q[i].key = k
  OBVIOUS
<1> HIDE DEF I, n
<1>3. \/ n = 0 /\ I = {}
      \/ n # 0 /\ n \in 1 .. Len(q) /\ n \in I /\ \A j \in 1 .. Len(q) : j > n => j \notin I
  BY <1>0, <1>1, <1>2, LastPlace
<1>4. \/ n = 0 /\ \A i \in DOMAIN q : q[i].key # k
      \/ n \in DOMAIN q /\ n # 0 /\ q[n].key = k /\ \A j \in DOMAIN q : j > n => q[j].key # k
  BY <1>0, <1>2, <1>3
<1> QED
  BY <1>4 DEF n

(* What is left of a list after its last clear.                            *)
LEMMA TailFact ==
  ASSUME NEW q \in Seq(Pending)
  PROVE  \E c \in 0 .. Len(q) :
           /\ TailAfter(q) \in Seq(Pending) /\ Len(TailAfter(q)) = Len(q) - c
           /\ \A i \in 1 .. Len(q) - c : TailAfter(q)[i] = q[c + i]
           /\ \A j \in 1 .. Len(q) : j > c => ~IsClear(q[j])
           /\ IF HasClear(q) THEN c \in 1 .. Len(q) /\ IsClear(q[c]) ELSE c = 0
<1> DEFINE I == {i \in 1 .. Len(q) : IsClear(q[i])}
           c == SelectLastInSeq(q, IsClear)
<1>0. Len(q) \in Nat /\ DOMAIN q = 1 .. Len(q)
  OBVIOUS
<1>1. c = IF I # {} THEN Max(I) ELSE 0
  BY DEF SelectLastInSeq
<1>3. I \subseteq 1 .. Len(q) /\ \A i \in 1 .. Len(q) : i \in I <=> IsClear(q[i])
  OBVIOUS
<1>4. HasClear(q) <=> I # {}
  BY <1>0 DEF HasClear
<1>5. TailAfter(q) = SubSeq(q, c + 1, Len(q))
  BY DEF TailAfter
<1> HIDE DEF I, c
<1>2. /\ c \in 0 .. Len(q)
      /\ \/ c = 0 /\ I = {}
         \/ c # 0 /\ c \in 1 .. Len(q) /\ c \in I /\ \A j \in 1 .. Len(q) : j > c => j \notin I
  BY <1>0, <1>1, <1>3, LastPlace
<1>6. c \in 0 .. Len(q)
  BY <1>2
<1>7. /\ \A j \in 1 .. Len(q) : j > c => ~IsClear(q[j])
      /\ IF HasClear(q) THEN c \in 1 .. Len(q) /\ IsClear(q[c]) ELSE c = 0
  BY <1>2, <1>3, <1>4
<1>8. /\ SubSeq(q, c + 1, Len(q)) \in Seq(Pending)
      /\ Len(SubSeq(q, c + 1, Len(q))) = Len(q) - ((c + 1) - 1)
      /\ \A i \in 1 .. Len(q) - ((c + 1) - 1) : SubSeq(q, c + 1, Len(q))[i] = q[((c + 1) - 1) + i]
  <2>1. Len(q) \in 0 .. Len(q) /\ c + 1 \in Nat \ {0} /\ c + 1 <= Len(q) + 1
    BY <1>0, <1>6
  <2> QED
    BY <2>1, PartOf, Zenon
<1>9. (c + 1) - 1 = c
  BY <1>6
<1>10. /\ TailAfter(q) \in Seq(Pending) /\ Len(TailAfter(q)) = Len(q) - c
       /\ \A i \in 1 .. Len(q) - c : TailAfter(q)[i] = q[c + i]
  BY <1>5, <1>8, <1>9, Zenon
<1> QED
  BY <1>6, <1>7, <1>10

(* ops_for_items looks at the last entry of a key after the last clear: it *)
(* says what the list does, and where there is none the clear does.        *)
LEMMA TailSays ==
  ASSUME NEW q \in Seq(Pending), NEW k \in Keys
  PROVE  LET n == LastOf(TailAfter(q), k) IN
         /\ n # 0 => /\ TailAfter(q)[n].val = EffectOf(q)[k]
                     /\ EffectOf(q)[k] # Kept
         /\ n = 0 => EffectOf(q)[k] = IF HasClear(q) THEN Gone ELSE Kept
<1> DEFINE p == TailAfter(q)
           n == LastOf(p, k)
           m == Len(q)
<1>0. m \in Nat /\ DOMAIN q = 1 .. m /\ \A i \in 1 .. m : q[i] \in Pending
  OBVIOUS
<1>1. PICK c \in 0 .. m :
        /\ p \in Seq(Pending) /\ Len(p) = m - c
        /\ \A i \in 1 .. m - c : p[i] = q[c + i]
        /\ \A j \in 1 .. m : j > c => ~IsClear(q[j])
        /\ IF HasClear(q) THEN c \in 1 .. m /\ IsClear(q[c]) ELSE c = 0
  BY TailFact
<1>2. DOMAIN p = 1 .. m - c
  <2> HIDE DEF p, m
  <2> QED
    BY <1>0, <1>1
<1>3. \/ n = 0 /\ \A i \in DOMAIN p : p[i].key # k
      \/ n \in DOMAIN p /\ n # 0 /\ p[n].key = k /\ \A j \in DOMAIN p : j > n => p[j].key # k
  BY <1>1, LastOfFact
<1> HIDE DEF p, n, m
<1>4. \A j \in 1 .. m : j > c => /\ j - c \in 1 .. m - c /\ p[j - c] = q[j]
                                 /\ Names(q[j], k) <=> p[j - c].key = k
  <2> TAKE j \in 1 .. m
  <2> HAVE j > c
  <2>1. j - c \in 1 .. m - c /\ c + (j - c) = j
    BY <1>0, <1>1
  <2> QED
    BY <1>1, <2>1 DEF Names
<1>5. CASE n # 0
  <2>1. n \in 1 .. m - c /\ p[n].key = k /\ \A j \in 1 .. m - c : j > n => p[j].key # k
    BY <1>2, <1>3, <1>5
  <2>2. c + n \in 1 .. m /\ c + n > c /\ (c + n) - c = n
    BY <1>0, <2>1
  <2>3. Names(q[c + n], k) /\ p[n] = q[c + n]
    BY <1>4, <2>1, <2>2
  <2>4. \A j \in 1 .. m : j > c + n => ~Names(q[j], k)
    <3> TAKE j \in 1 .. m
    <3> HAVE j > c + n
    <3>1. j > c /\ j - c > n
      BY <1>0, <2>1
    <3> QED
      BY <1>4, <2>1, <3>1
  <2>5. EffectOf(q)[k] = q[c + n].val /\ q[c + n].val # Kept
    BY <1>0, <2>2, <2>3, <2>4, EffectAt
  <2> QED
    BY <1>5, <2>3, <2>5 DEF n, p
<1>6. CASE n = 0
  <2>1. \A j \in 1 .. m : j > c => ~Names(q[j], k)
    BY <1>2, <1>3, <1>4, <1>6
  <2>2. CASE HasClear(q)
    <3>1. c \in 1 .. m /\ IsClear(q[c]) /\ Names(q[c], k)
      BY <1>1, <2>2 DEF Names
    <3>2. EffectOf(q)[k] = q[c].val
      BY <1>0, <2>1, <3>1, EffectAt
    <3>3. q[c].val = Gone
      BY <1>0, <3>1, EffectOfEntry
    <3> QED
      BY <1>6, <2>2, <3>2, <3>3 DEF n, p
  <2>3. CASE ~HasClear(q)
    <3>1. \A j \in 1 .. m : j > c
      BY <1>1, <2>3
    <3>2. EffectOf(q)[k] = Kept
      BY <1>0, <2>1, <3>1, EffectAt
    <3> QED
      BY <1>6, <2>3, <3>2 DEF n, p
  <2> QED
    BY <2>2, <2>3
<1> QED
  BY <1>5, <1>6 DEF n, p

(* The records after the commit of a list (ops_for_items) are the records  *)
(* before it under what the list does.                                     *)
LEMMA CommittedIsEffect ==
  ASSUME NEW q \in Seq(Pending), NEW r \in Contents
  PROVE  Committed(q, r) = Then(r, EffectOf(q)) /\ Committed(q, r) \in Contents
<1> DEFINE at(k) == LastOf(TailAfter(q), k)
           put(k) == IF at(k) # 0 THEN TailAfter(q)[at(k)].val
                     ELSE IF HasClear(q) THEN Gone ELSE r[k]
<1>1. Committed(q, r) = [k \in Keys |-> put(k)]
  BY DEF Committed
<1>2. ASSUME NEW k \in Keys
      PROVE  put(k) = IF EffectOf(q)[k] = Kept THEN r[k] ELSE EffectOf(q)[k]
  <2>1. at(k) # 0 => TailAfter(q)[at(k)].val = EffectOf(q)[k] /\ EffectOf(q)[k] # Kept
    BY TailSays
  <2>2. at(k) = 0 => EffectOf(q)[k] = IF HasClear(q) THEN Gone ELSE Kept
    BY TailSays
  <2>3. Gone # Kept
    BY BatchAssumption
  <2> HIDE DEF at
  <2> QED
    BY <2>1, <2>2, <2>3
<1> HIDE DEF put
<1>3. Committed(q, r) = Then(r, EffectOf(q))
  BY <1>1, <1>2 DEF Then
<1>4. Then(r, EffectOf(q)) \in Contents
  BY EffectAt DEF Then, Contents, Effects
<1> QED
  BY <1>3, <1>4

-----------------------------------------------------------------------------
(* The byte accounting of a list.                                          *)

(* What it has counted after some of the places: what the entries leave    *)
(* with a value, how often each key was deleted since it was last put or   *)
(* everything cleared, and whether there was a clear.                      *)
Deletes(q, s, k) ==
  {i \in s : /\ q[i].op = "delete" /\ q[i].key = k
             /\ \A j \in s : j > i => ~IsClear(q[j]) /\ ~(q[j].op = "put" /\ q[j].key = k)}
Sums(q, s) == [updates |-> {e \in Entries : Done(q, s)[e.key] = e.val},
               removals |-> [k \in Keys |-> Cardinality(Deletes(q, s, k))],
               cleared |-> \E i \in s : IsClear(q[i])]

(* The deletes that are counted are finitely many.                         *)
LEMMA DeletesFinite ==
  ASSUME NEW q \in Seq(Pending), NEW s \in SUBSET DOMAIN q, NEW k
  PROVE  IsFiniteSet(Deletes(q, s, k)) /\ Cardinality(Deletes(q, s, k)) \in Nat
<1>1. Deletes(q, s, k) \subseteq 1 .. Len(q) /\ Len(q) \in Nat
  BY DEF Deletes
<1>2. IsFiniteSet(Deletes(q, s, k))
  BY <1>1, PlacesFact
<1> QED
  BY <1>2, FS_CardinalityType

(* One place more.                                                         *)
LEMMA SumsStep ==
  ASSUME NEW q \in Seq(Pending), NEW s \in SUBSET DOMAIN q
  PROVE  Sums(q, s) = IF s = {} THEN NoAccounting
                      ELSE Count(Sums(q, s \ {Max(s)}), q[Max(s)])
<1>0. DOMAIN q = 1 .. Len(q) /\ Len(q) \in Nat
  OBVIOUS
<1>k. Kept # Gone /\ Kept \notin Vals /\ Gone \notin Vals
  BY BatchAssumption
<1>1. CASE s = {}
  <2>1. Done(q, s) = NoEffect
    BY <1>1, DoneStep
  <2>2. {e \in Entries : Done(q, s)[e.key] = e.val} = {}
    BY <1>k, <2>1 DEF NoEffect, Entries
  <2>3. \A k \in Keys : Deletes(q, s, k) = {}
    BY <1>1 DEF Deletes
  <2>4. Cardinality({}) = 0
    BY FS_EmptySet
  <2>5. [k \in Keys |-> Cardinality(Deletes(q, s, k))] = [k \in Keys |-> 0]
    BY <2>3, <2>4
  <2>6. (\E i \in s : IsClear(q[i])) = FALSE
    BY <1>1
  <2>7. Sums(q, s) = NoAccounting
    BY <2>2, <2>5, <2>6 DEF Sums, NoAccounting
  <2> QED
    BY <1>1, <2>7
<1>2. CASE s # {}
  <2> DEFINE m == Max(s)
             r == s \ {m}
             p == q[m]
             a == Sums(q, r)
             d == Done(q, r)
  <2>1. m \in s /\ m \in Nat /\ \A x \in s : x <= m
    BY <1>0, <1>2, PlacesFact, MaxFact
  <2>2. Done(q, s) = Then(d, Effect(p))
    BY <1>2, DoneStep
  <2>3. p \in Pending
    BY <2>1
  <2> HIDE DEF m, p
  <2>4. r \in SUBSET DOMAIN q /\ s = r \cup {m} /\ m \notin r
    BY <2>1
  <2>5. \A x \in r : x \in Nat /\ x < m
    BY <1>0, <2>1
  <2>6. \A k \in Keys : IsFiniteSet(Deletes(q, r, k)) /\ Cardinality(Deletes(q, r, k)) \in Nat
    BY <2>4, DeletesFinite
  <2>7. /\ a.updates = {e \in Entries : d[e.key] = e.val}
        /\ a.removals = [k \in Keys |-> Cardinality(Deletes(q, r, k))]
        /\ a.cleared = \E i \in r : IsClear(q[i])
        /\ a = [updates |-> a.updates, removals |-> a.removals, cleared |-> a.cleared]
    BY DEF Sums
  <2>8. \A k \in Keys : Done(q, s)[k] = IF Effect(p)[k] = Kept THEN d[k] ELSE Effect(p)[k]
    BY <2>2 DEF Then
  <2>9. q[m] = p
    BY DEF p
  <2> HIDE DEF r, a, d
  <2>10. ASSUME p \in [op : {"put"}, key : Keys, val : Vals]
         PROVE  Sums(q, s) = Count(a, p)
    <3>1. p.key \in Keys /\ p.val \in Vals /\ p.op = "put" /\ ~IsClear(p)
      BY <2>10 DEF IsClear
    <3>2. \A k \in Keys : Done(q, s)[k] = IF p.key = k THEN p.val ELSE d[k]
      <4> TAKE k \in Keys
      <4>1. Effect(p)[k] = IF p.key = k THEN p.val ELSE Kept
        BY <2>3, <3>1, EffectOfEntry
      <4>2. Done(q, s)[k] = IF Effect(p)[k] = Kept THEN d[k] ELSE Effect(p)[k]
        BY <2>8
      <4>3. p.val # Kept
        BY <1>k, <3>1
      <4> QED
        BY <4>1, <4>2, <4>3
    <3>3. {e \in Entries : Done(q, s)[e.key] = e.val}
            = Others(a, p.key) \cup {[key |-> p.key, val |-> p.val]}
      BY <2>7, <3>1, <3>2 DEF Others, Entries
    <3>4. \A k \in Keys : Deletes(q, s, k) = IF k = p.key THEN {} ELSE Deletes(q, r, k)
      <4> TAKE k \in Keys
      <4>1. CASE k = p.key
        BY <2>4, <2>5, <2>9, <3>1, <4>1 DEF Deletes
      <4>2. CASE k # p.key
        BY <2>4, <2>5, <2>9, <3>1, <4>2 DEF Deletes
      <4> QED
        BY <4>1, <4>2
    <3>5. [k \in Keys |-> Cardinality(Deletes(q, s, k))] = [a.removals EXCEPT ![p.key] = 0]
      BY <2>7, <3>1, <3>4, FS_EmptySet
    <3>6. (\E i \in s : IsClear(q[i])) = a.cleared
      BY <2>4, <2>7, <2>9, <3>1
    <3>7. Count(a, p) = [updates |-> Others(a, p.key) \cup {[key |-> p.key, val |-> p.val]},
                         removals |-> [a.removals EXCEPT ![p.key] = 0],
                         cleared |-> a.cleared]
      BY <2>7, <3>1 DEF Count, CountPut
    <3> QED
      BY <3>3, <3>5, <3>6, <3>7 DEF Sums
  <2>11. ASSUME p \in [op : {"delete"}, key : Keys, val : {Gone}]
         PROVE  Sums(q, s) = Count(a, p)
    <3>1. p.key \in Keys /\ p.val = Gone /\ p.op = "delete" /\ ~IsClear(p)
      BY <2>11 DEF IsClear
    <3>2. \A k \in Keys : Done(q, s)[k] = IF p.key = k THEN Gone ELSE d[k]
      BY <1>k, <2>3, <2>8, <3>1, EffectOfEntry
    <3>3. {e \in Entries : Done(q, s)[e.key] = e.val} = Others(a, p.key)
      BY <1>k, <2>7, <3>1, <3>2 DEF Others, Entries
    <3>4. \A k \in Keys : Deletes(q, s, k) = IF k = p.key THEN Deletes(q, r, k) \cup {m}
                                             ELSE Deletes(q, r, k)
      <4> TAKE k \in Keys
      <4>1. CASE k = p.key
        BY <2>4, <2>5, <2>9, <3>1, <4>1 DEF Deletes
      <4>2. CASE k # p.key
        BY <2>4, <2>5, <2>9, <3>1, <4>2 DEF Deletes
      <4> QED
        BY <4>1, <4>2
    <3>5. [k \in Keys |-> Cardinality(Deletes(q, s, k))]
            = [a.removals EXCEPT ![p.key] = a.removals[p.key] + 1]
      <4>1. m \notin Deletes(q, r, p.key)
        BY <2>4 DEF Deletes
      <4>2. Cardinality(Deletes(q, r, p.key) \cup {m}) = Cardinality(Deletes(q, r, p.key)) + 1
        BY <2>6, <3>1, <4>1, FS_AddElement
      <4> QED
        BY <2>7, <3>1, <3>4, <4>2
    <3>6. (\E i \in s : IsClear(q[i])) = a.cleared
      BY <2>4, <2>7, <2>9, <3>1
    <3>7. Count(a, p) = [updates |-> Others(a, p.key),
                         removals |-> [a.removals EXCEPT ![p.key] = a.removals[p.key] + 1],
                         cleared |-> a.cleared]
      BY <2>7, <3>1 DEF Count
    <3> QED
      BY <3>3, <3>5, <3>6, <3>7 DEF Sums
  <2>12. ASSUME p \in [op : {"clear"}, key : {Kept}, val : {Gone}]
         PROVE  Sums(q, s) = Count(a, p)
    <3>1. p.op = "clear" /\ IsClear(p)
      BY <2>12 DEF IsClear
    <3>2. \A k \in Keys : Done(q, s)[k] = Gone
      BY <1>k, <2>3, <2>8, <3>1, EffectOfEntry
    <3>3. {e \in Entries : Done(q, s)[e.key] = e.val} = {}
      BY <1>k, <3>2 DEF Entries
    <3>4. \A k \in Keys : Deletes(q, s, k) = {}
      BY <2>4, <2>5, <2>9, <3>1 DEF Deletes
    <3>5. [k \in Keys |-> Cardinality(Deletes(q, s, k))] = [k \in Keys |-> 0]
      BY <3>4, FS_EmptySet
    <3>6. (\E i \in s : IsClear(q[i])) = TRUE
      BY <2>1, <2>9, <3>1
    <3>7. Count(a, p) = [updates |-> {}, removals |-> [k \in Keys |-> 0], cleared |-> TRUE]
      BY <3>1 DEF Count, NoAccounting
    <3> QED
      BY <3>3, <3>5, <3>6, <3>7 DEF Sums
  <2>13. Sums(q, s) = Count(a, p)
    BY <2>3, <2>10, <2>11, <2>12 DEF Pending
  <2> QED
    BY <1>2, <2>13 DEF a, p, r, m
<1> QED
  BY <1>1, <1>2

(* Accounting counts to that.                                              *)
LEMMA AccountingIsSums ==
  ASSUME NEW q \in Seq(Pending)
  PROVE  Accounting(q) = Sums(q, DOMAIN q)
<1> DEFINE D == DOMAIN q
           g == [s \in SUBSET D |-> Sums(q, s)]
           Rec(e) == e = [s \in SUBSET D |->
                            IF s = {} THEN NoAccounting
                            ELSE Count(e[s \ {Max(s)}], q[Max(s)])]
           h == CHOOSE e : Rec(e)
<1>0. D = 1 .. Len(q) /\ Len(q) \in Nat
  OBVIOUS
<1>1. ASSUME NEW s \in SUBSET D
      PROVE  Sums(q, s) = IF s = {} THEN NoAccounting
                          ELSE Count(Sums(q, s \ {Max(s)}), q[Max(s)])
  BY SumsStep
<1>2. Rec(g)
  <2>1. \A s \in SUBSET D : s \ {Max(s)} \in SUBSET D
    OBVIOUS
  <2>2. \A s \in SUBSET D : g[s] = IF s = {} THEN NoAccounting
                                   ELSE Count(g[s \ {Max(s)}], q[Max(s)])
    BY <1>1, <2>1
  <2>3. g = [s \in SUBSET D |-> g[s]]
    OBVIOUS
  <2> HIDE DEF g, D
  <2> QED
    BY <2>2, <2>3
<1>3. Rec(h)
  BY <1>2
<1>4. Accounting(q) = h[D]
  BY Zenon DEF Accounting, FoldLeft, MapThenFoldSet
<1>5. \A s \in SUBSET D : h[s] = IF s = {} THEN NoAccounting
                                 ELSE Count(h[s \ {Max(s)}], q[Max(s)])
  <2> HIDE DEF h, D
  <2> QED
    BY <1>3
<1>6. \A s \in SUBSET D : g[s] = IF s = {} THEN NoAccounting
                                 ELSE Count(g[s \ {Max(s)}], q[Max(s)])
  <2> HIDE DEF g, D
  <2> QED
    BY <1>2
<1> HIDE DEF h, g
<1> DEFINE B == {s \in SUBSET D : h[s] # g[s]}
<1>7. B = {}
  <2> SUFFICES ASSUME B # {} PROVE FALSE
    OBVIOUS
  <2>1. PICK s \in B : \A y \in B : y \subseteq s => y = s
    <3>1. B \subseteq SUBSET D /\ IsFiniteSet(D)
      BY <1>0, FS_Interval
    <3> HIDE DEF B, D
    <3> QED
      BY <3>1, LeastSubset
  <2>2. s # {} /\ s \in SUBSET D
    BY <2>1, <1>5, <1>6
  <2>3. Max(s) \in s
    BY <1>0, <2>2, PlacesFact, MaxFact
  <2>4. s \ {Max(s)} \notin B
    BY <2>1, <2>2, <2>3
  <2> QED
    BY <2>1, <2>2, <2>3, <2>4, <1>5, <1>6
<1> QED
  BY <1>4, <1>7 DEF g

(* It says what the list does: the values written, no key removed that     *)
(* comes back, and every key that is gone removed or cleared.              *)
LEMMA AccountingSays ==
  ASSUME NEW q \in Seq(Pending)
  PROVE  LET acc == Accounting(q) IN
         /\ acc.updates = {e \in Entries : EffectOf(q)[e.key] = e.val}
         /\ \A k \in Keys : acc.removals[k] > 0 => EffectOf(q)[k] = Gone
         /\ \A k \in Keys : EffectOf(q)[k] = Gone => acc.removals[k] > 0 \/ acc.cleared
<1> DEFINE acc == Accounting(q)
           D == DOMAIN q
<1>0. D = 1 .. Len(q) /\ Len(q) \in Nat /\ \A i \in D : q[i] \in Pending
  OBVIOUS
<1>1. acc = Sums(q, D) /\ EffectOf(q) = Done(q, D)
  BY AccountingIsSums, EffectOfList
<1>2. /\ acc.updates = {e \in Entries : EffectOf(q)[e.key] = e.val}
      /\ \A k \in Keys : acc.removals[k] = Cardinality(Deletes(q, D, k))
      /\ acc.cleared = \E i \in D : IsClear(q[i])
  BY <1>1 DEF Sums
<1> HIDE DEF acc, D
<1>3. ASSUME NEW k \in Keys, acc.removals[k] > 0 PROVE EffectOf(q)[k] = Gone
  <2> DEFINE H == {i \in D : Names(q[i], k)}
             n == IF H # {} THEN Max(H) ELSE 0
  <2>1. Deletes(q, D, k) # {}
    <3> SUFFICES ASSUME Deletes(q, D, k) = {} PROVE FALSE
      OBVIOUS
    <3>1. Cardinality(Deletes(q, D, k)) = 0
      BY FS_EmptySet
    <3>2. acc.removals[k] = Cardinality(Deletes(q, D, k))
      BY <1>2
    <3>3. acc.removals[k] = 0
      BY <3>1, <3>2
    <3>4. ~(0 > 0)
      OBVIOUS
    <3> QED
      BY <1>3, <3>3, <3>4
  <2>2. PICK i \in D : /\ q[i].op = "delete" /\ q[i].key = k
                       /\ \A j \in D : j > i => ~IsClear(q[j]) /\ ~(q[j].op = "put" /\ q[j].key = k)
    BY <2>1 DEF Deletes
  <2>3. i \in H /\ H \subseteq 1 .. Len(q)
    BY <1>0, <2>2 DEF Names
  <2>4. n \in 1 .. Len(q) /\ n \in H /\ \A j \in 1 .. Len(q) : j > n => j \notin H
    <3> HIDE DEF n
    <3>1. n = IF H # {} THEN Max(H) ELSE 0
      BY DEF n
    <3> HIDE DEF H
    <3> QED
      BY <1>0, <2>3, <3>1, LastPlace
  <2> HIDE DEF n
  <2>5. Names(q[n], k) /\ \A j \in D : j > n => ~Names(q[j], k)
    BY <1>0, <2>4
  <2>6. EffectOf(q)[k] = q[n].val
    BY <1>0, <2>4, <2>5, EffectAt DEF D
  <2>7. n = i \/ n > i
    <3>1. n \in Nat /\ i \in Nat /\ ~(i > n)
      BY <1>0, <2>3, <2>4
    <3> QED
      BY <3>1
  <2>8. q[n].op = "delete"
    <3>1. CASE n = i
      BY <2>2, <3>1
    <3>2. CASE n > i
      <4>1. n \in D /\ q[n] \in Pending
        BY <1>0, <2>4
      <4>2. ~IsClear(q[n]) /\ q[n].key = k /\ ~(q[n].op = "put")
        BY <2>2, <2>5, <3>2, <4>1 DEF Names
      <4> QED
        BY <4>1, <4>2 DEF Pending, IsClear
    <3> QED
      BY <2>7, <3>1, <3>2
  <2>9. q[n].val = Gone
    <3>1. q[n] \in Pending
      BY <1>0, <2>4
    <3> QED
      BY <2>8, <3>1 DEF Pending
  <2> QED
    BY <2>6, <2>9
<1>4. ASSUME NEW k \in Keys, EffectOf(q)[k] = Gone, ~acc.cleared PROVE acc.removals[k] > 0
  <2> DEFINE H == {i \in D : Names(q[i], k)}
             n == IF H # {} THEN Max(H) ELSE 0
  <2>1. \A j \in D : ~IsClear(q[j])
    BY <1>2, <1>4
  <2>2. H # {} /\ H \subseteq 1 .. Len(q)
    <3>1. EffectOf(q)[k] # Kept
      BY <1>4, BatchAssumption
    <3> QED
      BY <1>0, <3>1, EffectAt DEF D
  <2>3. n \in 1 .. Len(q) /\ n \in H /\ \A j \in 1 .. Len(q) : j > n => j \notin H
    <3> HIDE DEF n
    <3>1. n = IF H # {} THEN Max(H) ELSE 0
      BY DEF n
    <3> HIDE DEF H
    <3> QED
      BY <1>0, <2>2, <3>1, LastPlace
  <2> HIDE DEF n
  <2>4. n \in D /\ q[n] \in Pending /\ q[n].key = k /\ \A j \in D : j > n => q[j].key # k
    BY <1>0, <2>1, <2>3 DEF Names
  <2>5. q[n].val = Gone
    <3>1. Names(q[n], k) /\ \A j \in D : j > n => ~Names(q[j], k)
      BY <1>0, <2>3
    <3> QED
      BY <1>4, <2>4, <3>1, EffectAt DEF D
  <2>6. q[n].op = "delete"
    <3>1. ~IsClear(q[n])
      BY <2>1, <2>4
    <3>2. Gone \notin Vals
      BY BatchAssumption
    <3> QED
      BY <2>4, <2>5, <3>1, <3>2 DEF Pending, IsClear
  <2>7. n \in Deletes(q, D, k)
    BY <2>1, <2>4, <2>6 DEF Deletes
  <2>8. IsFiniteSet(Deletes(q, D, k)) /\ Cardinality(Deletes(q, D, k)) \in Nat
    BY DeletesFinite DEF D
  <2>9. Cardinality(Deletes(q, D, k)) # 0
    BY <2>7, <2>8, FS_EmptySet
  <2> QED
    BY <1>2, <2>8, <2>9
<1>5. ASSUME NEW k \in Keys, EffectOf(q)[k] = Gone PROVE acc.removals[k] > 0 \/ acc.cleared
  BY <1>4, <1>5
<1> QED
  BY <1>2, <1>3, <1>5 DEF acc

-----------------------------------------------------------------------------
(* Lists of keys in order, and their pages.                                *)

Sorted(s, r) == \A i, j \in DOMAIN s : i < j => Precedes(s[i], s[j], r)

(* A finite set of numbers can be listed in either direction.              *)
LEMMA CanBeSorted ==
  ASSUME NEW S, IsFiniteSet(S), S \subseteq Nat, NEW r \in BOOLEAN
  PROVE  \E s \in [1 .. Cardinality(S) -> S] : Sorted(s, r)
<1> DEFINE Can(T) == \E s \in [1 .. Cardinality(T) -> T] : Sorted(s, r)
           B == {T \in SUBSET S : ~Can(T)}
<1>1. B = {}
  <2> SUFFICES ASSUME B # {} PROVE FALSE
    OBVIOUS
  <2>1. PICK T \in B : \A y \in B : y \subseteq T => y = T
    <3> DEFINE U == S
    <3>1. B \subseteq SUBSET U /\ B # {} /\ IsFiniteSet(U)
      OBVIOUS
    <3> HIDE DEF B, Can, U
    <3>2. \E x \in B : \A y \in B : y \subseteq x => y = x
      BY <3>1, LeastSubset
    <3> QED
      BY <3>2
  <2>2. T \subseteq S /\ T \subseteq Nat /\ ~Can(T)
    BY <2>1
  <2>3. IsFiniteSet(T)
    <3>1. T \in SUBSET S
      BY <2>2
    <3> QED
      BY <3>1, FS_Subset, Zenon
  <2>4. CASE T = {}
    <3>1. Cardinality(T) = 0
      BY <2>4, FS_EmptySet
    <3> DEFINE s == [i \in 1 .. 0 |-> 0]
    <3>2. s \in [1 .. Cardinality(T) -> T]
      BY <3>1, <2>4
    <3>3. Sorted(s, r)
      BY DEF Sorted
    <3> QED
      BY <2>2, <3>2, <3>3
  <2>5. CASE T # {}
    <3>1. PICK m \in T : \A x \in T : x = m \/ Precedes(x, m, r)
      BY <2>2, <2>3, <2>5, HasLast
    <3> DEFINE R == T \ {m}
               n == Cardinality(R)
    <3>2. R \in SUBSET S /\ R # T /\ R \subseteq T
      BY <2>2, <3>1
    <3>3. Can(R)
      BY <2>1, <3>2
    <3>4. PICK f \in [1 .. n -> R] : Sorted(f, r)
      BY <3>3
    <3>5. IsFiniteSet(R) /\ n \in Nat
      BY <2>3, FS_RemoveElement, FS_CardinalityType
    <3>6. Cardinality(T) = n + 1
      <4>1. R \cup {m} = T /\ m \notin R
        BY <3>1
      <4> HIDE DEF R
      <4>2. Cardinality(R \cup {m}) = IF m \in R THEN Cardinality(R) ELSE Cardinality(R) + 1
        BY <3>5, FS_AddElement
      <4> QED
        BY <4>1, <4>2
    <3> DEFINE g == [i \in 1 .. n + 1 |-> IF i = n + 1 THEN m ELSE f[i]]
    <3>7. \A i \in 1 .. n : f[i] \in T /\ Precedes(f[i], m, r)
      BY <3>1, <3>4
    <3>8. g \in [1 .. Cardinality(T) -> T]
      <4> HIDE DEF n
      <4>1. \A i \in 1 .. n + 1 : i = n + 1 \/ i \in 1 .. n
        BY <3>5
      <4> QED
        BY <3>1, <3>6, <3>7, <4>1
    <3>9. Sorted(g, r)
      <4> SUFFICES ASSUME NEW i \in 1 .. n + 1, NEW j \in 1 .. n + 1, i < j
                   PROVE  Precedes(g[i], g[j], r)
        BY DEF Sorted
      <4> HIDE DEF n
      <4>1. i \in 1 .. n /\ (j = n + 1 \/ j \in 1 .. n) /\ i # n + 1
        BY <3>5
      <4>2. CASE j = n + 1
        BY <3>7, <4>1, <4>2
      <4>3. CASE j \in 1 .. n
        <5>1. j # n + 1
          BY <3>5, <4>3
        <5>2. g[i] = f[i] /\ g[j] = f[j]
          BY <4>1, <5>1
        <5>3. DOMAIN f = 1 .. n
          BY <3>4 DEF n
        <5> QED
          BY <3>4, <4>1, <4>3, <5>2, <5>3 DEF Sorted
      <4> QED
        BY <4>1, <4>2, <4>3
    <3> HIDE DEF g
    <3> QED
      BY <2>2, <3>8, <3>9
  <2> QED
    BY <2>4, <2>5
<1> QED
  BY <1>1

(* InOrder lists every element once, in order.                             *)
LEMMA InOrderFact ==
  ASSUME NEW S, IsFiniteSet(S), S \subseteq Nat, NEW r \in BOOLEAN
  PROVE  /\ InOrder(S, r) \in Seq(S)
         /\ Len(InOrder(S, r)) = Cardinality(S)
         /\ Cardinality(S) \in Nat
         /\ Sorted(InOrder(S, r), r)
         /\ \A x \in S : \E i \in 1 .. Cardinality(S) : InOrder(S, r)[i] = x
<1> DEFINE n == Cardinality(S)
           L == InOrder(S, r)
<1>1. n \in Nat
  BY FS_CardinalityType
<1>2. L \in [1 .. n -> S] /\ Sorted(L, r)
  BY CanBeSorted DEF InOrder, Sorted
<1> HIDE DEF n, L
<1>3. L \in Seq(S) /\ Len(L) = n /\ DOMAIN L = 1 .. n
  BY <1>1, <1>2
<1>4. L \in Injection(1 .. n, S)
  <2>1. ASSUME NEW i \in 1 .. n, NEW j \in 1 .. n, i # j PROVE L[i] # L[j]
    <3>1. L[i] \in Nat /\ L[j] \in Nat
      BY <1>2
    <3>2. CASE i < j
      BY <1>2, <1>3, <3>1, <3>2 DEF Sorted, Precedes
    <3>3. CASE j < i
      BY <1>2, <1>3, <3>1, <3>3 DEF Sorted, Precedes
    <3> QED
      BY <1>1, <2>1, <3>2, <3>3
  <2> QED
    BY <1>2, <2>1 DEF Injection, IsInjective
<1>5. IsFiniteSet(1 .. n) /\ Cardinality(1 .. n) = n
  BY <1>1, FS_Interval
<1>6. L \in Surjection(1 .. n, S)
  <2>1. Cardinality(1 .. n) = Cardinality(S)
    BY <1>5 DEF n
  <2> QED
    BY <1>4, <2>1, FS_Injection, Zenon
<1>7. \A x \in S : \E i \in 1 .. n : L[i] = x
  BY <1>6 DEF Surjection
<1> QED
  BY <1>1, <1>2, <1>3, <1>7 DEF n, L

(* The first few of a list.                                                *)
LEMMA FirstOfFact ==
  ASSUME NEW S, NEW L \in Seq(S), NEW n \in Nat
  PROVE  LET p == FirstOf(L, n) IN
         /\ p \in Seq(S) /\ Len(p) \in Nat /\ DOMAIN p = 1 .. Len(p)
         /\ Len(p) = IF n < Len(L) THEN n ELSE Len(L)
         /\ \A i \in 1 .. Len(p) : i \in 1 .. Len(L) /\ p[i] = L[i] /\ p[i] \in S
<1> DEFINE m == IF n < Len(L) THEN n ELSE Len(L)
           p == FirstOf(L, n)
<1>1. m \in Nat /\ m <= Len(L) /\ Len(L) \in Nat
  OBVIOUS
<1>2. p = SubSeq(L, 1, m)
  BY DEF FirstOf
<1> HIDE DEF m, p
<1>3. /\ SubSeq(L, 1, m) \in Seq(S) /\ Len(SubSeq(L, 1, m)) = m - (1 - 1)
      /\ \A i \in 1 .. m - (1 - 1) : SubSeq(L, 1, m)[i] = L[(1 - 1) + i]
  <2>1. m \in 0 .. Len(L) /\ 1 \in Nat \ {0} /\ 1 <= m + 1
    BY <1>1
  <2>2. SubSeq(L, 1, m) \in Seq(S)
    BY <2>1, PartOf, Zenon
  <2>3. Len(SubSeq(L, 1, m)) = m - (1 - 1)
    BY <2>1, PartOf, Zenon
  <2>4. \A i \in 1 .. m - (1 - 1) : SubSeq(L, 1, m)[i] = L[(1 - 1) + i]
    BY <2>1, PartOf, Zenon
  <2> QED
    BY <2>2, <2>3, <2>4
<1>4. p \in Seq(S) /\ Len(p) = m /\ \A i \in 1 .. m : p[i] = L[i]
  <2>1. m - (1 - 1) = m /\ \A i \in 1 .. m : (1 - 1) + i = i
    BY <1>1
  <2> DEFINE P == SubSeq(L, 1, m)
  <2>2. p = P /\ P \in Seq(S) /\ Len(P) = m - (1 - 1) /\ \A i \in 1 .. m - (1 - 1) : P[i] = L[(1 - 1) + i]
    BY <1>2, <1>3, Zenon
  <2> HIDE DEF P
  <2> QED
    BY <2>1, <2>2
<1>5. ASSUME NEW i \in 1 .. m PROVE i \in 1 .. Len(L) /\ L[i] \in S
  BY <1>1
<1>6. DOMAIN p = 1 .. Len(p)
  BY <1>4
<1> QED
  BY <1>1, <1>4, <1>5, <1>6 DEF m, p

(* A page in order has what comes first: whatever it leaves out comes      *)
(* after all of it, and then it is full.                                   *)
IsPage(p, S, n, r) ==
  /\ p \in Seq(S) /\ Len(p) \in Nat /\ Len(p) <= n /\ DOMAIN p = 1 .. Len(p)
  /\ Len(p) = IF n < Cardinality(S) THEN n ELSE Cardinality(S)
  /\ Sorted(p, r)
  /\ \A x \in S : \/ \E i \in 1 .. Len(p) : p[i] = x
                  \/ /\ Len(p) = n /\ n < Cardinality(S)
                     /\ \A i \in 1 .. Len(p) : Precedes(p[i], x, r)

(* The first ones of a set in order are a page of it.                      *)
LEMMA PageFact ==
  ASSUME NEW S, IsFiniteSet(S), S \subseteq Nat, NEW r \in BOOLEAN, NEW n \in Nat
  PROVE  IsPage(FirstOf(InOrder(S, r), n), S, n, r)
<1> DEFINE L == InOrder(S, r)
           c == Cardinality(S)
           p == FirstOf(L, n)
<1>1. /\ L \in Seq(S) /\ Len(L) = c /\ c \in Nat /\ Sorted(L, r)
      /\ \A x \in S : \E i \in 1 .. c : L[i] = x
  BY InOrderFact
<1> HIDE DEF L, c
<1>2. /\ p \in Seq(S) /\ Len(p) \in Nat /\ DOMAIN p = 1 .. Len(p)
      /\ Len(p) = IF n < Len(L) THEN n ELSE Len(L)
      /\ \A i \in 1 .. Len(p) : i \in 1 .. Len(L) /\ p[i] = L[i] /\ p[i] \in S
  BY <1>1, FirstOfFact
<1>3. DOMAIN L = 1 .. c
  BY <1>1
<1> HIDE DEF p
<1>4. Len(p) <= n
  BY <1>1, <1>2
<1>5. Sorted(p, r)
  BY <1>1, <1>2, <1>3 DEF Sorted
<1>6. ASSUME NEW x \in S, ~ \E i \in 1 .. Len(p) : p[i] = x
      PROVE  Len(p) = n /\ n < c /\ \A i \in 1 .. Len(p) : Precedes(p[i], x, r)
  <2>1. PICK j \in 1 .. c : L[j] = x
    BY <1>1
  <2>2. j \notin 1 .. Len(p)
    BY <1>2, <1>6, <2>1
  <2>3. j > Len(p) /\ j <= c
    BY <1>1, <1>2, <2>2
  <2>4. n < c /\ Len(p) = n
    BY <1>1, <1>2, <2>3
  <2>5. ASSUME NEW i \in 1 .. Len(p) PROVE Precedes(p[i], x, r)
    <3>1. i \in 1 .. c /\ i < j /\ p[i] = L[i]
      BY <1>1, <1>2, <2>3
    <3> QED
      BY <1>1, <1>3, <2>1, <3>1 DEF Sorted
  <2> QED
    BY <2>4, <2>5
<1>7. IsPage(p, S, n, r)
  <2>1. Len(p) = IF n < Cardinality(S) THEN n ELSE Cardinality(S)
    BY <1>1, <1>2 DEF c
  <2>2. \A x \in S : \/ \E i \in 1 .. Len(p) : p[i] = x
                    \/ /\ Len(p) = n /\ n < Cardinality(S)
                       /\ \A i \in 1 .. Len(p) : Precedes(p[i], x, r)
    BY <1>6 DEF c
  <2> QED
    BY <1>2, <1>4, <1>5, <2>1, <2>2 DEF IsPage
<1> QED
  BY <1>7 DEF p, L

-----------------------------------------------------------------------------
(* The invariant.                                                          *)

(* What the listing's copy of the staged list says of a key.               *)
Copied(k) == EffectOf(snapshot)[k]

(* A key that the walk has behind it.                                      *)
Passed(k) == InBounds(k, query) /\ ~InBounds(k, range)

(* The walk has a key, or had its fill before it.                          *)
Shown(F, k) == \/ \E e \in F : e.key = k
               \/ Cap <= Cardinality(F) /\ \A e \in F : Before(e.key, k)
OnePerKey(F) == \A e, f \in F : e.key = f.key => e = f

(* Only a commit holds a drained batch, and nothing is staged meanwhile.   *)
OneBatch == /\ lock # "commit" => drained = <<>>
            /\ lock = "commit" => staged = <<>>

(* The pages: what is behind comes before what is ahead, and found is from *)
(* behind.                                                                 *)
WalkInv ==
  pc = "walking" =>
    /\ \A k \in Keys : InBounds(k, range) => InBounds(k, query)
    /\ \A k, l \in Keys : Passed(k) /\ InBounds(l, range) => Before(k, l)
    /\ \A e \in found : Passed(e.key)
    /\ OnePerKey(found)

(* What the locker holds is always remembered.                             *)
Remembers == pc # "idle" => \A k \in Keys : View[k] \in held[k]

(* The copy and, where it is silent, the records are what the locker held  *)
(* since the listing began; so is what was found there; and a key behind   *)
(* that was never absent is shown.                                         *)
HistoryInv ==
  pc = "walking" /\ clean =>
    /\ \A k \in Keys : Copied(k) # Kept => Copied(k) \in held[k]
    /\ \A k \in Keys : Copied(k) = Kept => records[k] \in held[k]
    /\ \A e \in found : Copied(e.key) = Kept => e.val \in held[e.key]
    /\ \A k \in Keys : Passed(k) /\ Copied(k) = Kept /\ Gone \notin held[k] => Shown(found, k)

ListInv == TypeOK /\ OneBatch /\ WalkInv /\ Remembers /\ HistoryInv /\ ListingFaithful

(* The keys are finitely many numbers.                                     *)
LEMMA KeysFact == Keys \subseteq Nat /\ IsFiniteSet(Keys) /\ Cardinality(Keys) \in Nat
<1>1. Keys \subseteq Nat /\ IsFiniteSet(Keys)
  BY KeysAreOrdered, ListingAssumption
<1> QED
  BY <1>1, FS_CardinalityType

(* The bound of a listing is at a number, and lets numbers by.             *)
LEMMA BoundFact ==
  ASSUME NEW b \in Bounds
  PROVE  /\ b.key \in Nat /\ b.kind \in {"unbounded", "included", "excluded"}
         /\ \A k, l \in Nat : k < l /\ Above(k, b) => Above(l, b)
         /\ \A k, l \in Nat : k < l /\ Below(l, b) => Below(k, b)
<1>1. b.key \in Nat /\ b.kind \in {"unbounded", "included", "excluded"}
  <2>1. CASE b \in {[kind |-> "unbounded", key |-> 0]}
    BY <2>1
  <2>2. CASE b \in [kind : {"included", "excluded"}, key : Keys]
    BY <2>2, KeysAreOrdered
  <2> QED
    BY <2>1, <2>2 DEF Bounds
<1> DEFINE n == b.key
<1>2. /\ b.kind = "unbounded" => \A k : Above(k, b) /\ Below(k, b)
      /\ b.kind = "included" => \A k : Above(k, b) = (k >= n) /\ Below(k, b) = (k <= n)
      /\ b.kind = "excluded" => \A k : Above(k, b) = (k > n) /\ Below(k, b) = (k < n)
  BY DEF Above, Below
<1>3. n \in Nat
  BY <1>1
<1> HIDE DEF n
<1>4. ASSUME NEW k \in Nat, NEW l \in Nat, k < l
      PROVE  (Above(k, b) => Above(l, b)) /\ (Below(l, b) => Below(k, b))
  <2>1. CASE b.kind = "unbounded"
    BY <1>2, <2>1
  <2>2. CASE b.kind = "included"
    <3>1. (k >= n => l >= n) /\ (l <= n => k <= n)
      BY <1>3, <1>4
    <3> QED
      BY <1>2, <2>2, <3>1
  <2>3. CASE b.kind = "excluded"
    <3>1. (k > n => l > n) /\ (l < n => k < n)
      BY <1>3, <1>4
    <3> QED
      BY <1>2, <2>3, <3>1
  <2> QED
    BY <1>1, <2>1, <2>2, <2>3
<1> QED
  BY <1>1, <1>4

(* No key is in the bounds of a range that is empty by its bounds.         *)
LEMMA DegenerateFact ==
  ASSUME NEW q \in Queries, IsDegenerate(q), NEW k \in Keys
  PROVE  ~InBounds(k, q)
<1>1. q.start \in Bounds /\ q.end \in Bounds /\ k \in Nat
  BY KeysAreOrdered DEF Queries
<1>2. /\ q.start.key \in Nat /\ q.start.kind \in {"unbounded", "included", "excluded"}
      /\ q.end.key \in Nat /\ q.end.kind \in {"unbounded", "included", "excluded"}
  BY <1>1, BoundFact
<1>3. q.start.kind # "unbounded" /\ q.end.kind # "unbounded"
  BY DEF IsDegenerate
<1>4. CASE q.start.kind = "included" /\ q.end.kind = "included"
  <2>1. q.start.key > q.end.key
    BY <1>4 DEF IsDegenerate
  <2>2. Above(k, q.start) => k >= q.start.key
    BY <1>4 DEF Above
  <2>3. Below(k, q.end) => k <= q.end.key
    BY <1>4 DEF Below
  <2>4. ~(k >= q.start.key /\ k <= q.end.key)
    BY <1>1, <1>2, <2>1
  <2> QED
    BY <2>2, <2>3, <2>4 DEF InBounds
<1>5. CASE ~(q.start.kind = "included" /\ q.end.kind = "included")
  <2>1. q.start.key >= q.end.key
    BY <1>5 DEF IsDegenerate
  <2>2. Above(k, q.start) => IF q.start.kind = "included" THEN k >= q.start.key ELSE k > q.start.key
    BY <1>2, <1>3 DEF Above
  <2>3. Below(k, q.end) => IF q.end.kind = "included" THEN k <= q.end.key ELSE k < q.end.key
    BY <1>2, <1>3 DEF Below
  <2> QED
    BY <1>1, <1>2, <1>5, <2>1, <2>2, <2>3 DEF InBounds
<1> QED
  BY <1>4, <1>5

(* The range that is left after a page: what comes after its last key.     *)
LEMMA ResumeFact ==
  ASSUME TypeOK, NEW last \in Keys, InBounds(last, range)
  PROVE  /\ Resume(last) \in Queries
         /\ \A k \in Keys : InBounds(k, Resume(last)) <=> InBounds(k, range) /\ Before(last, k)
<1> DEFINE b == [kind |-> "excluded", key |-> last]
<1>1. range \in Queries /\ query \in Queries
  BY DEF TypeOK
<1>2. range.start \in Bounds /\ range.end \in Bounds /\ query.reverse \in BOOLEAN
  BY <1>1 DEF Queries
<1>3. b \in Bounds
  BY DEF Bounds
<1>4. Resume(last) \in Queries
  BY <1>1, <1>3 DEF Resume, Queries
<1>6. ASSUME NEW k \in Keys
      PROVE  InBounds(k, Resume(last)) <=> InBounds(k, range) /\ Before(last, k)
  <2>1. k \in Nat /\ last \in Nat
    BY KeysAreOrdered
  <2>2. Above(k, b) = (k > last) /\ Below(k, b) = (k < last)
    BY DEF Above, Below
  <2>3. CASE query.reverse
    <3>1. Resume(last).start = range.start /\ Resume(last).end = b
      BY <1>1, <2>3 DEF Resume, Queries
    <3>2. InBounds(k, Resume(last)) = (Above(k, range.start) /\ k < last)
      BY <2>2, <3>1 DEF InBounds
    <3>3. k < last => Below(k, range.end)
      <4>1. Below(last, range.end)
        BY DEF InBounds
      <4> QED
        BY <1>2, <2>1, <4>1, BoundFact
    <3>4. Before(last, k) = (last > k)
      BY <2>3 DEF Before, Precedes
    <3> QED
      BY <2>1, <3>2, <3>3, <3>4 DEF InBounds
  <2>4. CASE ~query.reverse
    <3>1. Resume(last).start = b /\ Resume(last).end = range.end
      BY <1>1, <2>4 DEF Resume, Queries
    <3>2. InBounds(k, Resume(last)) = (k > last /\ Below(k, range.end))
      BY <2>2, <3>1 DEF InBounds
    <3>3. k > last => Above(k, range.start)
      <4>1. Above(last, range.start)
        BY DEF InBounds
      <4> QED
        BY <1>2, <2>1, <4>1, BoundFact
    <3>4. Before(last, k) = (last < k)
      BY <2>4 DEF Before, Precedes
    <3> QED
      BY <2>1, <3>2, <3>3, <3>4 DEF InBounds
  <2> QED
    BY <2>3, <2>4
<1> QED
  BY <1>4, <1>6

(* What is found is finite, as it is one entry per key; and as many as     *)
(* there are keys are all of them.                                         *)
LEMMA FoundFact ==
  ASSUME NEW F, F \subseteq Entries, OnePerKey(F)
  PROVE  /\ IsFiniteSet(F) /\ Cardinality(F) \in Nat /\ Cardinality(F) <= Cardinality(Keys)
         /\ Cardinality({e.key : e \in F}) = Cardinality(F)
         /\ Cardinality(Keys) <= Cardinality(F) => \A k \in Keys : \E e \in F : e.key = k
<1> DEFINE T == {e.key : e \in F}
           f == [e \in F |-> e.key]
<1>1. T \subseteq Keys
  BY DEF Entries
<1>2. IsFiniteSet(T) /\ Cardinality(T) <= Cardinality(Keys) /\ (Cardinality(Keys) = Cardinality(T) => Keys = T)
  <2> HIDE DEF T
  <2>1. T \in SUBSET Keys
    BY <1>1
  <2> QED
    BY <2>1, KeysFact, FS_Subset, Zenon
<1>3. f \in Injection(F, T)
  BY DEF Injection, IsInjective, OnePerKey
<1>4. f \in Surjection(F, T)
  BY DEF Surjection
<1>5. \A k \in T : \E e \in F : e.key = k
  OBVIOUS
<1> HIDE DEF T, f
<1>6. IsFiniteSet(F) /\ (Cardinality(F) = Cardinality(T) <=> f \in Surjection(F, T))
  BY <1>2, <1>3, FS_Injection, Zenon
<1>7. Cardinality(F) = Cardinality(T)
  BY <1>4, <1>6
<1>8. Cardinality(F) \in Nat
  BY <1>6, FS_CardinalityType
<1>9. Cardinality(Keys) <= Cardinality(F) => Keys = T
  <2> HAVE Cardinality(Keys) <= Cardinality(F)
  <2>1. Cardinality(Keys) = Cardinality(T)
    BY <1>2, <1>7, <1>8, KeysFact
  <2> QED
    BY <1>2, <2>1
<1> QED
  BY <1>2, <1>5, <1>6, <1>7, <1>8, <1>9 DEF T

-----------------------------------------------------------------------------
(* The pages of the walk.                                                  *)

(* The types, one by one, for the steps that need a few of them.           *)
LEMMA TypesFact ==
  ASSUME TypeOK
  PROVE  /\ staged \in Seq(Pending) /\ drained \in Seq(Pending)
         /\ tx \in Seq(Pending) /\ snapshot \in Seq(Pending)
         /\ query \in Queries /\ range \in Queries
         /\ query.reverse \in BOOLEAN /\ query.limit \in Nat
         /\ Cap \in Nat
         /\ \A k \in Keys : Copied(k) \in Vals \cup {Gone, Kept}
<1>1. /\ staged \in Seq(Pending) /\ drained \in Seq(Pending)
      /\ tx \in Seq(Pending) /\ snapshot \in Seq(Pending)
      /\ query \in Queries /\ range \in Queries
  BY DEF TypeOK
<1>2. query.reverse \in BOOLEAN /\ query.limit \in Nat
  BY <1>1 DEF Queries
<1>3. Cap \in Nat
  BY <1>2, KeysFact DEF Cap
<1>4. EffectOf(snapshot) \in Effects
  BY <1>1, EffectAt
<1>5. \A k \in Keys : Copied(k) \in Vals \cup {Gone, Kept}
  BY <1>4 DEF Copied, Effects
<1> QED
  BY <1>1, <1>2, <1>3, <1>5

(* The keys that the next page is taken from.                              *)
LEMMA InRangeFact ==
  ASSUME TypeOK, WalkInv, pc = "walking"
  PROVE  /\ InRange = {k \in Keys : records[k] # Gone /\ InBounds(k, range)}
         /\ IsFiniteSet(InRange) /\ InRange \subseteq Nat /\ InRange \subseteq Keys
<1>1. query \in Queries
  BY TypesFact
<1>2. \A k \in Keys : InBounds(k, range) => InBounds(k, query)
  BY DEF WalkInv
<1>3. IsDegenerate(query) => \A k \in Keys : ~InBounds(k, range)
  BY <1>1, <1>2, DegenerateFact
<1>4. InRange = {k \in Keys : records[k] # Gone /\ InBounds(k, range)}
  BY <1>3 DEF InRange
<1>5. InRange \in SUBSET Keys
  BY <1>4
<1>6. IsFiniteSet(InRange)
  BY <1>5, KeysFact, FS_Subset
<1> QED
  BY <1>4, <1>5, <1>6, KeysFact

(* The next page: keys of the range in order, the first ones, up to its    *)
(* size.                                                                   *)
LEMMA NextPageFact ==
  ASSUME TypeOK, WalkInv, pc = "walking"
  PROVE  /\ NextPage \in Seq(InRange) /\ Len(NextPage) \in Nat /\ Len(NextPage) <= Page
         /\ DOMAIN NextPage = 1 .. Len(NextPage)
         /\ Sorted(NextPage, query.reverse)
         /\ \A i \in 1 .. Len(NextPage) : NextPage[i] \in InRange
         /\ \A k \in InRange : \/ \E i \in 1 .. Len(NextPage) : NextPage[i] = k
                               \/ /\ Len(NextPage) = Page /\ Page < Cardinality(InRange)
                                  /\ \A i \in 1 .. Len(NextPage) : Before(NextPage[i], k)
<1>1. IsFiniteSet(InRange) /\ InRange \subseteq Nat
  BY InRangeFact
<1>2. query.reverse \in BOOLEAN /\ Page \in Nat
  BY TypesFact, ListingAssumption
<1> DEFINE p == FirstOf(InOrder(InRange, query.reverse), Page)
<1>3. /\ p \in Seq(InRange) /\ Len(p) \in Nat /\ Len(p) <= Page /\ DOMAIN p = 1 .. Len(p)
      /\ Sorted(p, query.reverse)
      /\ \A k \in InRange : \/ \E i \in 1 .. Len(p) : p[i] = k
                            \/ /\ Len(p) = Page /\ Page < Cardinality(InRange)
                               /\ \A i \in 1 .. Len(p) : Precedes(p[i], k, query.reverse)
  <2>1. IsPage(p, InRange, Page, query.reverse)
    BY <1>1, <1>2, PageFact
  <2> HIDE DEF p
  <2> QED
    BY <2>1 DEF IsPage
<1>4. NextPage = p
  BY DEF NextPage
<1> HIDE DEF p
<1>5. \A i \in 1 .. Len(p) : p[i] \in InRange
  BY <1>3
<1> QED
  BY <1>3, <1>4, <1>5, Zenon DEF Before

(* What collect keeps of a page: values of its keys, one entry for each;   *)
(* and where it leaves a key out it has its fill.                          *)
LEMMA KeepFact ==
  ASSUME TypeOK, WalkInv, pc = "walking"
  PROVE  LET K == Keep(NextPage) IN
         /\ K \subseteq Entries
         /\ \A e \in K : e.key \in InRange /\ e.val = records[e.key]
         /\ \A e \in K : \E i \in 1 .. Len(NextPage) : NextPage[i] = e.key
         /\ found \cup K \subseteq Entries /\ OnePerKey(found \cup K)
         /\ Cap <= Cardinality(found) => K = {}
         /\ \A i \in 1 .. Len(NextPage) :
              \/ \E e \in K : e.key = NextPage[i]
              \/ /\ Cap <= Cardinality(found \cup K)
                 /\ \A e \in K : Before(e.key, NextPage[i])
<1> DEFINE P == NextPage
           c == IF Cap > Cardinality(found) THEN Cap - Cardinality(found) ELSE 0
           kept == FirstOf(P, c)
           n == Len(kept)
           entry(i) == [key |-> kept[i], val |-> records[kept[i]]]
           K == {entry(i) : i \in 1 .. n}
<1>1. /\ P \in Seq(InRange) /\ Len(P) \in Nat /\ DOMAIN P = 1 .. Len(P)
      /\ Sorted(P, query.reverse)
  BY NextPageFact
<1>2. found \subseteq Entries /\ OnePerKey(found) /\ \A e \in found : Passed(e.key)
  BY DEF TypeOK, WalkInv
<1>3. IsFiniteSet(found) /\ Cardinality(found) \in Nat
  BY <1>2, FoundFact
<1>4. c \in Nat
  BY <1>3, TypesFact
<1>5. InRange = {k \in Keys : records[k] # Gone /\ InBounds(k, range)} /\ InRange \subseteq Nat
  BY InRangeFact
<1> HIDE DEF P
<1>6. /\ kept \in Seq(InRange) /\ n \in Nat /\ DOMAIN kept = 1 .. n
      /\ n = IF c < Len(P) THEN c ELSE Len(P)
      /\ \A i \in 1 .. n : i \in 1 .. Len(P) /\ kept[i] = P[i] /\ kept[i] \in InRange
  <2> HIDE DEF c
  <2> QED
    BY <1>1, <1>4, FirstOfFact
<1>b. n \in Nat /\ Len(P) \in Nat /\ n = IF c < Len(P) THEN c ELSE Len(P)
  BY <1>1, <1>6, Zenon
<1>7. Keep(NextPage) = K
  <2>1. Keep(P) = {[key |-> kept[i], val |-> records[kept[i]]] : i \in DOMAIN kept}
    BY DEF Keep
  <2> HIDE DEF kept, n
  <2> QED
    BY <1>6, <2>1 DEF P
<1> HIDE DEF kept, n, c
<1>8. \A i \in 1 .. n : entry(i) \in Entries /\ entry(i).key = P[i] /\ entry(i).val = records[P[i]]
                        /\ P[i] \in InRange
  <2> TAKE i \in 1 .. n
  <2>1. kept[i] = P[i] /\ P[i] \in InRange
    BY <1>6
  <2>2. P[i] \in Keys /\ records[P[i]] # Gone
    BY <1>5, <2>1
  <2>3. records[P[i]] \in Vals
    BY <2>2 DEF TypeOK, Contents
  <2> QED
    BY <2>1, <2>2, <2>3 DEF Entries
<1>9. \A i, j \in 1 .. n : i < j => Before(P[i], P[j])
  BY <1>1, <1>6 DEF Sorted, Before
<1>10. \A i, j \in 1 .. n : P[i] = P[j] => i = j
  <2> SUFFICES ASSUME NEW i \in 1 .. n, NEW j \in 1 .. n, P[i] = P[j], i # j PROVE FALSE
    OBVIOUS
  <2>1. P[i] \in Nat /\ P[j] \in Nat
    BY <1>5, <1>8
  <2>2. i < j \/ j < i
    BY <1>6
  <2>3. Before(P[i], P[j]) \/ Before(P[j], P[i])
    BY <1>9, <2>2
  <2> QED
    BY <2>1, <2>3 DEF Before, Precedes
<1>11. K \subseteq Entries /\ \A e \in K : e.key \in InRange /\ e.val = records[e.key]
  BY <1>8
<1>19. \A e \in K : \E i \in 1 .. Len(P) : P[i] = e.key
  <2> TAKE e \in K
  <2>1. PICK i \in 1 .. n : e = entry(i)
    OBVIOUS
  <2>2. i \in 1 .. Len(P) /\ P[i] = e.key
    BY <1>6, <1>8, <2>1
  <2> QED
    BY <2>2
<1>12. OnePerKey(K)
  BY <1>8, <1>10 DEF OnePerKey
<1>13. \A e \in found, f \in K : e.key # f.key
  <2> TAKE e \in found, f \in K
  <2>1. ~InBounds(e.key, range)
    BY <1>2 DEF Passed
  <2>2. InBounds(f.key, range)
    BY <1>5, <1>11
  <2> QED
    BY <2>1, <2>2
<1>14. OnePerKey(found \cup K) /\ found \cup K \subseteq Entries
  <2>1. found \cup K \subseteq Entries
    BY <1>2, <1>11
  <2> HIDE DEF K
  <2>2. OnePerKey(found \cup K)
    BY <1>2, <1>12, <1>13 DEF OnePerKey
  <2> QED
    BY <2>1, <2>2
<1>15. IsFiniteSet(K) /\ Cardinality(K) = n
  <2> DEFINE g == [i \in 1 .. n |-> entry(i)]
  <2>1. g \in Injection(1 .. n, K)
    <3>1. \A i, j \in 1 .. n : entry(i) = entry(j) => i = j
      BY <1>8, <1>10
    <3> HIDE DEF entry
    <3> QED
      BY <3>1 DEF Injection, IsInjective
  <2>2. g \in Surjection(1 .. n, K)
    <3> HIDE DEF entry
    <3> QED
      BY DEF Surjection
  <2>3. IsFiniteSet(1 .. n) /\ Cardinality(1 .. n) = n
    BY <1>6, FS_Interval
  <2> HIDE DEF K, g
  <2>4. IsFiniteSet(K) /\ (Cardinality(K) = Cardinality(1 .. n) <=> g \in Injection(1 .. n, K))
    BY <2>2, <2>3, FS_Surjection, Zenon
  <2> QED
    BY <2>1, <2>3, <2>4
<1>16. Cardinality(found \cup K) = Cardinality(found) + n
  <2>1. found \cap K = {}
    BY <1>13
  <2> HIDE DEF K
  <2>2. Cardinality(found \cup K) = Cardinality(found) + Cardinality(K) - Cardinality(found \cap K)
    BY <1>3, <1>15, FS_Union
  <2>3. Cardinality(found \cap K) = 0
    BY <2>1, FS_EmptySet
  <2> QED
    BY <1>3, <1>6, <1>15, <2>2, <2>3
<1>17. Cap <= Cardinality(found) => K = {}
  <2> HAVE Cap <= Cardinality(found)
  <2>1. c = 0
    BY <1>3, TypesFact DEF c
  <2>2. n = 0
    BY <1>b, <2>1
  <2>3. 1 .. n = {}
    BY <2>2
  <2> QED
    BY <2>3
<1>18. ASSUME NEW i \in 1 .. Len(P)
       PROVE  \/ \E e \in K : e.key = P[i]
              \/ /\ Cap <= Cardinality(found \cup K)
                 /\ \A e \in K : Before(e.key, P[i])
  <2>1. CASE i \in 1 .. n
    <3>1. entry(i) \in K /\ entry(i).key = P[i]
      BY <1>8, <2>1
    <3> QED
      BY <3>1
  <2>2. CASE i \notin 1 .. n
    <3>1. i > n /\ n = c
      BY <1>b, <1>4, <2>2
    <3>2. Cap <= Cardinality(found) + n
      BY <1>3, <3>1, TypesFact DEF c
    <3>3. \A j \in 1 .. n : Before(P[j], P[i])
      <4> TAKE j \in 1 .. n
      <4>1. j < i /\ j \in 1 .. Len(P)
        BY <1>6, <3>1
      <4> QED
        BY <1>1, <4>1 DEF Sorted, Before
    <3>4. \A e \in K : Before(e.key, P[i])
      <4> TAKE e \in K
      <4>1. PICK j \in 1 .. n : e = entry(j)
        OBVIOUS
      <4>2. e.key = P[j]
        BY <1>8, <4>1
      <4> QED
        BY <3>3, <4>2
    <3> HIDE DEF K
    <3> QED
      BY <1>16, <3>2, <3>4
  <2> QED
    BY <2>1, <2>2
<1> HIDE DEF K
<1> QED
  BY <1>7, <1>11, <1>14, <1>17, <1>18, <1>19 DEF P

(* A key that was never absent and that the walk gets past with this page  *)
(* is shown.                                                               *)
LEMMA ShownStays ==
  ASSUME TypeOK, WalkInv, HistoryInv, pc = "walking", clean,
         NEW k \in Keys, Copied(k) = Kept, Gone \notin held[k],
         Passed(k) \/ \E i \in 1 .. Len(NextPage) : NextPage[i] = k
  PROVE  Shown(found \cup Keep(NextPage), k)
<1> DEFINE K == Keep(NextPage)
<1>1. /\ Cap <= Cardinality(found) => K = {}
      /\ \A i \in 1 .. Len(NextPage) :
           \/ \E e \in K : e.key = NextPage[i]
           \/ /\ Cap <= Cardinality(found \cup K)
              /\ \A e \in K : Before(e.key, NextPage[i])
  BY KeepFact
<1> HIDE DEF K
<1>2. CASE Passed(k)
  <2>1. Shown(found, k)
    BY <1>2 DEF HistoryInv
  <2>2. CASE \E e \in found : e.key = k
    BY <2>2 DEF Shown, K
  <2>3. CASE Cap <= Cardinality(found) /\ \A e \in found : Before(e.key, k)
    <3>1. found \cup K = found
      BY <1>1, <2>3
    <3> QED
      BY <2>1, <3>1 DEF K
  <2> QED
    BY <2>1, <2>2, <2>3 DEF Shown
<1>3. CASE \E i \in 1 .. Len(NextPage) : NextPage[i] = k
  <2>1. PICK i \in 1 .. Len(NextPage) : NextPage[i] = k
    BY <1>3
  <2>2. CASE \E e \in K : e.key = k
    BY <2>2 DEF Shown, K
  <2>3. CASE Cap <= Cardinality(found \cup K) /\ \A e \in K : Before(e.key, k)
    <3>1. k \in InRange
      BY <2>1, NextPageFact
    <3>2. InBounds(k, range)
      BY <3>1, InRangeFact
    <3>3. \A e \in found : Passed(e.key) /\ e.key \in Keys
      BY DEF WalkInv, TypeOK, Entries
    <3>4. \A e \in found : Before(e.key, k)
      BY <3>2, <3>3 DEF WalkInv
    <3> QED
      BY <2>3, <3>4 DEF Shown, K
  <2> QED
    BY <1>1, <2>1, <2>2, <2>3
<1> QED
  BY <1>2, <1>3

(* The listing that is laid over the walk: the copy where it speaks, what  *)
(* was found where it does not.                                            *)
LEMMA OverlayFact ==
  ASSUME NEW q \in Seq(Pending), NEW F, NEW Q
  PROVE  Overlay(F, q, Q) = {e \in Entries :
           IF EffectOf(q)[e.key] # Kept
           THEN EffectOf(q)[e.key] = e.val /\ InBounds(e.key, Q) ELSE e \in F}
<1> DEFINE tail == TailAfter(q)
           over(e) == IF LastOf(tail, e.key) # 0
                      THEN tail[LastOf(tail, e.key)].val = e.val /\ InBounds(e.key, Q)
                      ELSE ~HasClear(q) /\ e \in F
<1>1. Overlay(F, q, Q) = {e \in Entries : over(e)}
  BY DEF Overlay, Entries
<1>2. ASSUME NEW e \in Entries
      PROVE  over(e) <=> IF EffectOf(q)[e.key] # Kept
                         THEN EffectOf(q)[e.key] = e.val /\ InBounds(e.key, Q) ELSE e \in F
  <2>1. e.key \in Keys /\ e.val # Gone /\ Gone # Kept
    BY BatchAssumption DEF Entries
  <2>2. /\ LastOf(tail, e.key) # 0 => /\ tail[LastOf(tail, e.key)].val = EffectOf(q)[e.key]
                                      /\ EffectOf(q)[e.key] # Kept
        /\ LastOf(tail, e.key) = 0 => EffectOf(q)[e.key] = IF HasClear(q) THEN Gone ELSE Kept
    BY <2>1, TailSays
  <2> HIDE DEF tail
  <2> QED
    BY <2>1, <2>2
<1> HIDE DEF over
<1> QED
  BY <1>1, <1>2

(* What the last page returns: the first entries in order, and when one is *)
(* left out, the limit is reached with keys before it.                     *)
LEMMA ListedFact ==
  ASSUME TypeOK, NEW X, X \subseteq Entries
  PROVE  LET S == {e.key : e \in X}
             keys == FirstOf(InOrder(S, query.reverse), query.limit)
             L == [i \in DOMAIN keys |-> CHOOSE e \in X : e.key = keys[i]] IN
         /\ L \in Seq(Entries) /\ Len(L) \in Nat /\ Len(L) <= query.limit
         /\ DOMAIN L = 1 .. Len(L)
         /\ \A i \in DOMAIN L : L[i] \in X
         /\ \A i, j \in DOMAIN L : i < j => Before(L[i].key, L[j].key)
         /\ query.limit <= Cardinality(S) => Len(L) = query.limit
         /\ \A k \in S : \/ \E i \in DOMAIN L : L[i].key = k
                         \/ Len(L) = query.limit /\ \A i \in DOMAIN L : Before(L[i].key, k)
<1> DEFINE S == {e.key : e \in X}
           keys == FirstOf(InOrder(S, query.reverse), query.limit)
           L == [i \in DOMAIN keys |-> CHOOSE e \in X : e.key = keys[i]]
<1>1. S \subseteq Keys
  BY DEF Entries
<1>2. \A k \in S : \E e \in X : e.key = k
  OBVIOUS
<1> HIDE DEF S
<1>3. IsFiniteSet(S) /\ S \subseteq Nat /\ Cardinality(S) \in Nat
  <2>1. S \in SUBSET Keys
    BY <1>1
  <2>2. IsFiniteSet(S)
    BY <2>1, KeysFact, FS_Subset, Zenon
  <2> QED
    BY <2>1, <2>2, KeysFact, FS_CardinalityType
<1>4. query.reverse \in BOOLEAN /\ query.limit \in Nat
  BY TypesFact
<1>5. /\ keys \in Seq(S) /\ Len(keys) \in Nat /\ Len(keys) <= query.limit
      /\ DOMAIN keys = 1 .. Len(keys)
      /\ Len(keys) = IF query.limit < Cardinality(S) THEN query.limit ELSE Cardinality(S)
      /\ Sorted(keys, query.reverse)
      /\ \A k \in S : \/ \E i \in 1 .. Len(keys) : keys[i] = k
                      \/ /\ Len(keys) = query.limit /\ query.limit < Cardinality(S)
                         /\ \A i \in 1 .. Len(keys) : Precedes(keys[i], k, query.reverse)
  <2>1. IsPage(keys, S, query.limit, query.reverse)
    BY <1>3, <1>4, PageFact
  <2> HIDE DEF keys
  <2> QED
    BY <2>1 DEF IsPage
<1> HIDE DEF keys
<1>6. \A i \in 1 .. Len(keys) : keys[i] \in S
  BY <1>5
<1>7. \A i \in 1 .. Len(keys) : L[i] \in X /\ L[i].key = keys[i]
  <2> TAKE i \in 1 .. Len(keys)
  <2>1. L[i] = CHOOSE e \in X : e.key = keys[i]
    BY <1>5
  <2>2. \E e \in X : e.key = keys[i]
    BY <1>2, <1>6
  <2> QED
    BY <2>1, <2>2
<1>8. DOMAIN L = 1 .. Len(keys)
  BY <1>5
<1>9. L \in Seq(Entries) /\ Len(L) = Len(keys)
  <2>1. L = [i \in 1 .. Len(keys) |-> L[i]]
    BY <1>5
  <2>2. \A i \in 1 .. Len(keys) : L[i] \in Entries
    BY <1>7
  <2> HIDE DEF L
  <2>3. L \in [1 .. Len(keys) -> Entries]
    BY <1>8, <2>1, <2>2
  <2> QED
    BY <1>5, <2>3
<1> HIDE DEF L
<1>10. query.limit <= Cardinality(S) => Len(keys) = query.limit
  <2>1. Len(keys) = IF query.limit < Cardinality(S) THEN query.limit ELSE Cardinality(S)
    BY <1>5
  <2> QED
    BY <1>3, <1>4, <2>1
<1>11. \A i, j \in 1 .. Len(keys) : i < j => Before(L[i].key, L[j].key)
  <2>1. ASSUME NEW i \in 1 .. Len(keys), NEW j \in 1 .. Len(keys), i < j
        PROVE  Before(L[i].key, L[j].key)
    <3>1. Precedes(keys[i], keys[j], query.reverse)
      BY <1>5, <2>1 DEF Sorted
    <3>2. L[i].key = keys[i] /\ L[j].key = keys[j]
      BY <1>7
    <3> QED
      BY <3>1, <3>2 DEF Before
  <2> QED
    BY <2>1
<1>12. \A k \in S : \/ \E i \in 1 .. Len(keys) : L[i].key = k
                    \/ Len(keys) = query.limit /\ \A i \in 1 .. Len(keys) : Before(L[i].key, k)
  BY <1>5, <1>7 DEF Before
<1>13. Len(keys) \in Nat /\ Len(keys) <= query.limit
  BY <1>5
<1> QED
  BY <1>7, <1>8, <1>9, <1>10, <1>11, <1>12, <1>13 DEF L, keys, S

-----------------------------------------------------------------------------
(* The actions.                                                            *)

(* What a view is.                                                         *)
LEMMA ViewFact ==
  ASSUME TypeOK
  PROVE  /\ View \in Contents
         /\ drained = <<>> => \A k \in Keys : View[k] = IF EffectOf(staged)[k] = Kept THEN records[k]
                                                        ELSE EffectOf(staged)[k]
<1>1. /\ records \in Contents /\ EffectOf(drained) \in Effects /\ EffectOf(staged) \in Effects
  BY TypesFact, EffectAt DEF TypeOK
<1>2. View \in Contents
  BY <1>1 DEF View, Then, Contents, Effects
<1>3. ASSUME drained = <<>>, NEW k \in Keys
      PROVE  View[k] = IF EffectOf(staged)[k] = Kept THEN records[k] ELSE EffectOf(staged)[k]
  <2>1. EffectOf(drained)[k] = Kept
    BY <1>3, EffectOfNothing DEF NoEffect
  <2> QED
    BY <2>1 DEF View, Then
<1> QED
  BY <1>2, <1>3

(* The histories grow.                                                     *)
LEMMA HeldGrows ==
  ASSUME TypeOK, TypeOK', Track, pc # "idle", pc' # "idle"
  PROVE  \A k \in Keys : held[k] \subseteq held'[k] /\ View'[k] \in held'[k]
BY DEF Track

(* Types, and whose the batches are.                                       *)
LEMMA LaidOver ==
  ASSUME NEW r \in Contents, NEW p \in Seq(Pending), NEW q \in Seq(Pending)
  PROVE  Then(Then(r, EffectOf(p)), EffectOf(q)) \in Contents
BY EffectAt DEF Then, Contents, Effects

(* Land lands the drained batch under the transaction's entries, and is    *)
(* then all there is.                                                      *)
LEMMA LandFact ==
  ASSUME TypeOK, OneBatch, Land
  PROVE  /\ Merged \in Seq(Pending)
         /\ records' \in Contents
         /\ records' = Then(Then(records, EffectOf(drained)), EffectOf(tx))
         /\ View' = records'
<1>1. drained \in Seq(Pending) /\ tx \in Seq(Pending) /\ records \in Contents
  BY TypesFact DEF TypeOK
<1>2. Merged \in Seq(Pending) /\ EffectOf(Merged) = Then(EffectOf(drained), EffectOf(tx))
  BY <1>1, EffectOfConcat DEF Merged
<1>3. records' = Then(records, EffectOf(Merged)) /\ records' \in Contents
  BY <1>1, <1>2, CommittedIsEffect DEF Land
<1>4. Then(records, Then(EffectOf(drained), EffectOf(tx)))
        = Then(Then(records, EffectOf(drained)), EffectOf(tx))
  BY DEF Then
<1>5. staged' = <<>> /\ drained' = <<>>
  BY DEF Land, OneBatch
<1>6. View' = Then(Then(records', EffectOf(<<>>)), EffectOf(<<>>))
  BY <1>5 DEF View
<1>7. EffectOf(<<>>) = [k \in Keys |-> Kept]
  BY EffectOfNothing DEF NoEffect
<1>8. View' = [k \in Keys |-> records'[k]]
  BY <1>6, <1>7 DEF Then
<1>9. records' = [k \in Keys |-> records'[k]]
  BY <1>3 DEF Contents
<1> QED
  BY <1>2, <1>3, <1>4, <1>8, <1>9

LEMMA EmptyTyped == <<>> \in Seq(Pending) /\ <<>> \in Seq(Entries)
OBVIOUS

(* The query of an idle listing is one.                                    *)
LEMMA QueryTyped == AnyQuery \in Queries
<1>1. [kind |-> "unbounded", key |-> 0] \in Bounds
  BY DEF Bounds
<1> QED
  BY <1>1, KeysFact DEF AnyQuery, Queries

(* The writers' half of the types.                                         *)
WriterTypes == /\ records \in Contents
               /\ staged \in Seq(Pending) /\ drained \in Seq(Pending) /\ tx \in Seq(Pending)
               /\ lock \in {"free", "closure", "commit"}
               /\ writes \in 0 .. MaxWrites
ListerTypes == /\ snapshot \in Seq(Pending)
               /\ pc \in {"idle", "walking", "done"}
               /\ query \in Queries /\ range \in Queries
               /\ found \subseteq Entries /\ listed \in Seq(Entries)
               /\ clean \in BOOLEAN
LEMMA TypeParts ==
  TypeOK <=> WriterTypes /\ ListerTypes /\ held \in [Keys -> SUBSET (Vals \cup {Gone})]
BY DEF TypeOK, WriterTypes, ListerTypes

(* A step of a writer.                                                     *)
Writes == \/ \E m \in Pending : Stage(m) \/ TxPush(m)
          \/ Flush \/ TxBegin \/ TxRollback \/ TxCommit \/ Land \/ Fail

(* It keeps the types of its half, and changes the records only to what    *)
(* the locker holds after it.                                              *)
LEMMA WriterStep ==
  ASSUME TypeOK, OneBatch, Writes
  PROVE  /\ WriterTypes' /\ OneBatch' /\ UNCHANGED lister
         /\ records' = records \/ records' = View'
<1>1. WriterTypes
  BY TypeParts
<1>2. MaxWrites \in Nat
  BY ListingAssumption
<1>3. ASSUME NEW m \in Pending, Stage(m)
      PROVE  /\ WriterTypes' /\ OneBatch' /\ UNCHANGED lister /\ records' = records
  <2>1. Append(staged, m) \in Seq(Pending)
    BY <1>1 DEF WriterTypes
  <2>2. writes + 1 \in 0 .. MaxWrites
    BY <1>1, <1>2, <1>3 DEF WriterTypes, Stage
  <2> QED
    BY <1>1, <1>3, <2>1, <2>2 DEF WriterTypes, Stage, OneBatch
<1>4. ASSUME NEW m \in Pending, TxPush(m)
      PROVE  /\ WriterTypes' /\ OneBatch' /\ UNCHANGED lister /\ records' = records
  <2>1. Append(tx, m) \in Seq(Pending)
    BY <1>1 DEF WriterTypes
  <2>2. writes + 1 \in 0 .. MaxWrites
    BY <1>1, <1>2, <1>4 DEF WriterTypes, TxPush
  <2> QED
    BY <1>1, <1>4, <2>1, <2>2 DEF WriterTypes, TxPush, OneBatch
<1>5. ASSUME Flush \/ TxBegin \/ TxRollback \/ TxCommit
      PROVE  /\ WriterTypes' /\ OneBatch' /\ UNCHANGED lister /\ records' = records
  BY <1>1, <1>5, EmptyTyped DEF WriterTypes, OneBatch, Flush, TxBegin, TxRollback, TxCommit
<1>6. ASSUME Land
      PROVE  /\ WriterTypes' /\ OneBatch' /\ UNCHANGED lister /\ records' = View'
  <2>1. records' \in Contents /\ records' = View'
    BY <1>6, LandFact
  <2> QED
    BY <1>1, <1>6, <2>1, EmptyTyped DEF WriterTypes, OneBatch, Land
<1>7. ASSUME Fail
      PROVE  /\ WriterTypes' /\ OneBatch' /\ UNCHANGED lister /\ records' = records
  <2>1. drained \o staged \in Seq(Pending)
    BY <1>1 DEF WriterTypes
  <2> QED
    BY <1>1, <1>7, <2>1, EmptyTyped DEF WriterTypes, OneBatch, Fail
<1> QED
  BY <1>3, <1>4, <1>5, <1>6, <1>7 DEF Writes

(* Whatever the step, the histories keep their type.                       *)
LEMMA HeldTyped ==
  ASSUME TypeOK, WriterTypes', Track
  PROVE  held' \in [Keys -> SUBSET (Vals \cup {Gone})]
<1>1. View \in Contents
  BY ViewFact
<1>2. Then(Then(records', EffectOf(drained')), EffectOf(staged')) \in Contents
  BY LaidOver DEF WriterTypes
<1>3. View' = Then(Then(records', EffectOf(drained')), EffectOf(staged'))
  BY DEF View
<1>4. \A k \in Keys : View[k] \in Vals \cup {Gone} /\ View'[k] \in Vals \cup {Gone}
  BY <1>1, <1>2, <1>3 DEF Contents
<1>5. held \in [Keys -> SUBSET (Vals \cup {Gone})]
  BY DEF TypeOK
<1> QED
  BY <1>4, <1>5 DEF Track

(* A writer's step leaves the listing as it is, and what it stores the     *)
(* locker holds.                                                           *)
LEMMA WriterKeeps ==
  ASSUME ListInv, Writes, Track
  PROVE  ListInv'
<1>1. /\ WriterTypes' /\ OneBatch' /\ UNCHANGED lister
      /\ records' = records \/ records' = View'
  BY WriterStep DEF ListInv
<1>2. /\ pc' = pc /\ range' = range /\ query' = query /\ snapshot' = snapshot
      /\ found' = found /\ listed' = listed /\ clean' = clean
  BY <1>1 DEF lister
<1>3. TypeOK'
  <2>1. held' \in [Keys -> SUBSET (Vals \cup {Gone})]
    BY <1>1, HeldTyped DEF ListInv
  <2>2. ListerTypes'
    BY <1>2, TypeParts DEF ListInv, ListerTypes
  <2> QED
    BY <1>1, <2>1, <2>2 DEF TypeOK, WriterTypes, ListerTypes
<1>4. pc # "idle" => \A k \in Keys : held[k] \subseteq held'[k] /\ View'[k] \in held'[k]
  BY <1>2, <1>3, HeldGrows DEF ListInv
<1>5. WalkInv'
  BY <1>2 DEF ListInv, WalkInv, Passed, Before, OnePerKey
<1>6. Remembers'
  BY <1>2, <1>4 DEF Remembers
<1>7. HistoryInv'
  <2> SUFFICES ASSUME pc = "walking", clean
      PROVE  /\ \A k \in Keys : Copied(k) # Kept => Copied(k) \in held'[k]
             /\ \A k \in Keys : Copied(k) = Kept => records'[k] \in held'[k]
             /\ \A e \in found : Copied(e.key) = Kept => e.val \in held'[e.key]
             /\ \A k \in Keys : Passed(k) /\ Copied(k) = Kept /\ Gone \notin held'[k]
                                  => Shown(found, k)
    BY <1>2 DEF HistoryInv, Copied, Passed, Shown, Before, Cap
  <2>1. \A k \in Keys : held[k] \subseteq held'[k] /\ View'[k] \in held'[k]
    BY <1>4
  <2>2. /\ \A k \in Keys : Copied(k) # Kept => Copied(k) \in held[k]
        /\ \A k \in Keys : Copied(k) = Kept => records[k] \in held[k]
        /\ \A e \in found : Copied(e.key) = Kept => e.val \in held[e.key]
        /\ \A k \in Keys : Passed(k) /\ Copied(k) = Kept /\ Gone \notin held[k] => Shown(found, k)
    BY DEF ListInv, HistoryInv
  <2>3. \A e \in found : e.key \in Keys
    BY DEF ListInv, TypeOK, Entries
  <2>4. \A k \in Keys : Copied(k) = Kept => records'[k] \in held'[k]
    BY <1>1, <2>1, <2>2
  <2> QED
    BY <2>1, <2>2, <2>3, <2>4
<1>8. ListingFaithful'
  <2> SUFFICES ASSUME pc = "done", clean
      PROVE  /\ Len(listed) <= query.limit
             /\ \A i, j \in DOMAIN listed : i < j => Before(listed[i].key, listed[j].key)
             /\ \A i \in DOMAIN listed : /\ InBounds(listed[i].key, query)
                                         /\ listed[i].val \in held'[listed[i].key]
             /\ \A k \in Keys : InBounds(k, query) /\ Reached(k) /\ Gone \notin held'[k]
                  => \E i \in DOMAIN listed : listed[i].key = k
    BY <1>2 DEF ListingFaithful, Reached, Before
  <2>1. \A k \in Keys : held[k] \subseteq held'[k]
    BY <1>4
  <2>2. \A i \in DOMAIN listed : listed[i].key \in Keys
    <3>1. listed \in Seq(Entries)
      BY DEF ListInv, TypeOK
    <3>2. \A i \in DOMAIN listed : listed[i] \in Entries
      BY <3>1
    <3> QED
      BY <3>2 DEF Entries
  <2>3. ListingFaithful
    BY DEF ListInv
  <2> QED
    BY <2>1, <2>2, <2>3 DEF ListingFaithful
<1> QED
  BY <1>1, <1>3, <1>5, <1>6, <1>7, <1>8 DEF ListInv

(* A listing begins with what the locker holds.                            *)
LEMMA BeginKeeps ==
  ASSUME ListInv, NEW q \in Asked, Begin(q), Track
  PROVE  ListInv'
<1>1. /\ pc = "idle" /\ pc' = "walking" /\ query' = q /\ range' = q /\ snapshot' = staged
      /\ found' = {} /\ listed' = listed /\ clean' = (drained = <<>>)
      /\ UNCHANGED writer
  BY DEF Begin
<1>2. /\ records' = records /\ staged' = staged /\ drained' = drained
      /\ lock' = lock /\ tx' = tx /\ writes' = writes
  BY <1>1 DEF writer
<1>3. WriterTypes' /\ OneBatch' /\ View' = View
  <2>1. WriterTypes /\ OneBatch
    BY TypeParts DEF ListInv
  <2> QED
    BY <1>2, <2>1 DEF WriterTypes, OneBatch, View
<1>4. TypeOK'
  <2>1. held' \in [Keys -> SUBSET (Vals \cup {Gone})]
    BY <1>3, HeldTyped DEF ListInv
  <2>2. q \in Queries
    BY ListingAssumption
  <2>3. ListerTypes'
    BY <1>1, <2>2 DEF ListInv, TypeOK, ListerTypes
  <2> QED
    BY <1>3, <2>1, <2>3 DEF TypeOK, WriterTypes, ListerTypes
<1>5. \A k \in Keys : held'[k] = {View[k]}
  BY <1>1 DEF Track
<1>6. WalkInv'
  BY <1>1 DEF WalkInv, Passed, OnePerKey
<1>7. Remembers'
  BY <1>3, <1>5 DEF Remembers
<1>8. HistoryInv'
  <2> SUFFICES ASSUME drained = <<>>
      PROVE  \A k \in Keys : /\ EffectOf(staged)[k] # Kept => EffectOf(staged)[k] \in held'[k]
                             /\ EffectOf(staged)[k] = Kept => records[k] \in held'[k]
    BY <1>1, <1>2 DEF HistoryInv, Copied, Passed
  <2>1. \A k \in Keys : View[k] = IF EffectOf(staged)[k] = Kept THEN records[k]
                                  ELSE EffectOf(staged)[k]
    BY ViewFact DEF ListInv
  <2> QED
    BY <1>5, <2>1
<1>9. ListingFaithful'
  BY <1>1 DEF ListingFaithful
<1> QED
  BY <1>3, <1>4, <1>6, <1>7, <1>8, <1>9 DEF ListInv

(* A full page moves its last key, and all before it, behind.              *)
LEMMA ReadPageKeeps ==
  ASSUME ListInv, ReadPage, Track
  PROVE  ListInv'
<1> DEFINE P == NextPage
           K == Keep(P)
           last == P[Page]
<1>1. /\ pc = "walking" /\ pc' = "walking" /\ Len(P) = Page
      /\ found' = found \cup K /\ range' = Resume(last)
      /\ query' = query /\ snapshot' = snapshot /\ listed' = listed /\ clean' = clean
      /\ UNCHANGED writer
  BY DEF ReadPage
<1>2. /\ records' = records /\ staged' = staged /\ drained' = drained
      /\ lock' = lock /\ tx' = tx /\ writes' = writes
  BY <1>1 DEF writer
<1>3. TypeOK /\ WalkInv
  BY DEF ListInv
<1>4. /\ DOMAIN P = 1 .. Len(P) /\ Sorted(P, query.reverse)
      /\ \A i \in 1 .. Len(P) : P[i] \in InRange
      /\ \A k \in InRange : \/ \E i \in 1 .. Len(P) : P[i] = k
                            \/ \A i \in 1 .. Len(P) : Before(P[i], k)
  BY <1>1, <1>3, NextPageFact
<1>5. /\ K \subseteq Entries
      /\ \A e \in K : e.key \in InRange /\ e.val = records[e.key]
      /\ \A e \in K : \E i \in 1 .. Len(P) : P[i] = e.key
      /\ found \cup K \subseteq Entries /\ OnePerKey(found \cup K)
  BY <1>1, <1>3, KeepFact
<1>6. /\ InRange = {k \in Keys : records[k] # Gone /\ InBounds(k, range)}
      /\ InRange \subseteq Nat
  BY <1>1, <1>3, InRangeFact
<1>7. ASSUME HistoryInv, clean, NEW k \in Keys, Copied(k) = Kept, Gone \notin held[k],
             Passed(k) \/ \E i \in 1 .. Len(P) : P[i] = k
      PROVE  Shown(found \cup K, k)
  BY <1>1, <1>3, <1>7, ShownStays
<1> HIDE DEF P, K
<1>8. Page \in Nat /\ Page \in 1 .. Len(P)
  BY <1>1, ListingAssumption
<1>9. last \in InRange
  BY <1>4, <1>8
<1>10. last \in Keys /\ last \in Nat /\ InBounds(last, range)
  BY <1>6, <1>9
<1>11. /\ Resume(last) \in Queries
       /\ \A k \in Keys : InBounds(k, Resume(last)) <=> InBounds(k, range) /\ Before(last, k)
  BY <1>3, <1>10, ResumeFact
<1>12. \A i \in 1 .. Len(P) : ~Before(last, P[i])
  <2> TAKE i \in 1 .. Len(P)
  <2>1. i \in 1 .. Len(P) /\ (i = Page \/ i < Page) /\ P[i] \in Nat
    BY <1>1, <1>4, <1>6, <1>8
  <2>2. P[i] = last \/ Before(P[i], last)
    BY <1>4, <1>8, <2>1 DEF Sorted, Before
  <2> QED
    BY <1>10, <2>1, <2>2 DEF Before, Precedes
<1> HIDE DEF last
<1>13. /\ \A k \in Keys : InBounds(k, range) => InBounds(k, query)
       /\ \A k, l \in Keys : Passed(k) /\ InBounds(l, range) => Before(k, l)
       /\ \A e \in found : Passed(e.key) /\ e.key \in Keys
  BY <1>1, <1>3 DEF WalkInv, TypeOK, Entries
<1>14. \A k \in Keys : InBounds(k, range') <=> InBounds(k, range) /\ Before(last, k)
  BY <1>1, <1>11
<1>15. \A e \in K : e.key \in Keys /\ InBounds(e.key, range) /\ ~Before(last, e.key)
  <2> TAKE e \in K
  <2>1. e.key \in InRange
    BY <1>5
  <2>2. e.key \in Keys /\ InBounds(e.key, range)
    BY <1>6, <2>1
  <2>3. \E i \in 1 .. Len(P) : P[i] = e.key
    BY <1>5
  <2> QED
    BY <1>12, <2>2, <2>3
<1>16. WriterTypes' /\ OneBatch' /\ TypeOK'
  <2>1. WriterTypes' /\ OneBatch'
    BY <1>2, <1>3, TypeParts DEF ListInv, WriterTypes, OneBatch
  <2>2. held' \in [Keys -> SUBSET (Vals \cup {Gone})]
    BY <1>3, <2>1, HeldTyped
  <2>3. ListerTypes'
    BY <1>1, <1>3, <1>5, <1>11 DEF TypeOK, ListerTypes
  <2> QED
    BY <2>1, <2>2, <2>3 DEF TypeOK, WriterTypes, ListerTypes
<1>17. \A k \in Keys : held[k] \subseteq held'[k] /\ View'[k] \in held'[k]
  BY <1>1, <1>3, <1>16, HeldGrows
<1>18. WalkInv'
  <2>1. ASSUME NEW k \in Keys, NEW l \in Keys, InBounds(k, query), ~InBounds(k, range'),
               InBounds(l, range')
        PROVE  Before(k, l)
    <3>1. InBounds(l, range) /\ Before(last, l)
      BY <1>14, <2>1
    <3>2. CASE ~InBounds(k, range)
      BY <1>13, <2>1, <3>1, <3>2 DEF Passed
    <3>3. CASE InBounds(k, range)
      <4>1. ~Before(last, k)
        BY <1>14, <2>1, <3>3
      <4>2. k \in Nat /\ l \in Nat
        BY KeysFact
      <4> QED
        BY <1>10, <3>1, <4>1, <4>2 DEF Before, Precedes
    <3> QED
      BY <3>2, <3>3
  <2>2. \A e \in found \cup K : InBounds(e.key, query) /\ ~InBounds(e.key, range')
    BY <1>13, <1>14, <1>15 DEF Passed
  <2>3. \A k \in Keys : InBounds(k, range') => InBounds(k, query)
    BY <1>13, <1>14
  <2> QED
    BY <1>1, <1>5, <2>1, <2>2, <2>3 DEF WalkInv, Passed, Before, OnePerKey
<1>19. Remembers'
  BY <1>17 DEF Remembers
<1>20. HistoryInv'
  <2> SUFFICES ASSUME clean
      PROVE  /\ \A k \in Keys : Copied(k) # Kept => Copied(k) \in held'[k]
             /\ \A k \in Keys : Copied(k) = Kept => records[k] \in held'[k]
             /\ \A e \in found \cup K : Copied(e.key) = Kept => e.val \in held'[e.key]
             /\ \A k \in Keys : /\ InBounds(k, query) /\ ~InBounds(k, range')
                                /\ Copied(k) = Kept /\ Gone \notin held'[k]
                                => Shown(found \cup K, k)
    BY <1>1, <1>2 DEF HistoryInv, Copied, Passed, Shown, Before, Cap
  <2>1. HistoryInv
    BY DEF ListInv
  <2>2. /\ \A k \in Keys : Copied(k) # Kept => Copied(k) \in held[k]
        /\ \A k \in Keys : Copied(k) = Kept => records[k] \in held[k]
        /\ \A e \in found : Copied(e.key) = Kept => e.val \in held[e.key]
    BY <1>1, <2>1 DEF HistoryInv
  <2>3. \A e \in found \cup K : Copied(e.key) = Kept => e.val \in held'[e.key]
    BY <1>5, <1>13, <1>15, <1>17, <2>2
  <2>4. ASSUME NEW k \in Keys, InBounds(k, query), ~InBounds(k, range'),
               Copied(k) = Kept, Gone \notin held'[k]
        PROVE  Shown(found \cup K, k)
    <3>1. Gone \notin held[k] /\ records[k] # Gone
      BY <1>17, <2>2, <2>4
    <3>2. CASE ~InBounds(k, range)
      BY <1>7, <2>1, <2>4, <3>1, <3>2 DEF Passed
    <3>3. CASE InBounds(k, range)
      <4>1. k \in InRange /\ ~Before(last, k)
        BY <1>6, <1>14, <2>4, <3>1, <3>3
      <4>2. \E i \in 1 .. Len(P) : P[i] = k
        BY <1>4, <1>8, <4>1 DEF last
      <4> QED
        BY <1>7, <2>1, <2>4, <3>1, <4>2
    <3> QED
      BY <3>2, <3>3
  <2> QED
    BY <1>17, <2>2, <2>3, <2>4
<1>21. ListingFaithful'
  BY <1>1 DEF ListingFaithful
<1> QED
  BY <1>16, <1>18, <1>19, <1>20, <1>21 DEF ListInv

(* The last page has all the keys that are left.                           *)
LEMMA LastPageShows ==
  ASSUME ListInv, pc = "walking", clean,
         Len(NextPage) < Page \/ Cardinality(InRange) = Page,
         NEW k \in Keys, InBounds(k, query), Copied(k) = Kept, Gone \notin held[k]
  PROVE  Shown(found \cup Keep(NextPage), k)
<1>1. TypeOK /\ WalkInv /\ HistoryInv
  BY DEF ListInv
<1>2. CASE ~InBounds(k, range)
  BY <1>1, <1>2, ShownStays DEF Passed
<1>3. CASE InBounds(k, range)
  <2>1. records[k] # Gone
    BY <1>1 DEF HistoryInv
  <2>2. k \in InRange
    BY <1>1, <1>3, <2>1, InRangeFact
  <2>3. ~(Len(NextPage) = Page /\ Page < Cardinality(InRange))
    <3>1. Len(NextPage) \in Nat /\ Page \in Nat
      BY <1>1, NextPageFact, ListingAssumption
    <3> QED
      BY <3>1
  <2>4. \E i \in 1 .. Len(NextPage) : NextPage[i] = k
    BY <1>1, <2>2, <2>3, NextPageFact
  <2> QED
    BY <1>1, <2>4, ShownStays
<1> QED
  BY <1>2, <1>3

(* What the last page returns is faithful.                                 *)
LEMMA ReadLastPageKeeps ==
  ASSUME ListInv, ReadLastPage, Track
  PROVE  ListInv'
<1> DEFINE K == Keep(NextPage)
           F == found \cup K
           X == Overlay(F, snapshot, query)
           S == {e.key : e \in X}
           keys == FirstOf(InOrder(S, query.reverse), query.limit)
           L == [i \in DOMAIN keys |-> CHOOSE e \in X : e.key = keys[i]]
<1>1. /\ pc = "walking" /\ pc' = "done"
      /\ Len(NextPage) < Page \/ Cardinality(InRange) = Page
      /\ listed' = L /\ found' = F
      /\ range' = range /\ query' = query /\ snapshot' = snapshot /\ clean' = clean
      /\ UNCHANGED writer
  BY DEF ReadLastPage
<1>2. /\ records' = records /\ staged' = staged /\ drained' = drained
      /\ lock' = lock /\ tx' = tx /\ writes' = writes
  BY <1>1 DEF writer
<1>3. TypeOK /\ WalkInv
  BY DEF ListInv
<1>4. /\ \A e \in K : e.key \in InRange /\ e.val = records[e.key]
      /\ F \subseteq Entries /\ OnePerKey(F)
  BY <1>1, <1>3, KeepFact
<1> HIDE DEF K
<1>5. snapshot \in Seq(Pending) /\ query.limit \in Nat
  BY <1>3, TypesFact
<1> HIDE DEF F
<1>6. X = {e \in Entries : IF Copied(e.key) # Kept
                           THEN Copied(e.key) = e.val /\ InBounds(e.key, query) ELSE e \in F}
  BY <1>5, OverlayFact DEF Copied
<1> HIDE DEF X
<1>7. X \subseteq Entries
  BY <1>6
<1>8. /\ L \in Seq(Entries) /\ Len(L) \in Nat /\ Len(L) <= query.limit
      /\ DOMAIN L = 1 .. Len(L)
      /\ \A i \in DOMAIN L : L[i] \in X
      /\ \A i, j \in DOMAIN L : i < j => Before(L[i].key, L[j].key)
      /\ query.limit <= Cardinality(S) => Len(L) = query.limit
      /\ \A k \in S : \/ \E i \in DOMAIN L : L[i].key = k
                      \/ Len(L) = query.limit /\ \A i \in DOMAIN L : Before(L[i].key, k)
  BY <1>3, <1>7, ListedFact
<1>9. \A e \in X : e.key \in S
  OBVIOUS
<1>10. \A e \in X : e.key \in Keys
  BY <1>7 DEF Entries
<1> HIDE DEF L, keys, S
<1>11. WriterTypes' /\ OneBatch' /\ TypeOK'
  <2>1. WriterTypes' /\ OneBatch'
    BY <1>2, <1>3, TypeParts DEF ListInv, WriterTypes, OneBatch
  <2>2. held' \in [Keys -> SUBSET (Vals \cup {Gone})]
    BY <1>3, <2>1, HeldTyped
  <2>3. ListerTypes'
    BY <1>1, <1>3, <1>4, <1>8 DEF TypeOK, ListerTypes
  <2> QED
    BY <2>1, <2>2, <2>3 DEF TypeOK, WriterTypes, ListerTypes
<1>12. \A k \in Keys : held[k] \subseteq held'[k] /\ View'[k] \in held'[k]
  BY <1>1, <1>3, <1>11, HeldGrows
<1>13. ASSUME clean
       PROVE  /\ \A e \in X : InBounds(e.key, query) /\ e.val \in held[e.key]
              /\ \A k \in Keys : InBounds(k, query) /\ Gone \notin held[k]
                   => k \in S \/ (query.limit <= Cardinality(S) /\ \A l \in S : Before(l, k))
  <2>1. /\ \A k \in Keys : Copied(k) # Kept => Copied(k) \in held[k]
        /\ \A k \in Keys : Copied(k) = Kept => records[k] \in held[k]
        /\ \A e \in found : Copied(e.key) = Kept => e.val \in held[e.key]
    BY <1>1, <1>13 DEF ListInv, HistoryInv
  <2>2. /\ \A k \in Keys : InBounds(k, range) => InBounds(k, query)
        /\ \A e \in found : Passed(e.key)
    BY <1>1, <1>3 DEF WalkInv
  <2>3. \A k \in InRange : k \in Keys /\ InBounds(k, range)
    BY <1>1, <1>3, InRangeFact
  <2>4. ASSUME NEW e \in X
        PROVE  InBounds(e.key, query) /\ e.val \in held[e.key]
    <3>1. e.key \in Keys
      BY <1>10
    <3>2. CASE Copied(e.key) # Kept
      BY <1>6, <2>1, <3>1, <3>2
    <3>3. CASE Copied(e.key) = Kept
      <4>1. e \in found \/ e \in K
        BY <1>6, <3>3 DEF F
      <4>2. CASE e \in found
        BY <2>1, <2>2, <3>3, <4>2 DEF Passed
      <4>3. CASE e \in K
        <5>1. e.key \in InRange /\ e.val = records[e.key]
          BY <1>4, <4>3
        <5> QED
          BY <2>1, <2>2, <2>3, <3>1, <3>3, <5>1
      <4> QED
        BY <4>1, <4>2, <4>3
    <3> QED
      BY <3>2, <3>3
  <2>5. ASSUME NEW k \in Keys, InBounds(k, query), Gone \notin held[k]
        PROVE  k \in S \/ (query.limit <= Cardinality(S) /\ \A l \in S : Before(l, k))
    <3>1. CASE Copied(k) # Kept
      <4>1. Copied(k) \in Vals
        BY <1>3, <2>1, <2>5, <3>1, TypesFact
      <4> DEFINE e == [key |-> k, val |-> Copied(k)]
      <4>2. e \in Entries /\ e.key = k /\ e.val = Copied(k)
        BY <4>1 DEF Entries
      <4>3. e \in X
        BY <1>6, <2>5, <3>1, <4>2
      <4> HIDE DEF e
      <4> QED
        BY <1>9, <4>2, <4>3
    <3>2. CASE Copied(k) = Kept
      <4>1. Shown(F, k)
        BY <1>1, <1>13, <2>5, <3>2, LastPageShows DEF F, K
      <4>2. ASSUME NEW e \in F, e.key = k PROVE k \in S
        <5>1. e \in X
          BY <1>4, <1>6, <3>2, <4>2
        <5> QED
          BY <1>9, <4>2, <5>1
      <4>3. ASSUME Cap <= Cardinality(F), \A e \in F : Before(e.key, k)
            PROVE  k \in S \/ (query.limit <= Cardinality(S) /\ \A l \in S : Before(l, k))
        <5>1. CASE snapshot = <<>>
          <6>1. \A l \in Keys : Copied(l) = Kept
            BY <5>1, EffectOfNothing DEF Copied, NoEffect
          <6>2. X = F
            <7>1. \A e \in Entries : Copied(e.key) = Kept
              BY <6>1 DEF Entries
            <7> QED
              BY <1>4, <1>6, <7>1
          <6>3. Cap = query.limit
            BY <5>1 DEF Cap
          <6>4. Cardinality({e.key : e \in F}) = Cardinality(F)
            BY <1>4, FoundFact
          <6> QED
            BY <4>3, <6>2, <6>3, <6>4 DEF S
        <5>2. CASE snapshot # <<>>
          <6>1. Cap = Cardinality(Keys)
            BY <5>2 DEF Cap
          <6>2. \E e \in F : e.key = k
            BY <1>4, <4>3, <6>1, FoundFact
          <6> QED
            BY <4>2, <6>2
        <5> QED
          BY <5>1, <5>2
      <4> QED
        BY <4>1, <4>2, <4>3 DEF Shown
    <3> QED
      BY <3>1, <3>2
  <2> QED
    BY <2>4, <2>5
<1>14. ListingFaithful'
  <2> SUFFICES ASSUME clean
      PROVE  /\ Len(L) <= query.limit
             /\ \A i, j \in DOMAIN L : i < j => Before(L[i].key, L[j].key)
             /\ \A i \in DOMAIN L : InBounds(L[i].key, query) /\ L[i].val \in held'[L[i].key]
             /\ \A k \in Keys : /\ InBounds(k, query)
                                /\ Len(L) < query.limit \/ \E i \in DOMAIN L : Before(k, L[i].key)
                                /\ Gone \notin held'[k]
                  => \E i \in DOMAIN L : L[i].key = k
    BY <1>1 DEF ListingFaithful, Reached, Before
  <2>1. \A i \in DOMAIN L : InBounds(L[i].key, query) /\ L[i].val \in held'[L[i].key]
    BY <1>8, <1>10, <1>12, <1>13
  <2>2. ASSUME NEW k \in Keys, InBounds(k, query), Gone \notin held'[k],
               Len(L) < query.limit \/ \E i \in DOMAIN L : Before(k, L[i].key)
        PROVE  \E i \in DOMAIN L : L[i].key = k
    <3> SUFFICES ASSUME ~ \E i \in DOMAIN L : L[i].key = k PROVE FALSE
      OBVIOUS
    <3>1. Gone \notin held[k]
      BY <1>12, <2>2
    <3>2. k \in S \/ (query.limit <= Cardinality(S) /\ \A l \in S : Before(l, k))
      BY <1>13, <2>2, <3>1
    <3>3. Len(L) = query.limit /\ \A i \in DOMAIN L : Before(L[i].key, k)
      BY <1>8, <1>9, <3>2
    <3>4. PICK i \in DOMAIN L : Before(k, L[i].key)
      BY <1>5, <2>2, <3>3
    <3>5. L[i].key \in Nat /\ k \in Nat
      BY <1>8, <1>10, KeysFact
    <3> QED
      BY <3>3, <3>4, <3>5 DEF Before, Precedes
  <2> QED
    BY <1>8, <2>1, <2>2
<1>15. WalkInv' /\ HistoryInv'
  BY <1>1 DEF WalkInv, HistoryInv
<1>16. Remembers'
  BY <1>12 DEF Remembers
<1> QED
  BY <1>11, <1>14, <1>15, <1>16 DEF ListInv

(* When it has returned, nothing of it is left.                            *)
LEMMA ReturnKeeps ==
  ASSUME ListInv, Return, Track
  PROVE  ListInv'
<1>1. /\ pc' = "idle" /\ listed' = <<>> /\ found' = {} /\ snapshot' = <<>>
      /\ query' = AnyQuery /\ range' = AnyQuery /\ clean' = TRUE
      /\ records' = records /\ staged' = staged /\ drained' = drained
      /\ lock' = lock /\ tx' = tx /\ writes' = writes
  BY DEF Return, writer
<1>2. WriterTypes' /\ OneBatch'
  BY <1>1, TypeParts DEF ListInv, WriterTypes, OneBatch
<1>3. TypeOK'
  <2>1. held' \in [Keys -> SUBSET (Vals \cup {Gone})]
    BY <1>2, HeldTyped DEF ListInv
  <2>2. ListerTypes'
    BY <1>1, EmptyTyped, QueryTyped DEF ListerTypes
  <2> QED
    BY <1>2, <2>1, <2>2 DEF TypeOK, WriterTypes, ListerTypes
<1>4. WalkInv' /\ HistoryInv' /\ Remembers' /\ ListingFaithful'
  BY <1>1 DEF WalkInv, HistoryInv, Remembers, ListingFaithful
<1> QED
  BY <1>2, <1>3, <1>4 DEF ListInv

(* The invariant holds at first and through every step.                    *)
LEMMA ListInvInitially == Init => ListInv
<1> SUFFICES ASSUME Init PROVE ListInv
  OBVIOUS
<1>1. WriterTypes
  BY EmptyTyped, ListingAssumption DEF Init, WriterTypes
<1>2. ListerTypes
  BY EmptyTyped, QueryTyped DEF Init, ListerTypes
<1>3. TypeOK
  BY <1>1, <1>2 DEF Init, TypeOK, WriterTypes, ListerTypes
<1>4. OneBatch /\ WalkInv /\ Remembers /\ HistoryInv /\ ListingFaithful
  BY DEF Init, OneBatch, WalkInv, Remembers, HistoryInv, ListingFaithful
<1> QED
  BY <1>3, <1>4 DEF ListInv

LEMMA ListInvStays == ListInv /\ [Next]_vars => ListInv'
<1> SUFFICES ASSUME ListInv, [Next]_vars PROVE ListInv'
  OBVIOUS
<1>1. CASE Writes /\ Track
  BY <1>1, WriterKeeps
<1>2. CASE (\E q \in Asked : Begin(q)) /\ Track
  BY <1>2, BeginKeeps
<1>3. CASE ReadPage /\ Track
  BY <1>3, ReadPageKeeps
<1>4. CASE ReadLastPage /\ Track
  BY <1>4, ReadLastPageKeeps
<1>5. CASE Return /\ Track
  BY <1>5, ReturnKeeps
<1>6. CASE UNCHANGED vars
  BY <1>6 DEF vars, ListInv, TypeOK, OneBatch, WalkInv, Passed, Before, OnePerKey, Remembers,
              View, HistoryInv, Copied, Shown, Cap, ListingFaithful, Reached
<1> QED
  BY <1>1, <1>2, <1>3, <1>4, <1>5, <1>6 DEF Next, Step, Writes

-----------------------------------------------------------------------------
(* The theorems.                                                           *)

(* The invariant of the listing, its pages and its histories.              *)
THEOREM ListInvHolds == Spec => []ListInv
BY ListInvInitially, ListInvStays, PTL DEF Spec

(* ListingFaithful: whatever is staged, flushed, committed or fails        *)
(* between its pages, a listing (collect over Inner::walk) returns what    *)
(* the locker held while it ran, in order, in its bounds and up to its     *)
(* limit, and leaves out no key that was never absent; for any page size,  *)
(* keys, values and queries.                                               *)
THEOREM ListingsAreFaithful == Spec => []ListingFaithful
<1>1. ListInv => ListingFaithful
  BY DEF ListInv
<1> QED
  BY <1>1, ListInvHolds, PTL

(* ViewsAgree: staged_view answers of any staged list, and of any          *)
(* transaction's, what its entries leave.                                  *)
THEOREM ViewsAlwaysAgree == Spec => []ViewsAgree
<1>1. ListInv => ViewsAgree
  <2> SUFFICES ASSUME ListInv PROVE ViewsAgree
    OBVIOUS
  <2>1. TypeOK
    BY DEF ListInv
  <2>2. staged \in Seq(Pending) /\ tx \in Seq(Pending)
    BY <2>1, TypesFact
  <2> QED
    BY <2>1, <2>2, ViewIsEffect DEF ViewsAgree
<1> QED
  BY <1>1, ListInvHolds, PTL

(* AccountingAgrees: the byte accounting of what a commit and the staged   *)
(* batch hold says what they do, for any list (Resident::accounting).      *)
THEOREM AccountingAlwaysAgrees == Spec => []AccountingAgrees
<1>1. ListInv => AccountingAgrees
  <2> SUFFICES ASSUME ListInv PROVE AccountingAgrees
    OBVIOUS
  <2> DEFINE list == Merged \o staged
             acc == Accounting(list)
  <2>1. staged \in Seq(Pending) /\ drained \in Seq(Pending) /\ tx \in Seq(Pending)
    BY TypesFact DEF ListInv
  <2>2. list \in Seq(Pending)
    BY <2>1, EffectOfConcat DEF Merged
  <2> HIDE DEF list
  <2>3. /\ acc.updates = {e \in Entries : EffectOf(list)[e.key] = e.val}
        /\ \A k \in Keys : acc.removals[k] > 0 => EffectOf(list)[k] = Gone
        /\ \A k \in Keys : EffectOf(list)[k] = Gone => acc.removals[k] > 0 \/ acc.cleared
    BY <2>2, AccountingSays
  <2> HIDE DEF acc
  <2>4. LET removed == {k \in Keys : acc.removals[k] > 0} IN
          /\ acc.updates = {e \in Entries : EffectOf(list)[e.key] = e.val}
          /\ \A k \in removed : EffectOf(list)[k] = Gone
          /\ \A k \in Keys : EffectOf(list)[k] = Gone => k \in removed \/ acc.cleared
    BY <2>3
  <2> QED
    BY <2>4 DEF AccountingAgrees, acc, list
<1> QED
  BY <1>1, ListInvHolds, PTL

(* LandsInOrder: a commit stores what the deferred entries and then the    *)
(* transaction's, one after the other, leave (merge_batches,               *)
(* ops_for_items).                                                         *)
THEOREM AlwaysLandsInOrder == Spec => LandsInOrder
<1>1. ListInv /\ [Next]_vars
        => [Land => records' = Then(Then(records, EffectOf(drained)), EffectOf(tx))]_vars
  <2> SUFFICES ASSUME ListInv, Land
               PROVE  records' = Then(Then(records, EffectOf(drained)), EffectOf(tx))
    OBVIOUS
  <2> QED
    BY LandFact DEF ListInv
<1> QED
  BY <1>1, ListInvHolds, PTL DEF Spec, LandsInOrder

-----------------------------------------------------------------------------
(* Definitions by recursion over a finite set.                            *)

(* A set of naturals has a least element.                                  *)
LEMMA LeastNumber ==
  ASSUME NEW B \in SUBSET Nat, B # {}
  PROVE  \E n \in B : \A m \in B : n <= m
<1>1. PICK n \in B : \A m \in B : ~(<<m, n>> \in OpToRel(<, Nat))
  BY WFMin, NatLessThanWellFounded, Zenon
<1>2. \A m \in B : ~(m < n)
  BY <1>1, Zenon DEF OpToRel
<1>3. \A m \in B : n <= m
  BY <1>2
<1> QED
  BY <1>3

(* A function may be defined by recursion over the subsets of a finite     *)
(* set, taking one element away at a time.                                 *)
Picks(pick, U) == \A s \in SUBSET U : s # {} => pick[s] \in s
Steps(st, U, V) == st \in [U \X V -> V]
Recursive(g, U, V, base, pick, st) ==
  /\ g \in [SUBSET U -> V]
  /\ \A s \in SUBSET U : g[s] = IF s = {} THEN base ELSE st[<<pick[s], g[s \ {pick[s]}]>>]
(* A recursion that takes one element off a finite set has a solution.     *)
LEMMA SetRecursion ==
  ASSUME NEW U, IsFiniteSet(U), NEW V, NEW base \in V, NEW pick, Picks(pick, U),
         NEW st, Steps(st, U, V)
  PROVE  \E g : Recursive(g, U, V, base, pick, st)
<1> USE DEF Picks, Steps
<1> DEFINE D(n) == {s \in SUBSET U : Cardinality(s) <= n}
           Good(g, n) == \A s \in D(n) : g[s] = IF s = {} THEN base
                                                ELSE st[<<pick[s], g[s \ {pick[s]}]>>]
           B == {n \in Nat : ~ \E g \in [D(n) -> V] : Good(g, n)}
<1>0. \A s \in SUBSET U : /\ IsFiniteSet(s) /\ Cardinality(s) \in Nat
                          /\ Cardinality(s) = 0 <=> s = {}
  BY FS_Subset, FS_CardinalityType, FS_EmptySet
<1>1. \A s \in SUBSET U : s # {} => /\ s \ {pick[s]} \in SUBSET U
                                    /\ Cardinality(s \ {pick[s]}) = Cardinality(s) - 1
  BY <1>0, FS_RemoveElement
<1>2. B = {}
  <2> SUFFICES ASSUME B # {} PROVE FALSE
    OBVIOUS
  <2>1. PICK n \in B : \A m \in B : n <= m
    BY LeastNumber
  <2>2. CASE n = 0
    <3>1. D(0) = {{}}
      BY <1>0
    <3> DEFINE g == [s \in D(0) |-> base]
    <3>2. g \in [D(0) -> V]
      OBVIOUS
    <3>3. Good(g, 0)
      BY <3>1
    <3> QED
      BY <2>1, <2>2, <3>2, <3>3
  <2>3. CASE n # 0
    <3>1. n \in Nat /\ n - 1 \in Nat /\ n - 1 \notin B
      <4>1. n \in Nat
        BY <2>1
      <4>2. n - 1 \in Nat /\ ~(n <= n - 1)
        BY <4>1, <2>3
      <4> HIDE DEF B
      <4> QED
        BY <4>1, <4>2, <2>1
    <3>2. PICK f \in [D(n - 1) -> V] : Good(f, n - 1)
      BY <3>1
    <3> DEFINE g == [s \in D(n) |-> IF s = {} THEN base ELSE st[<<pick[s], f[s \ {pick[s]}]>>]]
    <3>3. \A s \in D(n) : s # {} => s \ {pick[s]} \in D(n - 1) /\ pick[s] \in U
      BY <1>0, <1>1, <3>1
    <3>4. g \in [D(n) -> V]
      <4>1. \A s \in D(n) : s # {} => <<pick[s], f[s \ {pick[s]}]>> \in U \X V
        BY <3>2, <3>3
      <4> QED
        BY <4>1
    <3>5. \A s \in D(n - 1) : s \in D(n) /\ g[s] = f[s]
      <4>1. \A s \in D(n - 1) : s \in D(n)
        BY <1>0, <3>1
      <4> QED
        BY <4>1, <3>2
    <3>6. Good(g, n)
      BY <3>3, <3>5
    <3> QED
      BY <3>1, <3>4, <3>6, <2>1
  <2> QED
    BY <2>2, <2>3
<1>3. Cardinality(U) \in Nat /\ D(Cardinality(U)) = SUBSET U
  BY FS_Subset, FS_CardinalityType
<1>4. PICK g \in [D(Cardinality(U)) -> V] : Good(g, Cardinality(U))
  BY <1>2, <1>3
<1> HIDE DEF B
<1> QED
  BY <1>3, <1>4 DEF Recursive

-----------------------------------------------------------------------------
(* The bytes of an id.                                                     *)

(* What the first bytes of a prefix are worth.                             *)
Worths(v, p) == /\ v \in [0 .. PrefixLen -> Nat]
                /\ v[0] = 0
                /\ \A i \in 1 .. PrefixLen : v[i] = v[i - 1] * (Top + 1) + p[i]

LEMMA Sizes == Top \in Nat /\ PrefixLen \in Nat /\ PrefixLen >= 1 /\ MaxLen \in Nat /\ Bytes \subseteq Nat
BY EncodingAssumption DEF Bytes

(* FromBytes takes them one after the other.                               *)
LEMMA WorthOfBytes ==
  ASSUME NEW p \in IdBytes
  PROVE  \E v : Worths(v, p) /\ FromBytes(p) = v[PrefixLen]
<1> DEFINE D == 1 .. PrefixLen
           Rec(e) == e = [s \in SUBSET D |->
                            IF s = {} THEN 0 ELSE e[s \ {Max(s)}] * (Top + 1) + p[Max(s)]]
           h == CHOOSE e : Rec(e)
           pick == [s \in SUBSET D |-> Max(s)]
           st == [x \in D \X Nat |-> x[2] * (Top + 1) + p[x[1]]]
<1>0. /\ IsFiniteSet(D) /\ DOMAIN p = D /\ \A i \in D : p[i] \in Nat
      /\ \A s \in SUBSET D : s # {} => Max(s) \in s
  <2>1. IsFiniteSet(D)
    BY Sizes, FS_Interval
  <2>2. DOMAIN p = D /\ \A i \in D : p[i] \in Nat
    BY Sizes DEF IdBytes
  <2>3. ASSUME NEW s \in SUBSET D, s # {} PROVE Max(s) \in s
    BY <2>3, Sizes, PlacesFact, MaxFact
  <2> QED
    BY <2>1, <2>2, <2>3
<1>1. Picks(pick, D)
  BY <1>0 DEF Picks
<1>2. Steps(st, D, Nat)
  <2>1. ASSUME NEW x \in D \X Nat PROVE st[x] \in Nat
    <3>1. x[1] \in D /\ x[2] \in Nat /\ p[x[1]] \in Nat /\ Top + 1 \in Nat
      BY <1>0, Sizes
    <3>2. \A a, b, c \in Nat : a * b + c \in Nat
      OBVIOUS
    <3>3. x[2] * (Top + 1) + p[x[1]] \in Nat
      BY <3>1, <3>2
    <3> QED
      BY <3>3
  <2>2. st = [x \in D \X Nat |-> st[x]]
    OBVIOUS
  <2> HIDE DEF st
  <2> QED
    BY <2>1, <2>2 DEF Steps
<1> HIDE DEF D
<1>3. PICK g : Recursive(g, D, Nat, 0, pick, st)
  <2>1. \A s \in SUBSET D : TRUE
    OBVIOUS
  <2> HIDE DEF pick, st
  <2> QED
    BY <1>0, <1>1, <1>2, SetRecursion
<1>4. Rec(g)
  <2>1. g \in [SUBSET D -> Nat]
    BY <1>3 DEF Recursive
  <2>2. ASSUME NEW s \in SUBSET D
        PROVE  g[s] = IF s = {} THEN 0 ELSE g[s \ {Max(s)}] * (Top + 1) + p[Max(s)]
    <3>1. CASE s = {}
      BY <1>3, <3>1 DEF Recursive
    <3>2. CASE s # {}
      <4> DEFINE m == Max(s)
      <4>1. m \in D /\ pick[s] = m
        BY <1>0, <3>2
      <4> HIDE DEF m
      <4>2. g[s \ {m}] \in Nat
        BY <2>1
      <4>3. g[s] = st[<<m, g[s \ {m}]>>]
        BY <1>3, <3>2, <4>1 DEF Recursive
      <4>4. g[s] = g[s \ {m}] * (Top + 1) + p[m]
        BY <4>1, <4>2, <4>3
      <4> QED
        BY <3>2, <4>4 DEF m
    <3> QED
      BY <3>1, <3>2
  <2>3. g = [s \in SUBSET D |-> g[s]]
    BY <2>1
  <2> QED
    BY <2>2, <2>3, Zenon
<1>5. Rec(h)
  BY <1>4
<1>6. FromBytes(p) = h[D]
  BY <1>0, Zenon DEF FromBytes, FoldLeft, MapThenFoldSet
<1>7. \A s \in SUBSET D : h[s] = IF s = {} THEN 0 ELSE h[s \ {Max(s)}] * (Top + 1) + p[Max(s)]
  <2> HIDE DEF h
  <2> QED
    BY <1>5
<1> HIDE DEF h
<1> DEFINE v == [i \in 0 .. PrefixLen |-> h[1 .. i]]
<1>8. v[0] = 0 /\ \A i \in 1 .. PrefixLen : v[i] = v[i - 1] * (Top + 1) + p[i]
  <2>1. v[0] = 0
    <3>1. 1 .. 0 = {} /\ {} \in SUBSET D /\ 0 \in 0 .. PrefixLen
      BY Sizes
    <3> QED
      BY <1>7, <3>1
  <2>2. ASSUME NEW i \in 1 .. PrefixLen PROVE v[i] = v[i - 1] * (Top + 1) + p[i]
    <3> DEFINE s == 1 .. i
    <3>1. s # {} /\ s \in SUBSET D /\ i \in s /\ \A x \in s : x <= i
      BY Sizes DEF D
    <3>2. i \in Nat /\ s \subseteq Nat /\ IsFiniteSet(s)
      BY <3>1, Sizes, PlacesFact
    <3>3. s \ {i} = 1 .. i - 1 /\ i \in 0 .. PrefixLen /\ i - 1 \in 0 .. PrefixLen
      BY Sizes
    <3>4. v[i] = h[s] /\ v[i - 1] = h[1 .. i - 1]
      BY <3>3
    <3> HIDE DEF s, v
    <3>5. Max(s) = i
      BY <3>1, <3>2, MaxIs
    <3> QED
      BY <1>7, <3>1, <3>3, <3>4, <3>5
  <2> QED
    BY <2>1, <2>2
<1>9. v[PrefixLen] = h[D] /\ v = [i \in 0 .. PrefixLen |-> v[i]]
  BY Sizes DEF D
<1> HIDE DEF v
<1>10. \A i \in 0 .. PrefixLen : v[i] \in Nat
  <2> DEFINE B == {i \in 0 .. PrefixLen : v[i] \notin Nat}
  <2>1. B = {}
    <3> SUFFICES ASSUME B # {} PROVE FALSE
      OBVIOUS
    <3>1. PICK i \in B : \A j \in B : i <= j
      <4>1. B \in SUBSET Nat
        BY Sizes
      <4> HIDE DEF B
      <4> QED
        BY <4>1, LeastNumber
    <3>2. i \in 1 .. PrefixLen /\ i - 1 \in 0 .. PrefixLen /\ ~(i <= i - 1)
      BY <1>8, <3>1, Sizes
    <3>3. v[i - 1] \in Nat
      BY <3>1, <3>2
    <3>4. v[i] = v[i - 1] * (Top + 1) + p[i] /\ p[i] \in Nat /\ Top + 1 \in Nat
      BY <1>0, <1>8, <3>2, Sizes DEF D
    <3>5. \A a, b, c \in Nat : a * b + c \in Nat
      OBVIOUS
    <3>6. v[i] \in Nat
      BY <3>3, <3>4, <3>5
    <3> QED
      BY <3>1, <3>6
  <2> QED
    BY <2>1
<1>11. v \in [0 .. PrefixLen -> Nat]
  BY <1>9, <1>10
<1> QED
  BY <1>6, <1>8, <1>9, <1>11 DEF Worths

(* One number below another stays below it whatever byte is appended.      *)
LEMMA AppendKeepsOrder ==
  ASSUME NEW a \in Nat, NEW b \in Nat, NEW x \in Bytes, NEW y \in Bytes, a < b
  PROVE  a * (Top + 1) + x < b * (Top + 1) + y
<1> DEFINE T == Top + 1
<1>1. T \in Nat /\ x \in Nat /\ y \in Nat /\ x < T
  BY Sizes DEF Bytes
<1>2. PICK c \in Nat : b = a + 1 + c
  <2>1. b - a - 1 \in Nat /\ b = a + 1 + (b - a - 1)
    OBVIOUS
  <2> QED
    BY <2>1
<1> HIDE DEF T
<1>3. b * T = a * T + T + c * T
  BY <1>1, <1>2
<1>4. c * T \in Nat /\ a * T \in Nat /\ b * T \in Nat
  BY <1>1
<1>5. a * T + x < b * T + y
  BY <1>1, <1>3, <1>4
<1> QED
  BY <1>5 DEF T

(* Prefixes are worth more as soon as they have the larger byte.           *)
LEMMA FirstByteDecides ==
  ASSUME NEW p \in IdBytes, NEW q \in IdBytes, NEW x \in 1 .. PrefixLen, p[x] < q[x],
         \A j \in 1 .. x - 1 : p[j] = q[j]
  PROVE  FromBytes(p) < FromBytes(q)
<1>1. PICK v : Worths(v, p) /\ FromBytes(p) = v[PrefixLen]
  BY WorthOfBytes
<1>2. PICK w : Worths(w, q) /\ FromBytes(q) = w[PrefixLen]
  BY WorthOfBytes
<1>3. \A i \in 0 .. PrefixLen : v[i] \in Nat /\ w[i] \in Nat
  BY <1>1, <1>2 DEF Worths
<1>4. /\ v[0] = 0 /\ w[0] = 0
      /\ \A i \in 1 .. PrefixLen : v[i] = v[i - 1] * (Top + 1) + p[i]
      /\ \A i \in 1 .. PrefixLen : w[i] = w[i - 1] * (Top + 1) + q[i]
  BY <1>1, <1>2 DEF Worths
<1>5. \A i \in 1 .. PrefixLen : p[i] \in Bytes /\ q[i] \in Bytes /\ p[i] \in Nat /\ q[i] \in Nat
  BY Sizes DEF IdBytes
<1> DEFINE B == {i \in 0 .. PrefixLen : (i < x /\ v[i] # w[i]) \/ (x <= i /\ ~(v[i] < w[i]))}
<1>6. B = {}
  <2> SUFFICES ASSUME B # {} PROVE FALSE
    OBVIOUS
  <2>1. PICK i \in B : \A j \in B : i <= j
    <3>1. B \in SUBSET Nat
      BY Sizes
    <3> HIDE DEF B
    <3> QED
      BY <3>1, LeastNumber
  <2>2. i # 0
    BY <1>4, <2>1, Sizes
  <2>3. i \in 1 .. PrefixLen /\ i - 1 \in 0 .. PrefixLen /\ i - 1 \notin B /\ x \in Nat
    <3>1. i \in 0 .. PrefixLen /\ x \in Nat
      BY <2>1, Sizes
    <3>2. i \in 1 .. PrefixLen /\ i - 1 \in 0 .. PrefixLen /\ ~(i <= i - 1)
      BY <2>2, <3>1, Sizes
    <3> HIDE DEF B
    <3> QED
      BY <2>1, <3>1, <3>2
  <2>4. /\ v[i] = v[i - 1] * (Top + 1) + p[i] /\ w[i] = w[i - 1] * (Top + 1) + q[i]
        /\ p[i] \in Bytes /\ q[i] \in Bytes /\ v[i - 1] \in Nat /\ w[i - 1] \in Nat
        /\ p[i] \in Nat /\ q[i] \in Nat
    BY <1>3, <1>4, <1>5, <2>3
  <2>5. CASE i < x
    <3>1. i - 1 < x /\ v[i - 1] = w[i - 1] /\ i \in 1 .. x - 1
      BY <2>3, <2>5
    <3>2. v[i] = w[i]
      BY <2>4, <3>1
    <3> QED
      BY <2>1, <2>3, <2>5, <3>2
  <2>6. CASE i = x
    <3>1. v[i - 1] = w[i - 1] /\ p[i] < q[i]
      BY <2>3, <2>6
    <3>2. v[i - 1] * (Top + 1) \in Nat
      BY <2>4, Sizes
    <3>3. v[i] < w[i]
      BY <2>4, <3>1, <3>2
    <3> QED
      BY <2>1, <2>3, <2>6, <3>3
  <2>7. CASE x < i
    <3>1. v[i - 1] < w[i - 1]
      BY <2>3, <2>7
    <3>2. v[i] < w[i]
      BY <2>4, <3>1, AppendKeepsOrder
    <3> QED
      BY <2>1, <2>3, <2>7, <3>2
  <2> QED
    BY <2>3, <2>5, <2>6, <2>7
<1>7. PrefixLen \in 0 .. PrefixLen /\ x <= PrefixLen /\ ~(PrefixLen < x)
  BY Sizes
<1>8. v[PrefixLen] < w[PrefixLen]
  BY <1>6, <1>7
<1> QED
  BY <1>1, <1>2, <1>8

-----------------------------------------------------------------------------
(* The order of keys, byte by byte.                                        *)

(* The first list ends first, or has the smaller byte where they part.     *)
Smaller(s, t) == \E i \in 1 .. Len(t) : /\ i <= Len(s) + 1
                                        /\ i <= Len(s) => s[i] < t[i]
                                        /\ \A j \in 1 .. i - 1 : s[j] = t[j]
(* The second begins with the first.                                       *)
Leads(s, t) == Len(s) <= Len(t) /\ \A j \in 1 .. Len(s) : s[j] = t[j]

(* Parts of two lists are equal if their elements are.                     *)
LEMMA SameParts ==
  ASSUME NEW s \in Seq(Nat), NEW t \in Seq(Nat), NEW n \in Nat, n <= Len(s), n <= Len(t)
  PROVE  SubSeq(s, 1, n) = SubSeq(t, 1, n) <=> \A j \in 1 .. n : s[j] = t[j]
<1> DEFINE p == SubSeq(s, 1, n)
           q == SubSeq(t, 1, n)
<1>1. /\ p \in Seq(Nat) /\ Len(p) = n /\ \A j \in 1 .. n : p[j] = s[j]
      /\ q \in Seq(Nat) /\ Len(q) = n /\ \A j \in 1 .. n : q[j] = t[j]
  <2>1. n \in 0 .. Len(s) /\ n \in 0 .. Len(t) /\ 1 \in Nat \ {0} /\ 1 <= n + 1
        /\ n - (1 - 1) = n /\ \A j \in 1 .. n : (1 - 1) + j = j
    OBVIOUS
  <2>2. p \in Seq(Nat) /\ Len(p) = n /\ \A j \in 1 .. n : p[j] = s[j]
    BY <2>1, PartOf
  <2>3. q \in Seq(Nat) /\ Len(q) = n /\ \A j \in 1 .. n : q[j] = t[j]
    BY <2>1, PartOf
  <2> QED
    BY <2>2, <2>3
<1> HIDE DEF p, q
<1>2. p = q <=> \A j \in 1 .. n : p[j] = q[j]
  BY <1>1, SeqEqual
<1> QED
  BY <1>1, <1>2 DEF p, q

LEMMA PrefixIs ==
  ASSUME NEW s \in Seq(Nat), NEW t \in Seq(Nat)
  PROVE  /\ IsPrefix(s, t) <=> Leads(s, t)
         /\ IsStrictPrefix(s, t) <=> Leads(s, t) /\ Len(s) < Len(t)
         /\ s = t <=> Leads(s, t) /\ Len(s) = Len(t)
<1>1. Len(s) \in Nat /\ Len(t) \in Nat
  OBVIOUS
<1>2. IsPrefix(s, t) <=> Leads(s, t)
  BY <1>1, SameParts DEF IsPrefix, Leads
<1>3. Leads(s, t) /\ Len(s) = Len(t) => s = t
  BY SeqEqual DEF Leads
<1>4. s = t => Leads(s, t) /\ Len(s) = Len(t)
  BY <1>1 DEF Leads
<1> QED
  BY <1>1, <1>2, <1>3, <1>4 DEF IsStrictPrefix, Leads

LEMMA LessIs ==
  ASSUME NEW s \in Seq(Nat), NEW t \in Seq(Nat)
  PROVE  Less(s, t) <=> Smaller(s, t)
<1>1. /\ Len(s) \in Nat /\ Len(t) \in Nat /\ DOMAIN s = 1 .. Len(s) /\ DOMAIN t = 1 .. Len(t)
  OBVIOUS
<1> DEFINE n == Len(s)
           m == Len(t)
<1>2. ASSUME NEW i \in DOMAIN s \cap DOMAIN t
      PROVE  SubSeq(s, 1, i - 1) = SubSeq(t, 1, i - 1) <=> \A j \in 1 .. i - 1 : s[j] = t[j]
  <2>1. i - 1 \in Nat /\ i - 1 <= Len(s) /\ i - 1 <= Len(t)
    BY <1>1
  <2> QED
    BY <2>1, SameParts
<1>3. Less(s, t) <=> \/ Leads(s, t) /\ n < m
                     \/ \E i \in DOMAIN s \cap DOMAIN t :
                          s[i] < t[i] /\ \A j \in 1 .. i - 1 : s[j] = t[j]
  BY <1>2, PrefixIs DEF Less
<1>4. ASSUME Leads(s, t), n < m PROVE Smaller(s, t)
  <2>1. n + 1 \in 1 .. m /\ n + 1 <= n + 1 /\ ~(n + 1 <= n)
    BY <1>1, <1>4
  <2>2. \A j \in 1 .. (n + 1) - 1 : s[j] = t[j]
    BY <1>1, <1>4 DEF Leads
  <2> QED
    BY <2>1, <2>2 DEF Smaller
<1>5. ASSUME NEW i \in DOMAIN s \cap DOMAIN t, s[i] < t[i], \A j \in 1 .. i - 1 : s[j] = t[j]
      PROVE  Smaller(s, t)
  <2>1. i \in 1 .. m /\ i <= n + 1
    BY <1>1, <1>5
  <2> QED
    BY <1>5, <2>1 DEF Smaller
<1>6. ASSUME NEW i \in 1 .. m, i <= n + 1, i <= n => s[i] < t[i], \A j \in 1 .. i - 1 : s[j] = t[j]
      PROVE  \/ Leads(s, t) /\ n < m
             \/ i \in DOMAIN s \cap DOMAIN t /\ s[i] < t[i]
  <2>1. CASE i <= n
    BY <1>1, <1>6, <2>1
  <2>2. CASE i = n + 1
    <3>1. n < m /\ 1 .. i - 1 = 1 .. n
      BY <1>1, <2>2
    <3> QED
      BY <1>6, <3>1 DEF Leads
  <2> QED
    BY <1>1, <1>6, <2>1, <2>2
<1> QED
  BY <1>3, <1>4, <1>5, <1>6 DEF Smaller

(* Two lists part somewhere, or the one begins with the other.             *)
LEMMA ListsPart ==
  ASSUME NEW s \in Seq(Nat), NEW t \in Seq(Nat)
  PROVE  \/ Leads(t, s)
         \/ Smaller(s, t)
         \/ \E i \in 1 .. Len(t) : i <= Len(s) /\ t[i] < s[i] /\ \A j \in 1 .. i - 1 : s[j] = t[j]
<1> DEFINE n == Len(s)
           m == Len(t)
           B == {i \in 1 .. m : n < i \/ s[i] # t[i]}
<1>1. n \in Nat /\ m \in Nat /\ (\A i \in 1 .. n : s[i] \in Nat) /\ (\A i \in 1 .. m : t[i] \in Nat)
  OBVIOUS
<1>2. CASE B = {}
  <2>1. \A i \in 1 .. m : i <= n /\ s[i] = t[i]
    BY <1>1, <1>2
  <2>2. m <= n
    BY <1>1, <2>1
  <2> QED
    BY <2>1, <2>2 DEF Leads
<1>3. CASE B # {}
  <2>1. PICK i \in B : \A j \in B : i <= j
    <3>1. B \in SUBSET Nat
      BY <1>1
    <3> HIDE DEF B
    <3> QED
      BY <1>3, <3>1, LeastNumber
  <2>2. i \in 1 .. m /\ \A j \in 1 .. i - 1 : j <= n /\ s[j] = t[j]
    <3>1. i \in 1 .. m
      BY <2>1
    <3>2. ASSUME NEW j \in 1 .. i - 1 PROVE j <= n /\ s[j] = t[j]
      <4>1. j \in 1 .. m /\ ~(i <= j)
        BY <1>1, <3>1
      <4>2. j \notin B
        BY <2>1, <4>1
      <4> QED
        BY <1>1, <4>1, <4>2
    <3> QED
      BY <3>1, <3>2
  <2>3. i <= n + 1
    <3>1. i - 1 \in 1 .. i - 1 => i - 1 <= n
      BY <2>2
    <3> QED
      BY <1>1, <2>2, <3>1
  <2>4. CASE i <= n /\ ~(s[i] < t[i])
    <3>1. t[i] < s[i]
      BY <1>1, <2>1, <2>2, <2>4
    <3> QED
      BY <2>2, <2>4, <3>1
  <2>5. CASE ~(i <= n /\ ~(s[i] < t[i]))
    BY <2>2, <2>3, <2>5 DEF Smaller
  <2> QED
    BY <2>4, <2>5
<1> QED
  BY <1>2, <1>3

(* Of two lists at most one is smaller, of one list none.                  *)
LEMMA SmallerOneWay ==
  ASSUME NEW s \in Seq(Nat), NEW t \in Seq(Nat)
  PROVE  ~(Smaller(s, t) /\ Smaller(t, s)) /\ ~Smaller(s, s)
<1> DEFINE n == Len(s)
           m == Len(t)
<1>1. n \in Nat /\ m \in Nat /\ (\A i \in 1 .. n : s[i] \in Nat) /\ (\A i \in 1 .. m : t[i] \in Nat)
  OBVIOUS
<1> HIDE DEF n, m
<1>2. ~(Smaller(s, t) /\ Smaller(t, s))
  <2> SUFFICES ASSUME Smaller(s, t), Smaller(t, s) PROVE FALSE
    OBVIOUS
  <2>1. PICK i \in 1 .. m : i <= n + 1 /\ (i <= n => s[i] < t[i]) /\ \A j \in 1 .. i - 1 : s[j] = t[j]
    BY DEF Smaller, n, m
  <2>2. PICK x \in 1 .. n : x <= m + 1 /\ (x <= m => t[x] < s[x]) /\ \A j \in 1 .. x - 1 : t[j] = s[j]
    BY DEF Smaller, n, m
  <2>3. CASE i < x
    <3>1. i \in 1 .. x - 1 /\ i <= n /\ i \in 1 .. n
      BY <1>1, <2>1, <2>2, <2>3
    <3> QED
      BY <1>1, <2>1, <2>2, <3>1
  <2>4. CASE x < i
    <3>1. x \in 1 .. i - 1 /\ x <= m /\ x \in 1 .. m
      BY <1>1, <2>1, <2>2, <2>4
    <3> QED
      BY <1>1, <2>1, <2>2, <3>1
  <2>5. CASE i = x
    <3>1. i <= n /\ i <= m /\ i \in 1 .. n
      BY <1>1, <2>1, <2>2, <2>5
    <3> QED
      BY <1>1, <2>1, <2>2, <2>5, <3>1
  <2> QED
    BY <1>1, <2>1, <2>2, <2>3, <2>4, <2>5
<1>3. ~Smaller(s, s)
  BY <1>1 DEF Smaller, n
<1> QED
  BY <1>2, <1>3

-----------------------------------------------------------------------------
(* Encoded keys.                                                           *)

(* An id and its bytes.                                                    *)
LEMMA IdFact ==
  ASSUME NEW l \in LockerIds
  PROVE  /\ Prefix[l] \in IdBytes /\ FromBytes(Prefix[l]) = l /\ l \in Nat
         /\ \A i \in 1 .. PrefixLen : Prefix[l][i] \in Bytes
<1>1. \E p \in IdBytes : FromBytes(p) = l
  BY DEF LockerIds
<1>2. Prefix[l] = CHOOSE p \in IdBytes : FromBytes(p) = l
  BY DEF Prefix
<1>3. Prefix[l] \in IdBytes /\ FromBytes(Prefix[l]) = l
  BY <1>1, <1>2
<1>4. PICK v : Worths(v, Prefix[l]) /\ FromBytes(Prefix[l]) = v[PrefixLen]
  BY <1>3, WorthOfBytes
<1>5. l \in Nat
  <2>1. PrefixLen \in 0 .. PrefixLen
    BY Sizes
  <2> QED
    BY <1>3, <1>4, <2>1 DEF Worths
<1> QED
  BY <1>3, <1>5 DEF IdBytes

(* Numbers are in the order of their bytes.                                *)
LEMMA IdOrder ==
  ASSUME NEW l \in LockerIds, NEW m \in LockerIds
  PROVE  /\ (\E x \in 1 .. PrefixLen : /\ Prefix[l][x] < Prefix[m][x]
                                       /\ \A j \in 1 .. x - 1 : Prefix[l][j] = Prefix[m][j])
              <=> l < m
         /\ (\A x \in 1 .. PrefixLen : Prefix[l][x] = Prefix[m][x]) <=> l = m
<1> DEFINE p == Prefix[l]
           q == Prefix[m]
           Lower(f, g) == \E x \in 1 .. PrefixLen : f[x] < g[x] /\ \A j \in 1 .. x - 1 : f[j] = g[j]
<1>1. /\ p \in IdBytes /\ FromBytes(p) = l /\ l \in Nat /\ q \in IdBytes /\ FromBytes(q) = m /\ m \in Nat
      /\ \A i \in 1 .. PrefixLen : p[i] \in Nat /\ q[i] \in Nat
  BY IdFact, Sizes
<1> HIDE DEF p, q
<1>2. Lower(p, q) => l < m
  BY <1>1, FirstByteDecides
<1>3. Lower(q, p) => m < l
  BY <1>1, FirstByteDecides
<1>4. (\A x \in 1 .. PrefixLen : p[x] = q[x]) => l = m
  <2> DEFINE S == 1 .. PrefixLen
  <2>0. p \in [S -> Bytes] /\ q \in [S -> Bytes]
    BY <1>1 DEF IdBytes
  <2> HIDE DEF S
  <2>1. (\A x \in S : p[x] = q[x]) => p = q
    BY <2>0
  <2> USE DEF S
  <2> QED
    BY <1>1, <2>1
<1>5. Lower(p, q) \/ Lower(q, p) \/ \A x \in 1 .. PrefixLen : p[x] = q[x]
  <2> DEFINE B == {x \in 1 .. PrefixLen : p[x] # q[x]}
  <2>1. CASE B = {}
    BY <2>1
  <2>2. CASE B # {}
    <3>1. PICK x \in B : \A y \in B : x <= y
      <4>1. B \in SUBSET Nat
        BY Sizes
      <4> HIDE DEF B
      <4> QED
        BY <2>2, <4>1, LeastNumber
    <3>2. x \in 1 .. PrefixLen /\ p[x] # q[x] /\ p[x] \in Nat /\ q[x] \in Nat
      BY <1>1, <3>1
    <3>3. \A j \in 1 .. x - 1 : p[j] = q[j]
      <4>1. \A j \in 1 .. x - 1 : j \in 1 .. PrefixLen /\ ~(x <= j)
        BY <3>2, Sizes
      <4> QED
        BY <3>1, <4>1
    <3>4. p[x] < q[x] \/ q[x] < p[x]
      BY <3>2
    <3> QED
      BY <3>2, <3>3, <3>4
  <2> QED
    BY <2>1, <2>2
<1>6. l = m => p = q
  BY DEF p, q
<1>7. ~(l < m /\ m < l) /\ (l < m => l # m) /\ (m < l => l # m)
  BY <1>1
<1>8. Lower(p, q) <=> l < m
  BY <1>1, <1>2, <1>3, <1>4, <1>5, <1>7
<1>9. (\A x \in 1 .. PrefixLen : p[x] = q[x]) <=> l = m
  BY <1>4, <1>6
<1> QED
  BY <1>8, <1>9 DEF p, q

(* User keys are lists of bytes.                                           *)
LEMMA UserKeysAreLists == UserKeys \subseteq Seq(Bytes) /\ <<>> \in UserKeys
<1>1. ASSUME NEW k \in UserKeys PROVE k \in Seq(Bytes)
  <2>1. PICK n \in 0 .. MaxLen : k \in [1 .. n -> Bytes]
    BY DEF UserKeys
  <2>2. n \in Nat
    BY Sizes
  <2> QED
    BY <2>1, <2>2, IsASeq
<1>2. <<>> \in UserKeys
  <2>1. 0 \in 0 .. MaxLen /\ <<>> \in [1 .. 0 -> Bytes]
    BY Sizes
  <2> QED
    BY <2>1 DEF UserKeys
<1> QED
  BY <1>1, <1>2

(* An encoded key, byte by byte.                                           *)
LEMMA EncodeFact ==
  ASSUME NEW l \in LockerIds, NEW k \in Seq(Bytes)
  PROVE  /\ Encode(l, k) \in Seq(Bytes) /\ Encode(l, k) \in Seq(Nat) /\ k \in Seq(Nat)
         /\ Len(Encode(l, k)) = PrefixLen + Len(k)
         /\ \A i \in 1 .. PrefixLen : Encode(l, k)[i] = Prefix[l][i]
         /\ \A i \in 1 .. Len(k) : Encode(l, k)[PrefixLen + i] = k[i]
<1> DEFINE p == Prefix[l]
<1>1. p \in [1 .. PrefixLen -> Bytes] /\ PrefixLen \in Nat /\ Bytes \subseteq Nat
  BY IdFact, Sizes DEF IdBytes
<1> HIDE DEF p
<1>2. p \in Seq(Bytes) /\ Len(p) = PrefixLen
  BY <1>1, IsASeq
<1>3. /\ p \o k \in Seq(Bytes) /\ Len(p \o k) = PrefixLen + Len(k)
      /\ \A i \in 1 .. PrefixLen : (p \o k)[i] = p[i]
      /\ \A i \in 1 .. Len(k) : (p \o k)[PrefixLen + i] = k[i]
  <2>1. p \o k \in Seq(Bytes) /\ Len(p \o k) = Len(p) + Len(k)
    BY <1>2
  <2>2. \A i \in 1 .. Len(p) : (p \o k)[i] = p[i]
    BY <1>2
  <2>3. \A i \in 1 .. Len(k) : (p \o k)[Len(p) + i] = k[i]
    BY <1>2
  <2> QED
    BY <1>2, <2>1, <2>2, <2>3
<1>4. Seq(Bytes) \subseteq Seq(Nat)
  BY <1>1, SeqMonotonic
<1> QED
  BY <1>3, <1>4 DEF Encode, p

(* Encoded keys are in the order of their lockers, then of their keys.     *)
LEMMA EncodedOrder ==
  ASSUME NEW l \in LockerIds, NEW m \in LockerIds, NEW j \in Seq(Bytes), NEW k \in Seq(Bytes)
  PROVE  /\ Smaller(Encode(l, j), Encode(m, k)) <=> l < m \/ (l = m /\ Smaller(j, k))
         /\ Leads(Encode(l, j), Encode(m, k)) <=> l = m /\ Leads(j, k)
         /\ Encode(l, j) = Encode(m, k) <=> l = m /\ j = k
<1> DEFINE P == PrefixLen
           p == Prefix[l]
           q == Prefix[m]
           s == Encode(l, j)
           t == Encode(m, k)
<1>0. Len(s) = P + Len(j) /\ s \in Seq(Nat) /\ j \in Seq(Nat)
  BY EncodeFact
<1>10. Len(t) = P + Len(k) /\ t \in Seq(Nat) /\ k \in Seq(Nat)
  BY EncodeFact
<1>1. Len(s) = P + Len(j) /\ Len(t) = P + Len(k) /\ P \in Nat /\ Len(j) \in Nat /\ Len(k) \in Nat
  <2>1. Len(j) \in Nat /\ Len(k) \in Nat
    OBVIOUS
  <2> QED
    BY <1>0, <1>10, <2>1, Sizes, Zenon
<1>2. /\ \A i \in 1 .. P : s[i] = p[i]
      /\ \A i \in 1 .. P : t[i] = q[i]
      /\ \A i \in 1 .. Len(j) : s[P + i] = j[i]
      /\ \A i \in 1 .. Len(k) : t[P + i] = k[i]
  BY EncodeFact
<1>3. /\ (\E x \in 1 .. P : p[x] < q[x] /\ \A i \in 1 .. x - 1 : p[i] = q[i]) <=> l < m
      /\ (\A x \in 1 .. P : p[x] = q[x]) <=> l = m
      /\ l \in Nat /\ m \in Nat
  BY IdOrder, IdFact
<1> HIDE DEF P, p, q, s, t
<1>4. Smaller(s, t) => l < m \/ (l = m /\ Smaller(j, k))
  <2> SUFFICES ASSUME Smaller(s, t) PROVE l < m \/ (l = m /\ Smaller(j, k))
    OBVIOUS
  <2>1. PICK i \in 1 .. Len(t) : i <= Len(s) + 1 /\ (i <= Len(s) => s[i] < t[i])
                                 /\ \A x \in 1 .. i - 1 : s[x] = t[x]
    BY DEF Smaller
  <2>2. CASE i <= P
    <3>1. i \in 1 .. P /\ i <= Len(s) /\ \A x \in 1 .. i - 1 : x \in 1 .. P
      BY <1>1, <2>1, <2>2
    <3>2. p[i] < q[i] /\ \A x \in 1 .. i - 1 : p[x] = q[x]
      BY <1>2, <2>1, <3>1
    <3> QED
      BY <1>3, <3>1, <3>2
  <2>3. CASE P < i
    <3> DEFINE y == i - P
    <3>1. y \in 1 .. Len(k) /\ y <= Len(j) + 1 /\ P + y = i /\ (y <= Len(j) => i <= Len(s) /\ y \in 1 .. Len(j))
      BY <1>1, <2>1, <2>3
    <3>2. ASSUME NEW x \in 1 .. y - 1
          PROVE  P + x \in 1 .. i - 1 /\ x \in 1 .. Len(j) /\ x \in 1 .. Len(k)
      <4>1. i \in Nat /\ y \in Nat /\ i = P + y /\ x \in Nat /\ x >= 1 /\ x <= y - 1
        BY <1>1, <2>1, <2>3, <3>1
      <4> HIDE DEF y
      <4> QED
        BY <1>1, <3>1, <4>1
    <3>3. \A x \in 1 .. P : x \in 1 .. i - 1
      BY <1>1, <2>1, <2>3
    <3> HIDE DEF y
    <3>4. l = m
      BY <1>2, <1>3, <2>1, <3>3
    <3>5. y <= Len(j) => j[y] < k[y]
      BY <1>2, <2>1, <3>1
    <3>6. \A x \in 1 .. y - 1 : j[x] = k[x]
      BY <1>2, <2>1, <3>2
    <3>7. Smaller(j, k)
      BY <3>1, <3>5, <3>6 DEF Smaller
    <3> QED
      BY <3>4, <3>7
  <2> QED
    BY <1>1, <2>1, <2>2, <2>3
<1>5. l < m => Smaller(s, t)
  <2> SUFFICES ASSUME l < m PROVE Smaller(s, t)
    OBVIOUS
  <2>1. PICK x \in 1 .. P : p[x] < q[x] /\ \A i \in 1 .. x - 1 : p[i] = q[i]
    BY <1>3
  <2>2. x \in 1 .. Len(t) /\ x <= Len(s) + 1 /\ \A i \in 1 .. x - 1 : i \in 1 .. P
    BY <1>1, <2>1
  <2>3. s[x] < t[x] /\ \A i \in 1 .. x - 1 : s[i] = t[i]
    BY <1>2, <2>1, <2>2
  <2> QED
    BY <2>2, <2>3 DEF Smaller
<1>6. l = m /\ Smaller(j, k) => Smaller(s, t)
  <2> SUFFICES ASSUME l = m, Smaller(j, k) PROVE Smaller(s, t)
    OBVIOUS
  <2>1. PICK y \in 1 .. Len(k) : y <= Len(j) + 1 /\ (y <= Len(j) => j[y] < k[y])
                                 /\ \A x \in 1 .. y - 1 : j[x] = k[x]
    BY DEF Smaller
  <2> DEFINE i == P + y
  <2>2. i \in 1 .. Len(t) /\ i <= Len(s) + 1 /\ (i <= Len(s) => y \in 1 .. Len(j))
    BY <1>1, <2>1
  <2>3. i <= Len(s) => s[i] < t[i]
    BY <1>2, <2>1, <2>2
  <2>4. ASSUME NEW x \in 1 .. i - 1 PROVE s[x] = t[x]
    <3>1. CASE x \in 1 .. P
      BY <1>2, <1>3, <3>1
    <3>2. CASE x \notin 1 .. P
      <4>1. x - P \in 1 .. y - 1 /\ x - P \in 1 .. Len(j) /\ x - P \in 1 .. Len(k) /\ P + (x - P) = x
        BY <1>1, <2>1, <3>2
      <4>2. s[P + (x - P)] = j[x - P] /\ t[P + (x - P)] = k[x - P] /\ j[x - P] = k[x - P]
        BY <1>2, <2>1, <4>1
      <4> QED
        BY <4>1, <4>2
    <3> QED
      BY <3>1, <3>2
  <2> HIDE DEF i
  <2> QED
    BY <2>2, <2>3, <2>4 DEF Smaller
<1>7. Leads(s, t) => l = m /\ Leads(j, k)
  <2> SUFFICES ASSUME Leads(s, t) PROVE l = m /\ Leads(j, k)
    OBVIOUS
  <2>1. Len(j) <= Len(k) /\ \A x \in 1 .. P + Len(j) : s[x] = t[x]
    BY <1>1 DEF Leads
  <2>2. \A x \in 1 .. P : x \in 1 .. P + Len(j)
    BY <1>1
  <2>3. \A x \in 1 .. Len(j) : P + x \in 1 .. P + Len(j) /\ x \in 1 .. Len(k)
    BY <1>1, <2>1
  <2>4. l = m
    BY <1>2, <1>3, <2>1, <2>2
  <2>5. \A x \in 1 .. Len(j) : j[x] = k[x]
    BY <1>2, <2>1, <2>3
  <2> QED
    BY <2>1, <2>4, <2>5 DEF Leads
<1>8. l = m /\ Leads(j, k) => Leads(s, t)
  <2> SUFFICES ASSUME l = m, Leads(j, k) PROVE Leads(s, t)
    OBVIOUS
  <2>1. Len(s) <= Len(t) /\ Len(j) <= Len(k)
    BY <1>1 DEF Leads
  <2>2. ASSUME NEW x \in 1 .. Len(s) PROVE s[x] = t[x]
    <3>1. CASE x \in 1 .. P
      BY <1>2, <1>3, <3>1
    <3>2. CASE x \notin 1 .. P
      <4>1. x - P \in 1 .. Len(j) /\ x - P \in 1 .. Len(k) /\ P + (x - P) = x
        BY <1>1, <2>1, <3>2
      <4>2. s[P + (x - P)] = j[x - P] /\ t[P + (x - P)] = k[x - P] /\ j[x - P] = k[x - P]
        BY <1>2, <4>1 DEF Leads
      <4> QED
        BY <4>1, <4>2
    <3> QED
      BY <3>1, <3>2
  <2> QED
    BY <2>1, <2>2 DEF Leads
<1>9. s = t <=> l = m /\ j = k
  <2>1. s = t <=> Leads(s, t) /\ Len(s) = Len(t)
    BY <1>0, <1>10, PrefixIs
  <2>2. j = k <=> Leads(j, k) /\ Len(j) = Len(k)
    BY <1>0, <1>10, PrefixIs
  <2>3. Len(s) = Len(t) <=> Len(j) = Len(k)
    BY <1>1
  <2> QED
    BY <1>7, <1>8, <2>1, <2>2, <2>3
<1> QED
  BY <1>4, <1>5, <1>6, <1>7, <1>8, <1>9 DEF s, t

(* The same of Less, AtMost and IsPrefix.                                  *)
LEMMA EncodedLess ==
  ASSUME NEW l \in LockerIds, NEW m \in LockerIds, NEW j \in Seq(Bytes), NEW k \in Seq(Bytes)
  PROVE  /\ Less(Encode(l, j), Encode(m, k)) <=> l < m \/ (l = m /\ Less(j, k))
         /\ AtMost(Encode(l, j), Encode(m, k)) <=> l < m \/ (l = m /\ AtMost(j, k))
         /\ IsPrefix(Encode(l, j), Encode(m, k)) <=> l = m /\ IsPrefix(j, k)
<1>1. /\ Encode(l, j) \in Seq(Nat) /\ Encode(m, k) \in Seq(Nat)
      /\ j \in Seq(Nat) /\ k \in Seq(Nat) /\ l \in Nat /\ m \in Nat
  BY EncodeFact, IdFact
<1> QED
  BY <1>1, EncodedOrder, LessIs, PrefixIs DEF AtMost

(* decode_bytes undoes encode_bytes for its own locker, and only for it.   *)
LEMMA DecodeFact ==
  ASSUME NEW l \in LockerIds, NEW m \in LockerIds, NEW j \in Seq(Bytes)
  PROVE  Decode(m, Encode(l, j)) = IF l = m THEN {j} ELSE {}
<1> DEFINE s == Encode(l, j)
           p == Prefix[l]
           P == PrefixLen
           head == SubSeq(s, 1, P)
           tail == SubSeq(s, P + 1, Len(s))
<1>1. /\ s \in Seq(Bytes) /\ Len(s) = P + Len(j) /\ P \in Nat /\ Len(j) \in Nat
      /\ \A i \in 1 .. P : s[i] = p[i]
      /\ \A i \in 1 .. Len(j) : s[P + i] = j[i]
  <2>1. Len(j) \in Nat
    OBVIOUS
  <2> QED
    BY <2>1, EncodeFact, Sizes, Zenon
<1>2. p \in [1 .. P -> Bytes] /\ FromBytes(p) = l
  BY IdFact DEF IdBytes
<1> HIDE DEF s, p, P
<1>3. head = p
  <2>1. 1 \in Nat \ {0} /\ P \in 0 .. Len(s) /\ 1 <= P + 1 /\ P - (1 - 1) = P
        /\ \A i \in 1 .. P : (1 - 1) + i = i
    BY <1>1
  <2>2. head \in Seq(Bytes) /\ Len(head) = P /\ \A i \in 1 .. P : head[i] = s[i]
    BY <1>1, <2>1, PartOf
  <2> HIDE DEF head
  <2>3. p \in Seq(Bytes) /\ Len(p) = P
    BY <1>1, <1>2, IsASeq
  <2>4. \A i \in 1 .. P : head[i] = p[i]
    BY <1>1, <2>2
  <2> QED
    BY <2>2, <2>3, <2>4, SeqEqual
<1>4. tail = j
  <2>1. P + 1 \in Nat \ {0} /\ Len(s) \in 0 .. Len(s) /\ P + 1 <= Len(s) + 1
        /\ Len(s) - ((P + 1) - 1) = Len(j) /\ \A i \in 1 .. Len(j) : ((P + 1) - 1) + i = P + i
    BY <1>1
  <2>2. tail \in Seq(Bytes) /\ Len(tail) = Len(j) /\ \A i \in 1 .. Len(j) : tail[i] = s[P + i]
    BY <1>1, <2>1, PartOf
  <2> HIDE DEF tail
  <2>3. \A i \in 1 .. Len(j) : tail[i] = j[i]
    BY <1>1, <2>2
  <2> QED
    BY <2>2, <2>3, SeqEqual
<1>5. Len(s) >= P
  BY <1>1
<1>6. Decode(m, s) = IF l = m THEN {tail} ELSE {}
  <2>1. {x \in {s} : Len(x) >= P /\ FromBytes(SubSeq(x, 1, P)) = m} = IF l = m THEN {s} ELSE {}
    BY <1>2, <1>3, <1>5
  <2> QED
    BY <2>1 DEF Decode, P
<1> QED
  BY <1>4, <1>6 DEF s

-----------------------------------------------------------------------------
(* Ranges of encoded keys.                                                 *)

(* A key is before the successor of a prefix if it is before the prefix    *)
(* or begins with it.                                                      *)
LEMMA SuccessorFact ==
  ASSUME NEW w \in Seq(Bytes), NEW s \in Seq(Bytes)
  PROVE  BeforeEnd(s, Successor(w)) <=> Smaller(s, w) \/ Leads(w, s)
<1> DEFINE m == Len(w)
           n == Len(s)
           J == {x \in 1 .. m : w[x] # Top}
           i == SelectLastInSeq(w, LAMBDA b : b # Top)
           u == Append(SubSeq(w, 1, i - 1), w[i] + 1)
<1>1. /\ m \in Nat /\ n \in Nat /\ Top \in Nat
      /\ \A x \in 1 .. m : w[x] \in Nat /\ w[x] <= Top
      /\ \A x \in 1 .. n : s[x] \in Nat /\ s[x] <= Top
  <2>1. m \in Nat /\ n \in Nat /\ (\A x \in 1 .. m : w[x] \in Bytes) /\ \A x \in 1 .. n : s[x] \in Bytes
    OBVIOUS
  <2>2. \A b \in Bytes : b \in Nat /\ b <= Top
    BY Sizes DEF Bytes
  <2> QED
    BY <2>1, <2>2, Sizes, Zenon
<1>2. w \in Seq(Nat) /\ s \in Seq(Nat)
  BY Sizes, SeqMonotonic
<1>3. /\ i \in 0 .. m
      /\ \/ i = 0 /\ J = {}
         \/ i # 0 /\ i \in 1 .. m /\ i \in J /\ \A j \in 1 .. m : j > i => j \notin J
  <2>1. i = IF J # {} THEN Max(J) ELSE 0
    BY Zenon DEF SelectLastInSeq
  <2>2. J \subseteq 1 .. m
    OBVIOUS
  <2> HIDE DEF i, J
  <2> QED
    BY <1>1, <2>1, <2>2, LastPlace
<1>4. Successor(w) = IF i = 0 THEN Unbounded ELSE Excluded(u)
  BY Zenon DEF Successor
<1> HIDE DEF i
<1>5. \/ Leads(w, s) \/ Smaller(s, w)
      \/ \E x \in 1 .. m : x <= n /\ w[x] < s[x] /\ \A j \in 1 .. x - 1 : s[j] = w[j]
  BY <1>2, ListsPart
<1>6. CASE i = 0
  <2>1. BeforeEnd(s, Successor(w))
    BY <1>4, <1>6 DEF BeforeEnd, Unbounded
  <2>2. ~ \E x \in 1 .. m : x <= n /\ w[x] < s[x]
    <3> SUFFICES ASSUME NEW x \in 1 .. m, x <= n, w[x] < s[x] PROVE FALSE
      OBVIOUS
    <3>1. w[x] = Top
      BY <1>3, <1>6
    <3>2. s[x] <= Top /\ s[x] \in Nat
      BY <1>1
    <3> QED
      BY <1>1, <3>1, <3>2
  <2> QED
    BY <1>5, <2>1, <2>2
<1>7. CASE i # 0
  <2>1. i \in 1 .. m /\ w[i] # Top /\ \A j \in 1 .. m : j > i => w[j] = Top
    BY <1>3, <1>7
  <2>2. /\ u \in Seq(Nat) /\ Len(u) = i /\ u[i] = w[i] + 1
        /\ \A x \in 1 .. i - 1 : u[x] = w[x]
    <3> DEFINE v == SubSeq(w, 1, i - 1)
    <3>1. 1 \in Nat \ {0} /\ i - 1 \in 0 .. m /\ 1 <= (i - 1) + 1 /\ (i - 1) - (1 - 1) = i - 1
          /\ \A x \in 1 .. i - 1 : (1 - 1) + x = x
      BY <1>1, <2>1
    <3>2. v \in Seq(Nat) /\ Len(v) = i - 1 /\ \A x \in 1 .. i - 1 : v[x] = w[x]
      BY <1>2, <3>1, PartOf
    <3>3. w[i] + 1 \in Nat
      BY <1>1, <2>1
    <3> HIDE DEF v
    <3> DEFINE y == w[i] + 1
    <3>4. y \in Nat
      BY <3>3
    <3> HIDE DEF y
    <3>5. /\ Append(v, y) \in Seq(Nat) /\ Len(Append(v, y)) = Len(v) + 1
          /\ \A x \in 1 .. Len(v) : Append(v, y)[x] = v[x]
          /\ Append(v, y)[Len(v) + 1] = y
      BY <3>2, <3>4, AppendProperties
    <3>6. Len(v) + 1 = i
      BY <1>1, <2>1, <3>2
    <3> QED
      BY <3>2, <3>5, <3>6 DEF v, y
  <2> HIDE DEF u, J, m, n
  <2>3. BeforeEnd(s, Successor(w)) <=> Smaller(s, u)
    BY <1>2, <1>4, <1>7, <2>2, LessIs DEF BeforeEnd, Excluded
  <2>4. ASSUME Leads(w, s) PROVE Smaller(s, u)
    <3>1. m <= n /\ \A j \in 1 .. m : w[j] = s[j]
      BY <2>4 DEF Leads, m, n
    <3>2. i \in 1 .. Len(u) /\ i <= n + 1 /\ \A j \in 1 .. i - 1 : j \in 1 .. m
      BY <1>1, <2>1, <2>2, <3>1
    <3>3. s[i] < u[i]
      BY <1>1, <2>1, <2>2, <3>1
    <3>4. \A j \in 1 .. i - 1 : s[j] = u[j]
      BY <2>2, <3>1, <3>2
    <3> QED
      BY <3>2, <3>3, <3>4 DEF Smaller, n
  <2>5. ASSUME Smaller(s, w) PROVE Smaller(s, u)
    <3>1. PICK x \in 1 .. m : x <= n + 1 /\ (x <= n => s[x] < w[x]) /\ \A j \in 1 .. x - 1 : s[j] = w[j]
      BY <2>5 DEF Smaller, m, n
    <3>2. CASE x <= i
      <4>1. x \in 1 .. Len(u) /\ \A j \in 1 .. x - 1 : j \in 1 .. i - 1
        BY <1>1, <2>1, <2>2, <3>1, <3>2
      <4>2. x <= n => s[x] < u[x]
        <5> HAVE x <= n
        <5>1. s[x] < w[x] /\ x \in 1 .. n /\ s[x] \in Nat /\ w[x] \in Nat
          BY <1>1, <3>1
        <5>2. x = i \/ x \in 1 .. i - 1
          BY <1>1, <2>1, <3>1, <3>2
        <5> QED
          BY <2>2, <5>1, <5>2
      <4>3. \A j \in 1 .. x - 1 : s[j] = u[j]
        BY <2>2, <3>1, <4>1
      <4> QED
        BY <3>1, <4>1, <4>2, <4>3 DEF Smaller, n
    <3>3. CASE i < x
      <4>1. i \in 1 .. Len(u) /\ i <= n + 1 /\ i \in 1 .. x - 1 /\ \A j \in 1 .. i - 1 : j \in 1 .. x - 1
        BY <1>1, <2>1, <2>2, <3>1, <3>3
      <4>2. s[i] = w[i] /\ w[i] \in Nat
        BY <1>1, <2>1, <3>1, <4>1
      <4>3. s[i] < u[i]
        BY <2>2, <4>2
      <4>4. \A j \in 1 .. i - 1 : s[j] = u[j]
        BY <2>2, <3>1, <4>1
      <4> QED
        BY <4>1, <4>3, <4>4 DEF Smaller, n
    <3> QED
      BY <1>1, <2>1, <3>1, <3>2, <3>3
  <2>6. ASSUME NEW x \in 1 .. m, x <= n, w[x] < s[x], \A j \in 1 .. x - 1 : s[j] = w[j], Smaller(s, u)
        PROVE  FALSE
    <3>1. PICK y \in 1 .. i : y <= n + 1 /\ (y <= n => s[y] < u[y]) /\ \A j \in 1 .. y - 1 : s[j] = u[j]
      BY <2>2, <2>6 DEF Smaller, n
    <3>2. x \in 1 .. n /\ s[x] \in Nat /\ w[x] \in Nat /\ s[x] <= Top
      BY <1>1, <2>6
    <3>3. x <= i
      BY <1>1, <2>1, <2>6, <3>2
    <3>4. s[x] >= u[x] /\ u[x] \in Nat
      <4>1. x = i \/ x \in 1 .. i - 1
        BY <1>1, <2>1, <2>6, <3>3
      <4>2. ASSUME x = i PROVE s[x] >= u[x] /\ u[x] \in Nat
        <5>1. u[x] = w[x] + 1
          BY <2>2, <4>2
        <5>2. w[x] < s[x]
          BY <2>6
        <5> QED
          BY <3>2, <5>1, <5>2
      <4>3. ASSUME x \in 1 .. i - 1 PROVE s[x] >= u[x] /\ u[x] \in Nat
        <5>1. u[x] = w[x]
          BY <2>2, <4>3
        <5>2. w[x] < s[x]
          BY <2>6
        <5> QED
          BY <3>2, <5>1, <5>2
      <4> QED
        BY <4>1, <4>2, <4>3
    <3>5. CASE y < x
      <4>1. y \in 1 .. x - 1 /\ y \in 1 .. n /\ y <= n /\ y \in 1 .. i - 1
        BY <1>1, <2>1, <2>6, <3>1, <3>3, <3>5
      <4>2. s[y] = u[y] /\ s[y] \in Nat
        BY <1>1, <2>2, <2>6, <4>1
      <4> QED
        BY <3>1, <4>1, <4>2
    <3>6. CASE y = x
      BY <2>6, <3>1, <3>2, <3>4, <3>6
    <3>7. CASE x < y
      <4>1. x \in 1 .. y - 1 /\ x \in 1 .. i - 1
        BY <1>1, <2>1, <2>6, <3>1, <3>7
      <4>2. s[x] = u[x] /\ u[x] = w[x]
        BY <2>2, <3>1, <4>1
      <4> QED
        BY <2>6, <3>2, <4>2
    <3> QED
      BY <1>1, <2>1, <2>6, <3>1, <3>5, <3>6, <3>7
  <2> QED
    BY <1>5, <2>3, <2>4, <2>5, <2>6 DEF m, n
<1> QED
  BY <1>6, <1>7

(* The edges of a locker are those of the prefix that its empty key has.   *)
LEMMA LockerEdges ==
  ASSUME NEW l \in LockerIds
  PROVE  LockerRange(l) = [start |-> Included(Encode(l, <<>>)), end |-> Successor(Encode(l, <<>>))]
<1>1. Prefix[l] \in Seq(Bytes)
  <2>1. Prefix[l] \in [1 .. PrefixLen -> Bytes] /\ PrefixLen \in Nat
    BY IdFact, Sizes DEF IdBytes
  <2> QED
    BY <2>1, IsASeq
<1>2. Prefix[l] \o <<>> = Prefix[l]
  BY <1>1, ConcatEmptySeq
<1> QED
  BY <1>2 DEF LockerRange, WithPrefix, Encode

(* Where a key is, relative to the bounds of a range of a locker.          *)
LEMMA StartFact ==
  ASSUME NEW l \in LockerIds, NEW m \in LockerIds, NEW k \in Seq(Bytes), NEW b \in UserBounds,
         NEW j \in Seq(Bytes), j = b.key
  PROVE  AfterStart(Encode(m, k), EncodeBound(l, b, LockerRange(l).start))
           <=> l < m \/ (l = m /\ AfterStart(k, b))
<1> DEFINE s == Encode(m, k)
<1>0. <<>> \in Seq(Bytes) /\ k \in Seq(Nat) /\ <<>> \in Seq(Nat) /\ Len(k) \in Nat
  <2>1. <<>> \in Seq(Bytes) /\ <<>> \in Seq(Nat) /\ Len(k) \in Nat
    OBVIOUS
  <2> QED
    BY <2>1, EncodeFact
<1>1. CASE b.kind = "unbounded"
  <2>1. EncodeBound(l, b, LockerRange(l).start) = Included(Encode(l, <<>>))
    BY <1>1, LockerEdges DEF EncodeBound
  <2>2. AfterStart(s, Included(Encode(l, <<>>))) <=> AtMost(Encode(l, <<>>), s)
    BY DEF AfterStart, Included
  <2>3. AtMost(<<>>, k)
    <3>1. Leads(<<>>, k)
      BY <1>0 DEF Leads
    <3>2. <<>> = k \/ Len(<<>>) < Len(k)
      BY <1>0, PrefixIs, <3>1
    <3> QED
      BY <1>0, <3>1, <3>2, PrefixIs DEF AtMost, Less
  <2>4. AfterStart(k, b)
    BY <1>1 DEF AfterStart
  <2> QED
    BY <1>0, <2>1, <2>2, <2>3, <2>4, EncodedLess
<1>2. CASE b.kind = "included" \/ b.kind = "excluded"
  <2>1. EncodeBound(l, b, LockerRange(l).start) = [b EXCEPT !.key = Encode(l, j)]
    BY <1>2 DEF EncodeBound
  <2>2. [b EXCEPT !.key = Encode(l, j)].kind = b.kind /\ [b EXCEPT !.key = Encode(l, j)].key = Encode(l, j)
    BY DEF UserBounds, Unbounded
  <2> HIDE DEF s
  <2>3. CASE b.kind = "included"
    <3>1. AfterStart(s, EncodeBound(l, b, LockerRange(l).start)) <=> AtMost(Encode(l, j), s)
      BY <2>1, <2>2, <2>3 DEF AfterStart
    <3>2. AfterStart(k, b) <=> AtMost(j, k)
      BY <2>3 DEF AfterStart
    <3> QED
      BY <3>1, <3>2, EncodedLess DEF s
  <2>4. CASE b.kind = "excluded"
    <3>1. AfterStart(s, EncodeBound(l, b, LockerRange(l).start)) <=> Less(Encode(l, j), s)
      BY <2>1, <2>2, <2>4 DEF AfterStart
    <3>2. AfterStart(k, b) <=> Less(j, k)
      BY <2>4 DEF AfterStart
    <3> QED
      BY <3>1, <3>2, EncodedLess DEF s
  <2> QED
    BY <1>2, <2>3, <2>4
<1> QED
  BY <1>1, <1>2 DEF UserBounds, Unbounded

LEMMA EndFact ==
  ASSUME NEW l \in LockerIds, NEW m \in LockerIds, NEW k \in Seq(Bytes), NEW b \in UserBounds,
         NEW j \in Seq(Bytes), j = b.key
  PROVE  BeforeEnd(Encode(m, k), EncodeBound(l, b, LockerRange(l).end))
           <=> m < l \/ (l = m /\ BeforeEnd(k, b))
<1> DEFINE s == Encode(m, k)
<1>0. <<>> \in Seq(Bytes) /\ k \in Seq(Nat) /\ <<>> \in Seq(Nat) /\ Len(k) \in Nat
  <2>1. <<>> \in Seq(Bytes) /\ <<>> \in Seq(Nat) /\ Len(k) \in Nat
    OBVIOUS
  <2> QED
    BY <2>1, EncodeFact
<1>1. CASE b.kind = "unbounded"
  <2>1. EncodeBound(l, b, LockerRange(l).end) = Successor(Encode(l, <<>>))
    BY <1>1, LockerEdges DEF EncodeBound
  <2>2. BeforeEnd(s, Successor(Encode(l, <<>>)))
          <=> Smaller(s, Encode(l, <<>>)) \/ Leads(Encode(l, <<>>), s)
    BY <1>0, EncodeFact, SuccessorFact
  <2>3. Leads(<<>>, k) /\ ~Smaller(k, <<>>)
    BY <1>0 DEF Leads, Smaller
  <2>4. BeforeEnd(k, b)
    BY <1>1 DEF BeforeEnd
  <2> QED
    BY <1>0, <2>1, <2>2, <2>3, <2>4, EncodedOrder
<1>2. CASE b.kind = "included" \/ b.kind = "excluded"
  <2>1. EncodeBound(l, b, LockerRange(l).end) = [b EXCEPT !.key = Encode(l, j)]
    BY <1>2 DEF EncodeBound
  <2>2. [b EXCEPT !.key = Encode(l, j)].kind = b.kind /\ [b EXCEPT !.key = Encode(l, j)].key = Encode(l, j)
    BY DEF UserBounds, Unbounded
  <2> HIDE DEF s
  <2>3. CASE b.kind = "included"
    <3>1. BeforeEnd(s, EncodeBound(l, b, LockerRange(l).end)) <=> AtMost(s, Encode(l, j))
      BY <2>1, <2>2, <2>3 DEF BeforeEnd
    <3>2. BeforeEnd(k, b) <=> AtMost(k, j)
      BY <2>3 DEF BeforeEnd
    <3> QED
      BY <3>1, <3>2, EncodedLess DEF s
  <2>4. CASE b.kind = "excluded"
    <3>1. BeforeEnd(s, EncodeBound(l, b, LockerRange(l).end)) <=> Less(s, Encode(l, j))
      BY <2>1, <2>2, <2>4 DEF BeforeEnd
    <3>2. BeforeEnd(k, b) <=> Less(k, j)
      BY <2>4 DEF BeforeEnd
    <3> QED
      BY <3>1, <3>2, EncodedLess DEF s
  <2> QED
    BY <1>2, <2>3, <2>4
<1> QED
  BY <1>1, <1>2 DEF UserBounds, Unbounded

(* The three parts of RangesStayInside.                                    *)
LEMMA KeysInOrder == KeysKeepOrder
<1> SUFFICES ASSUME NEW l \in LockerIds, NEW m \in LockerIds, NEW j \in UserKeys, NEW k \in UserKeys
             PROVE  /\ Less(Encode(l, j), Encode(m, k)) <=> l < m \/ (l = m /\ Less(j, k))
                    /\ Decode(m, Encode(l, j)) = IF l = m THEN {j} ELSE {}
  BY DEF KeysKeepOrder
<1>1. j \in Seq(Bytes) /\ k \in Seq(Bytes)
  BY UserKeysAreLists
<1> QED
  BY <1>1, EncodedLess, DecodeFact

LEMMA PrefixesInside == PrefixesStayInside
<1> SUFFICES ASSUME NEW l \in LockerIds, NEW m \in LockerIds, NEW p \in UserKeys, NEW k \in UserKeys
             PROVE  InKeyRange(PrefixRange(l, p), Encode(m, k)) <=> l = m /\ IsPrefix(p, k)
  BY DEF PrefixesStayInside
<1> DEFINE w == Encode(l, p)
           s == Encode(m, k)
<1>1. p \in Seq(Bytes) /\ k \in Seq(Bytes)
  BY UserKeysAreLists
<1>2. w \in Seq(Bytes) /\ s \in Seq(Bytes) /\ w \in Seq(Nat) /\ s \in Seq(Nat)
  BY <1>1, EncodeFact
<1>3. IsPrefix(w, s) <=> l = m /\ IsPrefix(p, k)
  BY <1>1, EncodedLess
<1> HIDE DEF w, s
<1>4. InKeyRange(WithPrefix(w), s) <=> AtMost(w, s) /\ BeforeEnd(s, Successor(w))
  BY DEF InKeyRange, WithPrefix, AfterStart, Included
<1>5. AtMost(w, s) <=> w = s \/ Smaller(w, s)
  BY <1>2, LessIs DEF AtMost
<1>6. Leads(w, s) => AtMost(w, s)
  <2>1. Len(w) \in Nat /\ Len(s) \in Nat
    BY <1>2
  <2>2. Leads(w, s) => Leads(w, s) /\ (Len(w) = Len(s) \/ Len(w) < Len(s))
    BY <2>1 DEF Leads
  <2> QED
    BY <1>2, <2>2, PrefixIs DEF AtMost, Less
<1>7. ~(AtMost(w, s) /\ Smaller(s, w))
  BY <1>2, <1>5, SmallerOneWay
<1>8. InKeyRange(WithPrefix(w), s) <=> IsPrefix(w, s)
  BY <1>2, <1>4, <1>6, <1>7, SuccessorFact, PrefixIs
<1> QED
  BY <1>3, <1>8 DEF PrefixRange, w, s

LEMMA BoundsInside == \A startKind, endKind : StaysInside(startKind, endKind)
<1> SUFFICES ASSUME NEW startKind, NEW endKind,
                    NEW s \in UserBounds, NEW e \in UserBounds,
                    NEW l \in LockerIds, NEW m \in LockerIds, NEW k \in UserKeys
             PROVE  InKeyRange(EncodeRange(l, s, e), Encode(m, k))
                      <=> l = m /\ InKeyRange([start |-> s, end |-> e], k)
  BY DEF StaysInside
<1>1. k \in Seq(Bytes) /\ s.key \in Seq(Bytes) /\ e.key \in Seq(Bytes)
  BY UserKeysAreLists DEF UserBounds, Unbounded
<1>2. l \in Nat /\ m \in Nat
  BY IdFact
<1>3. AfterStart(Encode(m, k), EncodeRange(l, s, e).start) <=> l < m \/ (l = m /\ AfterStart(k, s))
  BY <1>1, StartFact DEF EncodeRange
<1>4. BeforeEnd(Encode(m, k), EncodeRange(l, s, e).end) <=> m < l \/ (l = m /\ BeforeEnd(k, e))
  BY <1>1, EndFact DEF EncodeRange
<1>5. ~(l < m /\ m < l) /\ ~(l < m /\ l = m) /\ ~(m < l /\ l = m)
  BY <1>2
<1> QED
  BY <1>3, <1>4, <1>5 DEF InKeyRange

-----------------------------------------------------------------------------
(* Sealed values.                                                          *)

Filters == {"lz4", "crc32"}
Bodies == [layers : Seq(Filters), intact : BOOLEAN]
Answers == SUBSET (Failures \cup Bodies)

(* A fold over a chain's filters, as the values it goes through: of        *)
(* sealing, and of opening with the filters in the order r.                *)
Sealing(v, f) == /\ v \in [0 .. Len(f) -> Bodies]
                 /\ v[0] = Payload
                 /\ \A i \in 1 .. Len(f) : v[i] = Forward(v[i - 1], f[i])
Opened(r, answers) == UNION {IF a \in Failures THEN {a} ELSE Undone(r, a) : a \in answers}
Opening(u, r, body) == /\ u \in [0 .. Len(r) -> Answers]
                       /\ u[0] = {body}
                       /\ \A i \in 1 .. Len(r) : u[i] = Opened(r[i], u[i - 1])

LEMMA ForwardStays ==
  ASSUME NEW b \in Bodies, NEW f \in Filters
  PROVE  /\ Forward(b, f) \in Bodies
         /\ Forward(b, f).intact = b.intact /\ Forward(b, f).layers = <<f>> \o b.layers
<1>1. Forward(b, f) = [layers |-> <<f>> \o b.layers, intact |-> b.intact]
  <2>1. b = [layers |-> b.layers, intact |-> b.intact]
    BY DEF Bodies
  <2>2. Forward(b, f) = [b EXCEPT !.layers = <<f>> \o b.layers]
    BY Zenon DEF Forward
  <2> QED
    BY <2>1, <2>2
<1>2. b.layers \in Seq(Filters) /\ b.intact \in BOOLEAN
  BY DEF Bodies
<1>3. <<f>> \o b.layers \in Seq(Filters)
  BY <1>2
<1> QED
  BY <1>1, <1>2, <1>3 DEF Bodies

LEMMA UndoneStays ==
  ASSUME NEW b \in Bodies, NEW f \in Filters
  PROVE  Undone(f, b) \in Answers
<1>1. b.layers \in Seq(Filters) /\ b.intact \in BOOLEAN
  BY DEF Bodies
<1>2. CASE b.intact /\ b.layers # <<>> /\ Head(b.layers) = f
  <2>1. Undone(f, b) = {[layers |-> Tail(b.layers), intact |-> b.intact]}
    <3>1. b = [layers |-> b.layers, intact |-> b.intact]
      BY DEF Bodies
    <3>2. Undone(f, b) = {[b EXCEPT !.layers = Tail(b.layers)]}
      BY <1>2, Zenon DEF Undone
    <3> QED
      BY <3>1, <3>2
  <2>2. Tail(b.layers) \in Seq(Filters)
    BY <1>1, <1>2
  <2> QED
    BY <1>1, <2>1, <2>2 DEF Answers, Bodies
<1>3. CASE ~(b.intact /\ b.layers # <<>> /\ Head(b.layers) = f)
  <2>1. Undone(f, b) \subseteq Fails("Corrupt") \cup {Garbage}
    BY <1>3 DEF Undone
  <2>2. Garbage \in Bodies /\ Fails("Corrupt") \subseteq Failures
    BY DEF Garbage, Bodies, Fails, Failures
  <2> QED
    BY <2>1, <2>2 DEF Answers
<1> QED
  BY <1>2, <1>3

LEMMA OpenedStays ==
  ASSUME NEW A \in Answers, NEW f \in Filters
  PROVE  Opened(f, A) \in Answers
<1>1. ASSUME NEW a \in A PROVE (IF a \in Failures THEN {a} ELSE Undone(f, a)) \in Answers
  <2>1. CASE a \in Failures
    BY <2>1 DEF Answers
  <2>2. CASE a \notin Failures
    <3>1. a \in Bodies
      BY <2>2 DEF Answers
    <3> QED
      BY <2>2, <3>1, UndoneStays
  <2> QED
    BY <2>1, <2>2
<1> QED
  BY <1>1 DEF Opened, Answers

(* The first places of a list. *)
LEMMA FirstPlaces ==
  ASSUME NEW n \in Nat, NEW i \in 1 .. n
  PROVE  1 .. i # {} /\ 1 .. i \in SUBSET (1 .. n) /\ i \in 1 .. i /\ \A x \in 1 .. i : x <= i
<1>1. i \in 1 .. i /\ \A x \in 1 .. i : x <= i
  OBVIOUS
<1>2. 1 .. i \subseteq 1 .. n
  OBVIOUS
<1> QED
  BY <1>1, <1>2

(* Sealing and opening go through such values.                             *)
LEMMA SealingGoes ==
  ASSUME NEW f \in Seq(Filters)
  PROVE  \E v : Sealing(v, f) /\ FoldLeft(Forward, Payload, f) = v[Len(f)]
<1> DEFINE n == Len(f)
           D == 1 .. n
           Rec(e) == e = [s \in SUBSET D |->
                            IF s = {} THEN Payload ELSE Forward(e[s \ {Max(s)}], f[Max(s)])]
           h == CHOOSE e : Rec(e)
           pick == [s \in SUBSET D |-> Max(s)]
           st == [x \in D \X Bodies |-> Forward(x[2], f[x[1]])]
<1>0. /\ n \in Nat /\ IsFiniteSet(D) /\ DOMAIN f = D /\ \A i \in D : f[i] \in Filters
      /\ Payload \in Bodies
      /\ \A s \in SUBSET D : s # {} => Max(s) \in s
  <2>1. n \in Nat /\ IsFiniteSet(D) /\ DOMAIN f = D /\ \A i \in D : f[i] \in Filters
    BY FS_Interval
  <2>2. Payload \in Bodies
    <3>1. <<>> \in Seq(Filters)
      OBVIOUS
    <3> QED
      BY <3>1 DEF Payload, Bodies
  <2>3. ASSUME NEW s \in SUBSET D, s # {} PROVE Max(s) \in s
    <3> HIDE DEF n
    <3> QED
      BY <2>3, <2>1, PlacesFact, MaxFact
  <2> QED
    BY <2>1, <2>2, <2>3
<1>1. Picks(pick, D)
  BY <1>0 DEF Picks
<1>2. Steps(st, D, Bodies)
  <2>1. ASSUME NEW x \in D \X Bodies PROVE st[x] \in Bodies
    <3>1. x[2] \in Bodies /\ f[x[1]] \in Filters /\ st[x] = Forward(x[2], f[x[1]])
      BY <1>0
    <3> QED
      BY <3>1, ForwardStays
  <2>2. st = [x \in D \X Bodies |-> st[x]]
    OBVIOUS
  <2> HIDE DEF st
  <2> QED
    BY <2>1, <2>2 DEF Steps
<1> HIDE DEF D, n
<1>3. PICK g : Recursive(g, D, Bodies, Payload, pick, st)
  <2> HIDE DEF pick, st
  <2> QED
    BY <1>0, <1>1, <1>2, SetRecursion
<1>4. Rec(g)
  <2>1. g \in [SUBSET D -> Bodies]
    BY <1>3 DEF Recursive
  <2>2. ASSUME NEW s \in SUBSET D
        PROVE  g[s] = IF s = {} THEN Payload ELSE Forward(g[s \ {Max(s)}], f[Max(s)])
    <3>1. CASE s = {}
      BY <1>3, <3>1 DEF Recursive
    <3>2. CASE s # {}
      <4> DEFINE m == Max(s)
      <4>1. m \in D /\ pick[s] = m
        BY <1>0, <3>2
      <4> HIDE DEF m
      <4>2. g[s \ {m}] \in Bodies
        BY <2>1
      <4>3. g[s] = st[<<m, g[s \ {m}]>>]
        BY <1>3, <3>2, <4>1 DEF Recursive
      <4>4. g[s] = Forward(g[s \ {m}], f[m])
        BY <4>1, <4>2, <4>3
      <4> QED
        BY <3>2, <4>4 DEF m
    <3> QED
      BY <3>1, <3>2
  <2>3. g = [s \in SUBSET D |-> g[s]]
    BY <2>1
  <2> QED
    BY <2>2, <2>3, Zenon
<1>5. Rec(h)
  BY <1>4
<1>6. FoldLeft(Forward, Payload, f) = h[D]
  BY <1>0, Zenon DEF FoldLeft, MapThenFoldSet
<1>7. \A s \in SUBSET D : h[s] = IF s = {} THEN Payload ELSE Forward(h[s \ {Max(s)}], f[Max(s)])
  <2> HIDE DEF h
  <2> QED
    BY <1>5
<1> HIDE DEF h
<1> DEFINE v == [i \in 0 .. n |-> h[1 .. i]]
<1>8. v[0] = Payload /\ \A i \in 1 .. n : v[i] = Forward(v[i - 1], f[i])
  <2>1. v[0] = Payload
    <3>1. 1 .. 0 = {} /\ {} \in SUBSET D /\ 0 \in 0 .. n
      BY <1>0
    <3> QED
      BY <1>7, <3>1
  <2>2. ASSUME NEW i \in 1 .. n PROVE v[i] = Forward(v[i - 1], f[i])
    <3> DEFINE s == 1 .. i
    <3>1. s # {} /\ s \in SUBSET D /\ i \in s /\ \A x \in s : x <= i
      <4>1. n \in Nat
        BY <1>0
      <4> QED
        BY <4>1, FirstPlaces DEF D
    <3>2. i \in Nat /\ s \subseteq Nat /\ IsFiniteSet(s)
      BY <3>1, <1>0, PlacesFact
    <3>3. s \ {i} = 1 .. i - 1 /\ i \in 0 .. n /\ i - 1 \in 0 .. n
      BY <1>0
    <3>4. v[i] = h[s] /\ v[i - 1] = h[1 .. i - 1]
      BY <3>3
    <3> HIDE DEF s, v
    <3>5. Max(s) = i
      BY <3>1, <3>2, MaxIs
    <3> QED
      BY <1>7, <3>1, <3>3, <3>4, <3>5
  <2> QED
    BY <2>1, <2>2
<1>9. v[n] = h[D] /\ v = [i \in 0 .. n |-> v[i]]
  BY <1>0 DEF D
<1> HIDE DEF v
<1>10. \A i \in 0 .. n : v[i] \in Bodies
  <2> DEFINE B == {i \in 0 .. n : v[i] \notin Bodies}
  <2>1. B = {}
    <3> SUFFICES ASSUME B # {} PROVE FALSE
      OBVIOUS
    <3>1. PICK i \in B : \A j \in B : i <= j
      <4>1. B \in SUBSET Nat
        BY <1>0
      <4> HIDE DEF B
      <4> QED
        BY <4>1, LeastNumber
    <3>2. i \in 1 .. n /\ i - 1 \in 0 .. n /\ ~(i <= i - 1)
      BY <1>8, <1>0, <3>1
    <3>3. v[i - 1] \in Bodies
      BY <3>1, <3>2
    <3>4. v[i] = Forward(v[i - 1], f[i]) /\ f[i] \in Filters
      BY <1>0, <1>8, <3>2 DEF D
    <3>5. v[i] \in Bodies
      BY <3>3, <3>4, ForwardStays
    <3> QED
      BY <3>1, <3>5
  <2> QED
    BY <2>1
<1>11. v \in [0 .. n -> Bodies]
  BY <1>9, <1>10
<1> QED
  BY <1>6, <1>8, <1>9, <1>11 DEF Sealing, n

LEMMA OpeningGoes ==
  ASSUME NEW r \in Seq(Filters), NEW body \in Bodies, NEW chain, Unwrapping(chain) = r
  PROVE  \E u : Opening(u, r, body) /\ Unwrapped(chain, body) = u[Len(r)]
<1> DEFINE n == Len(r)
           D == 1 .. n
           Rec(e) == e = [s \in SUBSET D |->
                            IF s = {} THEN {body} ELSE Opened(r[Max(s)], e[s \ {Max(s)}])]
           h == CHOOSE e : Rec(e)
           pick == [s \in SUBSET D |-> Max(s)]
           st == [x \in D \X Answers |-> Opened(r[x[1]], x[2])]
<1>0. /\ n \in Nat /\ IsFiniteSet(D) /\ DOMAIN r = D /\ \A i \in D : r[i] \in Filters
      /\ {body} \in Answers
      /\ \A s \in SUBSET D : s # {} => Max(s) \in s
  <2>1. n \in Nat /\ IsFiniteSet(D) /\ DOMAIN r = D /\ \A i \in D : r[i] \in Filters
    BY FS_Interval
  <2>2. {body} \in Answers
    BY DEF Answers
  <2>3. ASSUME NEW s \in SUBSET D, s # {} PROVE Max(s) \in s
    <3> HIDE DEF n
    <3> QED
      BY <2>3, <2>1, PlacesFact, MaxFact
  <2> QED
    BY <2>1, <2>2, <2>3
<1>1. Picks(pick, D)
  BY <1>0 DEF Picks
<1>2. Steps(st, D, Answers)
  <2>1. ASSUME NEW x \in D \X Answers PROVE st[x] \in Answers
    <3>1. x[2] \in Answers /\ r[x[1]] \in Filters /\ st[x] = Opened(r[x[1]], x[2])
      BY <1>0
    <3> QED
      BY <3>1, OpenedStays
  <2>2. st = [x \in D \X Answers |-> st[x]]
    OBVIOUS
  <2> HIDE DEF st
  <2> QED
    BY <2>1, <2>2 DEF Steps
<1> HIDE DEF D, n
<1>3. PICK g : Recursive(g, D, Answers, {body}, pick, st)
  <2> HIDE DEF pick, st
  <2> QED
    BY <1>0, <1>1, <1>2, SetRecursion
<1>4. Rec(g)
  <2>1. g \in [SUBSET D -> Answers]
    BY <1>3 DEF Recursive
  <2>2. ASSUME NEW s \in SUBSET D
        PROVE  g[s] = IF s = {} THEN {body} ELSE Opened(r[Max(s)], g[s \ {Max(s)}])
    <3>1. CASE s = {}
      BY <1>3, <3>1 DEF Recursive
    <3>2. CASE s # {}
      <4> DEFINE m == Max(s)
      <4>1. m \in D /\ pick[s] = m
        BY <1>0, <3>2
      <4> HIDE DEF m
      <4>2. g[s \ {m}] \in Answers
        BY <2>1
      <4>3. g[s] = st[<<m, g[s \ {m}]>>]
        BY <1>3, <3>2, <4>1 DEF Recursive
      <4>4. g[s] = Opened(r[m], g[s \ {m}])
        BY <4>1, <4>2, <4>3
      <4> QED
        BY <3>2, <4>4 DEF m
    <3> QED
      BY <3>1, <3>2
  <2>3. g = [s \in SUBSET D |-> g[s]]
    BY <2>1
  <2> QED
    BY <2>2, <2>3, Zenon
<1>5. Rec(h)
  BY <1>4
<1>6. Unwrapped(chain, body) = h[D]
  <2>1. Unwrapped(chain, body) = FoldLeft(LAMBDA answers, filter : Opened(filter, answers), {body}, r)
    BY Zenon DEF Unwrapped, Opened
  <2>2. FoldLeft(LAMBDA answers, filter : Opened(filter, answers), {body}, r) = h[D]
    BY <1>0, Zenon DEF FoldLeft, MapThenFoldSet
  <2> QED
    BY <2>1, <2>2, Zenon
<1>7. \A s \in SUBSET D : h[s] = IF s = {} THEN {body} ELSE Opened(r[Max(s)], h[s \ {Max(s)}])
  <2> HIDE DEF h
  <2> QED
    BY <1>5
<1> HIDE DEF h
<1> DEFINE u == [i \in 0 .. n |-> h[1 .. i]]
<1>8. u[0] = {body} /\ \A i \in 1 .. n : u[i] = Opened(r[i], u[i - 1])
  <2>1. u[0] = {body}
    <3>1. 1 .. 0 = {} /\ {} \in SUBSET D /\ 0 \in 0 .. n
      BY <1>0
    <3> QED
      BY <1>7, <3>1
  <2>2. ASSUME NEW i \in 1 .. n PROVE u[i] = Opened(r[i], u[i - 1])
    <3> DEFINE s == 1 .. i
    <3>1. s # {} /\ s \in SUBSET D /\ i \in s /\ \A x \in s : x <= i
      <4>1. n \in Nat
        BY <1>0
      <4> QED
        BY <4>1, FirstPlaces DEF D
    <3>2. i \in Nat /\ s \subseteq Nat /\ IsFiniteSet(s)
      BY <3>1, <1>0, PlacesFact
    <3>3. s \ {i} = 1 .. i - 1 /\ i \in 0 .. n /\ i - 1 \in 0 .. n
      BY <1>0
    <3>4. u[i] = h[s] /\ u[i - 1] = h[1 .. i - 1]
      BY <3>3
    <3> HIDE DEF s, u
    <3>5. Max(s) = i
      BY <3>1, <3>2, MaxIs
    <3> QED
      BY <1>7, <3>1, <3>3, <3>4, <3>5
  <2> QED
    BY <2>1, <2>2
<1>9. u[n] = h[D] /\ u = [i \in 0 .. n |-> u[i]]
  BY <1>0 DEF D
<1> HIDE DEF u
<1>10. \A i \in 0 .. n : u[i] \in Answers
  <2> DEFINE B == {i \in 0 .. n : u[i] \notin Answers}
  <2>1. B = {}
    <3> SUFFICES ASSUME B # {} PROVE FALSE
      OBVIOUS
    <3>1. PICK i \in B : \A j \in B : i <= j
      <4>1. B \in SUBSET Nat
        BY <1>0
      <4> HIDE DEF B
      <4> QED
        BY <4>1, LeastNumber
    <3>2. i \in 1 .. n /\ i - 1 \in 0 .. n /\ ~(i <= i - 1)
      <4>1. u[0] \in Answers
        BY <1>8, <1>0
      <4>2. i \in 0 .. n /\ i # 0
        BY <3>1, <4>1
      <4> QED
        BY <4>2, <1>0
    <3>3. u[i - 1] \in Answers
      BY <3>1, <3>2
    <3>4. u[i] = Opened(r[i], u[i - 1]) /\ r[i] \in Filters
      BY <1>0, <1>8, <3>2 DEF D
    <3>5. u[i] \in Answers
      BY <3>3, <3>4, OpenedStays
    <3> QED
      BY <3>1, <3>5
  <2> QED
    BY <2>1
<1>11. u \in [0 .. n -> Answers]
  BY <1>9, <1>10
<1> QED
  BY <1>6, <1>8, <1>9, <1>11 DEF Opening, n

(* An error is no body. *)
LEMMA FailuresApart == Failures \cap Bodies = {}
<1> SUFFICES ASSUME NEW a \in Failures, a \in Bodies PROVE FALSE
  OBVIOUS
<1>1. DOMAIN a = {"error"}
  BY DEF Failures
<1>2. DOMAIN a = {"layers", "intact"}
  BY DEF Bodies
<1> QED
  BY <1>1, <1>2

(* A chain opens what it sealed (seal, open).                              *)
LEMMA OpensWhatItSealed ==
  ASSUME NEW chain, chain.filters \in Seq(Filters)
  PROVE  /\ Seal(chain).body \in Bodies
         /\ Unwrapped(chain, Seal(chain).body) = {Payload}
<1> DEFINE f == chain.filters
           r == Reverse(f)
           n == Len(f)
<1>1. PICK v : Sealing(v, f) /\ FoldLeft(Forward, Payload, f) = v[n]
  BY SealingGoes
<1>2. f \in Seq(Filters) /\ n \in Nat /\ \A i \in 1 .. n : f[i] \in Filters
  OBVIOUS
<1>3. r \in Seq(Filters) /\ Len(r) = n /\ \A i \in 1 .. n : r[i] = f[n - i + 1]
  <2>1. r = [i \in 1 .. n |-> f[n - i + 1]]
    BY Zenon DEF Reverse
  <2>2. \A i \in 1 .. n : n - i + 1 \in 1 .. n
    BY <1>2
  <2> HIDE DEF r, n, f
  <2> QED
    BY <1>2, <2>1, <2>2
<1>4. Seal(chain).body = v[n]
  BY <1>1 DEF Seal
<1>5. v[0] = Payload /\ (\A i \in 0 .. n : v[i] \in Bodies)
      /\ \A i \in 1 .. n : v[i] = Forward(v[i - 1], f[i])
  BY <1>1 DEF Sealing
<1> HIDE DEF f, r, n
<1>6. PICK u : Opening(u, r, v[n]) /\ Unwrapped(chain, v[n]) = u[n]
  <2>1. Unwrapping(chain) = r /\ v[n] \in Bodies
    BY <1>2, <1>5 DEF Unwrapping, r, f
  <2> QED
    BY <1>3, <2>1, OpeningGoes
<1>7. u[0] = {v[n]} /\ \A i \in 1 .. n : u[i] = Opened(r[i], u[i - 1])
  <2>1. \A w, k : Opening(w, r, k) => w[0] = {k} /\ \A i \in 1 .. Len(r) : w[i] = Opened(r[i], w[i - 1])
    BY Zenon DEF Opening
  <2> QED
    BY <1>3, <1>6, <2>1, Zenon
<1>8. \A i \in 0 .. n : v[i].intact
  <2> DEFINE B == {i \in 0 .. n : ~v[i].intact}
  <2>1. B = {}
    <3> SUFFICES ASSUME B # {} PROVE FALSE
      OBVIOUS
    <3>1. PICK i \in B : \A j \in B : i <= j
      <4>1. B \in SUBSET Nat
        BY <1>2
      <4> HIDE DEF B
      <4> QED
        BY <4>1, LeastNumber
    <3>2. i \in 0 .. n /\ ~v[i].intact
      BY <3>1
    <3>3. i \in 1 .. n /\ i - 1 \in 0 .. n /\ ~(i <= i - 1)
      <4>1. v[0].intact
        BY <1>5 DEF Payload
      <4>2. i # 0
        BY <3>2, <4>1
      <4> QED
        BY <3>2, <4>2, <1>2
    <3>4. v[i - 1].intact
      BY <3>1, <3>3
    <3>5. v[i].intact = v[i - 1].intact
      <4>1. v[i - 1] \in Bodies /\ f[i] \in Filters /\ v[i] = Forward(v[i - 1], f[i])
        BY <1>2, <1>5, <3>3
      <4> QED
        BY <4>1, ForwardStays
    <3> QED
      BY <3>2, <3>4, <3>5
  <2> QED
    BY <2>1
<1>9. ASSUME NEW i \in 1 .. n PROVE Opened(f[i], {v[i]}) = {v[i - 1]}
  <2> DEFINE b == v[i - 1]
             c == v[i]
             x == f[i]
  <2>1. b \in Bodies /\ c \in Bodies /\ x \in Filters /\ c = Forward(b, x)
    BY <1>2, <1>5
  <2>2. b.intact /\ c.intact
    BY <1>2, <1>8
  <2> HIDE DEF b, c, x
  <2>3. c.layers = <<x>> \o b.layers /\ c.intact = b.intact /\ b.layers \in Seq(Filters)
    BY <2>1, ForwardStays DEF Bodies
  <2>4. c.layers # <<>> /\ Head(c.layers) = x /\ Tail(c.layers) = b.layers
    <3>1. \A s \in Seq(Filters) : <<x>> \o s # <<>> /\ Head(<<x>> \o s) = x /\ Tail(<<x>> \o s) = s
      BY <2>1
    <3> QED
      BY <2>3, <3>1
  <2>5. Undone(x, c) = {[c EXCEPT !.layers = Tail(c.layers)]}
    BY <2>2, <2>4, Zenon DEF Undone
  <2>6. [c EXCEPT !.layers = Tail(c.layers)] = b
    <3>1. c = [layers |-> c.layers, intact |-> c.intact] /\ b = [layers |-> b.layers, intact |-> b.intact]
      BY <2>1 DEF Bodies
    <3> QED
      BY <3>1, <2>3, <2>4
  <2>7. c \notin Failures
    BY <2>1, FailuresApart
  <2>8. Opened(x, {c}) = {b}
    BY <2>5, <2>6, <2>7 DEF Opened
  <2> QED
    BY <2>8 DEF b, c, x
<1>10. \A i \in 0 .. n : u[i] = {v[n - i]}
  <2> DEFINE B == {i \in 0 .. n : u[i] # {v[n - i]}}
  <2>1. B = {}
    <3> SUFFICES ASSUME B # {} PROVE FALSE
      OBVIOUS
    <3>1. PICK i \in B : \A j \in B : i <= j
      <4>1. B \in SUBSET Nat
        BY <1>2
      <4> HIDE DEF B
      <4> QED
        BY <4>1, LeastNumber
    <3>2. i \in 0 .. n /\ u[i] # {v[n - i]}
      BY <3>1
    <3>3. i \in 1 .. n /\ i - 1 \in 0 .. n /\ ~(i <= i - 1) /\ n - i + 1 \in 1 .. n
      <4>1. u[0] = {v[n - 0]}
        BY <1>2, <1>7
      <4>2. i # 0
        BY <3>2, <4>1
      <4> QED
        BY <3>2, <4>2, <1>2
    <3>4. u[i - 1] = {v[n - (i - 1)]}
      BY <3>1, <3>3
    <3>5. n - (i - 1) = n - i + 1 /\ (n - i + 1) - 1 = n - i
      BY <1>2, <3>3
    <3>6. u[i] = Opened(f[n - i + 1], {v[n - i + 1]})
      <4>1. u[i] = Opened(r[i], u[i - 1]) /\ r[i] = f[n - i + 1]
        BY <1>3, <1>7, <3>3
      <4>2. u[i - 1] = {v[n - i + 1]}
        BY <3>4, <3>5, Zenon
      <4> QED
        BY <4>1, <4>2, Zenon
    <3>7. u[i] = {v[n - i]}
      BY <1>9, <3>3, <3>5, <3>6
    <3> QED
      BY <3>2, <3>7
  <2> QED
    BY <2>1
<1>11. u[n] = {Payload}
  <2>1. n \in 0 .. n /\ n - n = 0
    BY <1>2
  <2> QED
    BY <1>5, <1>10, <2>1
<1> QED
  <2>1. v[n] \in Bodies
    BY <1>2, <1>5
  <2> QED
    BY <1>4, <1>6, <1>11, <2>1

(* A chain with a checksum outside refuses a damaged body (Crc32, open).   *)
LEMMA DamageShows ==
  ASSUME NEW chain, chain.filters \in Seq(Filters), chain.filters # <<>>,
         Last(chain.filters) = "crc32", NEW body \in Bodies, ~body.intact
  PROVE  Unwrapped(chain, body) \subseteq Failures
<1> DEFINE f == chain.filters
           r == Reverse(f)
           n == Len(f)
<1>1. n \in Nat /\ n >= 1 /\ f[n] = "crc32"
  <2>1. \A s \in Seq(Filters) : s # <<>> => Len(s) \in Nat /\ Len(s) >= 1
    OBVIOUS
  <2> QED
    BY <2>1 DEF Last
<1>2. r \in Seq(Filters) /\ Len(r) = n /\ r[1] = "crc32"
  <2>1. r = [i \in 1 .. n |-> f[n - i + 1]]
    BY Zenon DEF Reverse
  <2>2. \A i \in 1 .. n : n - i + 1 \in 1 .. n /\ f[i] \in Filters
    BY <1>1
  <2>3. 1 \in 1 .. n /\ n - 1 + 1 = n
    BY <1>1
  <2> HIDE DEF r, n, f
  <2>4. \A i \in 1 .. n : f[n - i + 1] \in Filters
    BY <2>2
  <2>5. r \in Seq(Filters) /\ Len(r) = n
    BY <1>1, <2>1, <2>4
  <2>6. r[1] = f[n - 1 + 1]
    BY <2>1, <2>3
  <2> QED
    BY <1>1, <2>3, <2>5, <2>6
<1> HIDE DEF f, r, n
<1>3. PICK u : Opening(u, r, body) /\ Unwrapped(chain, body) = u[n]
  <2>1. Unwrapping(chain) = r
    BY DEF Unwrapping, r, f
  <2> QED
    BY <1>2, <2>1, OpeningGoes
<1>4. u[0] = {body} /\ \A i \in 1 .. n : u[i] = Opened(r[i], u[i - 1])
  <2>1. \A w, k : Opening(w, r, k) => w[0] = {k} /\ \A i \in 1 .. Len(r) : w[i] = Opened(r[i], w[i - 1])
    BY Zenon DEF Opening
  <2> QED
    BY <1>2, <1>3, <2>1, Zenon
<1>5. u[1] \subseteq Failures
  <2>1. body \notin Failures
    BY FailuresApart
  <2>2. Undone("crc32", body) = Fails("Corrupt")
    BY DEF Undone
  <2>3. Opened("crc32", {body}) = Fails("Corrupt")
    BY <2>1, <2>2 DEF Opened
  <2>4. Fails("Corrupt") \subseteq Failures
    BY DEF Fails, Failures
  <2>5. 1 \in 1 .. n /\ 1 - 1 = 0
    BY <1>1
  <2>6. u[1] = Opened(r[1], u[0])
    BY <1>4, <2>5
  <2> QED
    BY <1>2, <1>4, <2>3, <2>4, <2>6
<1>6. \A i \in 1 .. n : u[i] \subseteq Failures
  <2> DEFINE B == {i \in 1 .. n : ~(u[i] \subseteq Failures)}
  <2>1. B = {}
    <3> SUFFICES ASSUME B # {} PROVE FALSE
      OBVIOUS
    <3>1. PICK i \in B : \A j \in B : i <= j
      <4>1. B \in SUBSET Nat
        BY <1>1
      <4> HIDE DEF B
      <4> QED
        BY <4>1, LeastNumber
    <3>2. i \in 1 .. n /\ ~(u[i] \subseteq Failures)
      BY <3>1
    <3>3. i - 1 \in 1 .. n /\ ~(i <= i - 1)
      <4>1. i # 1
        BY <3>2, <1>5
      <4> QED
        BY <3>2, <4>1, <1>1
    <3>4. u[i - 1] \subseteq Failures
      BY <3>1, <3>3
    <3>5. u[i] = Opened(r[i], u[i - 1])
      BY <1>4, <3>2
    <3>6. \A x : Opened(x, u[i - 1]) \subseteq Failures
      BY <3>4 DEF Opened
    <3> QED
      BY <3>2, <3>5, <3>6
  <2> QED
    BY <2>1
<1> QED
  BY <1>1, <1>3, <1>6

(* What every shipped chain does, whichever sealed the value.              *)
LEMMA ShippedAreHonest == \A chain \in ShippedChains : Honest(chain)
<1> SUFFICES ASSUME NEW chain \in ShippedChains PROVE Honest(chain)
  OBVIOUS
<1> DEFINE sealed == Seal(chain)
<1>1. chain.filters \in Seq(Filters)
  <2>1. {<<>>, <<"lz4", "crc32">>, <<"crc32">>} \subseteq Seq(Filters)
    BY DEF Filters
  <2>2. chain.filters \in {<<>>, <<"lz4", "crc32">>, <<"crc32">>}
    <3>1. /\ RawChain.filters = <<>> /\ DefaultChain.filters = <<"lz4", "crc32">>
          /\ ChecksumOnly.filters = <<"crc32">>
      BY Zenon DEF RawChain, DefaultChain, ChecksumOnly
    <3> QED
      BY <3>1, Zenon DEF ShippedChains
  <2> QED
    BY <2>1, <2>2, Zenon
<1>2. chain # RawChain => chain.filters # <<>> /\ Last(chain.filters) = "crc32"
  <2>1. Last(<<"lz4", "crc32">>) = "crc32" /\ Last(<<"crc32">>) = "crc32"
    BY DEF Last
  <2>2. <<"lz4", "crc32">> # <<>> /\ <<"crc32">> # <<>>
    OBVIOUS
  <2>3. CASE chain = RawChain
    BY <2>3
  <2>4. CASE chain = DefaultChain
    <3>1. chain.filters = <<"lz4", "crc32">>
      BY <2>4 DEF DefaultChain
    <3> QED
      BY <2>1, <2>2, <3>1, Zenon
  <2>5. CASE chain = ChecksumOnly
    <3>1. chain.filters = <<"crc32">>
      BY <2>5 DEF ChecksumOnly
    <3> QED
      BY <2>1, <2>2, <3>1, Zenon
  <2> QED
    BY <2>3, <2>4, <2>5, Zenon DEF ShippedChains
<1>3. sealed.body \in Bodies /\ Unwrapped(chain, sealed.body) = {Payload}
  BY <1>1, OpensWhatItSealed
<1>4. sealed = [long |-> TRUE, magic |-> TRUE, version |-> 1, chain |-> chain.id, body |-> sealed.body]
  BY DEF Seal
<1> HIDE DEF sealed
<1>5. Open(chain, sealed) = {Payload}
  <2>1. sealed.long /\ sealed.magic /\ sealed.version = 1 /\ sealed.chain = chain.id
    BY <1>4
  <2> QED
    BY <1>3, <2>1, Zenon DEF Open
<1>6. ASSUME NEW d \in ShippedChains \ {chain} PROVE Open(d, sealed) = Fails("SchemaMismatch")
  <2>1. d.id # chain.id
    BY DEF ShippedChains, RawChain, DefaultChain, ChecksumOnly
  <2> QED
    BY <1>4, <2>1 DEF Open
<1>7. ASSUME chain # RawChain, NEW s \in Damaged(sealed) PROVE Open(chain, s) \subseteq Failures
  <2>1. \A e \in {"Corrupt", "UnsupportedVersion", "SchemaMismatch"} : Fails(e) \subseteq Failures
    BY DEF Fails, Failures
  <2>2. CASE ~s.long \/ ~s.magic
    BY <2>1, <2>2 DEF Open
  <2>3. CASE s.version # 1
    BY <2>1, <2>3 DEF Open
  <2>4. CASE s.chain # chain.id
    BY <2>1, <2>4 DEF Open
  <2>5. CASE s = [sealed EXCEPT !.body.intact = FALSE]
    <3> DEFINE body == [sealed.body EXCEPT !.intact = FALSE]
    <3>1. body \in Bodies /\ ~body.intact
      BY <1>3 DEF Bodies
    <3>2. s.long /\ s.magic /\ s.version = 1 /\ s.chain = chain.id /\ s.body = body
      BY <1>4, <2>5
    <3> HIDE DEF body
    <3>3. Open(chain, s) = Unwrapped(chain, body)
      BY <3>2, Zenon DEF Open
    <3> QED
      BY <1>1, <1>2, <1>7, <3>1, <3>3, DamageShows
  <2>6. \/ ~s.long \/ ~s.magic \/ s.version # 1 \/ s.chain # chain.id
        \/ s = [sealed EXCEPT !.body.intact = FALSE]
    BY <1>4 DEF Damaged
  <2> QED
    BY <2>2, <2>3, <2>4, <2>5, <2>6
<1> QED
  BY <1>5, <1>6, <1>7 DEF Honest, sealed

-----------------------------------------------------------------------------
(* Finite sets in order.                                                   *)

(* A strict order in which any two elements have their places.             *)
StrictOrder(R, S) ==
  /\ \A x, y \in S : x = y \/ <<x, y>> \in R \/ <<y, x>> \in R
  /\ \A x, y \in S : <<x, y>> \in R => <<y, x>> \notin R
  /\ \A x, y, z \in S : <<x, y>> \in R /\ <<y, z>> \in R => <<x, z>> \in R
Rises(s, R) == \A i, j \in DOMAIN s : i < j => <<s[i], s[j]>> \in R

(* A finite set that is not empty has a last element.                      *)
LEMMA LastInOrder ==
  ASSUME NEW S, IsFiniteSet(S), S # {}, NEW R, StrictOrder(R, S)
  PROVE  \E m \in S : \A x \in S : x = m \/ <<x, m>> \in R
<1> DEFINE Has(T) == \E m \in T : \A x \in T : x = m \/ <<x, m>> \in R
           B == {T \in SUBSET S : T # {} /\ ~Has(T)}
<1>1. B = {}
  <2> SUFFICES ASSUME B # {} PROVE FALSE
    OBVIOUS
  <2>1. PICK T \in B : \A y \in B : y \subseteq T => y = T
    <3> DEFINE U == S
    <3>1. B \subseteq SUBSET U /\ B # {} /\ IsFiniteSet(U)
      OBVIOUS
    <3> HIDE DEF B, Has, U
    <3>2. \E x \in B : \A y \in B : y \subseteq x => y = x
      BY <3>1, LeastSubset
    <3> QED
      BY <3>2
  <2>2. PICK a \in T : TRUE
    BY <2>1
  <2> DEFINE Q == T \ {a}
  <2>3. CASE Q = {}
    BY <2>1, <2>2, <2>3
  <2>4. CASE Q # {}
    <3>1. Q \notin B
      BY <2>1, <2>2
    <3>2. PICK m \in Q : \A x \in Q : x = m \/ <<x, m>> \in R
      BY <3>1, <2>4, <2>1
    <3>3. m \in T /\ a \in T /\ m # a /\ T \subseteq S
      BY <2>1, <2>2, <3>2
    <3>4. CASE <<a, m>> \in R
      BY <3>2, <3>3, <3>4, <2>1
    <3>5. CASE <<a, m>> \notin R
      <4>1. <<m, a>> \in R
        BY <3>3, <3>5 DEF StrictOrder
      <4>2. \A x \in T : x = a \/ <<x, a>> \in R
        BY <3>2, <3>3, <4>1 DEF StrictOrder
      <4> QED
        BY <3>3, <4>2, <2>1
    <3> QED
      BY <3>4, <3>5
  <2> QED
    BY <2>3, <2>4
<1> QED
  BY <1>1

(* It can be listed in order.                                              *)
LEMMA OrderedListing ==
  ASSUME NEW S, IsFiniteSet(S), NEW R, StrictOrder(R, S)
  PROVE  \E s \in [1 .. Cardinality(S) -> S] : Rises(s, R)
<1> DEFINE Can(T) == \E s \in [1 .. Cardinality(T) -> T] : Rises(s, R)
           B == {T \in SUBSET S : ~Can(T)}
<1>1. B = {}
  <2> SUFFICES ASSUME B # {} PROVE FALSE
    OBVIOUS
  <2>1. PICK T \in B : \A y \in B : y \subseteq T => y = T
    <3> DEFINE U == S
    <3>1. B \subseteq SUBSET U /\ B # {} /\ IsFiniteSet(U)
      OBVIOUS
    <3> HIDE DEF B, Can, U
    <3>2. \E x \in B : \A y \in B : y \subseteq x => y = x
      BY <3>1, LeastSubset
    <3> QED
      BY <3>2
  <2>2. T \subseteq S /\ ~Can(T)
    BY <2>1
  <2>3. IsFiniteSet(T)
    <3>1. T \in SUBSET S
      BY <2>2
    <3> QED
      BY <3>1, FS_Subset, Zenon
  <2>4. CASE T = {}
    <3>1. Cardinality(T) = 0
      BY <2>4, FS_EmptySet
    <3> DEFINE s == [i \in 1 .. 0 |-> 0]
    <3>2. s \in [1 .. Cardinality(T) -> T]
      BY <3>1, <2>4
    <3>3. Rises(s, R)
      BY DEF Rises
    <3> QED
      BY <2>2, <3>2, <3>3
  <2>5. CASE T # {}
    <3>0. StrictOrder(R, T)
      BY <2>2 DEF StrictOrder
    <3>1. PICK m \in T : \A x \in T : x = m \/ <<x, m>> \in R
      BY <2>3, <2>5, <3>0, LastInOrder
    <3> DEFINE Q == T \ {m}
               n == Cardinality(Q)
    <3>2. Q \in SUBSET S /\ Q # T /\ Q \subseteq T
      BY <2>2, <3>1
    <3>3. Can(Q)
      BY <2>1, <3>2
    <3>4. PICK f \in [1 .. n -> Q] : Rises(f, R)
      BY <3>3
    <3>5. IsFiniteSet(Q) /\ n \in Nat
      BY <2>3, FS_RemoveElement, FS_CardinalityType
    <3>6. Cardinality(T) = n + 1
      <4>1. Q \cup {m} = T /\ m \notin Q
        BY <3>1
      <4> HIDE DEF Q
      <4>2. Cardinality(Q \cup {m}) = IF m \in Q THEN Cardinality(Q) ELSE Cardinality(Q) + 1
        BY <3>5, FS_AddElement
      <4> QED
        BY <4>1, <4>2
    <3> DEFINE g == [i \in 1 .. n + 1 |-> IF i = n + 1 THEN m ELSE f[i]]
    <3>7. \A i \in 1 .. n : f[i] \in T /\ <<f[i], m>> \in R
      BY <3>1, <3>4
    <3>8. g \in [1 .. Cardinality(T) -> T]
      <4> HIDE DEF n
      <4>1. \A i \in 1 .. n + 1 : i = n + 1 \/ i \in 1 .. n
        BY <3>5
      <4> QED
        BY <3>1, <3>6, <3>7, <4>1
    <3>9. Rises(g, R)
      <4> SUFFICES ASSUME NEW i \in 1 .. n + 1, NEW j \in 1 .. n + 1, i < j
                   PROVE  <<g[i], g[j]>> \in R
        BY DEF Rises
      <4> HIDE DEF n
      <4>1. i \in 1 .. n /\ (j = n + 1 \/ j \in 1 .. n) /\ i # n + 1
        BY <3>5
      <4>2. CASE j = n + 1
        BY <3>7, <4>1, <4>2
      <4>3. CASE j \in 1 .. n
        <5>1. j # n + 1
          BY <3>5, <4>3
        <5>2. g[i] = f[i] /\ g[j] = f[j]
          BY <4>1, <5>1
        <5>3. DOMAIN f = 1 .. n
          BY <3>4 DEF n
        <5> QED
          BY <3>4, <4>1, <4>3, <5>2, <5>3 DEF Rises
      <4> QED
        BY <4>1, <4>2, <4>3
    <3> HIDE DEF g
    <3> QED
      BY <2>2, <3>8, <3>9
  <2> QED
    BY <2>4, <2>5
<1> QED
  BY <1>1

(* Such a listing has every element, and one place for each.               *)
LEMMA ListingIsWhole ==
  ASSUME NEW S, IsFiniteSet(S), NEW R, StrictOrder(R, S),
         NEW s \in [1 .. Cardinality(S) -> S], Rises(s, R)
  PROVE  /\ Cardinality(S) \in Nat /\ s \in Seq(S) /\ Len(s) = Cardinality(S)
         /\ \A x \in S : \E i \in 1 .. Cardinality(S) : s[i] = x
         /\ \A i, j \in 1 .. Cardinality(S) : s[i] = s[j] => i = j
<1> DEFINE n == Cardinality(S)
<1>1. n \in Nat
  BY FS_CardinalityType
<1>2. s \in [1 .. n -> S]
  OBVIOUS
<1> HIDE DEF n
<1>3. s \in Seq(S) /\ Len(s) = n /\ DOMAIN s = 1 .. n
  BY <1>1, <1>2
<1>4. ASSUME NEW i \in 1 .. n, NEW j \in 1 .. n, i # j PROVE s[i] # s[j]
  <2>1. s[i] \in S /\ s[j] \in S
    BY <1>2
  <2>2. i < j \/ j < i
    BY <1>1, <1>4
  <2>3. <<s[i], s[j]>> \in R \/ <<s[j], s[i]>> \in R
    BY <1>3, <2>2 DEF Rises
  <2> QED
    BY <2>1, <2>3 DEF StrictOrder
<1>5. s \in Injection(1 .. n, S)
  BY <1>2, <1>4 DEF Injection, IsInjective
<1>6. IsFiniteSet(1 .. n) /\ Cardinality(1 .. n) = n
  BY <1>1, FS_Interval
<1>7. s \in Surjection(1 .. n, S)
  <2>1. Cardinality(1 .. n) = Cardinality(S)
    BY <1>6 DEF n
  <2> QED
    BY <1>5, <2>1, FS_Injection, Zenon
<1>8. \A x \in S : \E i \in 1 .. n : s[i] = x
  BY <1>7 DEF Surjection
<1> QED
  BY <1>1, <1>3, <1>4, <1>8 DEF n

(* There is only one.                                                      *)
Lists(s, n, S, R) == /\ n \in Nat /\ s \in [1 .. n -> S] /\ Rises(s, R)
                     /\ \A x \in S : \E i \in 1 .. n : s[i] = x

LEMMA OneListing ==
  ASSUME NEW S, NEW R, StrictOrder(R, S),
         NEW n, NEW m, NEW s, NEW t, Lists(s, n, S, R), Lists(t, m, S, R)
  PROVE  n = m /\ s = t
<1> USE DEF Lists
<1> DEFINE Differ(i) == i > n \/ i > m \/ s[i] # t[i]
           top == IF n < m THEN m ELSE n
           B == {i \in 1 .. top : Differ(i)}
<1>0. DOMAIN s = 1 .. n /\ DOMAIN t = 1 .. m /\ top \in Nat /\ n <= top /\ m <= top
      /\ (top = n \/ top = m)
  OBVIOUS
<1> HIDE DEF top
<1>1. B = {}
  <2> SUFFICES ASSUME B # {} PROVE FALSE
    OBVIOUS
  <2>1. PICK i \in B : \A j \in B : i <= j
    <3>1. B \in SUBSET Nat
      BY <1>0
    <3> HIDE DEF B
    <3> QED
      BY <3>1, LeastNumber
  <2>2. i \in 1 .. top /\ i \in Nat /\ \A j \in 1 .. i - 1 : j \in 1 .. n /\ j \in 1 .. m /\ s[j] = t[j]
    <3>1. i \in 1 .. top /\ i \in Nat
      BY <1>0, <2>1
    <3>2. ASSUME NEW j \in 1 .. i - 1 PROVE ~Differ(j) /\ j \in Nat /\ j >= 1
      <4>1. j \in 1 .. top /\ ~(i <= j)
        BY <1>0, <3>1
      <4> QED
        BY <1>0, <2>1, <4>1
    <3> QED
      BY <3>1, <3>2
  <2>3. i \in 1 .. n => \E j \in 1 .. m : t[j] = s[i] /\ (i \notin 1 .. m \/ j # i) /\ j >= i
    <3> HAVE i \in 1 .. n
    <3>1. PICK j \in 1 .. m : t[j] = s[i]
      OBVIOUS
    <3>2. j = i => i \notin 1 .. m
      <4>1. Differ(i) /\ i <= n
        BY <1>0, <2>1
      <4> QED
        BY <3>1, <4>1
    <3>3. j < i => FALSE
      <4> HAVE j < i
      <4>1. j \in 1 .. i - 1 /\ j \in 1 .. n
        BY <2>2
      <4>2. s[j] = s[i] /\ <<s[j], s[i]>> \in R /\ s[i] \in S
        BY <1>0, <2>2, <3>1, <4>1 DEF Rises
      <4> QED
        BY <4>2 DEF StrictOrder
    <3> QED
      BY <2>2, <3>1, <3>2, <3>3
  <2>4. i \in 1 .. m => \E j \in 1 .. n : s[j] = t[i] /\ (i \notin 1 .. n \/ j # i) /\ j >= i
    <3> HAVE i \in 1 .. m
    <3>1. PICK j \in 1 .. n : s[j] = t[i]
      OBVIOUS
    <3>2. j = i => i \notin 1 .. n
      <4>1. Differ(i) /\ i <= m
        BY <1>0, <2>1
      <4> QED
        BY <3>1, <4>1
    <3>3. j < i => FALSE
      <4> HAVE j < i
      <4>1. j \in 1 .. i - 1 /\ j \in 1 .. m
        BY <2>2
      <4>2. t[j] = t[i] /\ <<t[j], t[i]>> \in R /\ t[i] \in S
        BY <1>0, <2>2, <3>1, <4>1 DEF Rises
      <4> QED
        BY <4>2 DEF StrictOrder
    <3> QED
      BY <2>2, <3>1, <3>2, <3>3
  <2>5. i \in 1 .. n /\ i \in 1 .. m
    <3>1. i \in 1 .. n \/ i \in 1 .. m
      BY <1>0, <2>2
    <3>2. i \in 1 .. n => i \in 1 .. m
      BY <2>2, <2>3
    <3>3. i \in 1 .. m => i \in 1 .. n
      BY <2>2, <2>4
    <3> QED
      BY <3>1, <3>2, <3>3
  <2>6. PICK j \in 1 .. m : t[j] = s[i] /\ i < j
    BY <2>2, <2>3, <2>5
  <2>7. PICK k \in 1 .. n : s[k] = t[i] /\ i < k
    BY <2>2, <2>4, <2>5
  <2>8. <<t[i], s[i]>> \in R
    BY <1>0, <2>5, <2>6 DEF Rises
  <2>9. <<s[i], t[i]>> \in R
    BY <1>0, <2>5, <2>7 DEF Rises
  <2>10. s[i] \in S /\ t[i] \in S
    BY <2>5
  <2> QED
    BY <2>8, <2>9, <2>10 DEF StrictOrder
<1>2. ASSUME NEW i \in 1 .. top PROVE i <= n /\ i <= m /\ s[i] = t[i]
  <2>1. ~Differ(i)
    BY <1>1
  <2> QED
    BY <1>0, <2>1
<1>3. n = m
  <2>1. top = 0 \/ top \in 1 .. top
    BY <1>0
  <2> QED
    BY <1>0, <1>2, <2>1
<1>4. \A i \in 1 .. n : s[i] = t[i]
  BY <1>0, <1>2
<1> QED
  BY <1>3, <1>4

(* Keys are in a strict order, in either direction.                        *)
LEMMA LessOrder ==
  ASSUME NEW s \in Seq(Nat), NEW t \in Seq(Nat)
  PROVE  /\ s = t \/ Less(s, t) \/ Less(t, s)
         /\ ~(Less(s, t) /\ Less(t, s)) /\ ~Less(s, s)
         /\ \A u \in Seq(Nat) : Less(s, t) /\ Less(t, u) => Less(s, u)
<1>1. s = t \/ Smaller(s, t) \/ Smaller(t, s)
  <2>1. CASE Leads(t, s)
    <3>1. Len(t) \in Nat /\ Len(s) \in Nat
      OBVIOUS
    <3>2. Len(t) = Len(s) \/ Len(t) < Len(s)
      BY <2>1, <3>1 DEF Leads
    <3> QED
      BY <2>1, <3>2, PrefixIs, LessIs DEF Less
  <2>2. ASSUME NEW i \in 1 .. Len(t), i <= Len(s), t[i] < s[i], \A j \in 1 .. i - 1 : s[j] = t[j]
        PROVE  Smaller(t, s)
    <3>1. i \in 1 .. Len(s) /\ i <= Len(t) + 1
      BY <2>2
    <3> QED
      BY <2>2, <3>1 DEF Smaller
  <2> QED
    BY <2>1, <2>2, ListsPart
<1>2. ASSUME NEW u \in Seq(Nat), Smaller(s, t), Smaller(t, u) PROVE Smaller(s, u)
  <2> DEFINE n == Len(s)
             m == Len(t)
             o == Len(u)
  <2>1. /\ n \in Nat /\ m \in Nat /\ o \in Nat
        /\ (\A i \in 1 .. n : s[i] \in Nat) /\ (\A i \in 1 .. m : t[i] \in Nat)
        /\ \A i \in 1 .. o : u[i] \in Nat
    OBVIOUS
  <2> HIDE DEF n, m, o
  <2>2. PICK i \in 1 .. m : i <= n + 1 /\ (i <= n => s[i] < t[i]) /\ \A j \in 1 .. i - 1 : s[j] = t[j]
    BY <1>2 DEF Smaller, n, m
  <2>3. PICK x \in 1 .. o : x <= m + 1 /\ (x <= m => t[x] < u[x]) /\ \A j \in 1 .. x - 1 : t[j] = u[j]
    BY <1>2 DEF Smaller, o, m
  <2> DEFINE y == IF i < x THEN i ELSE x
  <2>4. y \in 1 .. o /\ y <= n + 1 /\ \A j \in 1 .. y - 1 : j \in 1 .. i - 1 /\ j \in 1 .. x - 1
    BY <2>1, <2>2, <2>3
  <2>5. \A j \in 1 .. y - 1 : s[j] = u[j]
    BY <2>2, <2>3, <2>4
  <2>6. ASSUME y <= n PROVE s[y] < u[y]
    <3>1. CASE i < x
      <4>1. y = i /\ i \in 1 .. x - 1
        BY <2>1, <2>2, <2>3, <3>1
      <4> QED
        BY <2>2, <2>3, <2>6, <4>1
    <3>2. CASE x < i
      <4>1. y = x /\ x \in 1 .. i - 1 /\ x <= m
        BY <2>1, <2>2, <2>3, <3>2
      <4> QED
        BY <2>2, <2>3, <4>1
    <3>3. CASE i = x
      <4>1. y = x /\ x <= m /\ x \in 1 .. n /\ x \in 1 .. m /\ x \in 1 .. o
        BY <2>1, <2>2, <2>3, <2>6, <3>3
      <4> QED
        BY <2>1, <2>2, <2>3, <2>6, <3>3, <4>1
    <3> QED
      BY <2>1, <2>2, <2>3, <3>1, <3>2, <3>3
  <2> HIDE DEF y
  <2> QED
    BY <2>4, <2>5, <2>6 DEF Smaller, n, o
<1> QED
  BY <1>1, <1>2, LessIs, SmallerOneWay

(* The pairs of a set of keys that are in the direction of a walk.         *)
Pairs(S, reverse) == {x \in S \X S : Goes(x[1], x[2], reverse)}

LEMMA GoesOrder ==
  ASSUME NEW S, S \subseteq Seq(Nat), NEW reverse \in BOOLEAN
  PROVE  /\ StrictOrder(Pairs(S, reverse), S)
         /\ \A x, y \in S : <<x, y>> \in Pairs(S, reverse) <=> Goes(x, y, reverse)
<1>1. \A x, y \in S : <<x, y>> \in Pairs(S, reverse) <=> Goes(x, y, reverse)
  BY DEF Pairs
<1>2. \A x, y \in S : x = y \/ Goes(x, y, reverse) \/ Goes(y, x, reverse)
  BY LessOrder DEF Goes
<1>3. \A x, y \in S : Goes(x, y, reverse) => ~Goes(y, x, reverse)
  BY LessOrder DEF Goes
<1>4. \A x, y, z \in S : Goes(x, y, reverse) /\ Goes(y, z, reverse) => Goes(x, z, reverse)
  BY LessOrder DEF Goes
<1> QED
  BY <1>1, <1>2, <1>3, <1>4 DEF StrictOrder

(* Every key of a set once, in the direction of the walk.                  *)
OrderedAs(s, n, S, reverse) ==
  /\ n \in Nat /\ s \in [1 .. n -> S]
  /\ \A i, j \in 1 .. n : i < j => Goes(s[i], s[j], reverse)
  /\ \A x \in S : \E i \in 1 .. n : s[i] = x

(* Ordered is such a list, and there is no other.                          *)
LEMMA OrderedFact ==
  ASSUME NEW S, IsFiniteSet(S), S \subseteq Seq(Nat), NEW reverse \in BOOLEAN
  PROVE  LET s == Ordered(S, reverse)
             n == Cardinality(S) IN
         /\ OrderedAs(s, n, S, reverse) /\ s \in Seq(S) /\ Len(s) = n
         /\ \A m, t : OrderedAs(t, m, S, reverse) => m = n /\ t = s
<1> DEFINE s == Ordered(S, reverse)
           n == Cardinality(S)
           R == Pairs(S, reverse)
<1>1. StrictOrder(R, S) /\ \A x, y \in S : <<x, y>> \in R <=> Goes(x, y, reverse)
  BY GoesOrder
<1>2. n \in Nat
  BY FS_CardinalityType
<1> HIDE DEF R
<1>3. ASSUME NEW m \in Nat, NEW t \in [1 .. m -> S]
      PROVE  Rises(t, R) <=> \A i, j \in 1 .. m : i < j => Goes(t[i], t[j], reverse)
  <2>1. DOMAIN t = 1 .. m /\ \A i \in 1 .. m : t[i] \in S
    OBVIOUS
  <2> QED
    BY <1>1, <2>1 DEF Rises
<1>4. PICK f \in [1 .. n -> S] : Rises(f, R)
  BY <1>1, OrderedListing
<1>5. s \in [1 .. n -> S] /\ \A i, j \in DOMAIN s : i < j => Goes(s[i], s[j], reverse)
  <2>1. DOMAIN f = 1 .. n
    BY <1>4
  <2>2. \E e \in [1 .. n -> S] : \A i, j \in DOMAIN e : i < j => Goes(e[i], e[j], reverse)
    BY <1>2, <1>3, <1>4, <2>1
  <2>3. s = CHOOSE e \in [1 .. n -> S] : \A i, j \in DOMAIN e : i < j => Goes(e[i], e[j], reverse)
    BY DEF Ordered
  <2> HIDE DEF s, n
  <2> QED
    BY <2>2, <2>3
<1> HIDE DEF s
<1>6. Rises(s, R) /\ DOMAIN s = 1 .. n
  BY <1>2, <1>3, <1>5
<1>7. /\ s \in Seq(S) /\ Len(s) = n
      /\ \A x \in S : \E i \in 1 .. n : s[i] = x
  BY <1>1, <1>5, <1>6, ListingIsWhole
<1>8. ASSUME NEW m, NEW t, OrderedAs(t, m, S, reverse) PROVE m = n /\ t = s
  <2>1. /\ m \in Nat /\ t \in [1 .. m -> S]
        /\ \A i, j \in 1 .. m : i < j => Goes(t[i], t[j], reverse)
        /\ \A x \in S : \E i \in 1 .. m : t[i] = x
    BY <1>8 DEF OrderedAs
  <2>2. Lists(t, m, S, R)
    BY <1>3, <2>1 DEF Lists
  <2>3. Lists(s, n, S, R)
    BY <1>2, <1>5, <1>6, <1>7 DEF Lists
  <2> HIDE DEF n
  <2>4. n = m /\ s = t
    BY <1>1, <2>2, <2>3, OneListing
  <2> QED
    BY <2>4
<1>9. OrderedAs(s, n, S, reverse)
  <2>1. \A i, j \in 1 .. n : i < j => Goes(s[i], s[j], reverse)
    BY <1>5
  <2> QED
    BY <1>2, <1>5, <1>7, <2>1 DEF OrderedAs
<1> QED
  BY <1>7, <1>8, <1>9 DEF s

-----------------------------------------------------------------------------
(* Pages.                                                                  *)

(* The elements of a list after place a, up to place b.                    *)
Part(s, a, b) == [i \in 1 .. b - a |-> s[a + i]]

LEMMA PartFact ==
  ASSUME NEW S, NEW s \in Seq(S), NEW a \in Nat, NEW b \in Nat, a <= b, b <= Len(s)
  PROVE  /\ Part(s, a, b) \in Seq(S) /\ Len(Part(s, a, b)) = b - a
         /\ \A i \in 1 .. b - a : Part(s, a, b)[i] = s[a + i]
<1> DEFINE n == Len(s)
           c == b - a
           p == Part(s, a, b)
<1>1. n \in Nat /\ c \in Nat /\ \A i \in 1 .. n : s[i] \in S
  OBVIOUS
<1>2. \A i \in 1 .. c : a + i \in 1 .. n
  BY <1>1
<1>3. p = [i \in 1 .. c |-> s[a + i]]
  BY DEF Part
<1> HIDE DEF n, c, p
<1>4. p \in [1 .. c -> S] /\ \A i \in 1 .. c : p[i] = s[a + i]
  BY <1>1, <1>2, <1>3
<1>5. p \in Seq(S) /\ Len(p) = c
  BY <1>1, <1>4
<1> QED
  BY <1>4, <1>5 DEF p, c

LEMMA SubSeqIsPart ==
  ASSUME NEW S, NEW s \in Seq(S), NEW c \in Nat, c <= Len(s)
  PROVE  SubSeq(s, 1, c) = Part(s, 0, c)
<1> DEFINE t == SubSeq(s, 1, c)
           p == Part(s, 0, c)
<1>1. \A i \in 1 .. c : s[i] \in S /\ 1 + i - 1 = i /\ 0 + i = i
  OBVIOUS
<1>2. \A i \in 1 .. c : s[i] \in S
  BY <1>1
<1>3. 1 \in Int /\ c \in Int
  OBVIOUS
<1>4. t \in Seq(S) /\ Len(t) = (IF 1 <= c THEN c - 1 + 1 ELSE 0) /\ \A i \in 1 .. c - 1 + 1 : t[i] = s[1 + i - 1]
  BY <1>2, <1>3, SubSeqProperties
<1>5. 0 \in Nat /\ 0 <= c
  OBVIOUS
<1>6. p \in Seq(S) /\ Len(p) = c - 0 /\ \A i \in 1 .. c - 0 : p[i] = s[0 + i]
  BY <1>5, PartFact
<1> HIDE DEF t, p
<1>7. t \in Seq(S) /\ Len(t) = c /\ \A i \in 1 .. c : t[i] = s[i]
  BY <1>1, <1>4
<1>8. p \in Seq(S) /\ Len(p) = c /\ \A i \in 1 .. c : p[i] = s[i]
  BY <1>1, <1>6
<1>9. t = p
  BY <1>7, <1>8, SeqEqual
<1> QED
  BY <1>9 DEF t, p

LEMMA PartsJoin ==
  ASSUME NEW S, NEW s \in Seq(S), NEW a \in Nat, NEW b \in Nat, a <= b, b <= Len(s)
  PROVE  Part(s, 0, a) \o Part(s, a, b) = Part(s, 0, b)
<1> DEFINE p == Part(s, 0, a)
           q == Part(s, a, b)
           r == Part(s, 0, b)
<1>1. /\ p \in Seq(S) /\ Len(p) = a /\ \A i \in 1 .. a : p[i] = s[i]
      /\ q \in Seq(S) /\ Len(q) = b - a /\ \A i \in 1 .. b - a : q[i] = s[a + i]
      /\ r \in Seq(S) /\ Len(r) = b /\ \A i \in 1 .. b : r[i] = s[i]
  <2>0. 0 \in Nat /\ a - 0 = a /\ b - 0 = b /\ 0 <= a /\ 0 <= b /\ a <= Len(s) /\ \A i \in Nat : 0 + i = i
    OBVIOUS
  <2>1. Part(s, 0, a) \in Seq(S) /\ Len(Part(s, 0, a)) = a - 0
        /\ \A i \in 1 .. a - 0 : Part(s, 0, a)[i] = s[0 + i]
    BY <2>0, PartFact
  <2>2. Part(s, a, b) \in Seq(S) /\ Len(Part(s, a, b)) = b - a
        /\ \A i \in 1 .. b - a : Part(s, a, b)[i] = s[a + i]
    BY PartFact
  <2>3. Part(s, 0, b) \in Seq(S) /\ Len(Part(s, 0, b)) = b - 0
        /\ \A i \in 1 .. b - 0 : Part(s, 0, b)[i] = s[0 + i]
    BY <2>0, PartFact
  <2> QED
    BY <2>0, <2>1, <2>2, <2>3
<1> HIDE DEF p, q, r
<1> DEFINE w == p \o q
<1>2. /\ w \in Seq(S) /\ Len(w) = Len(p) + Len(q)
      /\ \A i \in 1 .. Len(p) + Len(q) : w[i] = IF i <= Len(p) THEN p[i] ELSE q[i - Len(p)]
  <2>1. p \in Seq(S)
    BY <1>1
  <2>2. q \in Seq(S)
    BY <1>1
  <2> QED
    BY <2>1, <2>2, ConcatProperties
<1> HIDE DEF w
<1>3. Len(w) = b /\ \A i \in 1 .. b : w[i] = r[i]
  <2>1. Len(p) + Len(q) = b
    BY <1>1
  <2>2. ASSUME NEW i \in 1 .. b PROVE w[i] = r[i]
    <3>1. w[i] = IF i <= a THEN p[i] ELSE q[i - a]
      BY <1>1, <1>2, <2>1
    <3>2. CASE i <= a
      <4>1. i \in 1 .. a
        BY <3>2
      <4> QED
        BY <1>1, <3>1, <3>2, <4>1
    <3>3. CASE ~(i <= a)
      <4>1. i - a \in 1 .. b - a /\ a + (i - a) = i
        BY <3>3
      <4> QED
        BY <1>1, <3>1, <3>3, <4>1
    <3> QED
      BY <3>2, <3>3
  <2> QED
    BY <1>2, <2>1, <2>2
<1>4. \A u, v \in Seq(S) : Len(u) = Len(v) /\ (\A i \in 1 .. Len(u) : u[i] = v[i]) => u = v
  OBVIOUS
<1>5. w = r
  BY <1>1, <1>2, <1>3, <1>4
<1> QED
  BY <1>5 DEF w, p, q, r

LEMMA PartOfPart ==
  ASSUME NEW S, NEW s \in Seq(S), NEW a \in Nat, NEW b \in Nat, NEW c \in Nat,
         a <= b, b <= Len(s), c <= b - a
  PROVE  Part(Part(s, a, b), 0, c) = Part(s, a, a + c)
<1> DEFINE p == Part(s, a, b)
<1>1. \A i \in 1 .. b - a : p[i] = s[a + i]
  BY PartFact
<1> HIDE DEF p
<1>2. Part(p, 0, c) = [i \in 1 .. c |-> p[i]]
  BY DEF Part
<1>3. Part(s, a, a + c) = [i \in 1 .. c |-> s[a + i]]
  BY DEF Part
<1>4. \A i \in 1 .. c : i \in 1 .. b - a
  OBVIOUS
<1>5. Part(p, 0, c) = Part(s, a, a + c)
  BY <1>1, <1>2, <1>3, <1>4
<1> QED
  BY <1>5 DEF p

LEMMA WholePart ==
  ASSUME NEW S, NEW s \in Seq(S)
  PROVE  Part(s, 0, Len(s)) = s
<1> DEFINE n == Len(s)
<1>1. n \in Nat /\ s = [i \in 1 .. n |-> s[i]]
  OBVIOUS
<1> HIDE DEF n
<1>2. Part(s, 0, n) = [i \in 1 .. n |-> s[i]]
  BY <1>1 DEF Part
<1> QED
  BY <1>1, <1>2 DEF n

(* What is after a place of a list in order is in order.                   *)
Rest(s, a, S, reverse) == {x \in S : a = 0 \/ Goes(s[a], x, reverse)}

LEMMA RestInOrder ==
  ASSUME NEW S, S \subseteq Seq(Nat), NEW reverse \in BOOLEAN, 
         NEW s \in Seq(S), OrderedAs(s, Len(s), S, reverse), NEW a \in Nat, a <= Len(s)
  PROVE  OrderedAs(Part(s, a, Len(s)), Len(s) - a, Rest(s, a, S, reverse), reverse)
<1> DEFINE n == Len(s)
           p == Part(s, a, n)
           T == Rest(s, a, S, reverse)
           m == n - a
<1>0. /\ n \in Nat /\ \A i \in 1 .. n : s[i] \in S
      /\ \A i, j \in 1 .. n : i < j => Goes(s[i], s[j], reverse)
      /\ \A x \in S : \E i \in 1 .. n : s[i] = x
  BY DEF OrderedAs
<1>1. m \in Nat /\ \A i \in 1 .. m : a + i \in 1 .. n
  BY <1>0
<1>2. p \in [1 .. m -> S] /\ \A i \in 1 .. m : p[i] = s[a + i]
  <2>1. Len(s) \in Nat /\ Len(s) <= Len(s)
    OBVIOUS
  <2>2. Part(s, a, Len(s)) \in Seq(S) /\ Len(Part(s, a, Len(s))) = Len(s) - a
        /\ \A i \in 1 .. Len(s) - a : Part(s, a, Len(s))[i] = s[a + i]
    BY <2>1, PartFact
  <2>3. p \in Seq(S) /\ Len(p) = m /\ \A i \in 1 .. m : p[i] = s[a + i]
    BY <2>2
  <2> HIDE DEF p, m
  <2> QED
    BY <2>3
<1>3. \A x, y \in S : Goes(x, y, reverse) => ~Goes(y, x, reverse)
  BY LessOrder DEF Goes
<1> HIDE DEF p, m, n
<1>4. ASSUME NEW i \in 1 .. m PROVE p[i] \in T
  <2>1. a + i \in 1 .. n /\ (a = 0 \/ (a \in 1 .. n /\ a < a + i))
    <3>1. n \in Nat /\ m \in Nat /\ i \in 1 .. m
      BY <1>0, <1>1
    <3>2. a \in Nat /\ a <= n
      BY DEF n
    <3>3. a = 0 \/ (a \in 1 .. n /\ a < a + i)
      BY <3>1, <3>2
    <3> QED
      BY <1>1, <3>3
  <2>2. a = 0 \/ Goes(s[a], s[a + i], reverse)
    BY <1>0, <2>1
  <2> QED
    BY <1>0, <1>2, <2>1, <2>2 DEF Rest
<1>5. p \in [1 .. m -> T]
  BY <1>2, <1>4
<1>6. ASSUME NEW i \in 1 .. m, NEW j \in 1 .. m, i < j PROVE Goes(p[i], p[j], reverse)
  <2>1. a + i \in 1 .. n /\ a + j \in 1 .. n /\ a + i < a + j
    BY <1>0, <1>1, <1>6
  <2> QED
    BY <1>0, <1>2, <2>1
<1>7. ASSUME NEW x \in T PROVE \E i \in 1 .. m : p[i] = x
  <2>1. x \in S /\ (a = 0 \/ Goes(s[a], x, reverse))
    BY DEF Rest
  <2>2. PICK j \in 1 .. n : s[j] = x
    BY <1>0, <2>1
  <2>3. j > a
    <3>1. CASE a = 0
      BY <1>0, <2>2, <3>1
    <3>2. CASE a # 0
      <4>1. a \in 1 .. n /\ s[a] \in S /\ Goes(s[a], s[j], reverse)
        <5>1. a \in 1 .. n
          BY <3>2 DEF n
        <5> QED
          BY <1>0, <2>1, <2>2, <3>2, <5>1
      <4>2. ~(j < a)
        BY <1>0, <1>3, <2>1, <2>2, <4>1
      <4>3. j # a
        BY <1>3, <4>1
      <4> QED
        BY <1>0, <2>2, <4>1, <4>2, <4>3
    <3> QED
      BY <3>1, <3>2
  <2>4. j - a \in 1 .. m /\ a + (j - a) = j
    BY <1>0, <2>2, <2>3 DEF m, n
  <2> QED
    BY <1>2, <2>2, <2>4
<1> HIDE DEF T
<1>8. OrderedAs(p, m, T, reverse)
  BY <1>1, <1>5, <1>6, <1>7 DEF OrderedAs
<1> QED
  BY <1>8 DEF p, m, n, T

(* All that is after a place of a list.                                    *)
LEMMA PartToEnd ==
  ASSUME NEW S, NEW s \in Seq(S), NEW a \in Nat, a <= Len(s)
  PROVE  Part(s, a, Len(s)) \in Seq(S) /\ Len(Part(s, a, Len(s))) = Len(s) - a
<1> DEFINE n == Len(s)
<1>1. n \in Nat /\ a <= n /\ n <= Len(s)
  OBVIOUS
<1> HIDE DEF n
<1>2. Part(s, a, n) \in Seq(S) /\ Len(Part(s, a, n)) = n - a
  BY <1>1, PartFact
<1> QED
  BY <1>2 DEF n

(* A page of a range that reaches what is after a place of a list.         *)
LEMMA PageIs ==
  ASSUME NEW S, IsFiniteSet(S), S \subseteq Seq(Nat), NEW reverse \in BOOLEAN,
         NEW s, s = Ordered(S, reverse), NEW a \in Nat, a <= Len(s), NEW limit \in Nat,
         NEW stored, NEW r, {k \in stored : InKeyRange(r, k)} = Rest(s, a, S, reverse)
  PROVE  LET c == IF limit < Len(s) - a THEN limit ELSE Len(s) - a IN
         /\ PageOf(stored, r, reverse, limit) = Part(s, a, a + c)
         /\ Len(PageOf(stored, r, reverse, limit)) = c
<1> DEFINE T == Rest(s, a, S, reverse)
           n == Len(s)
           m == Len(s) - a
           p == Part(s, a, Len(s))
           c == IF limit < m THEN limit ELSE m
<1>1. s \in Seq(S) /\ OrderedAs(s, Len(s), S, reverse)
  BY OrderedFact
<1>2. n \in Nat /\ m \in Nat /\ c \in Nat /\ c <= m
  BY <1>1
<1>3. OrderedAs(p, m, T, reverse)
  BY <1>1, RestInOrder
<1>4. T \subseteq S /\ IsFiniteSet(T) /\ T \subseteq Seq(Nat)
  <2>1. T \in SUBSET S
    BY DEF Rest
  <2> HIDE DEF T
  <2> QED
    BY <2>1, FS_Subset
<1>5. p = Ordered(T, reverse)
  <2> HIDE DEF p, m, T
  <2> QED
    BY <1>3, <1>4, OrderedFact
<1>6. p \in Seq(S) /\ Len(p) = m
  <2>1. s \in Seq(S)
    BY <1>1
  <2> QED
    BY <2>1, PartToEnd
<1>7. PageOf(stored, r, reverse, limit) = SubSeq(p, 1, c)
  <2>1. PageOf(stored, r, reverse, limit) = SubSeq(p, 1, IF limit < Len(p) THEN limit ELSE Len(p))
    BY <1>5, Zenon DEF PageOf
  <2> HIDE DEF p, m
  <2> QED
    BY <1>6, <2>1
<1>8. SubSeq(p, 1, c) = Part(p, 0, c)
  <2> HIDE DEF p, c, m
  <2> QED
    BY <1>2, <1>6, SubSeqIsPart
<1>9. Part(p, 0, c) = Part(s, a, a + c)
  <2>1. s \in Seq(S) /\ Len(s) \in Nat /\ Len(s) <= Len(s) /\ a <= Len(s)
    BY <1>1
  <2>2. c \in Nat /\ c <= Len(s) - a
    BY <1>2
  <2> HIDE DEF c
  <2> QED
    BY <2>1, <2>2, PartOfPart
<1>10. Len(Part(s, a, a + c)) = c
  <2>1. a + c \in Nat /\ a <= a + c /\ a + c <= Len(s) /\ (a + c) - a = c
    BY <1>2
  <2> HIDE DEF c
  <2>2. Len(Part(s, a, a + c)) = (a + c) - a
    BY <1>1, <2>1, PartFact
  <2> QED
    BY <2>1, <2>2
<1> HIDE DEF p
<1> QED
  BY <1>7, <1>8, <1>9, <1>10

(* Ranges of keys. *)
KeyBounds == [kind : {"unbounded", "included", "excluded"}, key : Seq(Nat)]
KeyRanges == [start : KeyBounds, end : KeyBounds]

LEMMA FinishedApart == Finished \notin KeyRanges
<1>1. DOMAIN Finished = {"start", "end", "done"}
  BY DEF Finished
<1>2. \A r \in KeyRanges : DOMAIN r = {"start", "end"}
  BY DEF KeyRanges
<1>3. "done" # "start" /\ "done" # "end"
  OBVIOUS
<1> QED
  BY <1>1, <1>2, <1>3

LEMMA ResumedIs ==
  ASSUME NEW r \in KeyRanges, NEW x \in Seq(Nat), NEW reverse \in BOOLEAN
  PROVE  /\ Resumed(r, reverse, x) \in KeyRanges
         /\ Resumed(r, reverse, x) = IF reverse THEN [start |-> r.start, end |-> Excluded(x)]
                                                ELSE [start |-> Excluded(x), end |-> r.end]
         /\ \A y \in Seq(Nat) : Resumed(Resumed(r, reverse, y), reverse, x) = Resumed(r, reverse, x)
<1>1. r = [start |-> r.start, end |-> r.end] /\ r.start \in KeyBounds /\ r.end \in KeyBounds
  BY DEF KeyRanges
<1>2. \A y \in Seq(Nat) : Excluded(y) \in KeyBounds
  BY DEF Excluded, KeyBounds
<1> DEFINE Is(q, y) == IF reverse THEN [start |-> q.start, end |-> Excluded(y)]
                                  ELSE [start |-> Excluded(y), end |-> q.end]
<1>3. ASSUME NEW q \in KeyRanges, NEW y \in Seq(Nat)
      PROVE  Resumed(q, reverse, y) = Is(q, y) /\ Is(q, y) \in KeyRanges
  <2>1. q = [start |-> q.start, end |-> q.end] /\ q.start \in KeyBounds /\ q.end \in KeyBounds
    BY DEF KeyRanges
  <2>2. Resumed(q, reverse, y) = IF reverse THEN [q EXCEPT !.end = Excluded(y)] ELSE [q EXCEPT !.start = Excluded(y)]
    BY Zenon DEF Resumed
  <2>3. [q EXCEPT !.end = Excluded(y)] = [start |-> q.start, end |-> Excluded(y)]
        /\ [q EXCEPT !.start = Excluded(y)] = [start |-> Excluded(y), end |-> q.end]
    BY <2>1
  <2> QED
    BY <1>2, <2>1, <2>2, <2>3 DEF KeyRanges
<1>4. ASSUME NEW y \in Seq(Nat) PROVE Is(Is(r, y), x) = Is(r, x)
  OBVIOUS
<1>5. Resumed(r, reverse, x) = Is(r, x) /\ Is(r, x) \in KeyRanges
  BY <1>3
<1>6. ASSUME NEW y \in Seq(Nat) PROVE Resumed(Resumed(r, reverse, y), reverse, x) = Is(r, x)
  <2>1. Resumed(r, reverse, y) = Is(r, y) /\ Is(r, y) \in KeyRanges
    BY <1>3
  <2>2. \A q \in KeyRanges : Resumed(q, reverse, x) = Is(q, x)
    BY <1>3
  <2>3. Resumed(Resumed(r, reverse, y), reverse, x) = Is(Is(r, y), x)
    BY <2>1, <2>2, Zenon
  <2> QED
    BY <1>4, <2>3
<1> QED
  BY <1>5, <1>6

(* A range that resumes after a key reaches what it reached after it.      *)
LEMMA ResumedReaches ==
  ASSUME NEW r \in KeyRanges, NEW stored, stored \subseteq Seq(Nat), NEW reverse \in BOOLEAN,
         NEW x \in {k \in stored : InKeyRange(r, k)}
  PROVE  {k \in stored : InKeyRange(Resumed(r, reverse, x), k)}
           = {y \in {k \in stored : InKeyRange(r, k)} : Goes(x, y, reverse)}
<1>1. x \in Seq(Nat) /\ r.start \in KeyBounds /\ r.end \in KeyBounds
      /\ AfterStart(x, r.start) /\ BeforeEnd(x, r.end)
  BY DEF KeyRanges, InKeyRange
<1>2. r.start.key \in Seq(Nat) /\ r.end.key \in Seq(Nat)
      /\ r.start.kind \in {"unbounded", "included", "excluded"}
      /\ r.end.kind \in {"unbounded", "included", "excluded"}
  BY <1>1 DEF KeyBounds
<1>3. ASSUME NEW y \in Seq(Nat)
      PROVE  InKeyRange(Resumed(r, reverse, x), y) <=> InKeyRange(r, y) /\ Goes(x, y, reverse)
  <2>1. CASE ~reverse
    <3>1. InKeyRange(Resumed(r, reverse, x), y) <=> Less(x, y) /\ BeforeEnd(y, r.end)
      <4>1. Resumed(r, reverse, x) = [start |-> Excluded(x), end |-> r.end]
        BY <1>1, <2>1, ResumedIs
      <4>2. InKeyRange(Resumed(r, reverse, x), y) <=> AfterStart(y, Excluded(x)) /\ BeforeEnd(y, r.end)
        BY <4>1 DEF InKeyRange
      <4>3. AfterStart(y, Excluded(x)) <=> Less(x, y)
        BY DEF AfterStart, Excluded
      <4> QED
        BY <4>2, <4>3
    <3>2. Less(x, y) => AfterStart(y, r.start)
      BY <1>1, <1>2, LessOrder DEF AfterStart, AtMost
    <3> QED
      BY <2>1, <3>1, <3>2 DEF InKeyRange, Goes
  <2>2. CASE reverse
    <3>1. InKeyRange(Resumed(r, reverse, x), y) <=> AfterStart(y, r.start) /\ Less(y, x)
      <4>1. Resumed(r, reverse, x) = [start |-> r.start, end |-> Excluded(x)]
        <5>1. x \in Seq(Nat)
          BY <1>1
        <5>2. Resumed(r, reverse, x) = IF reverse THEN [start |-> r.start, end |-> Excluded(x)]
                                                  ELSE [start |-> Excluded(x), end |-> r.end]
          BY <5>1, ResumedIs
        <5> QED
          BY <2>2, <5>2, Zenon
      <4>2. InKeyRange(Resumed(r, reverse, x), y) <=> AfterStart(y, r.start) /\ BeforeEnd(y, Excluded(x))
        BY <4>1 DEF InKeyRange
      <4>3. BeforeEnd(y, Excluded(x)) <=> Less(y, x)
        BY DEF BeforeEnd, Excluded
      <4> QED
        BY <4>2, <4>3
    <3>2. Less(y, x) => BeforeEnd(y, r.end)
      <4>1. CASE r.end.kind = "unbounded"
        BY <4>1 DEF BeforeEnd
      <4>2. CASE r.end.kind # "unbounded"
        <5>1. x = r.end.key \/ Less(x, r.end.key)
          BY <1>1, <1>2, <4>2 DEF BeforeEnd, AtMost
        <5>2. Less(y, x) /\ Less(x, r.end.key) => Less(y, r.end.key)
          BY <1>1, <1>2, LessOrder
        <5>3. r.end.kind = "excluded" => Less(x, r.end.key)
          BY <1>1 DEF BeforeEnd
        <5> QED
          BY <1>2, <4>2, <5>1, <5>2, <5>3 DEF BeforeEnd, AtMost
      <4> QED
        BY <4>1, <4>2
    <3> QED
      BY <2>2, <3>1, <3>2 DEF InKeyRange, Goes
  <2> QED
    BY <2>1, <2>2
<1> QED
  BY <1>3

-----------------------------------------------------------------------------
(* Walks.                                                                  *)

(* A walk of stored keys whose pages are to be s, and the keys it is of.   *)
Reach(stored, r) == {k \in stored : InKeyRange(r, k)}
Walk(stored, whole, reverse, limit, s) ==
  /\ IsFiniteSet(stored) /\ stored \subseteq Seq(Nat) /\ whole \in KeyRanges
  /\ reverse \in BOOLEAN /\ limit \in Nat \ {0}
  /\ s = Ordered(Reach(stored, whole), reverse)

(* Where the listing is after k full pages.                                *)
Place(k, limit) == k * limit
(* Whether a page that ends at place m of n says where to resume.          *)
GoesOn(engine, n, m) == m <= n /\ Resumes(engine, n > m)
(* The request after k pages, without those between.                       *)
RequestAt(engine, whole, reverse, limit, s, k) ==
  IF k = 0 THEN whole
  ELSE IF GoesOn(engine, Len(s), Place(k, limit)) THEN Resumed(whole, reverse, s[Place(k, limit)]) ELSE Finished
IsRequest(r, engine, whole, reverse, limit, s, k) ==
  k \in Nat /\ r = RequestAt(engine, whole, reverse, limit, s, k) /\ r # Finished
(* The loop's next request.                                                *)
NextRequest(engine, stored, r, reverse, limit) ==
  IF r = Finished \/ Len(PageOf(stored, r, reverse, limit)) < limit THEN Finished
  ELSE IF Resumes(engine, Len(PageOf(stored, r, reverse, limit + 1)) > limit)
  THEN Resumed(r, reverse, Last(PageOf(stored, r, reverse, limit))) ELSE Finished

LEMMA WalkFact ==
  ASSUME NEW stored, NEW whole, NEW reverse, NEW limit, NEW s, Walk(stored, whole, reverse, limit, s)
  PROVE  LET S == Reach(stored, whole) IN
         /\ IsFiniteSet(S) /\ S \subseteq Seq(Nat) /\ s = Ordered(S, reverse)
         /\ OrderedAs(s, Len(s), S, reverse) /\ s \in Seq(S) /\ Len(s) \in Nat
         /\ Len(s) = Cardinality(S) /\ Cardinality(S) <= Cardinality(stored) /\ Cardinality(stored) \in Nat
         /\ \A i \in 1 .. Len(s) : s[i] \in S /\ s[i] \in Seq(Nat)
<1> DEFINE S == Reach(stored, whole)
<1>1. IsFiniteSet(stored) /\ stored \subseteq Seq(Nat) /\ reverse \in BOOLEAN /\ s = Ordered(S, reverse)
  BY DEF Walk
<1>2. S \in SUBSET stored
  BY DEF Reach
<1> HIDE DEF S
<1>3. IsFiniteSet(S) /\ Cardinality(S) <= Cardinality(stored) /\ Cardinality(stored) \in Nat
  BY <1>1, <1>2, FS_Subset, FS_CardinalityType
<1>4. S \subseteq Seq(Nat)
  BY <1>1, <1>2
<1>5. OrderedAs(s, Cardinality(S), S, reverse) /\ s \in Seq(S) /\ Len(s) = Cardinality(S)
  BY <1>1, <1>3, <1>4, OrderedFact
<1>6. \A i \in 1 .. Len(s) : s[i] \in S /\ s[i] \in Seq(Nat)
  BY <1>4, <1>5
<1>7. Len(s) \in Nat
  BY <1>5
<1> QED
  BY <1>1, <1>3, <1>4, <1>5, <1>6, <1>7 DEF S

(* A request that reaches what is after place a of the walk's list.        *)
Stands(r, stored, whole, reverse, s, a) ==
  /\ a \in Nat /\ a <= Len(s) /\ r \in KeyRanges
  /\ Reach(stored, r) = Rest(s, a, Reach(stored, whole), reverse)
  /\ \A x \in Seq(Nat) : Resumed(r, reverse, x) = Resumed(whole, reverse, x)

LEMMA RequestReaches ==
  ASSUME NEW engine, NEW stored, NEW whole, NEW reverse, NEW limit, NEW s,
         Walk(stored, whole, reverse, limit, s), NEW k, NEW r, IsRequest(r, engine, whole, reverse, limit, s, k)
  PROVE  Stands(r, stored, whole, reverse, s, Place(k, limit))
<1> DEFINE a == Place(k, limit)
           S == Reach(stored, whole)
<1>0. k \in Nat /\ r = RequestAt(engine, whole, reverse, limit, s, k) /\ r # Finished
  BY DEF IsRequest
<1>1. whole \in KeyRanges /\ reverse \in BOOLEAN /\ stored \subseteq Seq(Nat) /\ limit \in Nat \ {0}
  BY DEF Walk
<1>2. Len(s) \in Nat /\ \A i \in 1 .. Len(s) : s[i] \in S /\ s[i] \in Seq(Nat)
  BY WalkFact
<1>3. a \in Nat /\ (k = 0 => a = 0) /\ (k # 0 => a >= 1)
  BY <1>0, <1>1 DEF Place
<1>4. ASSUME k = 0
      PROVE  /\ a \in Nat /\ a <= Len(s) /\ r \in KeyRanges /\ Reach(stored, r) = Rest(s, a, S, reverse)
             /\ \A x \in Seq(Nat) : Resumed(r, reverse, x) = Resumed(whole, reverse, x)
  <2>1. r = whole
    BY <1>0, <1>4 DEF RequestAt
  <2> HIDE DEF a
  <2>2. Reach(stored, r) = Rest(s, a, S, reverse)
    BY <1>3, <1>4, <2>1 DEF Rest, Reached
  <2>3. a <= Len(s)
    BY <1>2, <1>3, <1>4
  <2> QED
    BY <1>1, <1>3, <2>1, <2>2, <2>3 DEF a
<1>5. ASSUME k # 0
      PROVE  /\ a \in Nat /\ a <= Len(s) /\ r \in KeyRanges /\ Reach(stored, r) = Rest(s, a, S, reverse)
             /\ \A x \in Seq(Nat) : Resumed(r, reverse, x) = Resumed(whole, reverse, x)
  <2>1. GoesOn(engine, Len(s), a) /\ r = Resumed(whole, reverse, s[a])
    <3>1. r = IF GoesOn(engine, Len(s), a) THEN Resumed(whole, reverse, s[a]) ELSE Finished
      BY <1>0, <1>5, Zenon DEF RequestAt
    <3> QED
      BY <1>0, <3>1
  <2>2. a \in 1 .. Len(s)
    <3>1. a <= Len(s)
      BY <2>1 DEF GoesOn
    <3> HIDE DEF a
    <3> QED
      BY <1>2, <1>3, <1>5, <3>1
  <2> HIDE DEF a
  <2>3. s[a] \in S /\ s[a] \in Seq(Nat)
    BY <1>2, <2>2
  <2>4. /\ r \in KeyRanges
        /\ \A x \in Seq(Nat) : Resumed(r, reverse, x) = Resumed(whole, reverse, x)
    BY <1>1, <2>1, <2>3, ResumedIs
  <2>5. Reach(stored, r) = {y \in S : Goes(s[a], y, reverse)}
    <3>1. s[a] \in {y \in stored : InKeyRange(whole, y)}
      BY <2>3 DEF Reach
    <3> QED
      BY <1>1, <2>1, <3>1, ResumedReaches DEF Reach
  <2>6. a # 0
    BY <2>2
  <2>7. Reach(stored, r) = Rest(s, a, S, reverse)
    BY <2>5, <2>6 DEF Rest
  <2> QED
    BY <1>3, <2>2, <2>4, <2>7 DEF a
<1>6. /\ a \in Nat /\ a <= Len(s) /\ r \in KeyRanges /\ Reach(stored, r) = Rest(s, a, S, reverse)
      /\ \A x \in Seq(Nat) : Resumed(r, reverse, x) = Resumed(whole, reverse, x)
  <2> HIDE DEF a, S
  <2> QED
    BY <1>4, <1>5
<1> HIDE DEF a
<1>7. Stands(r, stored, whole, reverse, s, a)
  BY <1>6 DEF Stands
<1> QED
  BY <1>7 DEF a

(* The page that answers it. *)
LEMMA PageAt ==
  ASSUME NEW stored, NEW whole, NEW reverse, NEW limit, NEW s, Walk(stored, whole, reverse, limit, s),
         NEW r, NEW a, Stands(r, stored, whole, reverse, s, a), NEW size \in Nat
  PROVE  LET c == IF size < Len(s) - a THEN size ELSE Len(s) - a IN
         /\ PageOf(stored, r, reverse, size) = Part(s, a, a + c)
         /\ Len(PageOf(stored, r, reverse, size)) = c
<1> DEFINE S == Reach(stored, whole)
<1>1. a \in Nat /\ a <= Len(s) /\ {y \in stored : InKeyRange(r, y)} = Rest(s, a, S, reverse)
  BY DEF Stands, Reach
<1>2. IsFiniteSet(S) /\ S \subseteq Seq(Nat) /\ s = Ordered(S, reverse) /\ reverse \in BOOLEAN
  <2>1. reverse \in BOOLEAN
    BY DEF Walk
  <2> QED
    BY <2>1, WalkFact
<1> HIDE DEF S
<1> QED
  BY <1>1, <1>2, PageIs

LEMMA PlacesGo ==
  ASSUME NEW k \in Nat, NEW limit \in Nat \ {0}
  PROVE  /\ Place(k, limit) \in Nat /\ Place(k + 1, limit) = Place(k, limit) + limit
         /\ Place(0, limit) = 0 /\ k <= Place(k, limit)
<1>1. Place(k, limit) \in Nat /\ Place(k + 1, limit) = Place(k, limit) + limit /\ Place(0, limit) = 0
  BY DEF Place
<1>2. k <= Place(k, limit)
  BY DEF Place
<1> QED
  BY <1>1, <1>2

(* It has nothing left to ask for once the list is over.                   *)
LEMMA FinishedAt ==
  ASSUME NEW engine, NEW stored, NEW whole, NEW reverse, NEW limit, NEW s,
         Walk(stored, whole, reverse, limit, s), NEW k \in Nat,
         RequestAt(engine, whole, reverse, limit, s, k) = Finished
  PROVE  Len(s) <= Place(k, limit)
<1> DEFINE a == Place(k, limit)
           n == Len(s)
<1>1. limit \in Nat \ {0} /\ whole \in KeyRanges /\ reverse \in BOOLEAN
  BY DEF Walk
<1>2. a \in Nat /\ k <= a
  BY <1>1, PlacesGo
<1>3. n \in Nat /\ \A i \in 1 .. n : s[i] \in Seq(Nat)
  BY WalkFact
<1>4. k # 0
  BY <1>1, FinishedApart DEF RequestAt
<1>5. Finished = IF GoesOn(engine, n, a) THEN Resumed(whole, reverse, s[a]) ELSE Finished
  BY <1>4, Zenon DEF RequestAt
<1>6. ~GoesOn(engine, n, a)
  <2> SUFFICES ASSUME GoesOn(engine, n, a) PROVE FALSE
    OBVIOUS
  <2>1. s[a] \in Seq(Nat)
    <3>1. a \in 1 .. n
      <4> HIDE DEF a, n
      <4> QED
        BY <1>2, <1>3, <1>4 DEF GoesOn
    <3> HIDE DEF a, n
    <3> QED
      BY <1>3, <3>1
  <2>2. Resumed(whole, reverse, s[a]) \in KeyRanges
    BY <1>1, <2>1, ResumedIs
  <2> QED
    BY <1>5, <2>2, FinishedApart
<1> HIDE DEF a, n
<1>7. n <= a
  BY <1>2, <1>3, <1>6 DEF GoesOn, Resumes
<1> QED
  BY <1>7 DEF a, n

(* The loop, page after page. *)
LEMMA NextIs ==
  ASSUME NEW engine, NEW stored, NEW whole, NEW reverse, NEW limit, NEW s,
         Walk(stored, whole, reverse, limit, s), NEW k \in Nat
  PROVE  NextRequest(engine, stored, RequestAt(engine, whole, reverse, limit, s, k), reverse, limit)
           = RequestAt(engine, whole, reverse, limit, s, k + 1)
<1> DEFINE r == RequestAt(engine, whole, reverse, limit, s, k)
           a == Place(k, limit)
           b == Place(k + 1, limit)
           n == Len(s)
           next == RequestAt(engine, whole, reverse, limit, s, k + 1)
<1>1. limit \in Nat \ {0} /\ whole \in KeyRanges
  BY DEF Walk
<1>2. a \in Nat /\ b = a + limit /\ (k = 0 => a = 0)
  BY <1>1, PlacesGo
<1>3. n \in Nat /\ \A i \in 1 .. n : s[i] \in Seq(Nat)
  BY WalkFact
<1>4. next = IF GoesOn(engine, n, b) THEN Resumed(whole, reverse, s[b]) ELSE Finished
  <2>1. k + 1 # 0 /\ k + 1 \in Nat
    OBVIOUS
  <2> QED
    BY <2>1, Zenon DEF RequestAt
<1>5. ASSUME r = Finished PROVE next = Finished
  <2>1. n <= a
    BY <1>5, FinishedAt
  <2>2. ~(b <= n)
    <3> HIDE DEF a, b, n
    <3> QED
      BY <1>1, <1>2, <1>3, <2>1
  <2> QED
    BY <1>4, <2>2 DEF GoesOn
<1>6. ASSUME r # Finished
      PROVE  NextRequest(engine, stored, r, reverse, limit) = next
  <2>1. Stands(r, stored, whole, reverse, s, a)
    <3>1. IsRequest(r, engine, whole, reverse, limit, s, k)
      BY <1>6 DEF IsRequest
    <3> HIDE DEF r
    <3> QED
      BY <3>1, RequestReaches
  <2> DEFINE page == PageOf(stored, r, reverse, limit)
             more == PageOf(stored, r, reverse, limit + 1)
             c == IF limit < n - a THEN limit ELSE n - a
             d == IF limit + 1 < n - a THEN limit + 1 ELSE n - a
  <2>2. page = Part(s, a, a + c) /\ Len(page) = c
    <3>1. limit \in Nat
      BY <1>1
    <3> HIDE DEF r, a
    <3> QED
      BY <2>1, <3>1, PageAt
  <2>3. Len(more) = d
    <3>1. limit + 1 \in Nat
      BY <1>1
    <3> DEFINE size == limit + 1
    <3> HIDE DEF r, a, size
    <3>2. Len(PageOf(stored, r, reverse, size)) = IF size < Len(s) - a THEN size ELSE Len(s) - a
      <4>1. size \in Nat
        BY <3>1 DEF size
      <4> QED
        BY <2>1, <4>1, PageAt
    <3> QED
      BY <3>2 DEF size
  <2>4. a <= n
    BY <2>1 DEF Stands
  <2>5. NextRequest(engine, stored, r, reverse, limit)
          = IF Len(page) < limit THEN Finished
            ELSE IF Resumes(engine, Len(more) > limit) THEN Resumed(r, reverse, Last(page)) ELSE Finished
    BY <1>6 DEF NextRequest
  <2> HIDE DEF r, a, b, n, next, page, more
  <2>6. CASE Len(page) < limit
    <3>1. ~(b <= n)
      BY <1>1, <1>2, <1>3, <2>2, <2>4, <2>6
    <3>2. next = Finished
      BY <1>4, <3>1 DEF GoesOn
    <3> QED
      BY <2>5, <2>6, <3>2
  <2>7. CASE ~(Len(page) < limit)
    <3>1. b <= n /\ c = limit /\ (Len(more) > limit <=> n > b)
      BY <1>1, <1>2, <1>3, <2>2, <2>3, <2>4, <2>7
    <3>2. Resumes(engine, Len(more) > limit) <=> GoesOn(engine, n, b)
      BY <3>1 DEF GoesOn, Resumes
    <3>3. Last(page) = s[b]
      <4>1. Last(page) = page[limit]
        BY <2>2, <3>1 DEF Last
      <4>2. limit \in 1 .. (a + c) - a /\ a + limit = b
        BY <1>1, <1>2, <3>1
      <4>3. page = [i \in 1 .. (a + c) - a |-> s[a + i]]
        BY <2>2 DEF Part
      <4> HIDE DEF c
      <4> QED
        BY <4>1, <4>2, <4>3
    <3>4. Resumed(r, reverse, s[b]) = Resumed(whole, reverse, s[b])
      <4>1. b \in 1 .. n
        BY <1>1, <1>2, <1>3, <3>1
      <4>2. s[b] \in Seq(Nat)
        BY <1>3, <4>1
      <4> QED
        BY <2>1, <4>2 DEF Stands
    <3> QED
      BY <1>4, <2>5, <2>7, <3>2, <3>3, <3>4
  <2> QED
    BY <2>6, <2>7
<1>7. ASSUME r = Finished PROVE NextRequest(engine, stored, r, reverse, limit) = next
  BY <1>5, <1>7 DEF NextRequest
<1> QED
  BY <1>6, <1>7

(* The requests of a walk, without the loop.                               *)
LEMMA RequestsAre ==
  ASSUME NEW engine, NEW stored, NEW whole, NEW reverse, NEW limit, NEW s,
         Walk(stored, whole, reverse, limit, s)
  PROVE  Requests(engine, stored, whole, reverse, limit)
           = [k \in 0 .. Cardinality(stored) + 1 |-> RequestAt(engine, whole, reverse, limit, s, k)]
<1> DEFINE N == Cardinality(stored) + 1
           Next0(r) == NextRequest(engine, stored, r, reverse, limit)
           At(k) == RequestAt(engine, whole, reverse, limit, s, k)
           Rec(g) == g = [k \in 0 .. N |-> IF k = 0 THEN whole ELSE Next0(g[k - 1])]
           h == [k \in 0 .. N |-> At(k)]
<1>1. Requests(engine, stored, whole, reverse, limit) = CHOOSE g : Rec(g)
  BY Zenon DEF Requests, NextRequest
<1>2. N \in Nat
  BY WalkFact
<1>3. At(0) = whole /\ \A k \in Nat : Next0(At(k)) = At(k + 1)
  BY NextIs DEF RequestAt
<1> HIDE DEF N, Next0, At
<1>4. Rec(h)
  <2>1. ASSUME NEW k \in 0 .. N, k # 0 PROVE At(k) = Next0(h[k - 1])
    <3>1. k - 1 \in 0 .. N /\ k - 1 \in Nat /\ (k - 1) + 1 = k
      BY <1>2, <2>1
    <3> QED
      BY <1>3, <3>1
  <2> QED
    BY <1>3, <2>1
<1>5. ASSUME NEW f, Rec(f) PROVE f = h
  <2> DEFINE B == {k \in 0 .. N : f[k] # h[k]}
  <2>1. /\ DOMAIN f = 0 .. N /\ f = [k \in 0 .. N |-> f[k]]
        /\ \A k \in 0 .. N : f[k] = IF k = 0 THEN whole ELSE Next0(f[k - 1])
    BY <1>5
  <2>2. \A k \in 0 .. N : h[k] = IF k = 0 THEN whole ELSE Next0(h[k - 1])
    BY <1>4
  <2>3. B = {}
    <3> SUFFICES ASSUME B # {} PROVE FALSE
      OBVIOUS
    <3>1. B \in SUBSET Nat
      BY <1>2
    <3>2. PICK k \in B : \A m \in B : k <= m
      <4> HIDE DEF B
      <4> QED
        BY <3>1, LeastNumber
    <3>3. k \in 0 .. N /\ f[k] # h[k]
      BY <3>2
    <3>4. k # 0
      BY <2>1, <2>2, <3>3
    <3>5. k - 1 \in 0 .. N /\ ~(k <= k - 1)
      BY <1>2, <3>3, <3>4
    <3>6. f[k - 1] = h[k - 1]
      BY <3>2, <3>5
    <3> HIDE DEF h
    <3> QED
      BY <2>1, <2>2, <3>3, <3>4, <3>6
  <2> QED
    BY <2>1, <2>3
<1> HIDE DEF Rec, h
<1>6. (CHOOSE g : Rec(g)) = h
  BY <1>4, <1>5
<1> QED
  BY <1>1, <1>6 DEF h, N, At

(* Parts that follow one another, one after the other, are a part.         *)
Follow(P, L, s, A) ==
  /\ A \in [0 .. L -> 0 .. Len(s)] /\ A[0] = 0
  /\ \A i \in 1 .. L : A[i - 1] <= A[i] /\ P[i] = Part(s, A[i - 1], A[i])

LEMMA FlattenParts ==
  ASSUME NEW S, NEW s \in Seq(S), NEW L \in Nat \ {0}, NEW P, P \in Seq(Seq(S)), Len(P) = L,
         NEW A, Follow(P, L, s, A)
  PROVE  FlattenSeq(P) = Part(s, 0, A[L])
<1> DEFINE Rec(g) == g = [i \in 1 .. L |-> IF i = 1 THEN P[i] ELSE g[i - 1] \o P[i]]
           n == Len(s)
           h == [i \in 1 .. L |-> Part(s, 0, A[i])]
<1>1. FlattenSeq(P) = (CHOOSE g : Rec(g))[L]
  <2>1. Len(P) # 0 /\ 1 .. Len(P) = 1 .. L
    OBVIOUS
  <2>2. FlattenSeq(P) = (CHOOSE g : g = [i \in 1 .. Len(P) |-> IF i = 1 THEN P[i] ELSE g[i - 1] \o P[i]])[Len(P)]
    BY <2>1, Zenon DEF FlattenSeq
  <2> QED
    BY <2>2
<1>2. n \in Nat /\ A \in [0 .. L -> 0 .. n] /\ A[0] = 0
      /\ \A i \in 1 .. L : A[i - 1] <= A[i] /\ P[i] = Part(s, A[i - 1], A[i])
  BY DEF Follow
<1>3. \A i \in 1 .. L : i - 1 \in 0 .. L /\ i \in 0 .. L /\ (i # 1 => i - 1 \in 1 .. L)
  OBVIOUS
<1>4. \A i \in 1 .. L : Part(s, 0, A[i - 1]) \o P[i] = Part(s, 0, A[i])
  <2> TAKE i \in 1 .. L
  <2> DEFINE a == A[i - 1]
             b == A[i]
  <2>1. a \in Nat /\ b \in Nat /\ a <= b /\ b <= Len(s) /\ P[i] = Part(s, a, b)
    BY <1>2, <1>3
  <2> HIDE DEF a, b
  <2>2. Part(s, 0, a) \o Part(s, a, b) = Part(s, 0, b)
    BY <2>1, PartsJoin
  <2> QED
    BY <2>1, <2>2 DEF a, b
<1> HIDE DEF n
<1>5. Rec(h)
  <2>1. ASSUME NEW i \in 1 .. L, i # 1 PROVE Part(s, 0, A[i]) = h[i - 1] \o P[i]
    BY <1>3, <1>4, <2>1
  <2>2. Part(s, 0, A[1]) = P[1]
    <3>1. 1 \in 1 .. L /\ 1 - 1 = 0
      OBVIOUS
    <3> QED
      BY <1>2, <3>1
  <2> QED
    BY <2>1, <2>2
<1>6. ASSUME NEW f, Rec(f) PROVE f = h
  <2> DEFINE B == {i \in 1 .. L : f[i] # h[i]}
  <2>1. /\ DOMAIN f = 1 .. L /\ f = [i \in 1 .. L |-> f[i]]
        /\ \A i \in 1 .. L : f[i] = IF i = 1 THEN P[i] ELSE f[i - 1] \o P[i]
    BY <1>6
  <2>2. \A i \in 1 .. L : h[i] = IF i = 1 THEN P[i] ELSE h[i - 1] \o P[i]
    BY <1>5
  <2>3. B = {}
    <3> SUFFICES ASSUME B # {} PROVE FALSE
      OBVIOUS
    <3>1. B \in SUBSET Nat
      OBVIOUS
    <3>2. PICK i \in B : \A m \in B : i <= m
      <4> HIDE DEF B
      <4> QED
        BY <3>1, LeastNumber
    <3>3. i \in 1 .. L /\ f[i] # h[i]
      BY <3>2
    <3>4. i # 1
      BY <2>1, <2>2, <3>3
    <3>5. i - 1 \in 1 .. L /\ ~(i <= i - 1)
      BY <3>3, <3>4
    <3>6. f[i - 1] = h[i - 1]
      BY <3>2, <3>5
    <3> HIDE DEF h, B
    <3>7. f[i] = f[i - 1] \o P[i]
      BY <2>1, <3>3, <3>4
    <3>8. h[i] = h[i - 1] \o P[i]
      BY <2>2, <3>3, <3>4
    <3> QED
      BY <3>3, <3>6, <3>7, <3>8
  <2> QED
    BY <2>1, <2>3
<1> HIDE DEF Rec
<1>7. (CHOOSE g : Rec(g)) = h
  <2> HIDE DEF h
  <2> QED
    BY <1>5, <1>6
<1>8. L \in 1 .. L
  OBVIOUS
<1> QED
  BY <1>1, <1>7, <1>8

(* The keys the pages bring are the list.                                  *)
LEMMA WalkedIs ==
  ASSUME NEW engine, NEW stored, NEW whole, NEW reverse, NEW limit, NEW s,
         Walk(stored, whole, reverse, limit, s)
  PROVE  Walked(engine, stored, whole, reverse, limit) = s
<1> DEFINE N == Cardinality(stored)
           n == Len(s)
           S == Reach(stored, whole)
           At(k) == RequestAt(engine, whole, reverse, limit, s, k)
           Page0(r) == IF r = Finished THEN <<>> ELSE PageOf(stored, r, reverse, limit)
           P == [i \in 1 .. N + 2 |-> Page0(At(i - 1))]
           A == [i \in 0 .. N + 2 |-> IF Place(i, limit) < n THEN Place(i, limit) ELSE n]
<1>1. N \in Nat /\ n \in Nat /\ n <= N /\ s \in Seq(S)
  BY WalkFact
<1>2. limit \in Nat \ {0}
  BY DEF Walk
<1>3. \A i \in 0 .. N + 2 : Place(i, limit) \in Nat /\ i <= Place(i, limit)
                            /\ Place(i + 1, limit) = Place(i, limit) + limit
  <2> TAKE i \in 0 .. N + 2
  <2>1. i \in Nat
    BY <1>1
  <2> QED
    BY <1>2, <2>1, PlacesGo
<1>4. Place(0, limit) = 0
  BY <1>2, PlacesGo
<1>5. Walked(engine, stored, whole, reverse, limit) = FlattenSeq(P)
  <2> DEFINE request == Requests(engine, stored, whole, reverse, limit)
  <2>1. \A i \in 1 .. N + 2 : request[i - 1] = At(i - 1)
    <3>1. request = [k \in 0 .. N + 1 |-> At(k)]
      BY RequestsAre
    <3>2. \A i \in 1 .. N + 2 : i - 1 \in 0 .. N + 1
      BY <1>1
    <3> HIDE DEF request, At, N
    <3> QED
      BY <3>1, <3>2
  <2>2. Walked(engine, stored, whole, reverse, limit) = FlattenSeq([i \in 1 .. N + 2 |-> Page0(request[i - 1])])
    BY Zenon DEF Walked
  <2> HIDE DEF request, At, N, Page0
  <2>3. [i \in 1 .. N + 2 |-> Page0(request[i - 1])] = P
    BY <2>1
  <2> QED
    BY <2>2, <2>3
<1>6. ASSUME NEW i \in 1 .. N + 2
      PROVE  A[i - 1] <= A[i] /\ P[i] = Part(s, A[i - 1], A[i]) /\ P[i] \in Seq(S)
  <2> DEFINE k == i - 1
             a == A[k]
             b == A[i]
             r == At(k)
             place == Place(k, limit)
  <2>1. k \in Nat /\ k \in 0 .. N + 2 /\ i \in 0 .. N + 2 /\ k + 1 = i
    BY <1>1
  <2>2. place \in Nat /\ Place(i, limit) = place + limit
    BY <1>3, <2>1
  <2> HIDE DEF place, k
  <2>3. a = (IF place < n THEN place ELSE n) /\ b = (IF place + limit < n THEN place + limit ELSE n)
    BY <2>1, <2>2 DEF place
  <2>4. a \in Nat /\ b \in Nat /\ a <= b /\ b <= n
    BY <1>1, <1>2, <2>2, <2>3
  <2>5. P[i] = Page0(r)
    BY DEF k
  <2>6. Part(s, a, b) \in Seq(S)
    <3> HIDE DEF A, S, r
    <3> QED
      BY <1>1, <2>4, PartFact
  <2>7. Page0(r) = Part(s, a, b)
    <3>1. CASE r = Finished
      <4>1. n <= place
        BY <2>1, <3>1, FinishedAt DEF place
      <4>2. a = n /\ b = n
        BY <1>1, <1>2, <2>2, <2>3, <4>1
      <4> HIDE DEF a, b, r, P, A, n
      <4>3. 1 .. b - a = {}
        BY <1>1, <4>2
      <4>4. Part(s, a, b) = [j \in {} |-> s[a + j]]
        BY <4>3 DEF Part
      <4> QED
        BY <3>1, <4>4
    <3>2. CASE r # Finished
      <4>1. Stands(r, stored, whole, reverse, s, place)
        <5>1. IsRequest(r, engine, whole, reverse, limit, s, k)
          BY <2>1, <3>2 DEF IsRequest
        <5> HIDE DEF r
        <5> QED
          BY <5>1, RequestReaches DEF place
      <4> DEFINE c == IF limit < n - place THEN limit ELSE n - place
      <4>2. PageOf(stored, r, reverse, limit) = Part(s, place, place + c)
        <5>1. limit \in Nat
          BY <1>2
        <5> HIDE DEF r, P, A, S
        <5> QED
          BY <4>1, <5>1, PageAt
      <4>3. place <= n
        BY <4>1 DEF Stands
      <4>4. a = place /\ b = place + c
        BY <1>1, <1>2, <2>2, <2>3, <4>3
      <4> HIDE DEF a, b, r, P, A, c
      <4> QED
        BY <3>2, <4>2, <4>4
    <3> QED
      BY <3>1, <3>2
  <2> HIDE DEF P, A, r, S
  <2> QED
    BY <2>4, <2>5, <2>6, <2>7 DEF k
<1>7. A \in [0 .. N + 2 -> 0 .. n] /\ A[0] = 0 /\ A[N + 2] = n
  <2>1. \A i \in 0 .. N + 2 : A[i] = (IF Place(i, limit) < n THEN Place(i, limit) ELSE n) /\ A[i] \in 0 .. n
    BY <1>1, <1>3
  <2>2. 0 \in 0 .. N + 2 /\ N + 2 \in 0 .. N + 2 /\ n <= N + 2
    BY <1>1
  <2>3. ~(Place(N + 2, limit) < n)
    BY <1>1, <1>3, <2>2
  <2>4. A[0] = 0 /\ A[N + 2] = n
    BY <1>1, <1>4, <2>1, <2>2, <2>3
  <2> QED
    BY <2>1, <2>4
<1> DEFINE L == N + 2
<1>8. L \in Nat \ {0} /\ P = [i \in 1 .. L |-> P[i]] /\ \A i \in 1 .. L : P[i] \in Seq(S)
  <2>1. L \in Nat \ {0}
    BY <1>1
  <2>2. P = [i \in 1 .. L |-> P[i]]
    OBVIOUS
  <2>3. \A i \in 1 .. L : P[i] \in Seq(S)
    <3> HIDE DEF P, A, S
    <3> QED
      BY <1>6
  <2> QED
    BY <2>1, <2>2, <2>3
<1>9. A \in [0 .. L -> 0 .. Len(s)] /\ A[0] = 0 /\ A[L] = Len(s)
      /\ \A i \in 1 .. L : A[i - 1] <= A[i] /\ P[i] = Part(s, A[i - 1], A[i])
  BY <1>6, <1>7
<1> HIDE DEF P, A, L, S
<1>10. P \in Seq(Seq(S)) /\ Len(P) = L
  <2>1. P \in [1 .. L -> Seq(S)]
    BY <1>8
  <2> QED
    BY <1>8, <2>1
<1>11. Follow(P, L, s, A)
  BY <1>9 DEF Follow
<1>12. FlattenSeq(P) = Part(s, 0, A[L])
  BY <1>1, <1>8, <1>10, <1>11, FlattenParts
<1>13. Part(s, 0, Len(s)) = s
  BY <1>1, WholePart
<1> QED
  BY <1>5, <1>9, <1>12, <1>13

-----------------------------------------------------------------------------
(* What the engines refuse of a walk.                                      *)

LEMMA RefusedIsEmpty ==
  ASSUME NEW r \in KeyRanges, NEW engine, Refuses(engine, r)
  PROVE  /\ Empty(r) /\ engine \in {"memory", "indexeddb"} /\ r.start.kind # "unbounded" /\ r.end.kind # "unbounded"
         /\ engine = "memory" => Less(r.end.key, r.start.key) \/ (r.start = r.end /\ r.start.kind = "excluded")
<1>1. r.start \in KeyBounds /\ r.end \in KeyBounds
  BY DEF KeyRanges
<1>2. r.start.kind # "unbounded" /\ r.end.kind # "unbounded"
  BY DEF Refuses
<1>3. engine \in {"memory", "indexeddb"}
  BY DEF Refuses
<1>4. engine = "memory" => Less(r.end.key, r.start.key) \/ (r.start = r.end /\ r.start.kind = "excluded")
  BY DEF Refuses
<1>5. engine = "indexeddb" => Empty(r)
  BY DEF Refuses
<1>6. Less(r.end.key, r.start.key) => Empty(r)
  BY <1>2 DEF Empty, AtMost
<1>7. r.start = r.end /\ r.start.kind = "excluded" => Empty(r)
  BY <1>2 DEF Empty, AtMost
<1> QED
  BY <1>2, <1>3, <1>4, <1>5, <1>6, <1>7

LEMMA EmptyIs ==
  ASSUME NEW r
  PROVE  Empty(r) <=> /\ r.start.kind # "unbounded" /\ r.end.kind # "unbounded"
                      /\ IF r.start.kind = "included" /\ r.end.kind = "included"
                         THEN Less(r.end.key, r.start.key) ELSE AtMost(r.end.key, r.start.key)
<1>1. {r.start.kind, r.end.kind} = {"included"} <=> r.start.kind = "included" /\ r.end.kind = "included"
  OBVIOUS
<1>2. "unbounded" \notin {r.start.kind, r.end.kind} <=> r.start.kind # "unbounded" /\ r.end.kind # "unbounded"
  OBVIOUS
<1> QED
  BY <1>1, <1>2, Zenon DEF Empty

(* A range that reaches a key is not empty. *)
LEMMA ReachingNotEmpty ==
  ASSUME NEW r \in KeyRanges, NEW y \in Seq(Nat), InKeyRange(r, y)
  PROVE  ~Empty(r)
<1> SUFFICES ASSUME Empty(r) PROVE FALSE
  OBVIOUS
<1> DEFINE a == r.start.key
           b == r.end.key
<1>1. r.start \in KeyBounds /\ r.end \in KeyBounds
  BY DEF KeyRanges
<1>2. /\ a \in Seq(Nat) /\ b \in Seq(Nat)
      /\ r.start.kind \in {"included", "excluded"} /\ r.end.kind \in {"included", "excluded"}
  BY <1>1 DEF KeyBounds, Empty
<1>3. IF r.start.kind = "included" THEN AtMost(a, y) ELSE Less(a, y)
  BY <1>2 DEF InKeyRange, AfterStart
<1>4. IF r.end.kind = "included" THEN AtMost(y, b) ELSE Less(y, b)
  BY <1>2 DEF InKeyRange, BeforeEnd
<1>5. IF r.start.kind = "included" /\ r.end.kind = "included" THEN Less(b, a) ELSE AtMost(b, a)
  BY EmptyIs
<1> HIDE DEF a, b
<1> QED
  BY <1>2, <1>3, <1>4, <1>5, LessOrder DEF AtMost

(* The range after a page: none of the engines refuses it, IndexedDB       *)
(* because there is a key beyond.                                          *)
LEMMA ResumedAccepted ==
  ASSUME NEW r \in KeyRanges, NEW x \in Seq(Nat), NEW reverse \in BOOLEAN, NEW engine,
         InKeyRange(r, x),
         engine = "indexeddb" => \E y \in Seq(Nat) : InKeyRange(r, y) /\ Goes(x, y, reverse)
  PROVE  ~Refuses(engine, Resumed(r, reverse, x))
<1> SUFFICES ASSUME Refuses(engine, Resumed(r, reverse, x)) PROVE FALSE
  OBVIOUS
<1> DEFINE t == Resumed(r, reverse, x)
<1>1. t \in KeyRanges /\ t = IF reverse THEN [start |-> r.start, end |-> Excluded(x)]
                                        ELSE [start |-> Excluded(x), end |-> r.end]
  BY ResumedIs
<1>2. r.start \in KeyBounds /\ r.end \in KeyBounds
  BY DEF KeyRanges
<1> HIDE DEF t
<1>3. /\ Empty(t) /\ engine \in {"memory", "indexeddb"} /\ t.start.kind # "unbounded" /\ t.end.kind # "unbounded"
      /\ engine = "memory" => Less(t.end.key, t.start.key) \/ (t.start = t.end /\ t.start.kind = "excluded")
  <2>1. Refuses(engine, t)
    BY DEF t
  <2> QED
    BY <1>1, <2>1, RefusedIsEmpty
<1>4. CASE engine = "indexeddb"
  <2>1. PICK y \in Seq(Nat) : InKeyRange(r, y) /\ Goes(x, y, reverse)
    BY <1>4
  <2>2. InKeyRange(t, y)
    <3>1. x \in {k \in {x, y} : InKeyRange(r, k)} /\ {x, y} \subseteq Seq(Nat)
      OBVIOUS
    <3>2. {k \in {x, y} : InKeyRange(t, k)} = {k \in {k \in {x, y} : InKeyRange(r, k)} : Goes(x, k, reverse)}
      BY <3>1, ResumedReaches DEF t
    <3> QED
      BY <2>1, <3>2
  <2> QED
    BY <1>1, <1>3, <2>2, ReachingNotEmpty
<1>5. CASE engine = "memory"
  <2>1. CASE ~reverse
    <3>1. t.start.key = x /\ t.start.kind = "excluded" /\ t.end = r.end
      BY <1>1, <2>1 DEF Excluded
    <3>2. r.end.key \in Seq(Nat) /\ r.end.kind \in {"included", "excluded"}
      BY <1>2, <1>3, <3>1 DEF KeyBounds
    <3>3. Less(r.end.key, x) \/ (r.end.key = x /\ r.end.kind = "excluded")
      BY <1>3, <1>5, <3>1
    <3>4. IF r.end.kind = "included" THEN AtMost(x, r.end.key) ELSE Less(x, r.end.key)
      BY <3>2 DEF InKeyRange, BeforeEnd
    <3> QED
      BY <3>2, <3>3, <3>4, LessOrder DEF AtMost
  <2>2. CASE reverse
    <3>1. t.start = r.start /\ t.end.kind = "excluded" /\ t.end.key = x
      BY <1>1, <2>2 DEF Excluded
    <3>2. r.start.key \in Seq(Nat) /\ r.start.kind \in {"included", "excluded"}
      BY <1>2, <1>3, <3>1 DEF KeyBounds
    <3>3. Less(x, r.start.key) \/ (r.start.key = x /\ r.start.kind = "excluded")
      BY <1>3, <1>5, <3>1
    <3>4. IF r.start.kind = "included" THEN AtMost(r.start.key, x) ELSE Less(r.start.key, x)
      BY <3>2 DEF InKeyRange, AfterStart
    <3> QED
      BY <3>2, <3>3, <3>4, LessOrder DEF AtMost
  <2> QED
    BY <2>1, <2>2
<1> QED
  BY <1>3, <1>4, <1>5

(* A request of a walk that is refused is its first. *)
LEMMA FirstRefused ==
  ASSUME NEW engine, NEW stored, NEW whole, NEW reverse, NEW limit, NEW s,
         Walk(stored, whole, reverse, limit, s), NEW k \in Nat,
         Refuses(engine, RequestAt(engine, whole, reverse, limit, s, k))
  PROVE  k = 0 /\ Refuses(engine, whole)
<1> DEFINE a == Place(k, limit)
           n == Len(s)
           S == Reach(stored, whole)
<1>1. limit \in Nat \ {0} /\ whole \in KeyRanges /\ reverse \in BOOLEAN /\ stored \subseteq Seq(Nat)
  BY DEF Walk
<1>2. a \in Nat /\ k <= a
  BY <1>1, PlacesGo
<1>3. n \in Nat /\ OrderedAs(s, n, S, reverse) /\ \A i \in 1 .. n : s[i] \in S /\ s[i] \in Seq(Nat)
  BY WalkFact
<1>4. ASSUME k # 0 PROVE FALSE
  <2>1. RequestAt(engine, whole, reverse, limit, s, k)
          = IF GoesOn(engine, n, a) THEN Resumed(whole, reverse, s[a]) ELSE Finished
    BY <1>4, Zenon DEF RequestAt
  <2>2. ~Refuses(engine, Finished)
    BY DEF Refuses, Finished, Unbounded
  <2>3. GoesOn(engine, n, a) /\ Refuses(engine, Resumed(whole, reverse, s[a]))
    BY <2>1, <2>2
  <2> HIDE DEF a, n
  <2>4. a \in 1 .. n /\ (engine = "indexeddb" => a + 1 \in 1 .. n)
    BY <1>2, <1>3, <1>4, <2>3 DEF GoesOn, Resumes
  <2>5. s[a] \in Seq(Nat) /\ InKeyRange(whole, s[a])
    <3>1. s[a] \in S
      BY <1>3, <2>4
    <3> QED
      BY <1>1, <3>1 DEF Reach
  <2>6. ASSUME engine = "indexeddb" PROVE \E y \in Seq(Nat) : InKeyRange(whole, y) /\ Goes(s[a], y, reverse)
    <3>1. a + 1 \in 1 .. n /\ a < a + 1
      BY <2>4, <2>6
    <3>2. s[a + 1] \in S /\ s[a + 1] \in Seq(Nat)
      BY <1>3, <3>1
    <3>3. Goes(s[a], s[a + 1], reverse)
      BY <1>3, <2>4, <3>1 DEF OrderedAs
    <3> QED
      BY <3>2, <3>3 DEF Reach
  <2> QED
    BY <1>1, <2>3, <2>5, <2>6, ResumedAccepted
<1>5. k = 0
  BY <1>4
<1> QED
  BY <1>5 DEF RequestAt

(* The range a walk asks for. *)
LEMMA BoundIs ==
  ASSUME NEW l \in LockerIds, NEW b \in UserBounds
  PROVE  /\ b.key \in Seq(Bytes) /\ b.kind \in {"unbounded", "included", "excluded"}
         /\ b.kind = "excluded" => b = Excluded(b.key)
         /\ \A edge : EncodeBound(l, b, edge)
              = IF b.kind = "unbounded" THEN edge ELSE [kind |-> b.kind, key |-> Encode(l, b.key)]
<1>1. CASE b = Unbounded
  BY <1>1 DEF Unbounded, EncodeBound
<1>2. CASE b \in [kind : {"included", "excluded"}, key : UserKeys]
  <2>1. b = [kind |-> b.kind, key |-> b.key] /\ b.kind \in {"included", "excluded"} /\ b.key \in UserKeys
    BY <1>2
  <2>2. b.key \in Seq(Bytes)
    BY <2>1, UserKeysAreLists
  <2>3. [b EXCEPT !.key = Encode(l, b.key)] = [kind |-> b.kind, key |-> Encode(l, b.key)]
    BY <2>1
  <2>4. \A edge : EncodeBound(l, b, edge) = [b EXCEPT !.key = Encode(l, b.key)]
    BY <2>1 DEF EncodeBound
  <2>5. b.kind = "excluded" => b = Excluded(b.key)
    BY <2>1 DEF Excluded
  <2> QED
    BY <2>1, <2>2, <2>3, <2>4, <2>5
<1> QED
  BY <1>1, <1>2 DEF UserBounds

LEMMA SuccessorTyped ==
  ASSUME NEW p \in Seq(Bytes)
  PROVE  Successor(p) \in KeyBounds
<1> DEFINE m == Len(p)
           J == {x \in 1 .. m : p[x] # Top}
           i == SelectLastInSeq(p, LAMBDA b : b # Top)
           v == SubSeq(p, 1, i - 1)
           u == Append(v, p[i] + 1)
<1>1. m \in Nat /\ p \in Seq(Nat) /\ \A x \in 1 .. m : p[x] \in Nat
  <2>1. p \in Seq(Nat)
    BY Sizes, SeqMonotonic
  <2> QED
    BY <2>1
<1>2. i = 0 \/ i \in 1 .. m
  <2>1. i = IF J # {} THEN Max(J) ELSE 0
    BY Zenon DEF SelectLastInSeq
  <2>2. J \subseteq 1 .. m
    OBVIOUS
  <2> HIDE DEF i, J, m
  <2> QED
    BY <1>1, <2>1, <2>2, LastPlace
<1>3. Successor(p) = IF i = 0 THEN Unbounded ELSE Excluded(u)
  BY Zenon DEF Successor
<1> HIDE DEF i, m
<1>4. ASSUME i # 0 PROVE u \in Seq(Nat)
  <2>1. 1 \in Nat \ {0} /\ i - 1 \in 0 .. m /\ 1 <= (i - 1) + 1 /\ p[i] + 1 \in Nat
    BY <1>1, <1>2, <1>4
  <2>2. v \in Seq(Nat)
    BY <1>1, <2>1, PartOf DEF m
  <2> HIDE DEF v
  <2> QED
    BY <2>1, <2>2
<1> HIDE DEF u
<1> QED
  BY <1>3, <1>4 DEF Unbounded, Excluded, KeyBounds

LEMMA RangeTyped ==
  ASSUME NEW l \in LockerIds, NEW s \in UserBounds, NEW e \in UserBounds
  PROVE  EncodeRange(l, s, e) \in KeyRanges
<1>1. <<>> \in Seq(Bytes) /\ s.key \in Seq(Bytes) /\ e.key \in Seq(Bytes)
  BY BoundIs
<1>2. LockerRange(l).start \in KeyBounds /\ LockerRange(l).end \in KeyBounds
  <2>1. Encode(l, <<>>) \in Seq(Bytes) /\ Encode(l, <<>>) \in Seq(Nat)
    BY <1>1, EncodeFact
  <2>2. Included(Encode(l, <<>>)) \in KeyBounds
    BY <2>1 DEF Included, KeyBounds
  <2> QED
    BY <2>1, <2>2, LockerEdges, SuccessorTyped
<1>3. \A b \in UserBounds : \A edge \in KeyBounds : EncodeBound(l, b, edge) \in KeyBounds
  <2> TAKE b \in UserBounds
  <2> TAKE edge \in KeyBounds
  <2>1. b.key \in Seq(Bytes)
    BY BoundIs
  <2>2. Encode(l, b.key) \in Seq(Nat)
    BY <2>1, EncodeFact
  <2>3. /\ b.kind \in {"unbounded", "included", "excluded"}
        /\ EncodeBound(l, b, edge) = IF b.kind = "unbounded" THEN edge ELSE [kind |-> b.kind, key |-> Encode(l, b.key)]
    BY BoundIs
  <2> QED
    BY <2>2, <2>3 DEF KeyBounds
<1> QED
  BY <1>2, <1>3 DEF EncodeRange, KeyRanges

(* A locker's range is refused by IndexedDB only, and only when it ends    *)
(* before the empty key.                                                   *)
LEMMA FirstAccepted ==
  ASSUME NEW l \in LockerIds, NEW s \in UserBounds, NEW e \in UserBounds, ~Empty([start |-> s, end |-> e]),
         NEW engine, Refuses(engine, EncodeRange(l, s, e))
  PROVE  engine = "indexeddb" /\ e = Excluded(<<>>)
<1> DEFINE r == EncodeRange(l, s, e)
           E(k) == Encode(l, k)
<1>1. r \in KeyRanges
  BY RangeTyped
<1>2. r.start = EncodeBound(l, s, Included(E(<<>>))) /\ r.end = EncodeBound(l, e, Successor(E(<<>>)))
  BY LockerEdges DEF EncodeRange
<1>3. /\ s.key \in Seq(Bytes) /\ s.kind \in {"unbounded", "included", "excluded"}
      /\ e.key \in Seq(Bytes) /\ e.kind \in {"unbounded", "included", "excluded"}
      /\ r.start = IF s.kind = "unbounded" THEN Included(E(<<>>)) ELSE [kind |-> s.kind, key |-> E(s.key)]
      /\ r.end = IF e.kind = "unbounded" THEN Successor(E(<<>>)) ELSE [kind |-> e.kind, key |-> E(e.key)]
      /\ e.kind = "excluded" => e = Excluded(e.key)
  BY <1>2, BoundIs
<1>4. /\ Empty(r) /\ engine \in {"memory", "indexeddb"}
      /\ engine = "memory" => Less(r.end.key, r.start.key) \/ (r.start = r.end /\ r.start.kind = "excluded")
  <2>1. Refuses(engine, r)
    OBVIOUS
  <2> HIDE DEF r
  <2> QED
    BY <1>1, <2>1, RefusedIsEmpty
<1>5. <<>> \in Seq(Bytes) /\ <<>> \in Seq(Nat) /\ \A k \in Seq(Bytes) : k \in Seq(Nat)
  <2>1. \A k \in Seq(Bytes) : k \in Seq(Nat)
    BY EncodeFact
  <2> QED
    BY <2>1
<1>6. \A j, k \in Seq(Bytes) : (Less(E(j), E(k)) <=> Less(j, k)) /\ (AtMost(E(j), E(k)) <=> AtMost(j, k))
  <2>1. l \in Nat
    BY IdFact
  <2> QED
    BY <2>1, EncodedLess
<1> HIDE DEF r, E
<1>7. e.kind # "unbounded"
  <2> SUFFICES ASSUME e.kind = "unbounded" PROVE FALSE
    OBVIOUS
  <2> DEFINE k == Append(s.key, 0)
  <2>1. k \in Seq(Bytes)
    <3>1. 0 \in Bytes
      BY Sizes DEF Bytes
    <3> QED
      BY <1>3, <3>1
  <2>2. Less(s.key, k)
    <3>1. s.key \in Seq(Nat) /\ k \in Seq(Nat)
      BY <1>3, <1>5, <2>1
    <3>2. Len(k) = Len(s.key) + 1 /\ Len(s.key) \in Nat /\ \A i \in 1 .. Len(s.key) : k[i] = s.key[i]
      BY <1>3
    <3> HIDE DEF k
    <3>3. Leads(s.key, k) /\ s.key # k
      BY <3>2 DEF Leads
    <3> QED
      BY <3>1, <3>3, PrefixIs DEF Less, IsStrictPrefix
  <2>3. AfterStart(k, s) /\ BeforeEnd(k, e)
    BY <1>3, <2>2 DEF AfterStart, BeforeEnd, AtMost
  <2>4. InKeyRange(r, E(k))
    BY <1>3, <2>1, <2>3, StartFact, EndFact DEF r, E, EncodeRange, InKeyRange
  <2>5. E(k) \in Seq(Nat)
    BY <2>1, EncodeFact DEF E
  <2> QED
    BY <1>1, <1>4, <2>4, <2>5, ReachingNotEmpty
<1>8. CASE s.kind # "unbounded"
  <2>1. r.start.kind = s.kind /\ r.start.key = E(s.key) /\ r.end.kind = e.kind /\ r.end.key = E(e.key)
    BY <1>3, <1>7, <1>8
  <2>2. Empty(r) <=> Empty([start |-> s, end |-> e])
    BY <1>3, <1>6, <2>1, EmptyIs
  <2> QED
    BY <1>4, <2>2
<1>9. CASE s.kind = "unbounded"
  <2>1. \A k \in Seq(Bytes) : ~Less(k, <<>>)
    <3>1. \A k : ~Smaller(k, <<>>)
      BY DEF Smaller
    <3> QED
      BY <1>5, <3>1, LessIs
  <2>2. /\ r.start.kind = "included" /\ r.start.key = E(<<>>)
        /\ r.end.kind = e.kind /\ r.end.key = E(e.key)
    BY <1>3, <1>7, <1>9 DEF Included
  <2>3. ~Less(r.end.key, r.start.key) /\ (AtMost(r.end.key, r.start.key) <=> AtMost(e.key, <<>>))
    <3>1. e.key \in Seq(Bytes) /\ <<>> \in Seq(Bytes)
      BY <1>3, <1>5
    <3>2. /\ Less(E(e.key), E(<<>>)) <=> Less(e.key, <<>>)
          /\ AtMost(E(e.key), E(<<>>)) <=> AtMost(e.key, <<>>)
      BY <1>6, <3>1, Zenon
    <3>3. ~Less(e.key, <<>>)
      BY <2>1, <3>1, Zenon
    <3> QED
      BY <2>2, <3>2, <3>3, Zenon
  <2>4. e.kind = "excluded" /\ AtMost(e.key, <<>>)
    BY <1>3, <1>4, <1>7, <2>2, <2>3, EmptyIs
  <2>5. e = Excluded(<<>>)
    BY <1>3, <2>1, <2>4 DEF AtMost
  <2>6. engine # "memory"
    BY <1>4, <2>2, <2>3
  <2> QED
    BY <1>4, <2>5, <2>6
<1> QED
  BY <1>8, <1>9

-----------------------------------------------------------------------------
(* The walks of a locker.                                                  *)

LEMMA UserKeysFinite == IsFiniteSet(UserKeys)
<1> DEFINE C == (1 .. MaxLen) \X Bytes
           Graph(k) == {<<i, k[i]>> : i \in 1 .. Len(k)}
           f == [k \in UserKeys |-> Graph(k)]
<1>1. IsFiniteSet(SUBSET C)
  <2>1. IsFiniteSet(1 .. MaxLen) /\ IsFiniteSet(Bytes)
    <3>1. 0 \in Int /\ 1 \in Int /\ Top \in Int /\ MaxLen \in Int
      BY Sizes
    <3> QED
      BY <3>1, FS_Interval DEF Bytes
  <2> QED
    BY <2>1, FS_Product, FS_SUBSET
<1>2. \A k \in UserKeys : Len(k) \in 0 .. MaxLen /\ DOMAIN k = 1 .. Len(k) /\ k \in Seq(Bytes)
                          /\ \A i \in 1 .. Len(k) : k[i] \in Bytes
  <2> TAKE k \in UserKeys
  <2>1. PICK n \in 0 .. MaxLen : k \in [1 .. n -> Bytes]
    BY DEF UserKeys
  <2>2. n \in Nat
    BY Sizes
  <2>3. k \in Seq(Bytes) /\ Len(k) = n
    BY <2>1, <2>2, IsASeq
  <2> QED
    BY <2>1, <2>3
<1>3. f \in [UserKeys -> SUBSET C]
  <2>1. ASSUME NEW k \in UserKeys PROVE Graph(k) \subseteq C
    <3>1. \A i \in 1 .. Len(k) : i \in 1 .. MaxLen /\ k[i] \in Bytes
      BY <1>2, Sizes
    <3> QED
      BY <3>1
  <2> HIDE DEF Graph, C
  <2> QED
    BY <2>1
<1>4. ASSUME NEW j \in UserKeys, NEW k \in UserKeys, f[j] = f[k] PROVE j = k
  <2>1. Graph(j) = Graph(k)
    BY <1>4
  <2>2. \A i \in 1 .. Len(j) : i \in 1 .. Len(k) /\ j[i] = k[i]
    <3> TAKE i \in 1 .. Len(j)
    <3>1. <<i, j[i]>> \in Graph(k)
      BY <2>1, Zenon
    <3>2. PICK x \in 1 .. Len(k) : <<i, j[i]>> = <<x, k[x]>>
      BY <3>1
    <3> QED
      BY <3>2
  <2>3. \A i \in 1 .. Len(k) : i \in 1 .. Len(j)
    <3> TAKE i \in 1 .. Len(k)
    <3>1. <<i, k[i]>> \in Graph(j)
      BY <2>1, Zenon
    <3>2. PICK x \in 1 .. Len(j) : <<i, k[i]>> = <<x, j[x]>>
      BY <3>1
    <3> QED
      BY <3>2
  <2>4. Len(j) = Len(k)
    <3> DEFINE m == Len(j)
               n == Len(k)
    <3>1. m \in Nat /\ n \in Nat
      BY <1>2
    <3> HIDE DEF m, n
    <3>2. (\A i \in 1 .. m : i \in 1 .. n) /\ (\A i \in 1 .. n : i \in 1 .. m)
      BY <2>2, <2>3 DEF m, n
    <3>3. m = 0 \/ m \in 1 .. m
      BY <3>1
    <3>4. n = 0 \/ n \in 1 .. n
      BY <3>1
    <3>5. m = n
      BY <3>1, <3>2, <3>3, <3>4
    <3> QED
      BY <3>5 DEF m, n
  <2> QED
    BY <1>2, <2>2, <2>4, SeqEqual
<1> HIDE DEF f
<1>5. f \in Injection(UserKeys, SUBSET C)
  BY <1>3, <1>4 DEF Injection, IsInjective
<1> QED
  BY <1>1, <1>5, FS_Injection

LEMMA StoredFinite ==
  ASSUME NEW S, IsFiniteSet(S), NEW l
  PROVE  IsFiniteSet({Encode(l, k) : k \in S})
<1> DEFINE T == {Encode(l, k) : k \in S}
           f == [k \in S |-> Encode(l, k)]
<1>1. f \in Surjection(S, T)
  BY DEF Surjection
<1> HIDE DEF f, T
<1>2. IsFiniteSet(T)
  BY <1>1, FS_Surjection
<1> QED
  BY <1>2 DEF T

(* The pages of a walk are the range, and only a range that ends before    *)
(* the empty key is refused.                                               *)
LEMMA WalkIsWhole ==
  ASSUME NEW engine, NEW reverse \in BOOLEAN, NEW limit \in Nat \ {0},
         NEW S \in SUBSET UserKeys, NEW l \in LockerIds, NEW s \in UserBounds, NEW e \in UserBounds,
         ~Empty([start |-> s, end |-> e])
  PROVE  WholeWalk(engine, reverse, limit, S, l, s, e)
<1> DEFINE stored == {Encode(l, k) : k \in S}
           whole == EncodeRange(l, s, e)
           list == Ordered(Reach(stored, whole), reverse)
           requests == Requests(engine, stored, whole, reverse, limit)
<1>1. IsFiniteSet(stored) /\ stored \subseteq Seq(Nat)
  <2>1. IsFiniteSet(S)
    BY UserKeysFinite, FS_Subset
  <2>2. \A k \in S : Encode(l, k) \in Seq(Nat)
    BY UserKeysAreLists, EncodeFact
  <2> QED
    BY <2>1, <2>2, StoredFinite
<1>2. whole \in KeyRanges
  BY RangeTyped
<1> HIDE DEF stored
<1>3. Walk(stored, whole, reverse, limit, list)
  BY <1>1, <1>2 DEF Walk
<1>4. Walked(engine, stored, whole, reverse, limit) = list
  <2> HIDE DEF list, whole
  <2> QED
    BY <1>3, WalkedIs
<1>5. requests = [k \in 0 .. Cardinality(stored) + 1 |-> RequestAt(engine, whole, reverse, limit, list, k)]
  <2> HIDE DEF list, whole
  <2> QED
    BY <1>3, RequestsAre
<1>6. ASSUME NEW k \in DOMAIN requests, Refuses(engine, requests[k])
      PROVE  engine = "indexeddb" /\ e = Excluded(<<>>)
  <2> HIDE DEF list, requests
  <2>1. k \in 0 .. Cardinality(stored) + 1 /\ requests[k] = RequestAt(engine, whole, reverse, limit, list, k)
    BY <1>5
  <2>2. k \in Nat
    BY <2>1
  <2>3. Refuses(engine, whole)
    <3> HIDE DEF whole
    <3> QED
      BY <1>3, <1>6, <2>1, <2>2, FirstRefused
  <2> QED
    BY <2>3, FirstAccepted
<1>7. Walked(engine, stored, whole, reverse, limit) = Ordered({k \in stored : InKeyRange(whole, k)}, reverse)
  BY <1>4 DEF Reach
<1> HIDE DEF list, whole, requests
<1> QED
  BY <1>6, <1>7, Zenon DEF WholeWalk, stored, whole, requests

LEMMA AllWalksWhole ==
  ASSUME NEW engine, NEW reverse \in BOOLEAN, NEW limit \in Nat \ {0}
  PROVE  WalksWhole(engine, reverse, limit)
<1> SUFFICES ASSUME NEW S \in SUBSET WalkKeys, NEW b \in {0, Top},
                    NEW s \in WalkBounds(S), NEW e \in WalkBounds(S), ~Empty([start |-> s, end |-> e])
             PROVE  WholeWalk(engine, reverse, limit, S, FromBytes([i \in 1 .. PrefixLen |-> b]), s, e)
  BY DEF WalksWhole
<1> DEFINE l == FromBytes([i \in 1 .. PrefixLen |-> b])
<1>1. l \in LockerIds
  <2>1. b \in Bytes
    BY Sizes DEF Bytes
  <2>2. [i \in 1 .. PrefixLen |-> b] \in IdBytes
    BY <2>1 DEF IdBytes
  <2> QED
    BY <2>2 DEF LockerIds
<1>2. S \in SUBSET UserKeys
  BY DEF WalkKeys
<1>3. s \in UserBounds /\ e \in UserBounds
  BY <1>2 DEF WalkBounds, UserBounds
<1> HIDE DEF l
<1>4. WholeWalk(engine, reverse, limit, S, l, s, e)
  BY <1>1, <1>2, <1>3, WalkIsWhole
<1> QED
  BY <1>4 DEF l

-----------------------------------------------------------------------------
(* The theorems about keys, values and walks as stored.                     *)

(* RangesStayInside: whatever a listing asks for, the range it is encoded  *)
(* to reaches its own locker's keys and no other's, in the order of the    *)
(* keys it returns (encode_range_bytes, KeyRange::prefix, encode).         *)
THEOREM RangesAlwaysInside == Spec => []RangesStayInside
<1>1. RangesStayInside
  <2>1. StaysInside(query.start.kind, query.end.kind)
    BY BoundsInside
  <2> QED
    BY <2>1, KeysInOrder, PrefixesInside DEF RangesStayInside
<1> QED
  BY <1>1, PTL

(* EnvelopeHonest: a value that is listed is the one that was written,     *)
(* whichever shipped chain sealed it (FilterChain::seal, open).            *)
THEOREM EnvelopesAlwaysHonest == Spec => []EnvelopeHonest
<1>1. EnvelopeHonest
  BY ShippedAreHonest DEF EnvelopeHonest
<1> QED
  BY <1>1, PTL

(* WalksAreWhole: over any content and any range, on each engine, the      *)
(* pages of a walk are together the keys of the range, in its order and    *)
(* each once, whatever the size of a page and in both directions; and no   *)
(* page but the first of a range that ends before the empty key is refused *)
(* (Inner::walk, encode_range_bytes).                                      *)
THEOREM WalksAlwaysWhole == Spec => []WalksAreWhole
<1>1. ListInv => WalksAreWhole
  <2> SUFFICES ASSUME ListInv PROVE WalksAreWhole
    OBVIOUS
  <2>1. query.reverse \in BOOLEAN
    <3>1. query \in Queries
      BY TypeParts DEF ListInv, ListerTypes
    <3> QED
      BY <3>1 DEF Queries
  <2>2. Page \in Nat \ {0}
    BY ListingAssumption
  <2> QED
    BY <2>1, <2>2, AllWalksWhole DEF WalksAreWhole
<1> QED
  BY <1>1, ListInvHolds, PTL

=============================================================================

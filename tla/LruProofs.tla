------------------------------ MODULE LruProofs ------------------------------
(***************************************************************************)
(* Theorems about LruBudget: whatever tabs, keys, values, batches, budgets *)
(* and orders of steps there are, the rows describe the records, every tab *)
(* that has heard everything accounts for what is stored, a commit lands   *)
(* within the budget, and a bank that has had the store to itself issues   *)
(* fresh ticks.                                                            *)
(*                                                                         *)
(* They hold of callers that take turns and name no key twice as a delete  *)
(* (Callers): the code does not lock one tab against another, and its      *)
(* totals are not promised then.                                           *)
(*                                                                         *)
(* The order: sums over sets, which the total of a tab is; the invariant;  *)
(* what news makes of a tab; what a plan is and what applying it does;     *)
(* clocks and loads; one lemma per action; the theorems.                   *)
(***************************************************************************)
EXTENDS LruBudget, FiniteSetTheorems, WellFoundedInduction, TLAPS

-----------------------------------------------------------------------------
(* Among sets of finite subsets there is a least one, and among naturals.  *)
LEMMA LeastSubset ==
  ASSUME NEW U, IsFiniteSet(U), NEW B, B \subseteq SUBSET U, B # {}
  PROVE  \E x \in B : \A y \in B : y \subseteq x => y = x
<1>1. B \subseteq FiniteSubsetsOf(U)
  BY FS_Subset DEF FiniteSubsetsOf
<1>2. PICK x \in B : \A y \in B : ~(<<y, x>> \in StrictSubsetOrdering(U))
  BY <1>1, WFMin, FS_StrictSubsetOrderingWellFounded, Zenon
<1>3. \A y \in B : y \subseteq x => y = x
  BY <1>2 DEF StrictSubsetOrdering
<1> QED
  BY <1>3

(* A set of naturals has a least element.                                  *)
LEMMA LeastNumber ==
  ASSUME NEW B \in SUBSET Nat, B # {}
  PROVE  \E n \in B : \A m \in B : n <= m
<1>1. PICK n \in B : \A m \in B : ~(<<m, n>> \in OpToRel(<, Nat))
  BY WFMin, NatLessThanWellFounded, Zenon
<1>2. \A m \in B : ~(m < n)
  BY <1>1, Zenon DEF OpToRel
<1>3. \A m \in B : n <= m
  BY <1>2
<1> QED
  BY <1>3

(* Max of a finite set of naturals is one of them and above them all.      *)
LEMMA MaxFact ==
  ASSUME NEW S, IsFiniteSet(S)
  PROVE  S \subseteq Nat /\ S # {} => Max(S) \in S /\ \A x \in S : Max(S) >= x
<1> DEFINE Has(T) == \E m \in T : \A x \in T : m >= x
           B == {T \in SUBSET S : T \subseteq Nat /\ T # {} /\ ~Has(T)}
<1>1. B = {}
  <2> SUFFICES ASSUME B # {} PROVE FALSE
    OBVIOUS
  <2>1. PICK T \in B : \A y \in B : y \subseteq T => y = T
    <3>1. B \subseteq SUBSET S
      OBVIOUS
    <3> HIDE DEF B
    <3> QED
      BY <3>1, LeastSubset
  <2>2. PICK a \in T : TRUE
    BY <2>1
  <2> DEFINE R == T \ {a}
  <2>3. CASE R = {}
    <3>1. \A x \in T : a >= x
      BY <2>3, <2>2, <2>1
    <3> QED
      BY <3>1, <2>1, <2>2
  <2>4. CASE R # {}
    <3>1. R \notin B
      BY <2>1, <2>2
    <3>2. PICK m \in R : \A x \in R : m >= x
      BY <3>1, <2>4, <2>1
    <3>3. m \in Nat /\ a \in Nat /\ m \in T /\ \A x \in T : x \in Nat /\ (x = a \/ m >= x)
      BY <3>2, <2>1, <2>2
    <3>4. CASE m >= a
      BY <3>3, <3>4, <2>1
    <3>5. CASE ~(m >= a)
      <4>1. \A x \in T : a >= x
        BY <3>3, <3>5
      <4> QED
        BY <4>1, <2>1, <2>2
    <3> QED
      BY <3>4, <3>5
  <2> QED
    BY <2>3, <2>4
<1>2. S \subseteq Nat /\ S # {} => \E m \in S : \A x \in S : m >= x
  BY <1>1
<1> QED
  BY <1>2, Zenon DEF Max

(* A function may be defined by recursion over the subsets of a finite     *)
(* set, taking one element away at a time.                                 *)
Picks(pick, U) == \A s \in SUBSET U : s # {} => pick[s] \in s
Steps(st, U, V) == st \in [U \X V -> V]
Recursive(g, U, V, base, pick, st) ==
  /\ g \in [SUBSET U -> V]
  /\ \A s \in SUBSET U : g[s] = IF s = {} THEN base ELSE st[<<pick[s], g[s \ {pick[s]}]>>]
(* A recursion that takes one element off a finite set has a solution.     *)
LEMMA SetRecursion ==
  ASSUME NEW U, IsFiniteSet(U), NEW V, NEW base \in V, NEW pick, Picks(pick, U),
         NEW st, Steps(st, U, V)
  PROVE  \E g : Recursive(g, U, V, base, pick, st)
<1> USE DEF Picks, Steps
<1> DEFINE D(n) == {s \in SUBSET U : Cardinality(s) <= n}
           Good(g, n) == \A s \in D(n) : g[s] = IF s = {} THEN base
                                                ELSE st[<<pick[s], g[s \ {pick[s]}]>>]
           B == {n \in Nat : ~ \E g \in [D(n) -> V] : Good(g, n)}
<1>0. \A s \in SUBSET U : /\ IsFiniteSet(s) /\ Cardinality(s) \in Nat
                          /\ Cardinality(s) = 0 <=> s = {}
  BY FS_Subset, FS_CardinalityType, FS_EmptySet
<1>1. \A s \in SUBSET U : s # {} => /\ s \ {pick[s]} \in SUBSET U
                                    /\ Cardinality(s \ {pick[s]}) = Cardinality(s) - 1
  BY <1>0, FS_RemoveElement
<1>2. B = {}
  <2> SUFFICES ASSUME B # {} PROVE FALSE
    OBVIOUS
  <2>1. PICK n \in B : \A m \in B : n <= m
    BY LeastNumber
  <2>2. CASE n = 0
    <3>1. D(0) = {{}}
      BY <1>0
    <3> DEFINE g == [s \in D(0) |-> base]
    <3>2. g \in [D(0) -> V]
      OBVIOUS
    <3>3. Good(g, 0)
      BY <3>1
    <3> QED
      BY <2>1, <2>2, <3>2, <3>3
  <2>3. CASE n # 0
    <3>1. n \in Nat /\ n - 1 \in Nat /\ n - 1 \notin B
      <4>1. n \in Nat
        BY <2>1
      <4>2. n - 1 \in Nat /\ ~(n <= n - 1)
        BY <4>1, <2>3
      <4> HIDE DEF B
      <4> QED
        BY <4>1, <4>2, <2>1
    <3>2. PICK f \in [D(n - 1) -> V] : Good(f, n - 1)
      BY <3>1
    <3> DEFINE g == [s \in D(n) |-> IF s = {} THEN base ELSE st[<<pick[s], f[s \ {pick[s]}]>>]]
    <3>3. \A s \in D(n) : s # {} => s \ {pick[s]} \in D(n - 1) /\ pick[s] \in U
      BY <1>0, <1>1, <3>1
    <3>4. g \in [D(n) -> V]
      <4>1. \A s \in D(n) : s # {} => <<pick[s], f[s \ {pick[s]}]>> \in U \X V
        BY <3>2, <3>3
      <4> QED
        BY <4>1
    <3>5. \A s \in D(n - 1) : s \in D(n) /\ g[s] = f[s]
      <4>1. \A s \in D(n - 1) : s \in D(n)
        BY <1>0, <3>1
      <4> QED
        BY <4>1, <3>2
    <3>6. Good(g, n)
      BY <3>3, <3>5
    <3> QED
      BY <3>1, <3>4, <3>6, <2>1
  <2> QED
    BY <2>2, <2>3
<1>3. Cardinality(U) \in Nat /\ D(Cardinality(U)) = SUBSET U
  BY FS_Subset, FS_CardinalityType
<1>4. PICK g \in [D(Cardinality(U)) -> V] : Good(g, Cardinality(U))
  BY <1>2, <1>3
<1> HIDE DEF B
<1> QED
  BY <1>3, <1>4 DEF Recursive

-----------------------------------------------------------------------------
(* SizeOf is a sum.                                                        *)

Summable(f, U) == IsFiniteSet(U) /\ \A x \in U : f[x] \in Nat
Pick(S) == CHOOSE x \in S : TRUE
SumsUp(g, f, U) == \A s \in SUBSET U : g[s] = IF s = {} THEN 0 ELSE f[Pick(s)] + g[s \ {Pick(s)}]

(* SizeOf is the value of such a recursion.                                *)
LEMMA SumRecursion ==
  ASSUME NEW U, NEW f, Summable(f, U)
  PROVE  \E g \in [SUBSET U -> Nat] : SumsUp(g, f, U) /\ SizeOf(f, U) = g[U]
<1> DEFINE pick == [s \in SUBSET U |-> Pick(s)]
           st == [p \in U \X Nat |-> f[p[1]] + p[2]]
           Rec(g) == g = [s \in SUBSET U |-> IF s = {} THEN 0 ELSE f[Pick(s)] + g[s \ {Pick(s)}]]
<1>0. \A s \in SUBSET U : s # {} => Pick(s) \in s
  BY DEF Pick
<1>1. st \in [U \X Nat -> Nat]
  BY DEF Summable
<1>2. PICK g \in [SUBSET U -> Nat] :
        \A s \in SUBSET U : g[s] = IF s = {} THEN 0 ELSE st[<<pick[s], g[s \ {pick[s]}]>>]
  <2>1. Picks(pick, U)
    BY <1>0 DEF Picks
  <2>2. IsFiniteSet(U) /\ 0 \in Nat /\ Steps(st, U, Nat)
    BY <1>1 DEF Summable, Steps
  <2> HIDE DEF pick, st
  <2>3. \E g : Recursive(g, U, Nat, 0, pick, st)
    BY <2>1, <2>2, SetRecursion
  <2> QED
    BY <2>3 DEF Recursive
<1>3. \A s \in SUBSET U : g[s] = IF s = {} THEN 0 ELSE f[Pick(s)] + g[s \ {Pick(s)}]
  BY <1>0, <1>2
<1>4. \E e : Rec(e)
  <2>1. Rec(g)
    BY <1>2, <1>3
  <2> QED
    BY <2>1
<1> DEFINE h == CHOOSE e : Rec(e)
<1>5. Rec(h)
  BY <1>4
<1>6. SizeOf(f, U) = h[U]
  BY Zenon DEF SizeOf, MapThenSumSet, MapThenFoldSet, Pick
<1>7. \A s \in SUBSET U : h[s] = IF s = {} THEN 0 ELSE f[Pick(s)] + h[s \ {Pick(s)}]
  <2> HIDE DEF h
  <2> QED
    BY <1>5
<1>8. h = g
  <2> HIDE DEF h
  <2> DEFINE B == {s \in SUBSET U : h[s] # g[s]}
  <2>1. B = {}
    <3> SUFFICES ASSUME B # {} PROVE FALSE
      OBVIOUS
    <3>1. PICK s \in B : \A y \in B : y \subseteq s => y = s
      <4>1. B \subseteq SUBSET U /\ IsFiniteSet(U)
        BY DEF Summable
      <4> HIDE DEF B
      <4> QED
        BY <4>1, LeastSubset
    <3>2. s # {} /\ Pick(s) \in s
      BY <3>1, <1>0, <1>3, <1>7
    <3>3. s \ {Pick(s)} \notin B
      BY <3>1, <3>2
    <3> QED
      BY <3>1, <3>2, <3>3, <1>3, <1>7
  <2> QED
    BY <2>1, <1>5, <1>2
<1> QED
  BY <1>2, <1>3, <1>6, <1>8 DEF SumsUp

(* One element of the sum at a time, in the order of the definition.       *)
LEMMA SumPick ==
  ASSUME NEW U, NEW f, Summable(f, U)
  PROVE  /\ SizeOf(f, U) \in Nat
         /\ SizeOf(f, U) = IF U = {} THEN 0 ELSE f[Pick(U)] + SizeOf(f, U \ {Pick(U)})
<1>1. PICK g \in [SUBSET U -> Nat] : SumsUp(g, f, U) /\ SizeOf(f, U) = g[U]
  BY SumRecursion
<1>2. CASE U = {}
  <2>1. U \in SUBSET U
    OBVIOUS
  <2>2. g[U] = 0
    BY <1>1, <1>2, <2>1, Zenon DEF SumsUp
  <2> QED
    BY <1>1, <1>2, <2>2
<1>3. CASE U # {}
  <2> DEFINE W == U \ {Pick(U)}
  <2>1. Pick(U) \in U
    BY <1>3 DEF Pick
  <2>2. Summable(f, W)
    BY FS_RemoveElement DEF Summable
  <2>3. PICK h \in [SUBSET W -> Nat] : SumsUp(h, f, W) /\ SizeOf(f, W) = h[W]
    BY <2>2, SumRecursion
  <2> DEFINE B == {s \in SUBSET W : h[s] # g[s]}
  <2>4. B = {}
    <3> SUFFICES ASSUME B # {} PROVE FALSE
      OBVIOUS
    <3>1. PICK s \in B : \A y \in B : y \subseteq s => y = s
      <4>1. B \subseteq SUBSET W /\ IsFiniteSet(W)
        BY <2>2 DEF Summable
      <4> HIDE DEF B
      <4> QED
        BY <4>1, LeastSubset
    <3>2. s \in SUBSET W /\ s \in SUBSET U
      BY <3>1
    <3>3. /\ h[s] = IF s = {} THEN 0 ELSE f[Pick(s)] + h[s \ {Pick(s)}]
          /\ g[s] = IF s = {} THEN 0 ELSE f[Pick(s)] + g[s \ {Pick(s)}]
      BY <3>2, <1>1, <2>3, Zenon DEF SumsUp
    <3>4. s # {} /\ Pick(s) \in s
      BY <3>1, <3>3 DEF Pick
    <3>5. s \ {Pick(s)} \notin B
      BY <3>1, <3>4
    <3> QED
      BY <3>1, <3>3, <3>4, <3>5
  <2>5. h[W] = g[W]
    BY <2>4
  <2>6. g[U] = f[Pick(U)] + g[W]
    BY <1>1, <1>3 DEF SumsUp
  <2> QED
    BY <1>1, <1>3, <2>3, <2>5, <2>6
<1> QED
  BY <1>2, <1>3

(* Any element may be taken out first.                                     *)
LEMMA SumTake ==
  ASSUME NEW U, NEW f, Summable(f, U), NEW x \in U
  PROVE  SizeOf(f, U) = f[x] + SizeOf(f, U \ {x})
<1> DEFINE Wrong(s) == \E y \in s : SizeOf(f, s) # f[y] + SizeOf(f, s \ {y})
           B == {s \in SUBSET U : Wrong(s)}
<1>0. \A s \in SUBSET U : Summable(f, s)
  BY FS_Subset DEF Summable
<1>1. B = {}
  <2> SUFFICES ASSUME B # {} PROVE FALSE
    OBVIOUS
  <2>1. PICK s \in B : \A y \in B : y \subseteq s => y = s
    <3>1. B \subseteq SUBSET U /\ IsFiniteSet(U)
      BY DEF Summable
    <3> HIDE DEF B
    <3> QED
      BY <3>1, LeastSubset
  <2>2. PICK y \in s : SizeOf(f, s) # f[y] + SizeOf(f, s \ {y})
    BY <2>1
  <2> DEFINE c == Pick(s)
             r == s \ {c}
             q == s \ {y}
  <2>3. s \in SUBSET U /\ c \in s
    BY <2>1, <2>2 DEF Pick
  <2>4. SizeOf(f, s) = f[c] + SizeOf(f, r)
    BY <2>2, <2>3, <1>0, SumPick
  <2>5. c # y
    BY <2>2, <2>4
  <2>6. r \in SUBSET U /\ r \notin B /\ y \in r
    BY <2>1, <2>2, <2>3, <2>5
  <2>7. q \in SUBSET U /\ q \notin B /\ c \in q
    BY <2>1, <2>2, <2>3, <2>5
  <2>8. SizeOf(f, r) = f[y] + SizeOf(f, r \ {y})
    BY <2>6
  <2>9. SizeOf(f, q) = f[c] + SizeOf(f, q \ {c})
    BY <2>7
  <2>10. r \ {y} = q \ {c} /\ r \ {y} \in SUBSET U
    BY <2>3
  <2>11. f[c] \in Nat /\ f[y] \in Nat /\ SizeOf(f, r \ {y}) \in Nat
    BY <2>2, <2>3, <2>10, <1>0, SumPick DEF Summable
  <2>12. SizeOf(f, s) = f[c] + (f[y] + SizeOf(f, r \ {y}))
    BY <2>4, <2>8
  <2>13. SizeOf(f, q) = f[c] + SizeOf(f, r \ {y})
    BY <2>9, <2>10
  <2> HIDE DEF c, r, q, B
  <2> QED
    BY <2>2, <2>11, <2>12, <2>13 DEF q
<1> QED
  BY <1>1

(* A sum is a natural, of nothing 0.                                       *)
LEMMA SumType ==
  ASSUME NEW U, NEW f, Summable(f, U)
  PROVE  /\ SizeOf(f, U) \in Nat
         /\ U = {} => SizeOf(f, U) = 0
BY SumPick

(* Sums over disjoint sets add up.                                         *)
LEMMA SumUnion ==
  ASSUME NEW U, NEW W, NEW f, Summable(f, U), Summable(f, W), U \cap W = {}
  PROVE  SizeOf(f, U \cup W) = SizeOf(f, U) + SizeOf(f, W)
<1> DEFINE B == {s \in SUBSET U : SizeOf(f, s \cup W) # SizeOf(f, s) + SizeOf(f, W)}
<1>0. \A s \in SUBSET U : Summable(f, s) /\ Summable(f, s \cup W)
  BY FS_Subset, FS_Union DEF Summable
<1>1. B = {}
  <2> SUFFICES ASSUME B # {} PROVE FALSE
    OBVIOUS
  <2>1. PICK s \in B : \A y \in B : y \subseteq s => y = s
    <3>1. B \subseteq SUBSET U /\ IsFiniteSet(U)
      BY DEF Summable
    <3> HIDE DEF B
    <3> QED
      BY <3>1, LeastSubset
  <2>2. s \in SUBSET U /\ SizeOf(f, W) \in Nat
    BY <2>1, SumType
  <2>3. s # {}
    <3> SUFFICES ASSUME s = {} PROVE FALSE
      OBVIOUS
    <3>1. s \cup W = W /\ SizeOf(f, s) = 0
      BY <1>0, <2>2, SumType
    <3> QED
      BY <2>1, <2>2, <3>1
  <2>4. PICK c \in s : TRUE
    BY <2>3
  <2> DEFINE r == s \ {c}
  <2>5. r \in SUBSET U /\ r \notin B /\ c \notin W
    BY <2>1, <2>2, <2>4
  <2>6. SizeOf(f, r \cup W) = SizeOf(f, r) + SizeOf(f, W)
    BY <2>5
  <2>7. SizeOf(f, s) = f[c] + SizeOf(f, r)
    BY <1>0, <2>2, <2>4, SumTake
  <2>8. (s \cup W) \ {c} = r \cup W
    BY <2>5
  <2>9. SizeOf(f, s \cup W) = f[c] + SizeOf(f, r \cup W)
    BY <1>0, <2>2, <2>4, <2>8, SumTake
  <2>10. f[c] \in Nat /\ SizeOf(f, r) \in Nat
    BY <1>0, <2>2, <2>4, <2>5, SumType DEF Summable
  <2>11. SizeOf(f, s \cup W) # SizeOf(f, s) + SizeOf(f, W)
    BY <2>1
  <2> HIDE DEF r, B
  <2> QED
    BY <2>2, <2>6, <2>7, <2>9, <2>10, <2>11
<1> QED
  BY <1>1

(* Equal terms, equal sums.                                                *)
LEMMA SumSame ==
  ASSUME NEW U, NEW f, NEW h, Summable(f, U), \A x \in U : h[x] = f[x]
  PROVE  SizeOf(h, U) = SizeOf(f, U)
<1> DEFINE B == {s \in SUBSET U : SizeOf(h, s) # SizeOf(f, s)}
<1>0. \A s \in SUBSET U : Summable(f, s) /\ Summable(h, s)
  BY FS_Subset DEF Summable
<1>1. B = {}
  <2> SUFFICES ASSUME B # {} PROVE FALSE
    OBVIOUS
  <2>1. PICK s \in B : \A y \in B : y \subseteq s => y = s
    <3>1. B \subseteq SUBSET U /\ IsFiniteSet(U)
      BY DEF Summable
    <3> HIDE DEF B
    <3> QED
      BY <3>1, LeastSubset
  <2>2. s \in SUBSET U
    BY <2>1
  <2>3. s # {}
    BY <1>0, <2>1, <2>2, SumType
  <2>4. PICK c \in s : TRUE
    BY <2>3
  <2>5. s \ {c} \notin B /\ s \ {c} \in SUBSET U
    BY <2>1, <2>2, <2>4
  <2>6. SizeOf(h, s \ {c}) = SizeOf(f, s \ {c}) /\ h[c] = f[c]
    BY <2>5, <2>4, <2>2
  <2>7. SizeOf(f, s) = f[c] + SizeOf(f, s \ {c}) /\ SizeOf(h, s) = h[c] + SizeOf(h, s \ {c})
    BY <1>0, <2>2, <2>4, SumTake
  <2> QED
    BY <2>1, <2>6, <2>7
<1> QED
  BY <1>1

(* A part and the rest add up.                                             *)
LEMMA SumSplit ==
  ASSUME NEW U, NEW f, Summable(f, U), NEW S \in SUBSET U
  PROVE  /\ SizeOf(f, U) = SizeOf(f, S) + SizeOf(f, U \ S)
         /\ SizeOf(f, S) \in Nat /\ SizeOf(f, U \ S) \in Nat
<1>1. Summable(f, S) /\ Summable(f, U \ S)
  BY FS_Subset DEF Summable
<1>2. S \cap (U \ S) = {} /\ S \cup (U \ S) = U
  OBVIOUS
<1>3. SizeOf(f, S \cup (U \ S)) = SizeOf(f, S) + SizeOf(f, U \ S)
  BY <1>1, <1>2, SumUnion
<1> QED
  BY <1>1, <1>2, <1>3, SumType

(* The sum over one element.                                               *)
LEMMA SumOne ==
  ASSUME NEW x, NEW f, f[x] \in Nat
  PROVE  SizeOf(f, {x}) = f[x] /\ Summable(f, {x})
<1>1. Summable(f, {x})
  BY FS_Singleton DEF Summable
<1>2. SizeOf(f, {x}) = f[x] + SizeOf(f, {x} \ {x})
  BY <1>1, SumTake
<1>3. {x} \ {x} = {} /\ Summable(f, {})
  BY FS_EmptySet DEF Summable
<1>4. SizeOf(f, {}) = 0
  BY <1>3, SumType
<1> QED
  BY <1>1, <1>2, <1>3, <1>4

-----------------------------------------------------------------------------
(* The invariant.                                                          *)

Partial(S) == UNION {[D -> S] : D \in SUBSET Keys}
TabStates == [open : BOOLEAN, clock : Clocks, entries : Partial(Entries), total : Nat,
              pending : Partial(0..MaxTick), dirty : BOOLEAN, index : SUBSET Keys]
Jobs == [at : {"idle", "reloading", "ticking", "seeding", "fetching", "committing", "landed"},
         evict : BOOLEAN, batch : Batches, stored : 0..MaxTick, tick : 0..MaxTick,
         victims : SUBSET Keys, total : Nat, pending : Partial(Entries),
         skipped : SUBSET Keys, counter : 0..MaxTick]
Readers == [at : {"idle", "ticking", "seeding"}, key : Nat, stored : 0..MaxTick]

Types ==
  /\ rec \in Contents /\ rows \in Partial(Entries) /\ nextTick \in 0..MaxTick
  /\ tab \in [Tabs -> TabStates] /\ job \in [Tabs -> Jobs] /\ reader \in [Tabs -> Readers]
  /\ chan \in [Tabs -> [Tabs -> Seq(SizeNews)]]
  /\ \A t \in Tabs : DOMAIN tab[t].pending \subseteq DOMAIN tab[t].entries
  /\ unrowed \subseteq Keys /\ alone \subseteq Tabs /\ behind \subseteq Tabs

(* One tab at a time commits or has news under way, and never to itself.   *)
Turns ==
  /\ \A s, t \in Tabs : s # t => ~(Sends(s) /\ Sends(t))
  /\ \A t \in Tabs : /\ chan[t][t] = <<>>
                     /\ job[t].at # "idle" => tab[t].open /\ t \notin behind
                     /\ reader[t].at # "idle" => tab[t].open

(* What a commit has planned, and what of it holds until it is applied.    *)
Left(s, j) == IF j.batch.cleared THEN {}
              ELSE DOMAIN s.entries \ (PutsOf(j.batch) \cup DeletesOf(j.batch) \cup j.victims)
Covered(j) == Touched(j.batch.does) \cup j.victims
Planned(s, j) ==
  /\ j.victims \subseteq DOMAIN s.entries \ Touched(j.batch.does)
  /\ j.total = BytesOf(s.entries, Left(s, j)) + SizeOf(j.batch.does, PutsOf(j.batch))
BytesIn(k) == IF k \in unrowed THEN 0 ELSE rec[k]
PlanOf(t) ==
  LET j == job[t]
      s == tab[t] IN
  /\ j.batch.again = {}
  /\ j.at \in {"reloading", "ticking", "seeding"} => ~j.evict /\ j.victims = {}
  /\ j.at \in {"ticking", "seeding", "fetching", "committing"} => j.evict \/ ~s.dirty
  /\ j.at \in {"fetching", "committing", "landed"} =>
       /\ Planned(s, j)
       /\ j.evict => j.batch = NoBatch
       /\ ~j.evict => j.total <= MaxBytes \/ Left(s, j) = {}
  /\ j.at \in {"fetching", "committing"} =>
       \A k \in DOMAIN j.pending : /\ k \notin PutsOf(j.batch) /\ rec[k] # Gone
                                   /\ j.pending[k].bytes = BytesIn(k)
  /\ j.at = "landed" =>
       /\ Covered(j) \cap unrowed = {}
       /\ \A k \in Covered(j) : rec[k] = IF k \in j.victims THEN Gone ELSE j.batch.does[k]
Plans == \A t \in Tabs : PlanOf(t)

(* The last news of a key says what is stored under it, unless a commit    *)
(* that changes it has landed and is still to be announced.                *)
Covers(n, k) == n.does[k] # Kept \/ k \in n.shed
Fits(n, k, v) == IF k \in n.shed \/ n.does[k] = Gone THEN v = Gone
                 ELSE v \in Vals /\ n.does[k] \in {v, Changed}
Follows(t) == tab[t].open /\ t \notin behind
Awaits(t, k) == \E s \in Tabs : \E i \in DOMAIN chan[s][t] : Covers(chan[s][t][i], k)
LandedOn(k) == \E s \in Tabs : job[s].at = "landed" /\ k \in Covered(job[s])
LastSays(q, k, v) ==
  \A i \in DOMAIN q :
    Covers(q[i], k) /\ (\A j \in DOMAIN q : j > i => ~Covers(q[j], k)) => Fits(q[i], k, v)
Told ==
  /\ \A s, t \in Tabs : \A i \in DOMAIN chan[s][t] :
       /\ chan[s][t][i].cleared => \A k \in Keys : chan[s][t][i].does[k] # Kept
       /\ \A k \in unrowed : ~Covers(chan[s][t][i], k)
  /\ \A s, t \in Tabs : Follows(t) =>
       \A k \in Keys : ~LandedOn(k) => LastSays(chan[s][t], k, rec[k])

(* What a tab that follows the news accounts for under a key that no news  *)
(* still to come is about.                                                 *)
RightAt(s, k) ==
  /\ k \in s.index <=> rec[k] # Gone
  /\ k \in DOMAIN s.entries => rec[k] # Gone
  /\ rec[k] # Gone /\ k \notin unrowed => k \in DOMAIN s.entries
  /\ k \in DOMAIN s.entries => IF k \in unrowed THEN s.entries[k].bytes = 0
                               ELSE s.dirty \/ s.entries[k].bytes = rec[k]
Right == \A t \in Tabs : Follows(t) =>
           \A k \in Keys : ~Awaits(t, k) /\ ~LandedOn(k) => RightAt(tab[t], k)

(* The clock of a tab that has had the store to itself is past every tick. *)
Adopted(t, k) == /\ tab[t].entries[k].tick = 0
                 /\ k \in unrowed \/ (job[t].at = "landed" /\ k \in Covered(job[t]))
Ahead(t) ==
  LET now == Cursor(tab[t].clock) IN
  /\ tab[t].open /\ \A s \in Tabs \ {t} : ~tab[s].open /\ chan[s][t] = <<>>
  /\ \A k \in DOMAIN rows : rows[k].tick < now
  /\ \A k \in DOMAIN tab[t].entries : tab[t].entries[k].tick < now \/ Adopted(t, k)
  /\ \A k \in DOMAIN tab[t].pending : tab[t].pending[k] < now
  /\ job[t].at \in {"fetching", "committing", "landed"} =>
       /\ job[t].evict \/ job[t].tick < now
       /\ \A k \in DOMAIN job[t].pending : job[t].pending[k].tick < now
Clock ==
  /\ \A t \in Tabs : tab[t].clock.seeded \/ tab[t].clock.next = 0
  /\ \A t \in alone : Ahead(t)

Invariant == Types /\ Turns /\ Plans /\ Told /\ Right /\ TotalIsSum /\ RowsMatchRecords /\ Clock

(* Functions whose keys are some of Keys.                                  *)
LEMMA PartialFact ==
  ASSUME NEW S, NEW f
  PROVE  f \in Partial(S) <=> DOMAIN f \subseteq Keys /\ f \in [DOMAIN f -> S]
BY DEF Partial

(* What they map to.                                                       *)
LEMMA PartialValue ==
  ASSUME NEW S, NEW f \in Partial(S)
  PROVE  DOMAIN f \in SUBSET Keys /\ \A k \in DOMAIN f : f[k] \in S
BY DEF Partial

(* How to make one.                                                        *)
LEMMA PartialMake ==
  ASSUME NEW S, NEW f, f = [k \in DOMAIN f |-> f[k]], DOMAIN f \subseteq Keys,
         \A k \in DOMAIN f : f[k] \in S
  PROVE  f \in Partial(S)
BY DEF Partial

(* One key set.                                                            *)
LEMMA WithFact ==
  ASSUME NEW S, NEW f \in Partial(S), NEW k \in Keys, NEW v \in S
  PROVE  /\ With(f, k, v) \in Partial(S)
         /\ DOMAIN With(f, k, v) = DOMAIN f \cup {k}
         /\ With(f, k, v)[k] = v
         /\ \A j \in DOMAIN f : j # k => With(f, k, v)[j] = f[j]
<1>1. DOMAIN With(f, k, v) = DOMAIN f \cup {k}
  BY DEF With
<1>2. \A j \in DOMAIN f \cup {k} : With(f, k, v)[j] = IF j = k THEN v ELSE f[j]
  BY DEF With
<1>3. With(f, k, v) = [j \in DOMAIN f \cup {k} |-> With(f, k, v)[j]]
  BY DEF With
<1> QED
  BY <1>1, <1>2, <1>3, PartialValue, PartialMake

(* Some keys removed.                                                      *)
LEMMA WithoutFact ==
  ASSUME NEW S, NEW f \in Partial(S), NEW K
  PROVE  /\ Without(f, K) \in Partial(S)
         /\ DOMAIN Without(f, K) = DOMAIN f \ K
         /\ \A j \in DOMAIN f \ K : Without(f, K)[j] = f[j]
<1>1. DOMAIN Without(f, K) = DOMAIN f \ K
  BY DEF Without
<1>2. \A j \in DOMAIN f \ K : Without(f, K)[j] = f[j]
  BY DEF Without
<1>3. Without(f, K) = [j \in DOMAIN f \ K |-> Without(f, K)[j]]
  BY DEF Without
<1> QED
  BY <1>1, <1>2, <1>3, PartialValue, PartialMake

(* One over another.                                                       *)
LEMMA OverFact ==
  ASSUME NEW S, NEW f \in Partial(S), NEW g \in Partial(S)
  PROVE  /\ Over(f, g) \in Partial(S)
         /\ DOMAIN Over(f, g) = DOMAIN f \cup DOMAIN g
         /\ \A j \in DOMAIN g : Over(f, g)[j] = g[j]
         /\ \A j \in DOMAIN f : j \notin DOMAIN g => Over(f, g)[j] = f[j]
<1>1. DOMAIN Over(f, g) = DOMAIN f \cup DOMAIN g
  BY DEF Over
<1>2. \A j \in DOMAIN f \cup DOMAIN g : Over(f, g)[j] = IF j \in DOMAIN g THEN g[j] ELSE f[j]
  BY DEF Over
<1>3. Over(f, g) = [j \in DOMAIN f \cup DOMAIN g |-> Over(f, g)[j]]
  BY DEF Over
<1> QED
  BY <1>1, <1>2, <1>3, PartialValue, PartialMake

(* The one with no keys.                                                   *)
LEMMA EmptyPartial == ASSUME NEW S PROVE <<>> \in Partial(S) /\ DOMAIN <<>> = {}
<1>1. <<>> = [k \in {} |-> <<>>[k]] /\ DOMAIN <<>> = {}
  OBVIOUS
<1> QED
  BY <1>1, PartialMake

(* The bytes accounted for.                                                *)
Sizes(e) == [k \in DOMAIN e |-> e[k].bytes]
(* BytesOf is a sum of sizes, and a natural.                               *)
LEMMA BytesFact ==
  ASSUME NEW e \in Partial(Entries), NEW S
  PROVE  /\ BytesOf(e, S) = SizeOf(Sizes(e), S \cap DOMAIN e)
         /\ Summable(Sizes(e), S \cap DOMAIN e)
         /\ \A k \in DOMAIN e : Sizes(e)[k] = e[k].bytes /\ e[k].bytes \in Nat
         /\ BytesOf(e, S) \in Nat
<1>1. DOMAIN e \in SUBSET Keys /\ \A k \in DOMAIN e : e[k] \in Entries
  BY PartialValue
<1>2. \A k \in DOMAIN e : Sizes(e)[k] = e[k].bytes /\ e[k].bytes \in Nat
  BY <1>1 DEF Sizes, Entries
<1>3. IsFiniteSet(S \cap DOMAIN e)
  BY <1>1, LruAssumption, FS_Subset
<1>4. Summable(Sizes(e), S \cap DOMAIN e)
  BY <1>2, <1>3 DEF Summable
<1>5. BytesOf(e, S) = SizeOf(Sizes(e), S \cap DOMAIN e)
  BY Zenon DEF BytesOf, Sizes
<1> QED
  BY <1>2, <1>4, <1>5, SumType

(* The bytes of two disjoint parts add up.                                 *)
LEMMA BytesSplit ==
  ASSUME NEW e \in Partial(Entries), NEW S, NEW A, NEW B,
         S \cap DOMAIN e = (A \cap DOMAIN e) \cup (B \cap DOMAIN e), A \cap B \cap DOMAIN e = {}
  PROVE  BytesOf(e, S) = BytesOf(e, A) + BytesOf(e, B)
<1> DEFINE P == A \cap DOMAIN e
           Q == B \cap DOMAIN e
<1>1. P \cap Q = {} /\ S \cap DOMAIN e = P \cup Q
  OBVIOUS
<1>2. /\ Summable(Sizes(e), P) /\ BytesOf(e, A) = SizeOf(Sizes(e), P)
      /\ Summable(Sizes(e), Q) /\ BytesOf(e, B) = SizeOf(Sizes(e), Q)
  BY BytesFact
<1>3. BytesOf(e, S) = SizeOf(Sizes(e), P \cup Q)
  BY <1>1, BytesFact
<1> HIDE DEF P, Q
<1>4. SizeOf(Sizes(e), P \cup Q) = SizeOf(Sizes(e), P) + SizeOf(Sizes(e), Q)
  BY <1>1, <1>2, SumUnion
<1> QED
  BY <1>2, <1>3, <1>4

(* The bytes depend on the sizes only.                                     *)
LEMMA BytesSame ==
  ASSUME NEW e \in Partial(Entries), NEW h \in Partial(Entries), NEW S, NEW R,
         S \cap DOMAIN e = R \cap DOMAIN h, \A k \in S \cap DOMAIN e : h[k].bytes = e[k].bytes
  PROVE  BytesOf(h, R) = BytesOf(e, S)
<1>1. \A k \in S \cap DOMAIN e : Sizes(h)[k] = Sizes(e)[k]
  BY BytesFact
<1>2. SizeOf(Sizes(h), S \cap DOMAIN e) = SizeOf(Sizes(e), S \cap DOMAIN e)
  BY <1>1, BytesFact, SumSame
<1> QED
  BY <1>2, BytesFact

(* The bytes of one key.                                                   *)
LEMMA BytesOne ==
  ASSUME NEW e \in Partial(Entries), NEW k
  PROVE  BytesOf(e, {k}) = IF k \in DOMAIN e THEN e[k].bytes ELSE 0
<1>1. CASE k \in DOMAIN e
  <2>1. {k} \cap DOMAIN e = {k} /\ Sizes(e)[k] = e[k].bytes /\ e[k].bytes \in Nat
    BY <1>1, BytesFact
  <2> QED
    BY <1>1, <2>1, BytesFact, SumOne
<1>2. CASE k \notin DOMAIN e
  <2>1. {k} \cap DOMAIN e = {}
    BY <1>2
  <2> QED
    BY <1>2, <2>1, BytesFact, SumType
<1> QED
  BY <1>1, <1>2

(* No keys, no bytes.                                                      *)
LEMMA BytesNone ==
  ASSUME NEW e \in Partial(Entries), NEW S, S \cap DOMAIN e = {}
  PROVE  BytesOf(e, S) = 0
BY BytesFact, SumType

-----------------------------------------------------------------------------
(* Another tab's news.                                                     *)

Sound(s) == s \in TabStates /\ DOMAIN s.pending \subseteq DOMAIN s.entries
Balanced(s) == s.total = BytesOf(s.entries, Keys)
SameBut(s, u) == u.open = s.open /\ u.clock = s.clock
(* What two states of a tab say of a key.                                  *)
SameAt(s, u, k) ==
  /\ k \in u.index <=> k \in s.index
  /\ k \in DOMAIN u.entries <=> k \in DOMAIN s.entries
  /\ k \in DOMAIN s.entries => u.entries[k] = s.entries[k]
NoneAt(u, k) == k \notin u.index /\ k \notin DOMAIN u.entries

(* next_local_tick saturates (lru.rs:321).                                 *)
LEMMA LocalTick ==
  ASSUME NEW s \in TabStates
  PROVE  NextLocalTick(s) \in 0..MaxTick
<1> DEFINE T == {s.entries[j].tick : j \in DOMAIN s.entries} \cup {0}
           m == Max(T)
<1>1. s.entries \in Partial(Entries)
  BY DEF TabStates
<1>2. T \subseteq 0..MaxTick /\ T \subseteq Nat /\ T # {}
  <2>1. \A j \in DOMAIN s.entries : s.entries[j] \in Entries
    BY <1>1, PartialValue
  <2>2. \A j \in DOMAIN s.entries : s.entries[j].tick \in 0..MaxTick
    BY <2>1 DEF Entries
  <2> QED
    BY <2>2, LruAssumption
<1>3. IsFiniteSet(T)
  <2>1. IsFiniteSet(0..MaxTick)
    BY FS_Interval, LruAssumption
  <2> HIDE DEF T
  <2> QED
    BY <1>2, <2>1, FS_Subset
<1>4. m \in Nat
  <2> HIDE DEF T
  <2> QED
    BY <1>2, <1>3, MaxFact
<1>5. NextLocalTick(s) = Min({MaxTick, m + 1})
  BY Zenon DEF NextLocalTick, Most
<1> HIDE DEF m
<1>6. Min({MaxTick, m + 1}) \in {MaxTick, m + 1} /\ Min({MaxTick, m + 1}) <= MaxTick
  <2>1. MaxTick \in Nat
    BY LruAssumption
  <2>2. \E x \in {MaxTick, m + 1} : \A y \in {MaxTick, m + 1} : x =< y
    <3>1. CASE MaxTick =< m + 1
      BY <3>1, <2>1, <1>4
    <3>2. CASE ~(MaxTick =< m + 1)
      BY <3>2, <2>1, <1>4
    <3> QED
      BY <3>1, <3>2
  <2>3. /\ Min({MaxTick, m + 1}) \in {MaxTick, m + 1}
        /\ \A y \in {MaxTick, m + 1} : Min({MaxTick, m + 1}) =< y
    BY <2>2, Zenon DEF Min
  <2> QED
    BY <2>3
<1> QED
  BY <1>4, <1>5, <1>6, LruAssumption

(* remote_delete takes the bytes of the keys off the total (lru.rs:356).   *)
LEMMA DeleteFact ==
  ASSUME NEW s, Sound(s), NEW S \in SUBSET Keys
  PROVE  LET u == RemoteDelete(s, S) IN
         /\ Sound(u) /\ SameBut(s, u) /\ u.dirty = s.dirty
         /\ Balanced(s) => Balanced(u)
         /\ \A k \in S : NoneAt(u, k)
         /\ \A k \in Keys \ S : SameAt(s, u, k)
<1> DEFINE u == RemoteDelete(s, S)
           e == Without(s.entries, S)
           p == Without(s.pending, S)
<1>0. /\ s \in TabStates /\ s.entries \in Partial(Entries) /\ s.pending \in Partial(0..MaxTick)
      /\ s.total \in Nat /\ DOMAIN s.pending \subseteq DOMAIN s.entries
  BY DEF Sound, TabStates
<1>e. s.entries \in Partial(Entries)
  BY <1>0
<1>p. s.pending \in Partial(0..MaxTick)
  BY <1>0
<1>1. /\ u.open = s.open /\ u.clock = s.clock /\ u.dirty = s.dirty /\ u.entries = e
      /\ u.pending = p /\ u.index = s.index \ S
      /\ u.total = Less(s.total, BytesOf(s.entries, S))
  BY <1>0 DEF RemoteDelete, TabStates
<1>2. /\ e \in Partial(Entries) /\ DOMAIN e = DOMAIN s.entries \ S
      /\ \A k \in DOMAIN s.entries \ S : e[k] = s.entries[k]
  <2> DEFINE old == s.entries
  <2>1. old \in Partial(Entries)
    BY <1>e
  <2> HIDE DEF old, u
  <2>2. Without(old, S) \in Partial(Entries)
    BY <2>1, WithoutFact
  <2>3. DOMAIN Without(old, S) = DOMAIN old \ S
    BY <2>1, WithoutFact
  <2>4. \A k \in DOMAIN old \ S : Without(old, S)[k] = old[k]
    BY DEF Without
  <2> QED
    BY <2>2, <2>3, <2>4 DEF old
<1>3. p \in Partial(0..MaxTick) /\ DOMAIN p = DOMAIN s.pending \ S
  BY <1>p, WithoutFact
<1>4. Less(s.total, BytesOf(s.entries, S)) \in Nat
  <2>1. BytesOf(s.entries, S) \in Nat
    BY <1>e, BytesFact
  <2> QED
    BY <1>0, <2>1 DEF Less
<1>5. u \in TabStates
  <2> HIDE DEF e, p
  <2>1. u = [s EXCEPT !.entries = e, !.pending = p, !.total = Less(s.total, BytesOf(s.entries, S)),
                      !.index = s.index \ S]
    BY DEF RemoteDelete, e, p
  <2> QED
    BY <2>1, <1>0, <1>2, <1>3, <1>4 DEF TabStates
<1>6. Balanced(s) => Balanced(u)
  <2>1. BytesOf(s.entries, Keys) = BytesOf(s.entries, S) + BytesOf(s.entries, Keys \ S)
    BY <1>e, BytesSplit
  <2>2. BytesOf(e, Keys) = BytesOf(s.entries, Keys \ S)
    <3>1. (Keys \ S) \cap DOMAIN s.entries = Keys \cap DOMAIN e
      BY <1>2
    <3>2. \A k \in (Keys \ S) \cap DOMAIN s.entries : e[k].bytes = s.entries[k].bytes
      BY <1>2
    <3> HIDE DEF e
    <3> QED
      BY <1>e, <1>2, <3>1, <3>2, BytesSame
  <2>3. BytesOf(s.entries, S) \in Nat /\ BytesOf(s.entries, Keys \ S) \in Nat
    BY <1>e, BytesFact
  <2> HIDE DEF e, u
  <2> QED
    BY <1>1, <2>1, <2>2, <2>3 DEF Balanced, Less
<1> HIDE DEF u, e, p
<1> QED
  BY <1>0, <1>1, <1>2, <1>3, <1>5, <1>6 DEF Sound, SameBut, NoneAt, SameAt, u

(* One entry put, and what it adds.                                        *)
LEMMA EntryPut ==
  ASSUME NEW d \in Partial(Entries), NEW k \in Keys, NEW x \in Entries
  PROVE  LET e == With(d, k, x) IN
         /\ e \in Partial(Entries) /\ DOMAIN e = DOMAIN d \cup {k}
         /\ e[k] = x
         /\ \A j \in DOMAIN d \ {k} : e[j] = d[j]
         /\ BytesOf(e, Keys) = x.bytes + BytesOf(d, Keys \ {k})
<1> DEFINE e == With(d, k, x)
<1>1. /\ e \in Partial(Entries) /\ DOMAIN e = DOMAIN d \cup {k}
      /\ e[k] = x /\ \A j \in DOMAIN d : j # k => e[j] = d[j]
  BY WithFact
<1> HIDE DEF e
<1>2. BytesOf(e, Keys) = BytesOf(e, {k}) + BytesOf(e, Keys \ {k})
  BY <1>1, BytesSplit
<1>3. BytesOf(e, {k}) = x.bytes
  BY <1>1, BytesOne
<1>4. BytesOf(e, Keys \ {k}) = BytesOf(d, Keys \ {k})
  BY <1>1, BytesSame
<1> QED
  BY <1>1, <1>2, <1>3, <1>4 DEF e

(* remote_put: the new size, or an account that knows it is not exact.     *)
LEMMA PutFact ==
  ASSUME NEW s, Sound(s), NEW k \in Keys, NEW v \in Vals \cup {Changed}
  PROVE  LET u == RemotePut(s, k, v) IN
         /\ Sound(u) /\ SameBut(s, u)
         /\ s.dirty => u.dirty
         /\ Balanced(s) => Balanced(u)
         /\ k \in u.index /\ k \in DOMAIN u.entries
         /\ v = Changed => u.dirty
         /\ v # Changed => u.entries[k].bytes = v
         /\ \A j \in Keys \ {k} : SameAt(s, u, j)
<1> DEFINE u == RemotePut(s, k, v)
<1>0. /\ s \in TabStates /\ s.entries \in Partial(Entries) /\ s.pending \in Partial(0..MaxTick)
      /\ s.total \in Nat /\ DOMAIN s.pending \subseteq DOMAIN s.entries
      /\ NextLocalTick(s) \in 0..MaxTick /\ s.dirty \in BOOLEAN /\ s.index \in SUBSET Keys
  BY LocalTick DEF Sound, TabStates
<1>e. s.entries \in Partial(Entries)
  BY <1>0
<1>1. BytesOf(s.entries, {k}) \in Nat /\ BytesOf(s.entries, Keys \ {k}) \in Nat
  BY <1>e, BytesFact
<1>2. BytesOf(s.entries, Keys) = BytesOf(s.entries, {k}) + BytesOf(s.entries, Keys \ {k})
  BY <1>e, BytesSplit
<1>3. ASSUME NEW b \in Nat
      PROVE  LET e == With(s.entries, k, [tick |-> NextLocalTick(s), bytes |-> b]) IN
             /\ e \in Partial(Entries) /\ DOMAIN e = DOMAIN s.entries \cup {k}
             /\ e[k].bytes = b
             /\ \A j \in DOMAIN s.entries \ {k} : e[j] = s.entries[j]
             /\ BytesOf(e, Keys) = b + BytesOf(s.entries, Keys \ {k})
  <2> DEFINE x == [tick |-> NextLocalTick(s), bytes |-> b]
  <2>1. x \in Entries /\ x.bytes = b
    BY <1>0 DEF Entries
  <2>2. x \in Entries
    BY <2>1
  <2> HIDE DEF x
  <2>3. LET e == With(s.entries, k, x) IN
         /\ e \in Partial(Entries) /\ DOMAIN e = DOMAIN s.entries \cup {k}
         /\ e[k] = x
         /\ \A j \in DOMAIN s.entries \ {k} : e[j] = s.entries[j]
         /\ BytesOf(e, Keys) = x.bytes + BytesOf(s.entries, Keys \ {k})
    BY <1>e, <2>2, EntryPut
  <2> QED
    BY <2>1, <2>3 DEF x
<1>4. CASE v # Changed
  <2> DEFINE e == With(s.entries, k, [tick |-> NextLocalTick(s), bytes |-> v])
  <2>1. v \in Nat
    BY <1>4, LruAssumption
  <2>2. /\ e \in Partial(Entries) /\ DOMAIN e = DOMAIN s.entries \cup {k}
        /\ e[k].bytes = v
        /\ \A j \in DOMAIN s.entries \ {k} : e[j] = s.entries[j]
        /\ BytesOf(e, Keys) = v + BytesOf(s.entries, Keys \ {k})
    BY <2>1, <1>3
  <2>3. u = [s EXCEPT !.entries = e, !.total = Less(s.total, BytesOf(s.entries, {k})) + v,
                      !.index = s.index \cup {k}]
    BY <1>4 DEF RemotePut
  <2> HIDE DEF e, u
  <2>4. Less(s.total, BytesOf(s.entries, {k})) + v \in Nat
    BY <1>0, <1>1, <2>1 DEF Less
  <2>5. u \in TabStates
    BY <1>0, <2>2, <2>3, <2>4 DEF TabStates
  <2>6. /\ u.open = s.open /\ u.clock = s.clock /\ u.dirty = s.dirty /\ u.entries = e
        /\ u.pending = s.pending /\ u.index = s.index \cup {k}
        /\ u.total = Less(s.total, BytesOf(s.entries, {k})) + v
    BY <1>0, <2>3 DEF TabStates
  <2>7. Balanced(s) => Balanced(u)
    BY <1>1, <1>2, <2>1, <2>2, <2>6 DEF Balanced, Less
  <2> QED
    BY <1>0, <1>4, <2>2, <2>5, <2>6, <2>7 DEF Sound, SameBut, SameAt, u
<1>5. CASE v = Changed
  <2> DEFINE w == With(s.entries, k, [tick |-> NextLocalTick(s), bytes |-> 0])
             e == IF k \in DOMAIN s.entries THEN s.entries ELSE w
  <2>2. /\ w \in Partial(Entries) /\ DOMAIN w = DOMAIN s.entries \cup {k}
        /\ \A j \in DOMAIN s.entries \ {k} : w[j] = s.entries[j]
        /\ BytesOf(w, Keys) = 0 + BytesOf(s.entries, Keys \ {k})
    <3>1. 0 \in Nat
      OBVIOUS
    <3> QED
      BY <1>3, <3>1
  <2>3. u = [s EXCEPT !.entries = e, !.dirty = TRUE, !.index = s.index \cup {k}]
    BY <1>5 DEF RemotePut, UnknownIsDirty
  <2>4. BytesOf(e, Keys) = BytesOf(s.entries, Keys)
    <3>1. CASE k \in DOMAIN s.entries
      BY <3>1
    <3>2. CASE k \notin DOMAIN s.entries
      <4>1. BytesOf(s.entries, {k}) = 0
        BY <3>2, <1>e, BytesOne
      <4> QED
        BY <3>2, <4>1, <2>2, <1>1, <1>2
    <3> QED
      BY <3>1, <3>2
  <2>5. /\ e \in Partial(Entries) /\ DOMAIN e = DOMAIN s.entries \cup {k}
        /\ \A j \in DOMAIN s.entries \ {k} : e[j] = s.entries[j]
    BY <1>0, <2>2
  <2> HIDE DEF w, e, u
  <2>6. u \in TabStates
    BY <1>0, <2>3, <2>5 DEF TabStates
  <2>7. /\ u.open = s.open /\ u.clock = s.clock /\ u.dirty = TRUE /\ u.entries = e
        /\ u.pending = s.pending /\ u.index = s.index \cup {k} /\ u.total = s.total
    BY <1>0, <2>3 DEF TabStates
  <2> QED
    BY <1>0, <1>5, <2>4, <2>5, <2>6, <2>7 DEF Sound, SameBut, SameAt, Balanced, u
<1> QED
  BY <1>4, <1>5

(* remote_clear leaves nothing (lru.rs:364).                               *)
LEMMA ClearFact ==
  ASSUME NEW s, Sound(s)
  PROVE  LET u == RemoteClear(s) IN
         Sound(u) /\ SameBut(s, u) /\ Balanced(u) /\ \A k \in Keys : NoneAt(u, k)
<1> DEFINE u == RemoteClear(s)
<1>0. s \in TabStates /\ <<>> \in Partial(Entries) /\ <<>> \in Partial(0..MaxTick) /\ DOMAIN <<>> = {}
  BY EmptyPartial DEF Sound
<1>1. /\ u.open = s.open /\ u.clock = s.clock /\ u.entries = <<>> /\ u.pending = <<>>
      /\ u.index = {} /\ u.total = 0 /\ u.dirty = FALSE
  BY <1>0 DEF RemoteClear, TabStates
<1>2. u \in TabStates
  BY <1>0 DEF RemoteClear, TabStates
<1>3. BytesOf(<<>>, Keys) = 0
  BY <1>0, BytesNone
<1> HIDE DEF u
<1> QED
  BY <1>0, <1>1, <1>2, <1>3 DEF Sound, SameBut, Balanced, NoneAt, u

ChangedAt(n, u, k) ==
  IF n.does[k] = Gone THEN NoneAt(u, k)
  ELSE /\ k \in u.index /\ k \in DOMAIN u.entries
       /\ u.dirty \/ (n.does[k] # Changed /\ u.entries[k].bytes = n.does[k])
(* How far a state u is from b with the changes of n to the keys in S.     *)
Reached(b, n, S, u) ==
  /\ Sound(u) /\ SameBut(b, u)
  /\ b.dirty => u.dirty
  /\ Balanced(b) => Balanced(u)
  /\ \A k \in S : ChangedAt(n, u, k)
  /\ \A k \in Keys \ S : SameAt(b, u, k)

(* One more change of a message.                                           *)
LEMMA ReachedOneMore ==
  ASSUME NEW b, NEW n \in SizeNews, NEW S, NEW v, Reached(b, n, S, v),
         NEW k \in Named(n) \ S, S \subseteq Keys
  PROVE  Reached(b, n, S \cup {k}, Change(n, k, v))
<1> DEFINE u == Change(n, k, v)
<1>1. k \in Keys /\ n.does[k] \in Vals \cup {Gone, Changed}
  <2>1. k \in Keys /\ n.does[k] # Kept
    BY DEF Named
  <2>2. n.does[k] \in Vals \cup {Gone, Kept, Changed}
    BY <2>1 DEF SizeNews
  <2> QED
    BY <2>1, <2>2
<1>2. /\ Sound(u) /\ SameBut(v, u) /\ (v.dirty => u.dirty) /\ (Balanced(v) => Balanced(u))
      /\ ChangedAt(n, u, k) /\ \A j \in Keys \ {k} : SameAt(v, u, j)
  <2>1. Sound(v)
    BY DEF Reached
  <2>2. CASE n.does[k] = Gone
    <3>1. u = RemoteDelete(v, {k}) /\ {k} \in SUBSET Keys
      BY <1>1, <2>2 DEF Change
    <3> HIDE DEF u
    <3> QED
      BY <2>1, <2>2, <3>1, DeleteFact DEF ChangedAt
  <2>3. CASE n.does[k] # Gone
    <3>1. u = RemotePut(v, k, n.does[k])
      BY <2>3 DEF Change
    <3>2. n.does[k] \in Vals \cup {Changed}
      BY <1>1, <2>3
    <3> HIDE DEF u
    <3> DEFINE c == n.does[k]
    <3>3. u = RemotePut(v, k, c)
      BY <3>1
    <3>a. c \in Vals \cup {Changed}
      BY <3>2
    <3>b. k \in Keys
      BY <1>1
    <3> HIDE DEF c
    <3>4. /\ Sound(u) /\ SameBut(v, u) /\ (v.dirty => u.dirty) /\ (Balanced(v) => Balanced(u))
          /\ k \in u.index /\ k \in DOMAIN u.entries
          /\ c = Changed => u.dirty
          /\ c # Changed => u.entries[k].bytes = c
          /\ \A j \in Keys \ {k} : SameAt(v, u, j)
      BY <2>1, <3>3, <3>a, <3>b, PutFact
    <3> QED
      BY <2>3, <3>4 DEF ChangedAt, c
  <2> QED
    BY <2>2, <2>3
<1> HIDE DEF u
<1>3. SameBut(b, u) /\ (b.dirty => u.dirty) /\ (Balanced(b) => Balanced(u))
  BY <1>2 DEF Reached, SameBut
<1>4. \A j \in Keys \ (S \cup {k}) : SameAt(b, u, j)
  BY <1>2 DEF Reached, SameAt
<1>5. ASSUME NEW j \in S \cup {k} PROVE ChangedAt(n, u, j)
  <2>1. CASE j = k
    BY <1>2, <2>1
  <2>2. CASE j # k
    <3>1. ChangedAt(n, v, j) /\ SameAt(v, u, j)
      BY <1>2, <2>2 DEF Reached
    <3> QED
      BY <1>2, <3>1 DEF ChangedAt, SameAt, NoneAt
  <2> QED
    BY <2>1, <2>2
<1> QED
  BY <1>2, <1>3, <1>4, <1>5 DEF Reached, u

(* All changes of a message, whatever their number.                        *)
LEMMA AllChanges ==
  ASSUME NEW b, Sound(b), NEW n \in SizeNews
  PROVE  Reached(b, n, Named(n),
                 MapThenFoldSet(LAMBDA k, u : Change(n, k, u), b, LAMBDA k : k,
                                LAMBDA S : Max(S), Named(n)))
<1> DEFINE U == Named(n)
           V == {v \in TabStates : Sound(v)}
           pick == [s \in SUBSET U |-> Max(s)]
           st == [p \in U \X V |-> Change(n, p[1], p[2])]
           Rec(g) == g = [s \in SUBSET U |-> IF s = {} THEN b ELSE Change(n, Max(s), g[s \ {Max(s)}])]
           Fold == MapThenFoldSet(LAMBDA k, u : Change(n, k, u), b, LAMBDA k : k,
                                  LAMBDA S : Max(S), U)
<1>1. U \in SUBSET Keys /\ IsFiniteSet(U) /\ \A s \in SUBSET U : IsFiniteSet(s) /\ s \subseteq Nat
  <2>1. U \in SUBSET Keys
    BY DEF Named
  <2> QED
    BY <2>1, LruAssumption, FS_Subset
<1>2. \A s \in SUBSET U : s # {} => Max(s) \in s
  BY <1>1, MaxFact
<1>3. b \in V
  BY DEF Sound
<1>4. ASSUME NEW k \in U, NEW v \in V
      PROVE  Change(n, k, v) \in V
  <2>1. Reached(v, n, {}, v)
    BY DEF Reached, SameBut, SameAt
  <2>2. k \in Named(n) \ {} /\ {} \subseteq Keys
    OBVIOUS
  <2>3. Reached(v, n, {} \cup {k}, Change(n, k, v))
    BY <2>1, <2>2, ReachedOneMore
  <2> QED
    BY <2>3 DEF Reached, Sound
<1>5. \E g : Rec(g)
  <2>1. Picks(pick, U)
    BY <1>2 DEF Picks
  <2>2. Steps(st, U, V)
    BY <1>4 DEF Steps
  <2>3. \E g : Recursive(g, U, V, b, pick, st)
    <3> HIDE DEF U, V, pick, st
    <3> QED
      BY <1>1, <1>3, <2>1, <2>2, SetRecursion
  <2>4. PICK g : Recursive(g, U, V, b, pick, st)
    BY <2>3
  <2>5. ASSUME NEW s \in SUBSET U
        PROVE  g[s] = IF s = {} THEN b ELSE Change(n, Max(s), g[s \ {Max(s)}])
    <3>1. CASE s = {}
      BY <2>4, <3>1 DEF Recursive
    <3>2. CASE s # {}
      <4>1. Max(s) \in U /\ s \ {Max(s)} \in SUBSET U /\ pick[s] = Max(s)
        BY <3>2, <1>2
      <4>2. g[s \ {Max(s)}] \in V
        BY <2>4, <4>1 DEF Recursive
      <4>3. g[s] = st[<<Max(s), g[s \ {Max(s)}]>>]
        BY <2>4, <3>2, <4>1 DEF Recursive
      <4> QED
        BY <3>2, <4>1, <4>2, <4>3
    <3> QED
      BY <3>1, <3>2
  <2>6. g = [s \in SUBSET U |-> g[s]]
    BY <2>4 DEF Recursive
  <2>7. Rec(g)
    <3> HIDE DEF U
    <3> QED
      BY <2>5, <2>6
  <2> QED
    BY <2>7
<1> DEFINE h == CHOOSE e : Rec(e)
<1>6. Rec(h)
  <2> HIDE DEF Rec
  <2> QED
    BY <1>5
<1>7. Fold = h[U]
  <2> HIDE DEF U
  <2> QED
    BY Zenon DEF MapThenFoldSet
<1>8. \A s \in SUBSET U : h[s] = IF s = {} THEN b ELSE Change(n, Max(s), h[s \ {Max(s)}])
  <2> HIDE DEF h, U
  <2> QED
    BY <1>6
<1> HIDE DEF h
<1> DEFINE B == {s \in SUBSET U : ~Reached(b, n, s, h[s])}
<1>9. B = {}
  <2> SUFFICES ASSUME B # {} PROVE FALSE
    OBVIOUS
  <2>1. PICK s \in B : \A y \in B : y \subseteq s => y = s
    <3>1. B \subseteq SUBSET U /\ IsFiniteSet(U)
      BY <1>1
    <3> HIDE DEF B, U
    <3> QED
      BY <3>1, LeastSubset
  <2>2. s \in SUBSET U /\ ~Reached(b, n, s, h[s])
    BY <2>1
  <2>3. CASE s = {}
    <3>1. h[s] = b
      BY <1>8, <2>2, <2>3
    <3>2. Reached(b, n, s, b)
      BY <2>3 DEF Reached, SameBut, SameAt
    <3> QED
      BY <2>2, <3>1, <3>2
  <2>4. CASE s # {}
    <3> DEFINE m == Max(s)
               r == s \ {m}
    <3>1. m \in s /\ m \in U
      BY <1>2, <2>2, <2>4
    <3>2. r \in SUBSET U /\ r \notin B
      BY <2>1, <2>2, <3>1
    <3>3. Reached(b, n, r, h[r])
      BY <3>2
    <3>4. h[s] = Change(n, m, h[r])
      BY <1>8, <2>2, <2>4
    <3>5. m \in Named(n) \ r /\ r \subseteq Keys /\ r \cup {m} = s
      BY <3>1, <3>2, <1>1
    <3> HIDE DEF m, r
    <3>6. Reached(b, n, r \cup {m}, Change(n, m, h[r]))
      BY <3>3, <3>5, ReachedOneMore
    <3> QED
      BY <2>2, <3>4, <3>5, <3>6
  <2> QED
    BY <2>3, <2>4
<1>10. Reached(b, n, U, h[U])
  BY <1>9
<1> QED
  BY <1>7, <1>10

(* What a tab makes of a message.                                          *)
Follow(n, u, k) == IF k \in n.shed THEN NoneAt(u, k) ELSE ChangedAt(n, u, k)
(* A message: every key it covers is as it says, every other as it was.    *)
LEMMA AbsorbedFact ==
  ASSUME NEW s, Sound(s), NEW n \in SizeNews, n.cleared => \A k \in Keys : n.does[k] # Kept
  PROVE  LET u == Absorbed(s, n) IN
         /\ Sound(u) /\ SameBut(s, u)
         /\ Balanced(s) => Balanced(u)
         /\ \A k \in Keys : Covers(n, k) => Follow(n, u, k)
         /\ \A k \in Keys : ~Covers(n, k) => SameAt(s, u, k) /\ (s.dirty => u.dirty)
<1> DEFINE b == IF n.cleared THEN RemoteClear(s) ELSE s
           w == MapThenFoldSet(LAMBDA k, u : Change(n, k, u), b, LAMBDA k : k,
                               LAMBDA S : Max(S), Named(n))
           u == RemoteDelete(w, n.shed)
<1>1. /\ Sound(b) /\ SameBut(s, b) /\ (Balanced(s) => Balanced(b))
      /\ n.cleared => \A k \in Keys : NoneAt(b, k)
      /\ ~n.cleared => b = s
  <2>1. CASE n.cleared
    BY <2>1, ClearFact
  <2>2. CASE ~n.cleared
    BY <2>2 DEF SameBut
  <2> QED
    BY <2>1, <2>2
<1>2. Reached(b, n, Named(n), w)
  <2> HIDE DEF b
  <2> QED
    BY <1>1, AllChanges
<1>3. Absorbed(s, n) = u
  BY Zenon DEF Absorbed
<1>4. n.shed \in SUBSET Keys
  BY DEF SizeNews
<1> HIDE DEF b, w
<1>5. /\ Sound(u) /\ SameBut(w, u) /\ u.dirty = w.dirty /\ (Balanced(w) => Balanced(u))
      /\ \A k \in n.shed : NoneAt(u, k)
      /\ \A k \in Keys \ n.shed : SameAt(w, u, k)
  BY <1>2, <1>4, DeleteFact DEF Reached
<1> HIDE DEF u
<1>6. SameBut(s, u) /\ (Balanced(s) => Balanced(u))
  BY <1>1, <1>2, <1>5 DEF Reached, SameBut
<1>7. ASSUME NEW k \in Keys, Covers(n, k) PROVE Follow(n, u, k)
  <2>1. CASE k \in n.shed
    BY <1>5, <2>1 DEF Follow
  <2>2. CASE k \notin n.shed
    <3>1. ChangedAt(n, w, k)
      <4>1. CASE k \in Named(n)
        BY <4>1, <1>2 DEF Reached
      <4>2. CASE k \notin Named(n)
        <5>1. n.does[k] # Kept
          BY <1>7, <2>2 DEF Covers
        <5>2. n.cleared /\ n.does[k] = Gone
          BY <4>2, <5>1 DEF Named
        <5>3. NoneAt(b, k) /\ SameAt(b, w, k)
          BY <1>1, <1>2, <4>2, <5>2 DEF Reached
        <5> QED
          BY <5>2, <5>3 DEF ChangedAt, NoneAt, SameAt
      <4> QED
        BY <4>1, <4>2
    <3>2. SameAt(w, u, k) /\ u.dirty = w.dirty
      BY <1>5, <2>2
    <3> QED
      BY <2>2, <3>1, <3>2 DEF Follow, ChangedAt, SameAt, NoneAt
  <2> QED
    BY <2>1, <2>2
<1>8. ASSUME NEW k \in Keys, ~Covers(n, k) PROVE SameAt(s, u, k) /\ (s.dirty => u.dirty)
  <2>1. n.does[k] = Kept /\ k \notin n.shed /\ k \notin Named(n) /\ ~n.cleared
    BY <1>8 DEF Covers, Named
  <2>2. b = s /\ SameAt(b, w, k) /\ (b.dirty => w.dirty)
    BY <1>1, <1>2, <2>1 DEF Reached
  <2>3. SameAt(w, u, k) /\ u.dirty = w.dirty
    BY <1>5, <2>1
  <2> QED
    BY <2>2, <2>3 DEF SameAt
<1> QED
  BY <1>3, <1>5, <1>6, <1>7, <1>8

-----------------------------------------------------------------------------
(* Planning and applying a commit.                                         *)

(* What a batch touches, it puts or deletes.                               *)
LEMMA BatchFact ==
  ASSUME NEW b \in Batches
  PROVE  /\ PutsOf(b) \subseteq Keys /\ DeletesOf(b) \subseteq Keys
         /\ PutsOf(b) \cap DeletesOf(b) = {}
         /\ PutsOf(b) \cup DeletesOf(b) = Touched(b.does)
         /\ Summable(b.does, PutsOf(b))
         /\ b.cleared => Touched(b.does) = Keys
         /\ \A k \in Keys : b.does[k] \in Vals \cup {Gone, Kept}
<1>1. \A k \in Keys : b.does[k] \in Vals \cup {Gone, Kept}
  BY DEF Batches, Effects
<1>2. PutsOf(b) \subseteq Keys /\ DeletesOf(b) \subseteq Keys /\ PutsOf(b) \cap DeletesOf(b) = {}
  BY BatchAssumption DEF PutsOf, DeletesOf
<1>3. PutsOf(b) \cup DeletesOf(b) = Touched(b.does)
  BY <1>1, BatchAssumption DEF PutsOf, DeletesOf, Touched
<1>4. IsFiniteSet(PutsOf(b))
  BY <1>2, LruAssumption, FS_Subset
<1>5. \A k \in PutsOf(b) : b.does[k] \in Nat
  BY LruAssumption DEF PutsOf
<1> QED
  BY <1>1, <1>2, <1>3, <1>4, <1>5 DEF Summable, Batches

(* The least recently used of some keys.                                   *)
LEMMA Oldest ==
  ASSUME NEW s, s.entries \in Partial(Entries), NEW R \in SUBSET (DOMAIN s.entries), R # {}
  PROVE  \E k \in R : \A j \in R : Older(s, j, k) => FALSE
<1>1. \A k \in R : k \in Nat /\ s.entries[k].tick \in Nat
  <2>1. DOMAIN s.entries \in SUBSET Keys /\ \A k \in DOMAIN s.entries : s.entries[k] \in Entries
    BY PartialValue
  <2>2. \A k \in DOMAIN s.entries : s.entries[k].tick \in Nat
    BY <2>1, LruAssumption DEF Entries
  <2> QED
    BY <2>1, <2>2, LruAssumption
<1> DEFINE T == {s.entries[k].tick : k \in R}
<1>2. PICK m \in T : \A x \in T : m <= x
  <2>1. T \subseteq Nat /\ T # {}
    BY <1>1
  <2> HIDE DEF T
  <2> QED
    BY <2>1, LeastNumber
<1> DEFINE K == {k \in R : s.entries[k].tick = m}
<1>3. PICK k \in K : \A j \in K : k <= j
  <2>1. K \subseteq Nat /\ K # {}
    BY <1>1, <1>2
  <2> HIDE DEF K
  <2> QED
    BY <2>1, LeastNumber
<1>4. k \in R /\ s.entries[k].tick = m
  BY <1>3
<1>5. ASSUME NEW j \in R, Older(s, j, k) PROVE FALSE
  <2>1. m <= s.entries[j].tick /\ s.entries[j].tick \in Nat /\ m \in Nat /\ j \in Nat /\ k \in Nat
    BY <1>1, <1>2, <1>4
  <2>2. s.entries[j].tick = m /\ j < k
    BY <1>4, <1>5, <2>1 DEF Older
  <2>3. j \in K
    BY <2>2
  <2> QED
    BY <1>3, <2>1, <2>2, <2>3
<1> QED
  BY <1>4, <1>5

Remain(s, b, victims) ==
  IF b.cleared THEN {} ELSE DOMAIN s.entries \ (PutsOf(b) \cup DeletesOf(b) \cup victims)

(* The total a plan begins with: the others and what is put.               *)
LEMMA TotalFact ==
  ASSUME NEW s, Sound(s), Balanced(s), NEW b \in Batches, b.again = {}
  PROVE  /\ TotalAfter(s, b) = BytesOf(s.entries, Candidates(s, b)) + SizeOf(b.does, PutsOf(b))
         /\ BytesOf(s.entries, Candidates(s, b)) \in Nat /\ SizeOf(b.does, PutsOf(b)) \in Nat
<1> DEFINE P == PutsOf(b)
           D == DeletesOf(b)
           C == Candidates(s, b)
           e == s.entries
<1>1. e \in Partial(Entries)
  BY DEF Sound, TabStates
<1>2. /\ P \subseteq Keys /\ D \subseteq Keys /\ P \cap D = {} /\ Summable(b.does, P)
  BY BatchFact
<1>3. DOMAIN e \subseteq Keys
  BY <1>1, PartialValue
<1>4. /\ BytesOf(e, C) \in Nat /\ BytesOf(e, D) \in Nat /\ BytesOf(e, P) \in Nat
      /\ BytesOf(e, C \cup D) \in Nat /\ BytesOf(e, {}) = 0
  <2> HIDE DEF C, D, P, e
  <2>1. BytesOf(e, {}) = 0
    BY <1>1, BytesNone
  <2> QED
    BY <1>1, <2>1, BytesFact
<1>5. SizeOf(b.does, P) \in Nat
  BY <1>2, SumType
<1>6. CASE b.cleared
  <2>1. C = {}
    BY <1>6 DEF Candidates
  <2>2. TotalAfter(s, b) = SizeOf(b.does, P)
    BY <1>6 DEF TotalAfter
  <2> QED
    BY <2>1, <2>2, <1>4, <1>5
<1>7. CASE ~b.cleared
  <2>1. C = DOMAIN e \ (D \cup P)
    BY <1>7 DEF Candidates
  <2>2. BytesOf(e, Keys) = BytesOf(e, C \cup D) + BytesOf(e, P)
    <3>1. Keys \cap DOMAIN e = ((C \cup D) \cap DOMAIN e) \cup (P \cap DOMAIN e)
      BY <1>2, <1>3, <2>1
    <3>2. (C \cup D) \cap P \cap DOMAIN e = {}
      BY <1>2, <2>1
    <3> HIDE DEF C, D, P, e
    <3> QED
      BY <1>1, <3>1, <3>2, BytesSplit
  <2>3. BytesOf(e, C \cup D) = BytesOf(e, C) + BytesOf(e, D)
    <3>1. C \cap D = {}
      BY <2>1
    <3> HIDE DEF C, D, P, e
    <3> QED
      BY <1>1, <3>1, BytesSplit
  <2>4. s.total = BytesOf(e, Keys)
    BY DEF Balanced
  <2>5. TotalAfter(s, b) = Less(s.total, BytesOf(e, D) + BytesOf(e, {}) + BytesOf(e, P))
                           + SizeOf(b.does, P)
    BY <1>7 DEF TotalAfter
  <2>6. Less(s.total, BytesOf(e, D) + BytesOf(e, {}) + BytesOf(e, P)) = BytesOf(e, C)
    <3> HIDE DEF C, D, P, e
    <3> QED
      BY <1>4, <2>2, <2>3, <2>4 DEF Less
  <2>7. TotalAfter(s, b) = BytesOf(e, C) + SizeOf(b.does, P)
    BY <2>5, <2>6
  <2> QED
    BY <1>4, <1>5, <2>7
<1> QED
  BY <1>4, <1>5, <1>6, <1>7

(* Who goes: nobody the batch names, and enough for the rest to fit.       *)
LEMMA PlanFact ==
  ASSUME NEW s, Sound(s), Balanced(s), NEW b \in Batches, b.again = {}, NEW budget \in Nat
  PROVE  LET victims == VictimsOf(s, b, budget)
             total == Less(TotalAfter(s, b), BytesOf(s.entries, victims)) IN
         /\ victims \subseteq DOMAIN s.entries \ Touched(b.does)
         /\ total \in Nat
         /\ total = BytesOf(s.entries, Remain(s, b, victims)) + SizeOf(b.does, PutsOf(b))
         /\ total <= budget \/ Remain(s, b, victims) = {}
<1> DEFINE C == Candidates(s, b)
           V == VictimsOf(s, b, budget)
           R == Remain(s, b, V)
           e == s.entries
           size == SizeOf(b.does, PutsOf(b))
           total == Less(TotalAfter(s, b), BytesOf(e, V))
<1>1. e \in Partial(Entries)
  BY DEF Sound, TabStates
<1>2. TotalAfter(s, b) = BytesOf(e, C) + size /\ size \in Nat /\ BytesOf(e, C) \in Nat
  BY TotalFact
<1>3. V \subseteq C /\ R = C \ V /\ C \subseteq DOMAIN e
  BY DEF VictimsOf, Candidates, Remain
<1>4. V \subseteq DOMAIN e \ Touched(b.does)
  <2>1. PutsOf(b) \cup DeletesOf(b) = Touched(b.does)
    BY BatchFact
  <2> QED
    BY <1>3, <2>1 DEF Candidates
<1>5. BytesOf(e, C) = BytesOf(e, V) + BytesOf(e, R) /\ BytesOf(e, V) \in Nat /\ BytesOf(e, R) \in Nat
  <2>1. C \cap DOMAIN e = (V \cap DOMAIN e) \cup (R \cap DOMAIN e) /\ V \cap R \cap DOMAIN e = {}
    BY <1>3
  <2> HIDE DEF C, V, R, e
  <2>2. BytesOf(e, C) = BytesOf(e, V) + BytesOf(e, R)
    BY <1>1, <2>1, BytesSplit
  <2>3. BytesOf(e, V) \in Nat /\ BytesOf(e, R) \in Nat
    BY <1>1, BytesFact
  <2> QED
    BY <2>2, <2>3
<1>6. total = BytesOf(e, R) + size /\ total \in Nat
  <2> HIDE DEF C, V, R, e, size
  <2> QED
    BY <1>2, <1>5 DEF Less
<1>7. ASSUME R # {} PROVE total <= budget
  <2>1. PICK k \in R : \A j \in R : ~Older(s, j, k)
    <3>1. R \in SUBSET (DOMAIN e)
      BY <1>3
    <3>2. \E k \in R : \A j \in R : Older(s, j, k) => FALSE
      <4> HIDE DEF R
      <4> QED
        BY <1>1, <1>7, <3>1, Oldest
    <3> QED
      BY <3>2
  <2> DEFINE O == {j \in C : Older(s, j, k)}
  <2>2. O \subseteq V
    BY <1>3, <2>1
  <2>3. ~(TotalAfter(s, b) > budget + BytesOf(e, O))
    BY <1>3, <2>1 DEF VictimsOf
  <2>4. BytesOf(e, V) = BytesOf(e, O) + BytesOf(e, V \ O) /\ BytesOf(e, O) \in Nat
        /\ BytesOf(e, V \ O) \in Nat
    <3>1. V \cap DOMAIN e = (O \cap DOMAIN e) \cup ((V \ O) \cap DOMAIN e)
          /\ O \cap (V \ O) \cap DOMAIN e = {}
      BY <2>2
    <3> HIDE DEF V, O, e
    <3>2. BytesOf(e, V) = BytesOf(e, O) + BytesOf(e, V \ O)
      BY <1>1, <3>1, BytesSplit
    <3>3. BytesOf(e, O) \in Nat /\ BytesOf(e, V \ O) \in Nat
      BY <1>1, BytesFact
    <3> QED
      BY <3>2, <3>3
  <2> HIDE DEF V, O, e, C, R, size
  <2> QED
    BY <1>2, <1>5, <2>3, <2>4 DEF Less
<1> QED
  BY <1>4, <1>6, <1>7

(* The entries after a commit: what goes, what is put, and what goes again. *)
LEMMA Rewritten ==
  ASSUME NEW S, NEW base \in Partial(S), NEW news \in Partial(S), NEW gone, NEW V
  PROVE  LET e == Without(Over(Without(base, gone), news), V) IN
         /\ e \in Partial(S)
         /\ DOMAIN e = ((DOMAIN base \ gone) \cup DOMAIN news) \ V
<1> DEFINE kept == Without(base, gone)
           both == Over(kept, news)
           e == Without(both, V)
<1>1. kept \in Partial(S) /\ DOMAIN kept = DOMAIN base \ gone
  <2>1. Without(base, gone) \in Partial(S)
    BY WithoutFact
  <2>2. DOMAIN Without(base, gone) = DOMAIN base \ gone
    BY WithoutFact
  <2> QED
    BY <2>1, <2>2
<1>k. kept \in Partial(S)
  BY <1>1
<1> HIDE DEF kept
<1>2. both \in Partial(S) /\ DOMAIN both = DOMAIN kept \cup DOMAIN news
  <2>1. Over(kept, news) \in Partial(S)
    BY <1>k, OverFact
  <2>2. DOMAIN Over(kept, news) = DOMAIN kept \cup DOMAIN news
    BY DEF Over
  <2> QED
    BY <2>1, <2>2
<1>b. both \in Partial(S)
  BY <1>2
<1> HIDE DEF both
<1>3. e \in Partial(S) /\ DOMAIN e = DOMAIN both \ V
  BY <1>b, WithoutFact
<1> HIDE DEF e
<1> QED
  BY <1>1, <1>2, <1>3 DEF e, both, kept

(* apply makes of a tab what its plan promised, and the total is a sum.    *)
LEMMA AppliedFact ==
  ASSUME NEW s, Sound(s), NEW j \in Jobs, Planned(s, j)
  PROVE  LET u == Applied(s, j) IN
         /\ Sound(u) /\ SameBut(s, u) /\ Balanced(u) /\ u.dirty = s.dirty
         /\ \A k \in DeletesOf(j.batch) \cup j.victims : NoneAt(u, k)
         /\ \A k \in PutsOf(j.batch) :
              /\ k \in u.index /\ k \in DOMAIN u.entries
              /\ u.entries[k].tick = j.tick /\ u.entries[k].bytes = j.batch.does[k]
         /\ \A k \in Keys \ Covered(j) : SameAt(s, u, k)
         /\ DOMAIN u.pending \subseteq DOMAIN s.pending
         /\ \A k \in DOMAIN u.pending : u.pending[k] = s.pending[k]
<1> DEFINE u == Applied(s, j)
           b == j.batch
           P == PutsOf(b)
           D == DeletesOf(b)
           V == j.victims
           gone == D \cup V
           base == IF b.cleared THEN <<>> ELSE s.entries
           news == [k \in P |-> [tick |-> j.tick, bytes |-> b.does[k]]]
           e == Without(Over(Without(base, gone), news), V)
           p == IF b.cleared THEN <<>> ELSE Without(s.pending, gone \cup DOMAIN j.pending \cup j.skipped)
           i == ((IF b.cleared THEN {} ELSE s.index) \cup P) \ gone
           L == Left(s, j)
<1>b. b \in Batches
  BY DEF Jobs
<1>se. s.entries \in Partial(Entries)
  BY DEF Sound, TabStates
<1>sp. s.pending \in Partial(0..MaxTick)
  BY DEF Sound, TabStates
<1>1. /\ P \subseteq Keys /\ D \subseteq Keys /\ P \cap D = {} /\ P \cup D = Touched(b.does)
      /\ Summable(b.does, P) /\ (b.cleared => P \cup D = Keys)
      /\ V \subseteq Keys /\ V \cap (P \cup D) = {} /\ (b.cleared => V = {})
  <2>1. DOMAIN s.entries \subseteq Keys
    BY <1>se, PartialValue
  <2> QED
    BY <1>b, <2>1, BatchFact DEF Planned
<1>2. u = [s EXCEPT !.entries = e, !.pending = p, !.total = j.total, !.index = i]
  BY DEF Applied
<1>3. base \in Partial(Entries)
  BY <1>se, EmptyPartial
<1>5. /\ news \in Partial(Entries) /\ DOMAIN news = P
      /\ \A k \in P : news[k].tick = j.tick /\ news[k].bytes = b.does[k]
  <2>1. \A k \in P : b.does[k] \in Nat /\ j.tick \in 0..MaxTick
    BY <1>1 DEF Summable, Jobs
  <2>2. \A k \in P : news[k] \in Entries
    BY <2>1 DEF Entries
  <2>3. news = [k \in DOMAIN news |-> news[k]] /\ DOMAIN news = P
    OBVIOUS
  <2>4. news \in Partial(Entries)
    <3> HIDE DEF news
    <3> QED
      BY <1>1, <2>2, <2>3, PartialMake
  <2> QED
    BY <2>4
<1>6. e \in Partial(Entries) /\ DOMAIN e = ((DOMAIN base \ gone) \cup DOMAIN news) \ V
      /\ (\A k \in DOMAIN news \ V : e[k] = news[k])
      /\ (\A k \in DOMAIN base \ (gone \cup V) : k \notin DOMAIN news => e[k] = base[k])
  <2>1. news \in Partial(Entries)
    BY <1>5
  <2> HIDE DEF base, gone, news, V, e
  <2>2. Without(Over(Without(base, gone), news), V) \in Partial(Entries)
    BY <1>3, <2>1, Rewritten
  <2>d. DOMAIN Without(Over(Without(base, gone), news), V)
          = ((DOMAIN base \ gone) \cup DOMAIN news) \ V
    BY DEF Without, Over
  <2>3. \A k \in DOMAIN news \ V : Without(Over(Without(base, gone), news), V)[k] = news[k]
    BY DEF Without, Over
  <2>4. \A k \in DOMAIN base \ (gone \cup V) : k \notin DOMAIN news =>
          Without(Over(Without(base, gone), news), V)[k] = base[k]
    BY DEF Without, Over
  <2> QED
    BY <2>2, <2>d, <2>3, <2>4 DEF e
<1>8. /\ p \in Partial(0..MaxTick) /\ DOMAIN p \subseteq DOMAIN s.pending
      /\ (b.cleared => DOMAIN p = {}) /\ DOMAIN p \cap gone = {}
      /\ \A k \in DOMAIN p : p[k] = s.pending[k]
  <2>1. CASE b.cleared
    BY <2>1, EmptyPartial
  <2>2. CASE ~b.cleared
    <3> DEFINE X == gone \cup DOMAIN j.pending \cup j.skipped
               w == Without(s.pending, X)
    <3>1. w \in Partial(0..MaxTick) /\ DOMAIN w = DOMAIN s.pending \ X
          /\ \A k \in DOMAIN s.pending \ X : w[k] = s.pending[k]
      <4> HIDE DEF X
      <4>1. w \in Partial(0..MaxTick) /\ DOMAIN w = DOMAIN s.pending \ X
        BY <1>sp, WithoutFact
      <4>2. \A k \in DOMAIN s.pending \ X : w[k] = s.pending[k]
        BY DEF Without
      <4> QED
        BY <4>1, <4>2
    <3>2. p = w
      BY <2>2
    <3> HIDE DEF p, w
    <3> QED
      BY <2>2, <3>1, <3>2
  <2> QED
    BY <2>1, <2>2
<1>9. i \in SUBSET Keys
  BY <1>1 DEF Sound, TabStates
<1>10. j.total \in Nat
  BY DEF Jobs
<1> HIDE DEF u, base, news, e, p, i, L
<1>11. s \in TabStates
  BY DEF Sound
<1>12. u \in TabStates
  BY <1>2, <1>6, <1>8, <1>9, <1>10, <1>11 DEF TabStates
<1>13. /\ u.open = s.open /\ u.clock = s.clock /\ u.dirty = s.dirty
       /\ u.entries = e /\ u.pending = p /\ u.index = i /\ u.total = j.total
  BY <1>2, <1>11 DEF TabStates
<1>14. DOMAIN e = (DOMAIN base \ gone) \cup P
  BY <1>1, <1>5, <1>6
<1>15. DOMAIN p \subseteq DOMAIN e
  BY <1>8, <1>14 DEF Sound, base
<1>16. \A k \in P : k \in DOMAIN e /\ e[k].tick = j.tick /\ e[k].bytes = b.does[k]
  BY <1>1, <1>5, <1>6, <1>14
<1>17. \A k \in DOMAIN base \ (gone \cup P) : k \in DOMAIN e /\ e[k] = base[k]
  BY <1>1, <1>5, <1>6, <1>14
<1>18. BytesOf(e, Keys) = j.total
  <2>1. L \subseteq DOMAIN base \ (gone \cup P) /\ DOMAIN e = L \cup P /\ L \cap P = {}
    BY <1>14, <1>1 DEF L, Left, base
  <2>2. BytesOf(e, Keys) = BytesOf(e, L) + BytesOf(e, P)
    <3>1. DOMAIN e \subseteq Keys
      BY <1>6, PartialValue
    <3>2. Keys \cap DOMAIN e = (L \cap DOMAIN e) \cup (P \cap DOMAIN e) /\ L \cap P \cap DOMAIN e = {}
      BY <2>1, <3>1
    <3> HIDE DEF P
    <3> QED
      BY <1>6, <3>2, BytesSplit
  <2>3. BytesOf(e, L) = BytesOf(s.entries, L)
    <3>1. L \cap DOMAIN s.entries = L \cap DOMAIN e
      BY <2>1 DEF L, Left
    <3>2. \A k \in L \cap DOMAIN s.entries : e[k].bytes = s.entries[k].bytes
      BY <2>1, <1>17 DEF L, Left, base
    <3> QED
      BY <1>6, <1>se, <3>1, <3>2, BytesSame
  <2>4. BytesOf(e, P) = SizeOf(b.does, P)
    <3>1. P \cap DOMAIN e = P
      BY <1>14
    <3>2. \A k \in P : Sizes(e)[k] = b.does[k]
      BY <1>16 DEF Sizes
    <3> HIDE DEF P
    <3>3. SizeOf(Sizes(e), P) = SizeOf(b.does, P)
      BY <1>1, <3>2, SumSame
    <3> QED
      BY <1>6, <3>1, <3>3, BytesFact
  <2> QED
    BY <2>2, <2>3, <2>4 DEF L, Planned
<1>19. \A k \in gone : k \notin i /\ k \notin DOMAIN e
  BY <1>1, <1>14 DEF i
<1>20. \A k \in P : k \in i
  BY <1>1 DEF i
<1>21. ASSUME NEW k \in Keys \ Covered(j) PROVE SameAt(s, u, k)
  <2>1. k \notin P \cup gone /\ ~b.cleared
    BY <1>1 DEF Covered
  <2>2. k \in i <=> k \in s.index
    BY <2>1 DEF i
  <2>3. k \in DOMAIN e <=> k \in DOMAIN s.entries
    BY <2>1, <1>14 DEF base
  <2>4. k \in DOMAIN s.entries => e[k] = s.entries[k]
    BY <2>1, <1>17 DEF base
  <2> QED
    BY <1>13, <2>2, <2>3, <2>4 DEF SameAt
<1> QED
  BY <1>8, <1>12, <1>13, <1>15, <1>16, <1>18, <1>19, <1>20, <1>21
     DEF Sound, SameBut, Balanced, NoneAt, u

-----------------------------------------------------------------------------
(* The clock, reads and loads.                                             *)

(* The greater of two naturals.                                            *)
LEMMA MaxOfTwo ==
  ASSUME NEW a \in Nat, NEW b \in Nat
  PROVE  Max({a, b}) = IF a >= b THEN a ELSE b
<1>1. {a, b} \subseteq Nat /\ {a, b} # {}
  OBVIOUS
<1>2. IsFiniteSet({a, b})
  <2>1. IsFiniteSet({a}) /\ IsFiniteSet({b})
    BY FS_Singleton
  <2>2. {a, b} = {a} \cup {b}
    OBVIOUS
  <2> QED
    BY <2>1, <2>2, FS_Union
<1>3. Max({a, b}) \in {a, b} /\ \A x \in {a, b} : Max({a, b}) >= x
  BY <1>1, <1>2, MaxFact
<1> QED
  BY <1>3

(* TickState::cursor is the greater of next and floor.                     *)
LEMMA CursorFact ==
  ASSUME NEW c \in Clocks
  PROVE  /\ Cursor(c) \in 0..MaxTick
         /\ Cursor(c) = IF c.next >= c.floor THEN c.next ELSE c.floor
<1>1. c.next \in Nat /\ c.floor \in Nat /\ c.next \in 0..MaxTick /\ c.floor \in 0..MaxTick
  BY LruAssumption DEF Clocks
<1>2. Cursor(c) = IF c.next >= c.floor THEN c.next ELSE c.floor
  BY <1>1, MaxOfTwo DEF Cursor
<1> QED
  BY <1>1, <1>2

(* A tick taken moves the cursor past it.                                  *)
LEMMA TickedFact ==
  ASSUME NEW c \in Clocks, Cursor(c) < MaxTick
  PROVE  LET d == ClockOf(TRUE, Cursor(c) + 1, c.floor) IN
         /\ d \in Clocks /\ d.seeded /\ Cursor(d) = Cursor(c) + 1
         /\ Cursor(c) \in 0..MaxTick /\ Cursor(c) + 1 \in 0..MaxTick
<1> DEFINE d == ClockOf(TRUE, Cursor(c) + 1, c.floor)
<1>1. /\ Cursor(c) \in 0..MaxTick /\ c.floor \in 0..MaxTick /\ c.floor <= Cursor(c)
  BY CursorFact, LruAssumption DEF Clocks
<1>2. Cursor(c) + 1 \in 0..MaxTick
  BY <1>1, LruAssumption
<1>3. d \in Clocks /\ d.seeded /\ d.next = Cursor(c) + 1 /\ d.floor = c.floor
  BY <1>1, <1>2 DEF ClockOf, Clocks
<1> HIDE DEF d
<1>4. Cursor(d) = IF d.next >= d.floor THEN d.next ELSE d.floor
  BY <1>3, CursorFact
<1>5. Cursor(d) = Cursor(c) + 1
  BY <1>1, <1>3, <1>4, LruAssumption
<1> QED
  BY <1>1, <1>2, <1>3, <1>5 DEF d

(* Seeding never moves the cursor back.                                    *)
LEMMA SeededFact ==
  ASSUME NEW c \in Clocks, NEW n \in 0..MaxTick, c.seeded \/ c.next = 0
  PROVE  LET d == Seeded(c, n) IN
         d \in Clocks /\ d.seeded /\ d.floor = c.floor /\ Cursor(d) >= Cursor(c)
<1> DEFINE d == Seeded(c, n)
           x == IF c.seeded THEN Max({c.next, n}) ELSE n
<1>1. c.next \in Nat /\ c.floor \in 0..MaxTick /\ n \in Nat /\ c.next \in 0..MaxTick
  BY LruAssumption DEF Clocks
<1>2. Max({c.next, n}) = IF c.next >= n THEN c.next ELSE n
  BY <1>1, MaxOfTwo
<1>3. x \in 0..MaxTick /\ x >= c.next
  BY <1>1, <1>2, LruAssumption
<1> HIDE DEF x
<1>4. d = ClockOf(TRUE, x, c.floor)
  BY DEF Seeded, x
<1>5. d \in Clocks /\ d.seeded /\ d.next = x /\ d.floor = c.floor
  BY <1>1, <1>3, <1>4 DEF ClockOf, Clocks
<1> HIDE DEF d
<1>6. Cursor(d) = IF d.next >= d.floor THEN d.next ELSE d.floor
  BY <1>5, CursorFact
<1>7. Cursor(c) = IF c.next >= c.floor THEN c.next ELSE c.floor
  BY CursorFact
<1>8. Cursor(d) >= Cursor(c)
  BY <1>1, <1>3, <1>5, <1>6, <1>7, LruAssumption
<1> QED
  BY <1>5, <1>8 DEF d

(* Ticks found in the rows raise the cursor past them.                     *)
LEMMA ObservedFact ==
  ASSUME NEW c \in Clocks, rows \in Partial(Entries), Observable
  PROVE  LET d == Observed(c) IN
         /\ d \in Clocks /\ d.seeded = c.seeded /\ (c.seeded \/ d.next = c.next)
         /\ Cursor(d) >= Cursor(c)
         /\ \A k \in DOMAIN rows : rows[k].tick < Cursor(d)
<1> DEFINE T == {rows[k].tick : k \in DOMAIN rows}
           m == Most(T)
           f == Max({c.floor, m + 1})
           n == IF c.seeded THEN Max({c.next, f}) ELSE c.next
           d == Observed(c)
<1>1. T \subseteq 0..MaxTick
  <2>1. \A k \in DOMAIN rows : rows[k] \in Entries
    BY PartialValue
  <2> QED
    BY <2>1 DEF Entries
<1>2. m \in Nat /\ \A k \in DOMAIN rows : rows[k].tick \in Nat /\ rows[k].tick <= m
  <2> DEFINE U == T \cup {0}
  <2>1. U \subseteq 0..MaxTick /\ U \subseteq Nat /\ U # {}
    BY <1>1, LruAssumption
  <2>2. IsFiniteSet(U)
    <3>1. IsFiniteSet(0..MaxTick)
      BY FS_Interval, LruAssumption
    <3> HIDE DEF U
    <3> QED
      BY <2>1, <3>1, FS_Subset
  <2>3. Max(U) \in U /\ \A x \in U : Max(U) >= x
    <3> HIDE DEF U
    <3> QED
      BY <2>1, <2>2, MaxFact
  <2>4. m = Max(U)
    BY Zenon DEF Most
  <2>5. \A k \in DOMAIN rows : rows[k].tick \in U
    OBVIOUS
  <2> HIDE DEF U, m
  <2> QED
    BY <2>1, <2>3, <2>4, <2>5
<1>3. m < MaxTick
  BY Zenon DEF Observable
<1>4. /\ c.next \in Nat /\ c.floor \in Nat /\ c.next \in 0..MaxTick /\ c.floor \in 0..MaxTick
      /\ c.seeded \in BOOLEAN
  BY LruAssumption DEF Clocks
<1>5. CASE DOMAIN rows = {}
  <2>1. d = c
    BY <1>5 DEF Observed
  <2>2. Cursor(c) \in Nat
    BY CursorFact, LruAssumption
  <2> QED
    BY <1>5, <2>1, <2>2
<1>6. CASE DOMAIN rows # {}
  <2>0. d = ClockOf(c.seeded, n, f)
    BY <1>6, Zenon DEF Observed
  <2> HIDE DEF m, T, d
  <2>1. f = IF c.floor >= m + 1 THEN c.floor ELSE m + 1
    <3>1. m + 1 \in Nat
      BY <1>2
    <3> QED
      BY <1>4, <3>1, MaxOfTwo
  <2>2. f \in Nat /\ f \in 0..MaxTick /\ f > m /\ f >= c.floor
    <3> HIDE DEF f
    <3> QED
      BY <1>2, <1>3, <1>4, <2>1, LruAssumption
  <2> HIDE DEF f
  <2>3. Max({c.next, f}) = IF c.next >= f THEN c.next ELSE f
    BY <1>4, <2>2, MaxOfTwo
  <2>4. n \in 0..MaxTick /\ n >= c.next
    BY <1>4, <2>2, <2>3, LruAssumption
  <2>5. c.seeded \/ n = c.next
    OBVIOUS
  <2> HIDE DEF n
  <2>6. d \in Clocks /\ d.seeded = c.seeded /\ d.next = n /\ d.floor = f
    BY <1>4, <2>0, <2>2, <2>4 DEF ClockOf, Clocks
  <2>7. Cursor(d) = IF d.next >= d.floor THEN d.next ELSE d.floor
    BY <2>6, CursorFact
  <2>8. Cursor(c) = IF c.next >= c.floor THEN c.next ELSE c.floor
    BY CursorFact
  <2>9. Cursor(d) >= Cursor(c) /\ Cursor(d) > m /\ Cursor(d) \in Nat
    BY <1>2, <1>4, <2>2, <2>4, <2>6, <2>7, <2>8, LruAssumption
  <2>10. \A k \in DOMAIN rows : rows[k].tick < Cursor(d)
    BY <1>2, <2>9
  <2> QED
    BY <2>5, <2>6, <2>9, <2>10 DEF d
<1> QED
  BY <1>5, <1>6

(* The same accounts: the same keys with the same bytes.                   *)
SameAccounts(s, u) ==
  /\ u.open = s.open /\ u.dirty = s.dirty /\ u.index = s.index /\ u.total = s.total
  /\ DOMAIN u.entries = DOMAIN s.entries
  /\ \A k \in DOMAIN s.entries : u.entries[k].bytes = s.entries[k].bytes

(* The same accounts have the same bytes.                                  *)
LEMMA AccountsBytes ==
  ASSUME NEW s, Sound(s), NEW u, Sound(u), SameAccounts(s, u), NEW S
  PROVE  BytesOf(u.entries, S) = BytesOf(s.entries, S)
<1>1. s.entries \in Partial(Entries)
  BY DEF Sound, TabStates
<1>2. u.entries \in Partial(Entries)
  BY DEF Sound, TabStates
<1>3. S \cap DOMAIN s.entries = S \cap DOMAIN u.entries
  BY DEF SameAccounts
<1>4. \A k \in S \cap DOMAIN s.entries : u.entries[k].bytes = s.entries[k].bytes
  BY DEF SameAccounts
<1> QED
  BY <1>1, <1>2, <1>3, <1>4, BytesSame

(* A clock moved leaves the accounts alone.                                *)
LEMMA ClockSet ==
  ASSUME NEW s, Sound(s), NEW c \in Clocks
  PROVE  LET u == [s EXCEPT !.clock = c] IN
         /\ Sound(u) /\ SameAccounts(s, u) /\ u.clock = c
         /\ u.entries = s.entries /\ u.pending = s.pending
BY DEF Sound, TabStates, SameAccounts

(* A read leaves the accounts alone, but for the tick.                     *)
LEMMA TouchFact ==
  ASSUME NEW s, Sound(s), NEW k, NEW tick \in 0..MaxTick
  PROVE  LET u == Touch(s, k, tick) IN
         /\ Sound(u) /\ SameAccounts(s, u) /\ u.clock = s.clock
         /\ \A j \in DOMAIN s.entries : u.entries[j] = s.entries[j] \/ u.entries[j].tick = tick
         /\ \A j \in DOMAIN u.pending : \/ u.pending[j] = tick
                                        \/ j \in DOMAIN s.pending /\ u.pending[j] = s.pending[j]
<1> DEFINE u == Touch(s, k, tick)
<1>1. CASE k \notin DOMAIN s.entries
  <2>1. u = s
    BY <1>1 DEF Touch
  <2> QED
    BY <2>1 DEF SameAccounts
<1>2. CASE k \in DOMAIN s.entries
  <2> DEFINE x == [tick |-> tick, bytes |-> s.entries[k].bytes]
             e == With(s.entries, k, x)
             p == With(s.pending, k, tick)
  <2>0. /\ s \in TabStates /\ DOMAIN s.pending \subseteq DOMAIN s.entries
    BY DEF Sound
  <2>1. s.entries \in Partial(Entries)
    BY <2>0 DEF TabStates
  <2>2. s.pending \in Partial(0..MaxTick)
    BY <2>0 DEF TabStates
  <2>3. k \in Keys /\ s.entries[k] \in Entries
    BY <1>2, <2>1, PartialValue
  <2>4. x \in Entries
    BY <2>3 DEF Entries
  <2>5. e \in Partial(Entries)
    <3> HIDE DEF x
    <3> QED
      BY <2>1, <2>3, <2>4, WithFact
  <2>6. p \in Partial(0..MaxTick)
    <3>1. k \in Keys
      BY <2>3
    <3> QED
      BY <2>2, <3>1, WithFact
  <2>7. /\ DOMAIN e = DOMAIN s.entries /\ DOMAIN p = DOMAIN s.pending \cup {k}
        /\ \A j \in DOMAIN s.entries : e[j] = IF j = k THEN x ELSE s.entries[j]
        /\ \A j \in DOMAIN p : p[j] = IF j = k THEN tick ELSE s.pending[j]
    BY <1>2 DEF With
  <2>8. u = [s EXCEPT !.entries = e, !.pending = p]
    BY <1>2 DEF Touch
  <2>9. x.tick = tick /\ x.bytes = s.entries[k].bytes
    OBVIOUS
  <2> HIDE DEF e, p, u, x
  <2>10. u \in TabStates
    BY <2>0, <2>5, <2>6, <2>8 DEF TabStates
  <2>11. /\ u.open = s.open /\ u.dirty = s.dirty /\ u.index = s.index /\ u.total = s.total
         /\ u.clock = s.clock /\ u.entries = e /\ u.pending = p
    BY <2>0, <2>8 DEF TabStates
  <2>12. Sound(u)
    BY <1>2, <2>0, <2>7, <2>10, <2>11 DEF Sound
  <2>13. SameAccounts(s, u)
    BY <2>7, <2>9, <2>11 DEF SameAccounts
  <2> QED
    BY <2>7, <2>9, <2>11, <2>12, <2>13 DEF u
<1> QED
  BY <1>1, <1>2

(* What is loaded from the rows for an index.                              *)
LEMMA LoadedFact ==
  ASSUME NEW s \in TabStates, rows \in Partial(Entries), NEW I \in SUBSET Keys
  PROVE  LET u == Loaded(s, I) IN
         /\ u = [s EXCEPT !.entries = u.entries, !.total = u.total]
         /\ u.entries \in Partial(Entries) /\ DOMAIN u.entries = I
         /\ u.total \in Nat /\ u.total = BytesOf(u.entries, Keys)
         /\ \A k \in I : u.entries[k] = IF k \in DOMAIN rows THEN rows[k]
                                        ELSE [tick |-> 0, bytes |-> 0]
<1> DEFINE z == [k \in I |-> [tick |-> 0, bytes |-> 0]]
           r == Without(rows, Keys \ I)
           e == Over(z, r)
           u == Loaded(s, I)
<1>1. z \in Partial(Entries) /\ DOMAIN z = I
  <2>1. [tick |-> 0, bytes |-> 0] \in Entries
    BY LruAssumption DEF Entries
  <2>2. z = [k \in DOMAIN z |-> z[k]] /\ DOMAIN z = I /\ \A k \in DOMAIN z : z[k] \in Entries
    BY <2>1
  <2> HIDE DEF z
  <2> QED
    BY <2>2, PartialMake
<1>2. r \in Partial(Entries)
  BY WithoutFact
<1>3. DOMAIN r = DOMAIN rows \ (Keys \ I) /\ DOMAIN rows \subseteq Keys
  BY PartialValue DEF Without
<1>4. e \in Partial(Entries)
  <2>1. z \in Partial(Entries)
    BY <1>1
  <2> HIDE DEF z, r
  <2> QED
    BY <1>2, <2>1, OverFact
<1>5. DOMAIN e = I
  BY <1>1, <1>3 DEF Over
<1>6. \A k \in I : e[k] = IF k \in DOMAIN rows THEN rows[k] ELSE [tick |-> 0, bytes |-> 0]
  BY <1>3 DEF Over, Without
<1>7. u = [s EXCEPT !.entries = e, !.total = BytesOf(e, Keys)]
  BY DEF Loaded
<1>8. BytesOf(e, Keys) \in Nat
  <2> HIDE DEF e
  <2> QED
    BY <1>4, BytesFact
<1> HIDE DEF e, u
<1>9. u.entries = e /\ u.total = BytesOf(e, Keys)
  BY <1>7 DEF TabStates
<1> QED
  BY <1>4, <1>5, <1>6, <1>7, <1>8, <1>9 DEF u

-----------------------------------------------------------------------------
(* What the steps that commit nothing leave as it was.                     *)

(* The parts of the state have their types.                                *)
LEMMA TabFact ==
  ASSUME Types, NEW t \in Tabs
  PROVE  /\ Sound(tab[t]) /\ tab[t] \in TabStates /\ tab[t].clock \in Clocks
         /\ job[t] \in Jobs /\ reader[t] \in Readers /\ job[t].batch \in Batches
BY DEF Types, Sound, TabStates, Jobs

(* So has what a tab begins with.                                          *)
LEMMA NoneFact ==
  /\ NoBatch \in Batches /\ NoJob \in Jobs /\ NoRead \in Readers /\ NewTab \in TabStates
  /\ DOMAIN NewTab.pending \subseteq DOMAIN NewTab.entries
<1>1. NoBatch \in Batches
  BY DEF NoBatch, Batches, Effects, NoEffect
<1>2. <<>> \in Partial(Entries) /\ <<>> \in Partial(0..MaxTick)
  BY EmptyPartial
<1>3. NoJob \in Jobs /\ NoRead \in Readers
  BY <1>1, <1>2, LruAssumption DEF NoJob, Jobs, NoRead, Readers
<1>4. NewTab \in TabStates
  BY <1>2, LruAssumption DEF NewTab, TabStates, ClockOf, Clocks
<1> QED
  BY <1>1, <1>3, <1>4 DEF NewTab

QuietJobs == \A s \in Tabs : (job[s].at = "landed" \/ job'[s].at = "landed") => job'[s] = job[s]

(* Steps that leave the store, the news and the accounts alone.            *)
LEMMA AccountsKept ==
  ASSUME UNCHANGED <<rec, rows, unrowed, chan, behind>>, QuietJobs,
         \A s \in Tabs : SameAccounts(tab[s], tab'[s]),
         Types, Types', Told, Right, TotalIsSum, RowsMatchRecords
  PROVE  Told' /\ Right' /\ TotalIsSum' /\ RowsMatchRecords'
<1>1. \A s \in Tabs : Follows(s)' <=> Follows(s)
  BY DEF Follows, SameAccounts
<1>2. \A k \in Keys : LandedOn(k)' <=> LandedOn(k)
  BY DEF LandedOn, Covered, QuietJobs
<1>3. Told'
  <2>1. \A s, t \in Tabs : chan'[s][t] = chan[s][t]
    OBVIOUS
  <2>2. ASSUME NEW s \in Tabs, NEW t \in Tabs, Follows(t)', NEW k \in Keys, ~LandedOn(k)'
        PROVE  LastSays(chan'[s][t], k, rec'[k])
    <3>1. LastSays(chan[s][t], k, rec[k])
      BY <1>1, <1>2, <2>2 DEF Told
    <3> QED
      BY <3>1
  <2>3. \A s, t \in Tabs : \A i \in DOMAIN chan'[s][t] :
       /\ chan'[s][t][i].cleared => \A k \in Keys : chan'[s][t][i].does[k] # Kept
       /\ \A k \in unrowed' : ~Covers(chan'[s][t][i], k)
    BY DEF Told
  <2> QED
    BY <2>2, <2>3 DEF Told
<1>4. Right'
  <2>1. ASSUME NEW t \in Tabs, Follows(t)', NEW k \in Keys, ~Awaits(t, k)', ~LandedOn(k)'
        PROVE  RightAt(tab[t], k)'
    <3>1. ~Awaits(t, k)
      BY <2>1 DEF Awaits
    <3>2. RightAt(tab[t], k)
      BY <1>1, <1>2, <2>1, <3>1 DEF Right
    <3>3. SameAccounts(tab[t], tab'[t])
      OBVIOUS
    <3> QED
      BY <3>2, <3>3 DEF RightAt, SameAccounts
  <2> QED
    BY <2>1 DEF Right
<1>5. TotalIsSum'
  <2>1. ASSUME NEW t \in Tabs, tab'[t].open PROVE tab'[t].total = BytesOf(tab'[t].entries, Keys)
    <3>1. Sound(tab[t]) /\ Sound(tab'[t])
      BY TabFact DEF Types, Sound
    <3>2. BytesOf(tab'[t].entries, Keys) = BytesOf(tab[t].entries, Keys)
      BY <3>1, AccountsBytes
    <3> QED
      BY <2>1, <3>2 DEF TotalIsSum, SameAccounts
  <2> QED
    BY <2>1 DEF TotalIsSum
<1>6. RowsMatchRecords'
  BY DEF RowsMatchRecords, StoredIn
<1> QED
  BY <1>3, <1>4, <1>5, <1>6

(* Turns are kept when a tab begins only in its turn.                      *)
LEMMA TurnsKept ==
  ASSUME Turns, NEW t \in Tabs, UNCHANGED <<chan, behind>>,
         \A s \in Tabs : tab'[s].open = tab[s].open,
         \A s \in Tabs \ {t} : job'[s] = job[s] /\ reader'[s] = reader[s],
         job'[t].at # "idle" => job[t].at # "idle" \/ (MyTurn(t) /\ tab[t].open /\ t \notin behind),
         reader'[t].at # "idle" => reader[t].at # "idle" \/ tab[t].open
  PROVE  Turns'
<1>1. \A s \in Tabs \ {t} : Sends(s)' <=> Sends(s)
  BY DEF Sends
<1>2. Sends(t)' => Sends(t) \/ MyTurn(t)
  BY DEF Sends
<1>3. ASSUME NEW s \in Tabs, NEW u \in Tabs, s # u, Sends(s)', Sends(u)' PROVE FALSE
  <2>1. CASE s = t
    BY <1>1, <1>2, <1>3, <2>1 DEF Turns, MyTurn
  <2>2. CASE u = t
    BY <1>1, <1>2, <1>3, <2>2 DEF Turns, MyTurn
  <2>3. CASE s # t /\ u # t
    BY <1>1, <1>3, <2>3 DEF Turns
  <2> QED
    BY <2>1, <2>2, <2>3
<1>4. ASSUME NEW s \in Tabs
      PROVE  /\ chan'[s][s] = <<>>
             /\ job'[s].at # "idle" => tab'[s].open /\ s \notin behind'
             /\ reader'[s].at # "idle" => tab'[s].open
  BY DEF Turns
<1> QED
  BY <1>3, <1>4 DEF Turns

(* A plan outlives what leaves the store and the accounts alone.           *)
LEMMA PlanKept ==
  ASSUME Types, Types', NEW s \in Tabs, PlanOf(s), UNCHANGED <<rec, unrowed>>,
         job'[s] = job[s], SameAccounts(tab[s], tab'[s])
  PROVE  PlanOf(s)'
<1>1. Sound(tab[s]) /\ Sound(tab'[s])
  BY TabFact DEF Types, Sound
<1>2. Left(tab'[s], job'[s]) = Left(tab[s], job[s])
  BY DEF Left, SameAccounts
<1>3. Planned(tab[s], job[s]) => Planned(tab'[s], job'[s])
  <2>1. BytesOf(tab'[s].entries, Left(tab[s], job[s])) = BytesOf(tab[s].entries, Left(tab[s], job[s]))
    BY <1>1, AccountsBytes
  <2> QED
    BY <1>2, <2>1 DEF Planned, SameAccounts
<1>4. tab'[s].dirty = tab[s].dirty /\ \A k \in Keys : BytesIn(k)' = BytesIn(k)
  BY DEF SameAccounts, BytesIn
<1>5. \A k \in DOMAIN job[s].pending : BytesIn(k)' = BytesIn(k)
  BY DEF BytesIn
<1> QED
  BY <1>2, <1>3, <1>4, <1>5 DEF PlanOf

(* A step of one tab leaves the plans of the others alone.                 *)
LEMMA OthersPlansKept ==
  ASSUME Types, Types', Plans, NEW t \in Tabs, UNCHANGED <<rec, unrowed>>,
         \A s \in Tabs \ {t} : job'[s] = job[s] /\ tab'[s] = tab[s],
         PlanOf(t)'
  PROVE  Plans'
<1>1. \A s \in Tabs \ {t} : SameAccounts(tab[s], tab'[s])
  BY DEF SameAccounts
<1>2. \A s \in Tabs \ {t} : PlanOf(s)'
  BY <1>1, PlanKept DEF Plans
<1> QED
  BY <1>2 DEF Plans

(* Who is alone is the only one open.                                      *)
LEMMA ClockKept ==
  ASSUME Clock, NEW t \in Tabs, tab[t].open, alone' \subseteq alone,
         \A s \in Tabs \ {t} : tab'[s] = tab[s],
         tab'[t].clock.seeded \/ tab'[t].clock.next = 0,
         t \in alone' => Ahead(t)'
  PROVE  Clock'
<1>1. \A s \in alone' : s = t \/ s \notin Tabs
  BY DEF Clock, Ahead
<1>2. \A s \in alone' : Ahead(s)'
  BY <1>1 DEF Clock, Ahead
<1> QED
  BY <1>2 DEF Clock

(* A step of one tab that changes no accounts and no store.                *)
LEMMA QuietStep ==
  ASSUME Invariant, NEW t \in Tabs, tab[t].open,
         UNCHANGED <<rec, rows, nextTick, unrowed, chan, alone, behind>>,
         \A s \in Tabs \ {t} : tab'[s] = tab[s] /\ job'[s] = job[s] /\ reader'[s] = reader[s],
         tab' \in [Tabs -> TabStates], job' \in [Tabs -> Jobs], reader' \in [Tabs -> Readers],
         DOMAIN tab'[t].pending \subseteq DOMAIN tab'[t].entries,
         SameAccounts(tab[t], tab'[t]),
         job[t].at = "landed" \/ job'[t].at = "landed" => job'[t] = job[t],
         job'[t].at # "idle" => job[t].at # "idle" \/ (MyTurn(t) /\ t \notin behind),
         PlanOf(t)',
         tab'[t].clock.seeded \/ tab'[t].clock.next = 0,
         t \in alone => Ahead(t)'
  PROVE  Invariant'
<1>1. Types'
  <2>1. \A s \in Tabs : DOMAIN tab'[s].pending \subseteq DOMAIN tab'[s].entries
    BY DEF Invariant, Types
  <2> QED
    BY <2>1 DEF Invariant, Types
<1>2. \A s \in Tabs : SameAccounts(tab[s], tab'[s])
  BY DEF SameAccounts
<1>3. QuietJobs
  BY DEF QuietJobs
<1>4. Told' /\ Right' /\ TotalIsSum' /\ RowsMatchRecords'
  BY <1>1, <1>2, <1>3, AccountsKept DEF Invariant
<1>5. Turns'
  <2>1. \A s \in Tabs : tab'[s].open = tab[s].open
    BY <1>2 DEF SameAccounts
  <2> QED
    BY <2>1, TurnsKept DEF Invariant
<1>6. Plans'
  BY <1>1, OthersPlansKept DEF Invariant
<1>7. Clock'
  BY ClockKept DEF Invariant
<1> QED
  BY <1>1, <1>4, <1>5, <1>6, <1>7 DEF Invariant

(* A clock stays ahead while nothing it is ahead of changes.               *)
LEMMA AheadSame ==
  ASSUME NEW t \in Tabs, Ahead(t), UNCHANGED <<tab, rows, chan, unrowed>>,
         job[t].at = "landed" => job'[t] = job[t],
         job'[t].at \in {"fetching", "committing", "landed"} =>
           /\ job'[t].evict \/ job'[t].tick < Cursor(tab[t].clock)
           /\ \A k \in DOMAIN job'[t].pending : job'[t].pending[k].tick < Cursor(tab[t].clock)
  PROVE  Ahead(t)'
BY DEF Ahead, Adopted

(* A step that changes only what one tab's commit or read stands at.       *)
LEMMA JobStep ==
  ASSUME Invariant, NEW t \in Tabs, tab[t].open,
         UNCHANGED <<rec, rows, nextTick, unrowed, chan, alone, behind, tab>>,
         NEW j \in Jobs, NEW r \in Readers,
         job' = [job EXCEPT ![t] = j], reader' = [reader EXCEPT ![t] = r],
         (job[t].at # "landed" /\ j.at # "landed") \/ j = job[t],
         j.at # "idle" => job[t].at # "idle" \/ (MyTurn(t) /\ t \notin behind),
         PlanOf(t)',
         t \in alone /\ j.at \in {"fetching", "committing", "landed"} =>
           /\ j.evict \/ j.tick < Cursor(tab[t].clock)
           /\ \A k \in DOMAIN j.pending : j.pending[k].tick < Cursor(tab[t].clock)
  PROVE  Invariant'
<1>1. /\ job \in [Tabs -> Jobs] /\ reader \in [Tabs -> Readers] /\ tab \in [Tabs -> TabStates]
      /\ DOMAIN tab[t].pending \subseteq DOMAIN tab[t].entries
  BY DEF Invariant, Types
<1>2. /\ job'[t] = j /\ \A s \in Tabs \ {t} : job'[s] = job[s] /\ reader'[s] = reader[s]
      /\ job' \in [Tabs -> Jobs] /\ reader' \in [Tabs -> Readers]
  BY <1>1
<1>3. SameAccounts(tab[t], tab'[t])
  BY DEF SameAccounts
<1>4. tab'[t].clock.seeded \/ tab'[t].clock.next = 0
  BY DEF Invariant, Clock
<1>5. t \in alone => Ahead(t)'
  <2> SUFFICES ASSUME t \in alone PROVE Ahead(t)'
    OBVIOUS
  <2>1. Ahead(t)
    BY DEF Invariant, Clock
  <2> QED
    BY <1>2, <2>1, AheadSame
<1> QED
  BY <1>1, <1>2, <1>3, <1>4, <1>5, QuietStep

(* A tab whose commit is under way has heard everything.                   *)
LEMMA MineAlone ==
  ASSUME Invariant, NEW t \in Tabs, job[t].at \notin {"idle", "landed"}
  PROVE  /\ tab[t].open /\ t \notin behind
         /\ \A s \in Tabs \ {t} : job[s].at = "idle" /\ \A u \in Tabs : chan[s][u] = <<>>
         /\ \A k \in Keys : ~LandedOn(k) /\ ~Awaits(t, k) /\ RightAt(tab[t], k)
<1>1. tab[t].open /\ t \notin behind /\ chan[t][t] = <<>>
  BY DEF Invariant, Turns
<1>2. \A s \in Tabs \ {t} : ~Sends(s)
  BY DEF Invariant, Turns, Sends
<1>3. \A s \in Tabs \ {t} : job[s].at = "idle" /\ \A u \in Tabs : chan[s][u] = <<>>
  BY <1>2 DEF Sends
<1>4. \A k \in Keys : ~LandedOn(k)
  BY <1>3 DEF LandedOn
<1>5. \A k \in Keys : ~Awaits(t, k)
  <2>1. \A s \in Tabs : chan[s][t] = <<>>
    BY <1>1, <1>3
  <2> QED
    BY <2>1 DEF Awaits
<1> QED
  BY <1>1, <1>3, <1>4, <1>5 DEF Invariant, Right, Follows

(* What a caller passes: no key twice as a delete; and tabs take turns.    *)
Callers == TakeTurns /\ \A b \in Writes : b.again = {}

(* A step that changes only what a read stands at.                         *)
LEMMA ReaderStep ==
  ASSUME Invariant, NEW t \in Tabs, tab[t].open, NEW r \in Readers,
         reader' = [reader EXCEPT ![t] = r],
         UNCHANGED <<rec, rows, nextTick, unrowed, chan, alone, behind, tab, job>>
  PROVE  Invariant'
<1>1. job[t] \in Jobs /\ job' = [job EXCEPT ![t] = job[t]]
  BY DEF Invariant, Types
<1>2. PlanOf(t)'
  <2>1. PlanOf(t) /\ tab' = tab /\ job' = job /\ rec' = rec /\ unrowed' = unrowed
    BY DEF Invariant, Plans
  <2> QED
    BY <2>1 DEF PlanOf, BytesIn
<1>3. t \in alone => Ahead(t)
  BY DEF Invariant, Clock
<1> QED
  BY <1>1, <1>2, <1>3, JobStep DEF Ahead

(* A read begins.                                                          *)
LEMMA BeginReadStep ==
  ASSUME Invariant, NEW t \in Tabs, NEW k \in Keys, BeginRead(t, k)
  PROVE  Invariant'
<1> DEFINE r == [NoRead EXCEPT !.at = "ticking", !.key = k]
<1>1. r \in Readers
  BY NoneFact, LruAssumption DEF Readers
<1>2. reader' = [reader EXCEPT ![t] = r] /\ tab[t].open
      /\ UNCHANGED <<rec, rows, nextTick, unrowed, chan, alone, behind, tab, job>>
  BY DEF BeginRead, disk
<1> HIDE DEF r
<1> QED
  BY <1>1, <1>2, ReaderStep

(* A commit begins, in its turn.                                           *)
LEMMA BeginStep ==
  ASSUME Callers, Invariant, NEW t \in Tabs, NEW b \in Writes, Begin(t, b)
  PROVE  Invariant'
<1> DEFINE j == [NoJob EXCEPT !.batch = b, !.at = IF tab[t].dirty THEN "reloading" ELSE "ticking"]
<1>1. j \in Jobs
  BY NoneFact, LruAssumption DEF Jobs
<1>2. reader[t] \in Readers /\ reader' = [reader EXCEPT ![t] = reader[t]] /\ job[t].at = "idle"
  BY DEF Begin, Invariant, Types
<1>3. /\ j.batch = b /\ ~j.evict /\ j.victims = {}
      /\ j.at = IF tab[t].dirty THEN "reloading" ELSE "ticking"
  BY DEF NoJob
<1>4. /\ job' = [job EXCEPT ![t] = j] /\ tab[t].open /\ MyTurn(t) /\ t \notin behind
      /\ UNCHANGED <<rec, rows, nextTick, unrowed, chan, alone, behind, tab>>
  BY DEF Begin, disk, Callers
<1> HIDE DEF j
<1>5. job'[t] = j
  BY <1>4 DEF Invariant, Types
<1>6. PlanOf(t)'
  BY <1>3, <1>4, <1>5 DEF PlanOf, Callers
<1> QED
  BY <1>1, <1>2, <1>3, <1>4, <1>6, JobStep

(* The next_tick row has been read.                                        *)
LEMMA ReadTickStep ==
  ASSUME Invariant, NEW t \in Tabs, ReadTick(t)
  PROVE  Invariant'
<1> DEFINE j == [job[t] EXCEPT !.at = "seeding", !.stored = nextTick]
<1>1. job[t] \in Jobs /\ reader[t] \in Readers /\ nextTick \in 0..MaxTick /\ job[t].at = "ticking"
  BY DEF ReadTick, Invariant, Types
<1>2. j \in Jobs /\ j.at = "seeding" /\ j.batch = job[t].batch /\ j.evict = job[t].evict
      /\ j.victims = job[t].victims
  BY <1>1 DEF Jobs
<1>3. /\ job' = [job EXCEPT ![t] = j] /\ reader' = [reader EXCEPT ![t] = reader[t]]
      /\ UNCHANGED <<rec, rows, nextTick, unrowed, chan, alone, behind, tab>>
  BY DEF ReadTick, disk, Invariant, Types
<1> HIDE DEF j
<1>4. job'[t] = j
  BY <1>3 DEF Invariant, Types
<1>5. PlanOf(t)'
  BY <1>1, <1>2, <1>3, <1>4 DEF PlanOf, Invariant, Plans
<1>6. tab[t].open
  BY <1>1 DEF Invariant, Turns
<1> QED
  BY <1>1, <1>2, <1>3, <1>5, <1>6, JobStep

(* The records of the victims have been read.                              *)
LEMMA FetchedStep ==
  ASSUME Invariant, NEW t \in Tabs, Fetched(t)
  PROVE  Invariant'
<1> DEFINE n == IF job[t].evict THEN job[t].counter ELSE Cursor(tab[t].clock)
           j == [job[t] EXCEPT !.at = "committing", !.counter = n]
<1>1. job[t] \in Jobs /\ reader[t] \in Readers /\ job[t].at = "fetching" /\ tab[t].clock \in Clocks
  BY TabFact DEF Fetched, Invariant
<1>2. n \in 0..MaxTick
  BY <1>1, CursorFact DEF Jobs
<1> HIDE DEF n
<1>3. /\ j \in Jobs /\ j.at = "committing" /\ j.batch = job[t].batch /\ j.evict = job[t].evict
      /\ j.victims = job[t].victims /\ j.total = job[t].total /\ j.pending = job[t].pending
      /\ j.tick = job[t].tick
  BY <1>1, <1>2 DEF Jobs
<1>4. /\ job' = [job EXCEPT ![t] = j] /\ reader' = [reader EXCEPT ![t] = reader[t]]
      /\ UNCHANGED <<rec, rows, nextTick, unrowed, chan, alone, behind, tab>>
  BY DEF Fetched, disk, Invariant, Types, n
<1> HIDE DEF j
<1>5. job'[t] = j
  BY <1>4 DEF Invariant, Types
<1>6. PlanOf(t)'
  <2>1. PlanOf(t)
    BY DEF Invariant, Plans
  <2>2. Left(tab[t], j) = Left(tab[t], job[t]) /\ (Planned(tab[t], job[t]) => Planned(tab[t], j))
    BY <1>3 DEF Left, Planned
  <2>3. tab' = tab /\ rec' = rec /\ unrowed' = unrowed
    BY <1>4
  <2> QED
    BY <1>1, <1>3, <1>5, <2>1, <2>2, <2>3 DEF PlanOf, BytesIn
<1>7. tab[t].open
  BY <1>1 DEF Invariant, Turns
<1>8. t \in alone => Ahead(t)
  BY DEF Invariant, Clock
<1> QED
  BY <1>1, <1>3, <1>4, <1>6, <1>7, <1>8, JobStep DEF Ahead

(* A commit that fails before it lands leaves no plan behind.              *)
LEMMA FailStep ==
  ASSUME Invariant, NEW t \in Tabs, Fail(t)
  PROVE  Invariant'
<1>1. job[t].at \notin {"idle", "landed"} /\ reader[t] \in Readers
  BY DEF Fail, Invariant, Types
<1>2. NoJob \in Jobs /\ NoJob.at = "idle" /\ NoJob.batch.again = {}
  BY NoneFact DEF NoJob, NoBatch
<1>3. /\ job' = [job EXCEPT ![t] = NoJob] /\ reader' = [reader EXCEPT ![t] = reader[t]]
      /\ UNCHANGED <<rec, rows, nextTick, unrowed, chan, alone, behind, tab>>
  BY DEF Fail, disk, Invariant, Types
<1>4. job'[t] = NoJob
  BY <1>3 DEF Invariant, Types
<1>5. PlanOf(t)'
  BY <1>2, <1>4 DEF PlanOf
<1>6. tab[t].open
  BY <1>1 DEF Invariant, Turns
<1> QED
  BY <1>1, <1>2, <1>3, <1>5, <1>6, JobStep

(* evict_to plans as a commit does, with no tick.                          *)
LEMMA EvictDownStep ==
  ASSUME Callers, Invariant, NEW t \in Tabs, EvictDown(t)
  PROVE  Invariant'
<1> DEFINE s == tab[t]
           V == VictimsOf(s, NoBatch, EvictTo)
           j == [NoJob EXCEPT !.at = "fetching", !.evict = TRUE, !.victims = V,
                              !.total = Less(s.total, BytesOf(s.entries, V))]
<1>1. Sound(s) /\ job[t] \in Jobs /\ reader[t] \in Readers /\ s.entries \in Partial(Entries)
  BY TabFact DEF Invariant, TabStates
<1>2. /\ s.open /\ job[t].at = "idle" /\ MyTurn(t) /\ t \notin behind
      /\ job' = IF V = {} THEN job ELSE [job EXCEPT ![t] = j]
      /\ UNCHANGED <<rec, rows, nextTick, unrowed, chan, alone, behind, tab, reader>>
  BY DEF EvictDown, disk, Callers
<1>3. reader' = [reader EXCEPT ![t] = reader[t]]
  BY <1>2 DEF Invariant, Types
<1>4. CASE V = {}
  <2>1. job' = [job EXCEPT ![t] = job[t]]
    BY <1>2, <1>4 DEF Invariant, Types
  <2>2. PlanOf(t) /\ tab' = tab /\ job' = job /\ rec' = rec /\ unrowed' = unrowed
    BY <1>2, <1>4 DEF Invariant, Plans
  <2>3. PlanOf(t)'
    BY <2>2 DEF PlanOf, BytesIn
  <2> QED
    BY <1>1, <1>2, <1>3, <2>1, <2>3, JobStep
<1>5. CASE V # {}
  <2>1. Balanced(s)
    BY <1>2 DEF Invariant, TotalIsSum, Balanced
  <2>2. NoBatch \in Batches /\ NoBatch.again = {} /\ EvictTo \in Nat /\ NoBatch.cleared = FALSE
    BY NoneFact, LruAssumption DEF NoBatch
  <2>3. /\ V \subseteq DOMAIN s.entries \ Touched(NoBatch.does)
        /\ Less(TotalAfter(s, NoBatch), BytesOf(s.entries, V)) \in Nat
        /\ Less(TotalAfter(s, NoBatch), BytesOf(s.entries, V))
             = BytesOf(s.entries, Remain(s, NoBatch, V)) + SizeOf(NoBatch.does, PutsOf(NoBatch))
    BY <1>1, <2>1, <2>2, PlanFact
  <2>4. TotalAfter(s, NoBatch) = s.total
    <3>1. /\ TotalAfter(s, NoBatch)
               = BytesOf(s.entries, Candidates(s, NoBatch)) + SizeOf(NoBatch.does, PutsOf(NoBatch))
          /\ BytesOf(s.entries, Candidates(s, NoBatch)) \in Nat
      BY <1>1, <2>1, <2>2, TotalFact
    <3>2. PutsOf(NoBatch) = {} /\ DeletesOf(NoBatch) = {}
      BY BatchAssumption DEF PutsOf, DeletesOf, NoBatch, NoEffect
    <3>3. SizeOf(NoBatch.does, PutsOf(NoBatch)) = 0
      BY <2>2, <3>2, BatchFact, SumType
    <3>4. DOMAIN s.entries \subseteq Keys /\ Candidates(s, NoBatch) = DOMAIN s.entries
      BY <1>1, <2>2, <3>2, PartialValue DEF Candidates
    <3>5. BytesOf(s.entries, DOMAIN s.entries) = BytesOf(s.entries, Keys)
      <4>1. DOMAIN s.entries \cap DOMAIN s.entries = Keys \cap DOMAIN s.entries
        BY <3>4
      <4> QED
        BY <1>1, <4>1, BytesSame
    <3> QED
      BY <2>1, <3>1, <3>3, <3>4, <3>5 DEF Balanced
  <2>5. /\ V \subseteq Keys
        /\ Less(s.total, BytesOf(s.entries, V)) \in Nat
    <3>1. DOMAIN s.entries \subseteq Keys
      BY <1>1, PartialValue
    <3> QED
      BY <2>3, <2>4, <3>1
  <2> HIDE DEF V
  <2>6. /\ j \in Jobs /\ j.at = "fetching" /\ j.evict /\ j.batch = NoBatch /\ j.victims = V
        /\ j.total = Less(s.total, BytesOf(s.entries, V)) /\ j.pending = <<>>
    BY <2>5, NoneFact DEF Jobs, NoJob
  <2> HIDE DEF j
  <2>7. Planned(s, j)
    <3>1. Left(s, j) = Remain(s, NoBatch, V)
      BY <2>6 DEF Left, Remain
    <3> QED
      BY <2>3, <2>4, <2>6, <3>1 DEF Planned
  <2>8. /\ job' = [job EXCEPT ![t] = j]
        /\ UNCHANGED <<rec, rows, nextTick, unrowed, chan, alone, behind, tab>>
    BY <1>2, <1>5
  <2>9. job'[t] = j
    BY <2>8 DEF Invariant, Types
  <2>10. PlanOf(t)'
    <3>1. DOMAIN j.pending = {}
      BY <2>6
    <3> QED
      BY <2>2, <2>6, <2>7, <2>8, <2>9, <3>1 DEF PlanOf
  <2>11. DOMAIN j.pending = {}
    BY <2>6
  <2>12. tab[t].open /\ (job[t].at # "landed" /\ j.at # "landed")
    BY <1>2, <2>6
  <2>13. t \in alone /\ j.at \in {"fetching", "committing", "landed"} =>
           /\ j.evict \/ j.tick < Cursor(tab[t].clock)
           /\ \A k \in DOMAIN j.pending : j.pending[k].tick < Cursor(tab[t].clock)
    BY <2>6, <2>11
  <2> HIDE DEF s
  <2> QED
    BY <1>1, <1>2, <1>3, <2>6, <2>8, <2>10, <2>12, <2>13, JobStep
<1> QED
  BY <1>4, <1>5

(* The clock a tab takes its tick from.                                    *)
LEMMA TakenFact ==
  ASSUME Invariant, NEW t \in Tabs, NEW n \in 0..MaxTick, NEW c,
         (c = tab[t].clock /\ tab[t].clock.seeded) \/ c = Seeded(tab[t].clock, n)
  PROVE  /\ c \in Clocks /\ Cursor(c) >= Cursor(tab[t].clock)
         /\ Cursor(c) \in Nat /\ Cursor(tab[t].clock) \in Nat
<1>1. tab[t].clock \in Clocks /\ (tab[t].clock.seeded \/ tab[t].clock.next = 0)
  BY TabFact DEF Invariant, Clock
<1>2. Cursor(tab[t].clock) \in Nat
  BY <1>1, CursorFact, LruAssumption
<1>3. c \in Clocks /\ Cursor(c) >= Cursor(tab[t].clock)
  BY <1>1, <1>2, SeededFact
<1>4. Cursor(c) \in Nat
  BY <1>3, CursorFact, LruAssumption
<1> QED
  BY <1>2, <1>3, <1>4

(* Ticks are naturals.                                                     *)
LEMMA TicksBelow ==
  ASSUME Types, NEW t \in Tabs
  PROVE  /\ \A k \in DOMAIN rows : rows[k].tick \in Nat
         /\ \A k \in DOMAIN tab[t].entries : tab[t].entries[k].tick \in Nat
         /\ \A k \in DOMAIN tab[t].pending : tab[t].pending[k] \in Nat
         /\ job[t].tick \in Nat
         /\ \A k \in DOMAIN job[t].pending : job[t].pending[k].tick \in Nat
<1>1. rows \in Partial(Entries) /\ job[t].pending \in Partial(Entries) /\ job[t].tick \in Nat
  BY TabFact, LruAssumption DEF Types, Jobs
<1>2. tab[t].entries \in Partial(Entries) /\ tab[t].pending \in Partial(0..MaxTick)
  BY TabFact DEF TabStates
<1>3. \A x \in Entries : x.tick \in Nat
  BY LruAssumption DEF Entries
<1>4. \A k \in DOMAIN rows : rows[k] \in Entries
  BY <1>1, PartialValue
<1>5. \A k \in DOMAIN job[t].pending : job[t].pending[k] \in Entries
  BY <1>1, PartialValue
<1>6. \A k \in DOMAIN tab[t].entries : tab[t].entries[k] \in Entries
  BY <1>2, PartialValue
<1>7. \A k \in DOMAIN tab[t].pending : tab[t].pending[k] \in 0..MaxTick
  BY <1>2, PartialValue
<1> QED
  BY <1>1, <1>3, <1>4, <1>5, <1>6, <1>7, LruAssumption

(* A read takes a tick and notes it.                                       *)
LEMMA TouchWithStep ==
  ASSUME Invariant, NEW t \in Tabs, reader[t].at # "idle", NEW n \in 0..MaxTick, NEW c,
         (c = tab[t].clock /\ tab[t].clock.seeded) \/ c = Seeded(tab[t].clock, n),
         TouchWith(t, c), UNCHANGED <<rec, rows, nextTick, unrowed, chan, alone, behind, job>>
  PROVE  Invariant'
<1> DEFINE s == tab[t]
           d == ClockOf(TRUE, Cursor(c) + 1, c.floor)
           w == [s EXCEPT !.clock = d]
           u == Touch(w, reader[t].key, Cursor(c))
<1>1. /\ c \in Clocks /\ Cursor(c) >= Cursor(s.clock) /\ Cursor(c) \in Nat /\ Cursor(s.clock) \in Nat
  BY TakenFact
<1>2. Cursor(c) < MaxTick /\ tab' = [tab EXCEPT ![t] = u] /\ reader' = [reader EXCEPT ![t] = NoRead]
  BY DEF TouchWith, Ticked
<1>3. d \in Clocks /\ d.seeded /\ Cursor(d) = Cursor(c) + 1 /\ Cursor(c) \in 0..MaxTick
  BY <1>1, <1>2, TickedFact
<1>4. Sound(s)
  BY TabFact DEF Invariant
<1> HIDE DEF d, s
<1>5. Sound(w) /\ SameAccounts(s, w) /\ w.clock = d /\ w.entries = s.entries /\ w.pending = s.pending
  BY <1>3, <1>4, ClockSet
<1> HIDE DEF w
<1>6. /\ Sound(u) /\ SameAccounts(w, u) /\ u.clock = w.clock
      /\ \A j \in DOMAIN w.entries : u.entries[j] = w.entries[j] \/ u.entries[j].tick = Cursor(c)
      /\ \A j \in DOMAIN u.pending : \/ u.pending[j] = Cursor(c)
                                     \/ j \in DOMAIN w.pending /\ u.pending[j] = w.pending[j]
  BY <1>3, <1>5, TouchFact
<1> HIDE DEF u
<1>7. SameAccounts(s, u)
  BY <1>5, <1>6 DEF SameAccounts
<1>8. /\ tab \in [Tabs -> TabStates] /\ reader \in [Tabs -> Readers] /\ job \in [Tabs -> Jobs]
      /\ tab[t].open
  BY DEF Invariant, Types, Turns
<1>9. /\ tab' \in [Tabs -> TabStates] /\ reader' \in [Tabs -> Readers] /\ job' \in [Tabs -> Jobs]
      /\ tab'[t] = u /\ \A v \in Tabs \ {t} : tab'[v] = tab[v] /\ reader'[v] = reader[v]
  BY <1>2, <1>6, <1>8, NoneFact DEF Sound
<1>10. SameAccounts(tab[t], tab'[t])
  BY <1>7, <1>9 DEF s
<1>11. PlanOf(t)'
  <2>1. Types'
    <3>1. \A v \in Tabs : DOMAIN tab'[v].pending \subseteq DOMAIN tab'[v].entries
      BY <1>6, <1>9 DEF Invariant, Types, Sound
    <3> QED
      BY <1>9, <3>1 DEF Invariant, Types
  <2> QED
    BY <1>10, <2>1, PlanKept DEF Invariant, Plans
<1>12. ASSUME t \in alone PROVE Ahead(t)'
  <2>1. Ahead(t) /\ s = tab[t]
    BY <1>12 DEF Invariant, Clock, s
  <2>2. /\ \A k \in DOMAIN rows : rows[k].tick \in Nat
        /\ \A k \in DOMAIN s.entries : s.entries[k].tick \in Nat
        /\ \A k \in DOMAIN s.pending : s.pending[k] \in Nat
        /\ job[t].tick \in Nat
        /\ \A k \in DOMAIN job[t].pending : job[t].pending[k].tick \in Nat
    BY TicksBelow DEF Invariant, s
  <2> DEFINE now == Cursor(s.clock)
             next == Cursor(c)
  <2>3. Cursor(tab'[t].clock) = next + 1 /\ next \in Nat /\ now \in Nat /\ now <= next
    BY <1>1, <1>3, <1>5, <1>6, <1>9
  <2> HIDE DEF now, next
  <2>4. tab'[t].open /\ \A v \in Tabs \ {t} : ~tab'[v].open /\ chan'[v][t] = <<>>
    BY <1>7, <1>8, <1>9, <2>1 DEF Ahead, SameAccounts, s
  <2>5. \A k \in DOMAIN rows' : rows'[k].tick < next + 1
    <3>1. \A k \in DOMAIN rows : rows[k].tick < now
      BY <2>1 DEF Ahead, now
    <3> QED
      BY <2>2, <2>3, <3>1
  <2>6. ASSUME NEW k \in DOMAIN u.entries PROVE u.entries[k].tick < next + 1 \/ Adopted(t, k)'
    <3>1. k \in DOMAIN s.entries /\ (u.entries[k] = s.entries[k] \/ u.entries[k].tick = next)
      BY <1>5, <1>6, <1>7, <2>6 DEF SameAccounts, next
    <3>2. s.entries[k].tick < now \/ Adopted(t, k)
      BY <2>1, <3>1 DEF Ahead, now
    <3>3. CASE u.entries[k].tick = next
      BY <2>3, <3>3
    <3>4. CASE u.entries[k] = s.entries[k] /\ s.entries[k].tick < now
      BY <2>2, <2>3, <3>1, <3>4
    <3>5. CASE u.entries[k] = s.entries[k] /\ Adopted(t, k)
      BY <1>9, <3>5 DEF Adopted, s
    <3> QED
      BY <3>1, <3>2, <3>3, <3>4, <3>5
  <2>7. ASSUME NEW k \in DOMAIN u.pending PROVE u.pending[k] < next + 1
    <3>1. u.pending[k] = next \/ (k \in DOMAIN s.pending /\ u.pending[k] = s.pending[k])
      BY <1>5, <1>6, <2>7 DEF next
    <3>2. k \in DOMAIN s.pending => s.pending[k] < now
      BY <2>1 DEF Ahead, now
    <3> QED
      BY <2>2, <2>3, <3>1, <3>2
  <2>8. ASSUME job[t].at \in {"fetching", "committing", "landed"}
        PROVE  /\ job[t].evict \/ job[t].tick < next + 1
               /\ \A k \in DOMAIN job[t].pending : job[t].pending[k].tick < next + 1
    <3>1. /\ job[t].evict \/ job[t].tick < now
          /\ \A k \in DOMAIN job[t].pending : job[t].pending[k].tick < now
      BY <2>1, <2>8 DEF Ahead, now
    <3> QED
      BY <2>2, <2>3, <3>1
  <2> QED
    BY <1>9, <2>3, <2>4, <2>5, <2>6, <2>7, <2>8 DEF Ahead
<1>13. DOMAIN tab'[t].pending \subseteq DOMAIN tab'[t].entries
       /\ (tab'[t].clock.seeded \/ tab'[t].clock.next = 0)
  BY <1>3, <1>5, <1>6, <1>9 DEF Sound
<1> QED
  BY <1>8, <1>9, <1>10, <1>11, <1>12, <1>13, QuietStep

(* Resident::note_read, its four ways.                                     *)
LEMMA NoteReadStep ==
  ASSUME Invariant, NEW t \in Tabs, NoteRead(t)
  PROVE  Invariant'
<1>1. /\ reader[t] \in Readers /\ nextTick \in 0..MaxTick /\ reader[t].stored \in 0..MaxTick
      /\ UNCHANGED <<rec, rows, nextTick, unrowed, chan, alone, behind, job>>
  BY DEF NoteRead, disk, Invariant, Types, Readers
<1>2. reader[t].at # "idle"
  BY DEF NoteRead
<1>3. tab[t].open
  BY <1>2 DEF Invariant, Turns
<1>4. CASE reader[t].at = "ticking" /\ tab[t].clock.seeded /\ TouchWith(t, tab[t].clock)
  BY <1>1, <1>2, <1>4, TouchWithStep
<1>5. CASE /\ reader[t].at = "ticking" /\ ~tab[t].clock.seeded
           /\ reader' = [reader EXCEPT ![t].at = "seeding", ![t].stored = nextTick]
           /\ UNCHANGED tab
  <2> DEFINE r == [reader[t] EXCEPT !.at = "seeding", !.stored = nextTick]
  <2>1. r \in Readers
    BY <1>1 DEF Readers
  <2>2. reader' = [reader EXCEPT ![t] = r]
    BY <1>5 DEF Invariant, Types
  <2> HIDE DEF r
  <2> QED
    BY <1>1, <1>3, <1>5, <2>1, <2>2, ReaderStep
<1>6. CASE reader[t].at = "seeding" /\ TouchWith(t, Seeded(tab[t].clock, reader[t].stored))
  BY <1>1, <1>2, <1>6, TouchWithStep
<1>7. CASE reader' = [reader EXCEPT ![t] = NoRead] /\ UNCHANGED tab
  BY <1>1, <1>3, <1>7, NoneFact, ReaderStep
<1> QED
  BY <1>4, <1>5, <1>6, <1>7 DEF NoteRead

(* pending_ops: rows for reads, of stored keys, with the accounted bytes.  *)
LEMMA PendingRowsFact ==
  ASSUME NEW s, Sound(s), NEW b
  PROVE  /\ PendingRows(s, b) \in Partial(Entries)
         /\ DOMAIN PendingRows(s, b) \subseteq DOMAIN s.entries \ PutsOf(b)
         /\ \A k \in DOMAIN PendingRows(s, b) :
              /\ k \in DOMAIN s.pending /\ PendingRows(s, b)[k].tick = s.pending[k]
              /\ PendingRows(s, b)[k].bytes = s.entries[k].bytes
<1> DEFINE p == PendingRows(s, b)
<1>1. p = [k \in DOMAIN p |-> p[k]]
  BY DEF PendingRows
<1>2. DOMAIN p = Carries(s) \ PutsOf(b) /\ Carries(s) \subseteq DOMAIN s.pending
  BY DEF PendingRows, Carries
<1>3. \A k \in DOMAIN p : p[k] = [tick |-> s.pending[k], bytes |-> s.entries[k].bytes]
  BY DEF PendingRows
<1> HIDE DEF p
<1>4. s.entries \in Partial(Entries) /\ DOMAIN s.pending \subseteq DOMAIN s.entries
  BY DEF Sound, TabStates
<1>5. s.pending \in Partial(0..MaxTick)
  BY DEF Sound, TabStates
<1>6. \A k \in DOMAIN s.pending : s.pending[k] \in 0..MaxTick
  BY <1>5, PartialValue
<1>7. DOMAIN s.entries \subseteq Keys /\ \A k \in DOMAIN s.entries : s.entries[k] \in Entries
  BY <1>4, PartialValue
<1>8. ASSUME NEW k \in DOMAIN p
      PROVE  /\ k \in DOMAIN s.pending /\ k \in DOMAIN s.entries \ PutsOf(b)
             /\ p[k].tick = s.pending[k] /\ p[k].bytes = s.entries[k].bytes /\ p[k] \in Entries
  <2>1. k \in DOMAIN s.pending /\ k \in DOMAIN s.entries \ PutsOf(b)
    BY <1>2, <1>4, <1>8
  <2>2. s.pending[k] \in 0..MaxTick /\ s.entries[k].bytes \in Nat
    BY <1>6, <1>7, <2>1 DEF Entries
  <2>3. p[k] = [tick |-> s.pending[k], bytes |-> s.entries[k].bytes]
    BY <1>3
  <2> QED
    BY <2>1, <2>2, <2>3 DEF Entries
<1>9. p \in Partial(Entries)
  <2>1. DOMAIN p \subseteq Keys /\ \A k \in DOMAIN p : p[k] \in Entries
    BY <1>7, <1>8
  <2> QED
    BY <1>1, <2>1, PartialMake
<1> QED
  BY <1>8, <1>9 DEF p

(* A commit takes its tick and plans.                                      *)
LEMMA PlanCommitStep ==
  ASSUME Invariant, NEW t \in Tabs, PlanCommit(t)
  PROVE  Invariant'
<1> DEFINE c == IF job[t].at = "seeding" THEN Seeded(tab[t].clock, job[t].stored) ELSE tab[t].clock
           s == tab[t]
           b == job[t].batch
           V == VictimsOf(s, b, MaxBytes)
           total == Less(TotalAfter(s, b), BytesOf(s.entries, V))
           p == IF b.cleared THEN <<>> ELSE PendingRows(s, b)
           x == IF b.cleared THEN {} ELSE Carries(s) \cap PutsOf(b)
           j == [job[t] EXCEPT !.tick = Cursor(c), !.victims = V, !.total = total, !.pending = p,
                               !.skipped = x, !.at = IF V = {} THEN "committing" ELSE "fetching",
                               !.counter = Cursor(c) + 1]
           d == ClockOf(TRUE, Cursor(c) + 1, c.floor)
           u == [s EXCEPT !.clock = d]
<1>1. /\ job[t].at \in {"ticking", "seeding"}
      /\ (c = s.clock /\ s.clock.seeded) \/ c = Seeded(s.clock, job[t].stored)
      /\ Cursor(c) < MaxTick
      /\ tab' = [tab EXCEPT ![t] = u] /\ job' = [job EXCEPT ![t] = j]
      /\ UNCHANGED <<rec, rows, nextTick, unrowed, chan, alone, behind, reader>>
  BY DEF PlanCommit, disk, Ticked
<1>2. /\ Sound(s) /\ job[t] \in Jobs /\ b \in Batches /\ job[t].stored \in 0..MaxTick
      /\ s.entries \in Partial(Entries)
  BY TabFact DEF Invariant, Jobs, TabStates
<1>3. /\ c \in Clocks /\ Cursor(c) >= Cursor(s.clock) /\ Cursor(c) \in Nat /\ Cursor(s.clock) \in Nat
  BY <1>1, <1>2, TakenFact
<1>4. /\ d \in Clocks /\ d.seeded /\ Cursor(d) = Cursor(c) + 1 /\ Cursor(c) \in 0..MaxTick
      /\ Cursor(c) + 1 \in 0..MaxTick
  <2> HIDE DEF c
  <2> QED
    BY <1>1, <1>3, TickedFact
<1>5. /\ s.open /\ t \notin behind
      /\ \A k \in Keys : RightAt(s, k)
  BY <1>1, MineAlone
<1>6. /\ b.again = {} /\ ~job[t].evict /\ (job[t].evict \/ ~s.dirty)
  BY <1>1 DEF Invariant, Plans, PlanOf
<1>7. Balanced(s)
  BY <1>5 DEF Invariant, TotalIsSum, Balanced
<1>8. /\ V \subseteq DOMAIN s.entries \ Touched(b.does) /\ total \in Nat
      /\ total = BytesOf(s.entries, Remain(s, b, V)) + SizeOf(b.does, PutsOf(b))
      /\ total <= MaxBytes \/ Remain(s, b, V) = {}
  <2>1. MaxBytes \in Nat
    BY LruAssumption
  <2> HIDE DEF s, b
  <2> QED
    BY <1>2, <1>6, <1>7, <2>1, PlanFact
<1>9. p \in Partial(Entries) /\ x \subseteq Keys
  <2>1. PendingRows(s, b) \in Partial(Entries) /\ <<>> \in Partial(Entries)
    BY <1>2, PendingRowsFact, EmptyPartial
  <2>2. PutsOf(b) \subseteq Keys
    BY DEF PutsOf
  <2> QED
    BY <2>1, <2>2
<1>10. \A k \in DOMAIN p : /\ k \notin PutsOf(b) /\ k \in DOMAIN s.entries
                           /\ k \in DOMAIN s.pending /\ p[k].tick = s.pending[k]
                           /\ p[k].bytes = s.entries[k].bytes
  <2>1. CASE b.cleared
    BY <2>1, EmptyPartial
  <2>2. CASE ~b.cleared
    BY <1>2, <2>2, PendingRowsFact
  <2> QED
    BY <2>1, <2>2
<1>11. DOMAIN s.entries \subseteq Keys
  BY <1>2, PartialValue
<1> HIDE DEF d, V, total, p, x, c
<1>12. Sound(u) /\ SameAccounts(s, u) /\ u.clock = d /\ u.entries = s.entries /\ u.pending = s.pending
  BY <1>2, <1>4, ClockSet
<1>13. V \subseteq Keys
  BY <1>8, <1>11
<1>14. /\ j \in Jobs /\ j.batch = b /\ j.victims = V /\ j.total = total /\ j.pending = p
       /\ j.tick = Cursor(c) /\ ~j.evict /\ j.at = IF V = {} THEN "committing" ELSE "fetching"
  BY <1>2, <1>4, <1>6, <1>8, <1>9, <1>13 DEF Jobs
<1> HIDE DEF j, u
<1>15. /\ tab' \in [Tabs -> TabStates] /\ job' \in [Tabs -> Jobs] /\ reader' \in [Tabs -> Readers]
       /\ tab'[t] = u /\ job'[t] = j
       /\ \A v \in Tabs \ {t} : tab'[v] = tab[v] /\ job'[v] = job[v] /\ reader'[v] = reader[v]
  BY <1>1, <1>12, <1>14 DEF Invariant, Types, Sound
<1>16. Planned(u, j) /\ (j.total <= MaxBytes \/ Left(u, j) = {})
  <2>1. Left(u, j) = Remain(s, b, V)
    BY <1>12, <1>14 DEF Left, Remain
  <2> QED
    BY <1>8, <1>12, <1>14, <2>1 DEF Planned
<1>17. ASSUME NEW k \in DOMAIN j.pending
       PROVE  k \notin PutsOf(j.batch) /\ rec[k] # Gone /\ j.pending[k].bytes = BytesIn(k)
  <2>1. k \in Keys /\ k \in DOMAIN s.entries /\ k \notin PutsOf(b) /\ p[k].bytes = s.entries[k].bytes
    BY <1>10, <1>11, <1>14, <1>17
  <2>2. RightAt(s, k)
    BY <1>5, <2>1
  <2> HIDE DEF s, b
  <2> QED
    BY <1>6, <1>14, <2>1, <2>2 DEF RightAt, BytesIn
<1>18. PlanOf(t)'
  <2>1. ~tab'[t].dirty
    BY <1>6, <1>12, <1>15 DEF SameAccounts
  <2>2. rec' = rec /\ unrowed' = unrowed
    BY <1>1
  <2> HIDE DEF s, b
  <2>3. j.batch.again = {} /\ j.at \in {"fetching", "committing"}
    BY <1>6, <1>14
  <2> QED
    BY <1>14, <1>15, <1>16, <1>17, <2>1, <2>2, <2>3 DEF PlanOf, BytesIn
<1>19. SameAccounts(tab[t], tab'[t])
  BY <1>12, <1>15
<1>20. ASSUME t \in alone PROVE Ahead(t)'
  <2>1. Ahead(t)
    BY <1>20 DEF Invariant, Clock
  <2>2. /\ \A k \in DOMAIN rows : rows[k].tick \in Nat
        /\ \A k \in DOMAIN s.entries : s.entries[k].tick \in Nat
        /\ \A k \in DOMAIN s.pending : s.pending[k] \in Nat
    BY TicksBelow DEF Invariant
  <2> DEFINE now == Cursor(s.clock)
             next == Cursor(c)
  <2>3. Cursor(tab'[t].clock) = next + 1 /\ next \in Nat /\ now \in Nat /\ now <= next
    BY <1>3, <1>4, <1>12, <1>15
  <2> HIDE DEF now, next
  <2>4. tab'[t].open /\ \A v \in Tabs \ {t} : ~tab'[v].open /\ chan'[v][t] = <<>>
    BY <1>1, <1>12, <1>15, <2>1 DEF Ahead, SameAccounts
  <2>5. \A k \in DOMAIN rows' : rows'[k].tick < next + 1
    <3>1. \A k \in DOMAIN rows : rows[k].tick < now
      BY <2>1 DEF Ahead, now
    <3> QED
      BY <1>1, <2>2, <2>3, <3>1
  <2>6. ASSUME NEW k \in DOMAIN tab'[t].entries
        PROVE  tab'[t].entries[k].tick < next + 1 \/ Adopted(t, k)'
    <3>1. k \in DOMAIN s.entries /\ tab'[t].entries[k] = s.entries[k] /\ unrowed' = unrowed
      BY <1>1, <1>12, <1>15, <2>6
    <3>2. s.entries[k].tick < now \/ Adopted(t, k)
      BY <2>1, <3>1 DEF Ahead, now
    <3>3. CASE s.entries[k].tick < now
      BY <2>2, <2>3, <3>1, <3>3
    <3>4. CASE Adopted(t, k)
      BY <1>1, <3>1, <3>4 DEF Adopted
    <3> QED
      BY <3>2, <3>3, <3>4
  <2>7. ASSUME NEW k \in DOMAIN tab'[t].pending PROVE tab'[t].pending[k] < next + 1
    <3>1. k \in DOMAIN s.pending /\ tab'[t].pending[k] = s.pending[k]
      BY <1>12, <1>15, <2>7
    <3>2. s.pending[k] < now
      BY <2>1, <3>1 DEF Ahead, now
    <3> QED
      BY <2>2, <2>3, <3>1, <3>2
  <2>8. /\ job'[t].tick < next + 1
        /\ \A k \in DOMAIN job'[t].pending : job'[t].pending[k].tick < next + 1
    <3>1. job'[t].tick = next /\ job'[t].pending = p
      BY <1>14, <1>15 DEF next
    <3>2. \A k \in DOMAIN p : k \in DOMAIN s.pending /\ p[k].tick = s.pending[k]
      BY <1>10
    <3>3. \A k \in DOMAIN s.pending : s.pending[k] < now
      BY <2>1 DEF Ahead, now
    <3> QED
      BY <2>2, <2>3, <3>1, <3>2, <3>3
  <2> QED
    BY <2>3, <2>4, <2>5, <2>6, <2>7, <2>8 DEF Ahead
<1>21. DOMAIN tab'[t].pending \subseteq DOMAIN tab'[t].entries
       /\ (tab'[t].clock.seeded \/ tab'[t].clock.next = 0)
  BY <1>4, <1>12, <1>15 DEF Sound
<1>22. /\ tab[t].open /\ (job[t].at = "landed" \/ job'[t].at = "landed" => job'[t] = job[t])
       /\ (job'[t].at # "idle" => job[t].at # "idle" \/ (MyTurn(t) /\ t \notin behind))
  BY <1>1, <1>5, <1>14, <1>15
<1>23. UNCHANGED <<rec, rows, nextTick, unrowed, chan, alone, behind>>
  BY <1>1
<1> QED
  BY <1>15, <1>18, <1>19, <1>20, <1>21, <1>22, <1>23, QuietStep

-----------------------------------------------------------------------------
(* Tabs that open and close.                                               *)

(* Nothing said, nothing landed: what has been told stays right.           *)
LEMMA ToldKept ==
  ASSUME Told, UNCHANGED <<rec, unrowed>>,
         \A s, u \in Tabs : chan'[s][u] = chan[s][u] \/ chan'[s][u] = <<>>,
         \A u \in Tabs : Follows(u)' =>
           \/ \A s \in Tabs : chan'[s][u] = <<>>
           \/ Follows(u) /\ \A k \in Keys : LandedOn(k) => LandedOn(k)'
  PROVE  Told'
<1>1. ASSUME NEW s \in Tabs, NEW u \in Tabs, NEW i \in DOMAIN chan'[s][u]
      PROVE  /\ chan'[s][u][i].cleared => \A k \in Keys : chan'[s][u][i].does[k] # Kept
             /\ \A k \in unrowed' : ~Covers(chan'[s][u][i], k)
  <2>1. chan'[s][u] # <<>>
    BY <1>1
  <2>2. chan'[s][u] = chan[s][u]
    BY <2>1
  <2> QED
    BY <1>1, <2>2 DEF Told
<1>2. ASSUME NEW s \in Tabs, NEW u \in Tabs, Follows(u)', NEW k \in Keys, ~LandedOn(k)'
      PROVE  LastSays(chan'[s][u], k, rec'[k])
  <2>1. CASE chan'[s][u] = <<>>
    BY <2>1 DEF LastSays
  <2>2. CASE chan'[s][u] # <<>>
    <3>1. Follows(u) /\ ~LandedOn(k) /\ chan'[s][u] = chan[s][u]
      BY <1>2, <2>2
    <3>2. LastSays(chan[s][u], k, rec[k])
      BY <3>1 DEF Told
    <3> QED
      BY <3>1, <3>2
  <2> QED
    BY <2>1, <2>2
<1> QED
  BY <1>1, <1>2 DEF Told

(* The accounts of the other tabs stay right.                              *)
LEMMA RightKept ==
  ASSUME Right, UNCHANGED <<rec, unrowed>>, NEW t \in Tabs,
         \A u \in Tabs \ {t} : Follows(u)' =>
           /\ Follows(u) /\ SameAccounts(tab[u], tab'[u])
           /\ \A s \in Tabs : chan'[s][u] = chan[s][u]
           /\ \A k \in Keys : LandedOn(k) => LandedOn(k)',
         \A k \in Keys : Follows(t)' /\ ~Awaits(t, k)' /\ ~LandedOn(k)' => RightAt(tab[t], k)'
  PROVE  Right'
<1>1. ASSUME NEW u \in Tabs \ {t}, Follows(u)', NEW k \in Keys, ~Awaits(u, k)', ~LandedOn(k)'
      PROVE  RightAt(tab[u], k)'
  <2>1. Follows(u) /\ ~LandedOn(k) /\ SameAccounts(tab[u], tab'[u])
    BY <1>1
  <2>2. ~Awaits(u, k)
    BY <1>1 DEF Awaits
  <2>3. RightAt(tab[u], k)
    BY <2>1, <2>2 DEF Right
  <2> QED
    BY <2>1, <2>3 DEF RightAt, SameAccounts
<1> QED
  BY <1>1 DEF Right

(* A tab accounts as it does itself.                                       *)
LEMMA SameTab == ASSUME NEW s PROVE SameAccounts(s, s)
BY DEF SameAccounts

(* An idle commit has no plan to keep.                                     *)
LEMMA IdlePlan ==
  ASSUME NEW s, job'[s].at = "idle", job'[s].batch.again = {}
  PROVE  PlanOf(s)'
BY DEF PlanOf

(* LazyLocker::close.                                                      *)
LEMMA CloseTabStep ==
  ASSUME Invariant, NEW t \in Tabs, CloseTab(t)
  PROVE  Invariant'
<1> DEFINE u == [tab[t] EXCEPT !.open = FALSE]
<1>1. /\ tab[t].open /\ job[t].at = "idle" /\ reader[t].at = "idle"
      /\ tab' = [tab EXCEPT ![t] = u] /\ alone' = alone \ {t}
      /\ UNCHANGED <<rec, rows, nextTick, unrowed, job, reader, chan, behind>>
  BY DEF CloseTab, disk
<1>2. /\ u \in TabStates /\ ~u.open /\ u.clock = tab[t].clock
      /\ DOMAIN u.pending \subseteq DOMAIN u.entries
  BY TabFact DEF Invariant, Sound, TabStates
<1>3. tab'[t] = u /\ \A s \in Tabs \ {t} : tab'[s] = tab[s]
  BY <1>1 DEF Invariant, Types
<1> HIDE DEF u
<1>4. Types'
  <2>1. tab' \in [Tabs -> TabStates]
    BY <1>1, <1>2 DEF Invariant, Types
  <2>2. \A s \in Tabs : DOMAIN tab'[s].pending \subseteq DOMAIN tab'[s].entries
    BY <1>2, <1>3 DEF Invariant, Types
  <2> QED
    BY <1>1, <2>1, <2>2 DEF Invariant, Types
<1>5. Turns'
  <2>1. \A s \in Tabs : Sends(s)' <=> Sends(s)
    BY <1>1 DEF Sends
  <2>2. ASSUME NEW s \in Tabs
        PROVE  /\ chan'[s][s] = <<>>
               /\ job'[s].at # "idle" => tab'[s].open /\ s \notin behind'
               /\ reader'[s].at # "idle" => tab'[s].open
    BY <1>1, <1>3 DEF Invariant, Turns
  <2> QED
    BY <2>1, <2>2 DEF Invariant, Turns
<1>6. Plans'
  <2>1. job'[t].at = "idle" /\ job'[t].batch.again = {}
    BY <1>1 DEF Invariant, Plans, PlanOf
  <2>2. PlanOf(t)'
    BY <2>1, IdlePlan
  <2> QED
    BY <1>1, <1>3, <1>4, <2>2, OthersPlansKept DEF Invariant
<1>7. \A s \in Tabs : Follows(s)' => s # t /\ Follows(s)
  BY <1>1, <1>2, <1>3 DEF Follows
<1>8. \A k \in Keys : LandedOn(k) => LandedOn(k)'
  BY <1>1 DEF LandedOn
<1>9. Told'
  BY <1>1, <1>7, <1>8, ToldKept DEF Invariant
<1>10. Right'
  <2>1. \A s \in Tabs \ {t} : SameAccounts(tab[s], tab'[s])
    BY <1>3, SameTab
  <2> QED
    BY <1>1, <1>7, <1>8, <2>1, RightKept DEF Invariant
<1>11. TotalIsSum'
  BY <1>2, <1>3 DEF Invariant, TotalIsSum
<1>12. RowsMatchRecords'
  BY <1>1 DEF Invariant, RowsMatchRecords, StoredIn
<1>13. Clock'
  <2>1. tab'[t].clock.seeded \/ tab'[t].clock.next = 0
    BY <1>2, <1>3 DEF Invariant, Clock
  <2> QED
    BY <1>1, <1>3, <2>1, ClockKept DEF Invariant
<1> QED
  BY <1>4, <1>5, <1>6, <1>9, <1>10, <1>11, <1>12, <1>13 DEF Invariant

(* A tab ends: a commit that landed will never be announced, and the       *)
(* others are behind for good.                                             *)
LEMMA EndTabStep ==
  ASSUME Invariant, NEW t \in Tabs, EndTab(t)
  PROVE  Invariant'
<1>1. /\ tab[t].open /\ alone' = alone \ {t} /\ tab' = [tab EXCEPT ![t] = NewTab]
      /\ job' = [job EXCEPT ![t] = NoJob] /\ reader' = [reader EXCEPT ![t] = NoRead]
      /\ chan' = Unplugged(chan, t)
      /\ behind' = IF job[t].at = "landed" THEN Tabs \ {t} ELSE behind \ {t}
      /\ UNCHANGED <<rec, rows, nextTick, unrowed>>
  BY DEF EndTab, disk
<1>2. /\ tab \in [Tabs -> TabStates] /\ job \in [Tabs -> Jobs] /\ reader \in [Tabs -> Readers]
      /\ chan \in [Tabs -> [Tabs -> Seq(SizeNews)]]
      /\ \A s \in Tabs : DOMAIN tab[s].pending \subseteq DOMAIN tab[s].entries
  BY DEF Invariant, Types
<1>3. /\ tab'[t] = NewTab /\ job'[t] = NoJob /\ reader'[t] = NoRead
      /\ \A s \in Tabs \ {t} : tab'[s] = tab[s] /\ job'[s] = job[s] /\ reader'[s] = reader[s]
  BY <1>1, <1>2
<1>4. \A s, u \in Tabs : chan'[s][u] = IF u = t THEN <<>> ELSE chan[s][u]
  BY <1>1, <1>2 DEF Unplugged
<1>5. NewTab.open = FALSE /\ NoJob.at = "idle" /\ NoJob.batch.again = {} /\ NoRead.at = "idle"
      /\ NewTab.clock.next = 0
  BY DEF NewTab, NoJob, NoRead, NoBatch, ClockOf
<1>6. Types'
  <2>1. /\ tab' \in [Tabs -> TabStates] /\ job' \in [Tabs -> Jobs] /\ reader' \in [Tabs -> Readers]
        /\ \A s \in Tabs : DOMAIN tab'[s].pending \subseteq DOMAIN tab'[s].entries
    BY <1>1, <1>2, <1>3, NoneFact
  <2>2. chan' \in [Tabs -> [Tabs -> Seq(SizeNews)]]
    <3>1. \A s \in Tabs : [chan[s] EXCEPT ![t] = <<>>] \in [Tabs -> Seq(SizeNews)]
      BY <1>2
    <3> QED
      BY <1>1, <3>1 DEF Unplugged
  <2> QED
    BY <1>1, <2>1, <2>2 DEF Invariant, Types
<1>7. \A s \in Tabs : Sends(s)' => Sends(s)
  BY <1>3, <1>4, <1>5 DEF Sends
<1>8. Turns'
  <2>1. \A s, u \in Tabs : s # u => ~(Sends(s)' /\ Sends(u)')
    BY <1>7 DEF Invariant, Turns
  <2>2. ASSUME NEW s \in Tabs
        PROVE  /\ chan'[s][s] = <<>>
               /\ job'[s].at # "idle" => tab'[s].open /\ s \notin behind'
               /\ reader'[s].at # "idle" => tab'[s].open
    <3>1. chan[s][s] = <<>> /\ (job[s].at # "idle" => tab[s].open /\ s \notin behind)
          /\ (reader[s].at # "idle" => tab[s].open)
      BY DEF Invariant, Turns
    <3>2. CASE s = t
      BY <1>3, <1>4, <1>5, <3>2
    <3>3. CASE s # t
      <4>1. job[s].at # "idle" => job[t].at # "landed"
        BY <3>3 DEF Invariant, Turns, Sends
      <4> QED
        BY <1>1, <1>3, <1>4, <3>1, <3>3, <4>1
    <3> QED
      BY <3>2, <3>3
  <2> QED
    BY <2>1, <2>2 DEF Turns
<1>9. Plans'
  <2>1. PlanOf(t)'
    BY <1>3, <1>5, IdlePlan
  <2> QED
    BY <1>1, <1>3, <1>6, <2>1, OthersPlansKept DEF Invariant
<1>10. ASSUME NEW s \in Tabs, Follows(s)'
       PROVE  /\ s # t /\ Follows(s) /\ job[t].at # "landed"
              /\ \A k \in Keys : LandedOn(k) => LandedOn(k)'
  <2>1. s # t /\ job[t].at # "landed" /\ Follows(s)
    BY <1>1, <1>3, <1>5, <1>10 DEF Follows
  <2>2. \A k \in Keys : LandedOn(k) => LandedOn(k)'
    BY <1>3, <2>1 DEF LandedOn
  <2> QED
    BY <2>1, <2>2
<1>11. Told'
  BY <1>1, <1>4, <1>10, ToldKept DEF Invariant
<1>12. Right'
  <2>1. \A s \in Tabs \ {t} : SameAccounts(tab[s], tab'[s])
    BY <1>3, SameTab
  <2> QED
    BY <1>1, <1>4, <1>10, <2>1, RightKept DEF Invariant
<1>13. TotalIsSum'
  BY <1>3, <1>5 DEF Invariant, TotalIsSum
<1>14. RowsMatchRecords'
  BY <1>1 DEF Invariant, RowsMatchRecords, StoredIn
<1>15. Clock'
  BY <1>1, <1>3, <1>5, ClockKept DEF Invariant
<1> QED
  BY <1>6, <1>8, <1>9, <1>11, <1>12, <1>13, <1>14, <1>15 DEF Invariant

-----------------------------------------------------------------------------
(* Loads: what is read of the store is right.                              *)

(* What is loaded from rows that match the records is right.               *)
LEMMA RightLoad ==
  ASSUME RowsMatchRecords, NEW s, s.index = StoredIn(rec), ~s.dirty,
         DOMAIN s.entries \subseteq StoredIn(rec),
         \A k \in StoredIn(rec) \ unrowed : k \in DOMAIN s.entries,
         \A k \in DOMAIN s.entries : s.entries[k] = IF k \in DOMAIN rows THEN rows[k]
                                                    ELSE [tick |-> 0, bytes |-> 0],
         NEW k \in Keys
  PROVE  RightAt(s, k)
<1>1. k \in s.index <=> rec[k] # Gone
  BY DEF StoredIn
<1>2. k \in DOMAIN s.entries => rec[k] # Gone
  BY DEF StoredIn
<1>3. rec[k] # Gone /\ k \notin unrowed => k \in DOMAIN s.entries
  BY DEF StoredIn
<1>4. ASSUME k \in DOMAIN s.entries
      PROVE  s.entries[k].bytes = IF k \in unrowed THEN 0 ELSE rec[k]
  <2>1. CASE k \in DOMAIN rows
    BY <1>4, <2>1 DEF RowsMatchRecords
  <2>2. CASE k \notin DOMAIN rows
    <3>1. k \in unrowed
      BY <1>2, <1>4, <2>2 DEF RowsMatchRecords, StoredIn
    <3> QED
      BY <1>4, <2>2, <3>1
  <2> QED
    BY <2>1, <2>2
<1> QED
  BY <1>1, <1>2, <1>3, <1>4 DEF RightAt

(* open_lru, in its turn.                                                  *)
LEMMA OpenTabStep ==
  ASSUME Callers, Invariant, NEW t \in Tabs, OpenTab(t)
  PROVE  Invariant'
<1> DEFINE I == StoredIn(rec)
           l == Loaded(tab[t], I)
           c == Observed(tab[t].clock)
           u == [l EXCEPT !.open = TRUE, !.clock = c, !.pending = <<>>, !.dirty = FALSE, !.index = I]
<1>1. /\ ~tab[t].open /\ Observable /\ MyTurn(t)
      /\ tab' = [tab EXCEPT ![t] = u]
      /\ alone' = IF \E s \in Tabs : tab[s].open THEN alone \ {s \in Tabs : tab[s].open} ELSE {t}
      /\ behind' = behind \ {t}
      /\ UNCHANGED <<rec, rows, nextTick, unrowed, job, reader, chan>>
  <2>1. /\ ~tab[t].open /\ Observable /\ MyTurn(t)
        /\ behind' = behind \ {t}
        /\ UNCHANGED <<rec, rows, nextTick, unrowed, job, reader, chan>>
    BY DEF OpenTab, disk, Callers
  <2>2. tab' = [tab EXCEPT ![t] = u]
    BY DEF OpenTab
  <2>3. alone' = IF \E s \in Tabs : tab[s].open THEN alone \ {s \in Tabs : tab[s].open} ELSE {t}
    BY Zenon DEF OpenTab
  <2> QED
    BY <2>1, <2>2, <2>3
<1>2. /\ tab \in [Tabs -> TabStates] /\ tab[t] \in TabStates /\ tab[t].clock \in Clocks
      /\ rows \in Partial(Entries) /\ I \in SUBSET Keys /\ alone \subseteq Tabs
  BY TabFact DEF Invariant, Types, StoredIn
<1>3. /\ l = [tab[t] EXCEPT !.entries = l.entries, !.total = l.total]
      /\ l.entries \in Partial(Entries) /\ DOMAIN l.entries = I
      /\ l.total \in Nat /\ l.total = BytesOf(l.entries, Keys)
      /\ \A k \in I : l.entries[k] = IF k \in DOMAIN rows THEN rows[k]
                                     ELSE [tick |-> 0, bytes |-> 0]
  <2> HIDE DEF I
  <2> QED
    BY <1>2, LoadedFact
<1> HIDE DEF I, l
<1>4. l \in TabStates /\ l.clock = tab[t].clock
  BY <1>2, <1>3 DEF TabStates
<1>5. /\ c \in Clocks /\ c.seeded = tab[t].clock.seeded
      /\ (tab[t].clock.seeded \/ c.next = tab[t].clock.next)
      /\ \A k \in DOMAIN rows : rows[k].tick < Cursor(c)
  BY <1>1, <1>2, <1>4, ObservedFact
<1> HIDE DEF c
<1>6. <<>> \in Partial(0..MaxTick) /\ DOMAIN <<>> = {}
  BY EmptyPartial
<1>7. /\ u \in TabStates /\ u.open /\ ~u.dirty /\ u.clock = c /\ u.pending = <<>> /\ u.index = I
      /\ u.entries = l.entries /\ u.total = l.total
  BY <1>2, <1>4, <1>5, <1>6 DEF TabStates
<1> HIDE DEF u
<1>8. tab'[t] = u /\ \A s \in Tabs \ {t} : tab'[s] = tab[s]
  BY <1>1, <1>2
<1>9. \A s \in Tabs : chan[s][t] = <<>>
  <2>1. chan[t][t] = <<>>
    BY DEF Invariant, Turns
  <2> QED
    BY <1>1, <2>1 DEF MyTurn, Sends
<1>10. job[t].at = "idle" /\ reader[t].at = "idle"
  <2>1. job[t].at # "idle" => tab[t].open
    BY DEF Invariant, Turns
  <2>2. reader[t].at # "idle" => tab[t].open
    BY DEF Invariant, Turns
  <2> QED
    BY <1>1, <2>1, <2>2
<1>11. Types'
  <2>1. /\ tab' \in [Tabs -> TabStates]
        /\ \A s \in Tabs : DOMAIN tab'[s].pending \subseteq DOMAIN tab'[s].entries
    BY <1>1, <1>2, <1>6, <1>7, <1>8 DEF Invariant, Types
  <2>2. alone' \subseteq Tabs /\ behind' \subseteq Tabs
    BY <1>1 DEF Invariant, Types
  <2> QED
    BY <1>1, <2>1, <2>2 DEF Invariant, Types
<1>12. Turns'
  <2>1. \A s \in Tabs : Sends(s)' <=> Sends(s)
    BY <1>1 DEF Sends
  <2>2. ASSUME NEW s \in Tabs
        PROVE  /\ chan'[s][s] = <<>>
               /\ job'[s].at # "idle" => tab'[s].open /\ s \notin behind'
               /\ reader'[s].at # "idle" => tab'[s].open
    BY <1>1, <1>8, <1>10 DEF Invariant, Turns
  <2> QED
    BY <2>1, <2>2 DEF Invariant, Turns
<1>13. Plans'
  <2>1. job'[t].at = "idle" /\ job'[t].batch.again = {}
    BY <1>1, <1>10 DEF Invariant, Plans, PlanOf
  <2>2. PlanOf(t)'
    BY <2>1, IdlePlan
  <2> QED
    BY <1>1, <1>8, <1>11, <2>2, OthersPlansKept DEF Invariant
<1>14. \A k \in Keys : LandedOn(k) => LandedOn(k)'
  BY <1>1 DEF LandedOn
<1>15. \A s \in Tabs \ {t} : Follows(s)' => Follows(s)
  BY <1>1, <1>8 DEF Follows
<1>16. Told'
  <2>1. \A s \in Tabs : Follows(s)' => (\A v \in Tabs : chan'[v][s] = <<>>)
                                       \/ (Follows(s) /\ \A k \in Keys : LandedOn(k) => LandedOn(k)')
    BY <1>1, <1>9, <1>14, <1>15
  <2> QED
    BY <1>1, <2>1, ToldKept DEF Invariant
<1>17. \A k \in Keys : RightAt(u, k)
  <2>1. \A k \in StoredIn(rec) \ unrowed : k \in DOMAIN u.entries
    BY <1>3, <1>7 DEF I
  <2>2. DOMAIN u.entries \subseteq StoredIn(rec) /\ u.index = StoredIn(rec)
    BY <1>3, <1>7 DEF I
  <2>3. \A k \in DOMAIN u.entries : u.entries[k] = IF k \in DOMAIN rows THEN rows[k]
                                                   ELSE [tick |-> 0, bytes |-> 0]
    BY <1>3, <1>7
  <2> QED
    BY <1>7, <2>1, <2>2, <2>3, RightLoad DEF Invariant
<1>18. Right'
  <2>1. \A s \in Tabs \ {t} : SameAccounts(tab[s], tab'[s])
    BY <1>8, SameTab
  <2>2. \A k \in Keys : RightAt(tab[t], k)'
    BY <1>1, <1>8, <1>17 DEF RightAt
  <2> QED
    BY <1>1, <1>14, <1>15, <2>1, <2>2, RightKept DEF Invariant
<1>19. TotalIsSum'
  BY <1>3, <1>7, <1>8 DEF Invariant, TotalIsSum
<1>20. RowsMatchRecords'
  BY <1>1 DEF Invariant, RowsMatchRecords, StoredIn
<1>21. Clock'
  <2>1. ASSUME NEW s \in Tabs PROVE tab'[s].clock.seeded \/ tab'[s].clock.next = 0
    BY <1>5, <1>7, <1>8 DEF Invariant, Clock
  <2>2. ASSUME NEW s \in alone' PROVE Ahead(s)'
    <3>1. CASE \E v \in Tabs : tab[v].open
      <4>1. s \in alone /\ ~tab[s].open
        BY <1>1, <1>2, <2>2, <3>1
      <4> QED
        BY <4>1 DEF Invariant, Clock, Ahead
    <3>2. CASE ~\E v \in Tabs : tab[v].open
      <4>1. s = t
        BY <1>1, <2>2, <3>2
      <4>2. tab'[t].open /\ \A v \in Tabs \ {t} : ~tab'[v].open /\ chan'[v][t] = <<>>
        BY <1>1, <1>7, <1>8, <1>9, <3>2
      <4>3. \A k \in DOMAIN rows' : rows'[k].tick < Cursor(tab'[t].clock)
        BY <1>1, <1>5, <1>7, <1>8
      <4>4. ASSUME NEW k \in DOMAIN tab'[t].entries
            PROVE  tab'[t].entries[k].tick < Cursor(tab'[t].clock) \/ Adopted(t, k)'
        <5>1. k \in I /\ tab'[t].entries[k] = IF k \in DOMAIN rows THEN rows[k]
                                              ELSE [tick |-> 0, bytes |-> 0]
          BY <1>3, <1>7, <1>8, <4>4
        <5>2. CASE k \in DOMAIN rows
          BY <1>5, <1>7, <1>8, <5>1, <5>2
        <5>3. CASE k \notin DOMAIN rows
          <6>1. k \in unrowed
            BY <5>1, <5>3 DEF I, Invariant, RowsMatchRecords
          <6> QED
            BY <1>1, <5>1, <5>3, <6>1 DEF Adopted
        <5> QED
          BY <5>2, <5>3
      <4>5. DOMAIN tab'[t].pending = {}
        BY <1>6, <1>7, <1>8
      <4>6. job'[t].at = "idle"
        BY <1>1, <1>10
      <4> QED
        BY <4>1, <4>2, <4>3, <4>4, <4>5, <4>6 DEF Ahead
    <3> QED
      BY <3>1, <3>2
  <2> QED
    BY <2>1, <2>2 DEF Clock
<1> QED
  BY <1>11, <1>12, <1>13, <1>16, <1>18, <1>19, <1>20, <1>21 DEF Invariant

(* adopt_loaded before a commit when the accounts are dirty.               *)
LEMMA ReloadStep ==
  ASSUME Invariant, NEW t \in Tabs, Reload(t)
  PROVE  Invariant'
<1> DEFINE s == tab[t]
           I == DOMAIN rows
           l == Loaded(s, I)
           c == Observed(l.clock)
           p == Without(l.pending, Keys \ I)
           u == [l EXCEPT !.clock = c, !.dirty = FALSE, !.pending = p]
           j == [job[t] EXCEPT !.at = "ticking"]
<1>1. /\ job[t].at = "reloading" /\ Observable
      /\ tab' = [tab EXCEPT ![t] = u] /\ job' = [job EXCEPT ![t] = j]
      /\ UNCHANGED <<rec, rows, nextTick, unrowed, reader, chan, alone, behind>>
  BY DEF Reload, disk, AdoptLoaded
<1>2. /\ tab \in [Tabs -> TabStates] /\ s \in TabStates /\ s.clock \in Clocks
      /\ rows \in Partial(Entries) /\ job[t] \in Jobs /\ s.pending \in Partial(0..MaxTick)
  BY TabFact DEF Invariant, Types, TabStates
<1>3. I \in SUBSET Keys
  <2>1. rows \in Partial(Entries)
    BY <1>2
  <2> QED
    BY <2>1, PartialValue
<1>4. /\ l = [s EXCEPT !.entries = l.entries, !.total = l.total]
      /\ l.entries \in Partial(Entries) /\ DOMAIN l.entries = I
      /\ l.total \in Nat /\ l.total = BytesOf(l.entries, Keys)
      /\ \A k \in I : l.entries[k] = IF k \in DOMAIN rows THEN rows[k]
                                     ELSE [tick |-> 0, bytes |-> 0]
  <2> HIDE DEF I, s
  <2> QED
    BY <1>2, <1>3, LoadedFact
<1> HIDE DEF l
<1>5. l \in TabStates /\ l.clock = s.clock /\ l.pending = s.pending /\ l.index = s.index
      /\ l.open = s.open
  BY <1>2, <1>4 DEF TabStates
<1>6. /\ c \in Clocks /\ c.seeded = s.clock.seeded /\ (s.clock.seeded \/ c.next = s.clock.next)
      /\ Cursor(c) >= Cursor(s.clock)
      /\ \A k \in DOMAIN rows : rows[k].tick < Cursor(c)
  <2> HIDE DEF s
  <2> QED
    BY <1>1, <1>2, <1>5, ObservedFact
<1> HIDE DEF c
<1>7. p \in Partial(0..MaxTick)
  <2>1. l.pending \in Partial(0..MaxTick)
    BY <1>2, <1>5
  <2> HIDE DEF I
  <2> QED
    BY <2>1, WithoutFact
<1>8. /\ DOMAIN p = DOMAIN s.pending \ (Keys \ I) /\ \A k \in DOMAIN p : p[k] = s.pending[k]
  BY <1>5 DEF Without
<1>9. DOMAIN s.pending \subseteq Keys
  <2>1. s.pending \in Partial(0..MaxTick)
    BY <1>2
  <2> HIDE DEF s
  <2> QED
    BY <2>1, PartialValue
<1>10. DOMAIN p \subseteq I
  BY <1>8, <1>9
<1> HIDE DEF p
<1>11. /\ u \in TabStates /\ u.open = s.open /\ ~u.dirty /\ u.clock = c /\ u.pending = p
       /\ u.index = s.index /\ u.entries = l.entries /\ u.total = l.total
  BY <1>4, <1>5, <1>6, <1>7 DEF TabStates
<1>12. /\ j \in Jobs /\ j.at = "ticking" /\ j.batch = job[t].batch /\ j.evict = job[t].evict
       /\ j.victims = job[t].victims
  BY <1>2 DEF Jobs
<1> HIDE DEF u, j
<1>13. /\ tab'[t] = u /\ \A v \in Tabs \ {t} : tab'[v] = tab[v]
       /\ job'[t] = j /\ \A v \in Tabs \ {t} : job'[v] = job[v]
  BY <1>1 DEF Invariant, Types
<1>14. /\ s.open /\ \A k \in Keys : RightAt(s, k)
  BY <1>1, MineAlone
<1>15. Types'
  <2>1. /\ tab' \in [Tabs -> TabStates]
        /\ \A v \in Tabs : DOMAIN tab'[v].pending \subseteq DOMAIN tab'[v].entries
    BY <1>1, <1>2, <1>4, <1>10, <1>11, <1>13 DEF Invariant, Types
  <2>2. job' \in [Tabs -> Jobs]
    BY <1>1, <1>12 DEF Invariant, Types
  <2> QED
    BY <1>1, <2>1, <2>2 DEF Invariant, Types
<1>16. \A v \in Tabs : tab'[v].open = tab[v].open
  BY <1>11, <1>13
<1>17. Turns'
  <2>1. \A v \in Tabs \ {t} : job'[v] = job[v] /\ reader'[v] = reader[v]
    BY <1>1, <1>13
  <2>2. reader'[t].at # "idle" => reader[t].at # "idle"
    BY <1>1
  <2> QED
    BY <1>1, <1>16, <2>1, <2>2, TurnsKept DEF Invariant
<1>18. Plans'
  <2>1. PlanOf(t)
    BY DEF Invariant, Plans
  <2>2. PlanOf(t)'
    BY <1>1, <1>11, <1>12, <1>13, <2>1 DEF PlanOf
  <2> QED
    BY <1>1, <1>13, <1>15, <2>2, OthersPlansKept DEF Invariant
<1>19. \A k \in Keys : LandedOn(k) => LandedOn(k)'
  BY <1>1, <1>13 DEF LandedOn, Covered
<1>20. \A v \in Tabs : Follows(v)' => Follows(v)
  BY <1>1, <1>16 DEF Follows
<1>21. Told'
  BY <1>1, <1>19, <1>20, ToldKept DEF Invariant
<1>22. \A k \in Keys : RightAt(u, k)
  <2>1. \A k \in StoredIn(rec) \ unrowed : k \in DOMAIN u.entries
    BY <1>4, <1>11 DEF Invariant, RowsMatchRecords
  <2>2. DOMAIN u.entries \subseteq StoredIn(rec)
    BY <1>3, <1>4, <1>11 DEF Invariant, RowsMatchRecords, StoredIn
  <2>3. u.index = StoredIn(rec)
    <3>1. s.index \subseteq Keys
      BY <1>2 DEF TabStates
    <3>2. \A k \in Keys : k \in s.index <=> rec[k] # Gone
      BY <1>14 DEF RightAt
    <3> QED
      BY <1>11, <3>1, <3>2 DEF StoredIn
  <2>4. \A k \in DOMAIN u.entries : u.entries[k] = IF k \in DOMAIN rows THEN rows[k]
                                                   ELSE [tick |-> 0, bytes |-> 0]
    BY <1>4, <1>11
  <2> HIDE DEF s, I
  <2> QED
    BY <1>11, <2>1, <2>2, <2>3, <2>4, RightLoad DEF Invariant
<1>23. Right'
  <2>1. \A v \in Tabs \ {t} : SameAccounts(tab[v], tab'[v])
    BY <1>13, SameTab
  <2>2. \A k \in Keys : RightAt(tab[t], k)'
    BY <1>1, <1>13, <1>22 DEF RightAt
  <2> QED
    BY <1>1, <1>19, <1>20, <2>1, <2>2, RightKept DEF Invariant
<1>24. TotalIsSum'
  BY <1>4, <1>11, <1>13 DEF Invariant, TotalIsSum
<1>25. RowsMatchRecords'
  BY <1>1 DEF Invariant, RowsMatchRecords, StoredIn
<1>26. Clock'
  <2>1. tab'[t].clock.seeded \/ tab'[t].clock.next = 0
    BY <1>6, <1>11, <1>13 DEF Invariant, Clock
  <2>2. ASSUME t \in alone' PROVE Ahead(t)'
    <3>1. Ahead(t)
      BY <1>1, <2>2 DEF Invariant, Clock
    <3>2. tab'[t].open /\ \A v \in Tabs \ {t} : ~tab'[v].open /\ chan'[v][t] = <<>>
      BY <1>1, <1>13, <1>14, <1>16, <3>1 DEF Ahead
    <3>3. \A k \in DOMAIN rows' : rows'[k].tick < Cursor(tab'[t].clock)
      BY <1>1, <1>6, <1>11, <1>13
    <3>4. \A k \in DOMAIN tab'[t].entries : tab'[t].entries[k].tick < Cursor(tab'[t].clock)
      BY <1>4, <1>6, <1>11, <1>13
    <3>5. ASSUME NEW k \in DOMAIN tab'[t].pending
          PROVE  tab'[t].pending[k] < Cursor(tab'[t].clock)
      <4>1. k \in DOMAIN s.pending /\ tab'[t].pending[k] = s.pending[k]
        BY <1>8, <1>11, <1>13, <3>5
      <4>2. s.pending[k] < Cursor(s.clock)
        BY <3>1, <4>1 DEF Ahead
      <4>3. s.pending[k] \in Nat
        BY <4>1, TicksBelow DEF Invariant
      <4>4. Cursor(s.clock) \in Nat /\ Cursor(c) \in Nat
        BY <1>2, <1>6, CursorFact, LruAssumption
      <4>5. tab'[t].clock = c
        BY <1>11, <1>13
      <4> HIDE DEF s
      <4> QED
        BY <1>6, <4>1, <4>2, <4>3, <4>4, <4>5
    <3>6. job'[t].at = "ticking"
      BY <1>12, <1>13
    <3> QED
      BY <3>2, <3>3, <3>4, <3>5, <3>6 DEF Ahead
  <2> QED
    BY <1>1, <1>13, <1>14, <2>1, <2>2, ClockKept DEF Invariant
<1> QED
  BY <1>15, <1>17, <1>18, <1>21, <1>23, <1>24, <1>25, <1>26 DEF Invariant

-----------------------------------------------------------------------------
(* A commit lands.                                                         *)

(* The rows it leaves.                                                     *)
LEMMA RowsFact ==
  ASSUME rows \in Partial(Entries), NEW j \in Jobs, \A k \in DOMAIN j.pending : k \notin PutsOf(j.batch)
  PROVE  LET r == RowsAfter(j)
             old == IF j.batch.cleared THEN {} ELSE DOMAIN rows
             gone == DeletesOf(j.batch) \cup j.victims IN
         /\ r \in Partial(Entries)
         /\ DOMAIN r = (old \cup PutsOf(j.batch) \cup DOMAIN j.pending) \ gone
         /\ \A k \in DOMAIN r :
              /\ k \in DOMAIN j.pending => r[k] = j.pending[k]
              /\ k \in PutsOf(j.batch) => r[k].tick = j.tick /\ r[k].bytes = j.batch.does[k]
              /\ k \notin DOMAIN j.pending \cup PutsOf(j.batch) => k \in old /\ r[k] = rows[k]
<1> DEFINE b == j.batch
           P == PutsOf(b)
           base == IF b.cleared THEN <<>> ELSE rows
           new == [k \in P |-> [tick |-> j.tick, bytes |-> b.does[k]]]
           x == Over(base, new)
           y == Over(x, j.pending)
           z == Without(y, DeletesOf(b))
           r == Without(z, j.victims)
           old == IF b.cleared THEN {} ELSE DOMAIN rows
<1>1. base \in Partial(Entries) /\ DOMAIN base = old /\ (\A k \in old : base[k] = rows[k])
  BY EmptyPartial
<1>2. new \in Partial(Entries)
  <2>1. P \subseteq Keys /\ \A k \in P : b.does[k] \in Nat
    BY LruAssumption DEF PutsOf
  <2>2. j.tick \in 0..MaxTick
    BY DEF Jobs
  <2>3. \A k \in P : [tick |-> j.tick, bytes |-> b.does[k]] \in Entries
    BY <2>1, <2>2 DEF Entries
  <2>4. new = [k \in DOMAIN new |-> new[k]] /\ DOMAIN new = P /\ \A k \in P : new[k] \in Entries
    BY <2>3
  <2> HIDE DEF new, P
  <2> QED
    BY <2>1, <2>4, PartialMake
<1>3. j.pending \in Partial(Entries)
  BY DEF Jobs
<1>4. r \in Partial(Entries)
  <2>1. base \in Partial(Entries)
    BY <1>1
  <2>2. x \in Partial(Entries)
    <3> HIDE DEF base, new
    <3> QED
      BY <1>2, <2>1, OverFact
  <2>3. y \in Partial(Entries)
    <3> HIDE DEF x
    <3> QED
      BY <1>3, <2>2, OverFact
  <2>4. z \in Partial(Entries)
    <3> HIDE DEF y
    <3> QED
      BY <2>3, WithoutFact
  <2> HIDE DEF z
  <2> QED
    BY <2>4, WithoutFact
<1>5. RowsAfter(j) = r
  BY DEF RowsAfter, RowsKept
<1>6. DOMAIN new = P /\ \A k \in P : new[k].tick = j.tick /\ new[k].bytes = b.does[k]
  OBVIOUS
<1> HIDE DEF base, new, P
<1>7. DOMAIN x = DOMAIN base \cup DOMAIN new
      /\ \A k \in DOMAIN x : x[k] = IF k \in DOMAIN new THEN new[k] ELSE base[k]
  BY DEF Over
<1> HIDE DEF x
<1>8. DOMAIN y = DOMAIN x \cup DOMAIN j.pending
      /\ \A k \in DOMAIN y : y[k] = IF k \in DOMAIN j.pending THEN j.pending[k] ELSE x[k]
  BY DEF Over
<1> HIDE DEF y
<1>9. DOMAIN r = DOMAIN y \ (DeletesOf(b) \cup j.victims) /\ \A k \in DOMAIN r : r[k] = y[k]
  BY DEF Without
<1> HIDE DEF r, old
<1>10. DOMAIN r = (old \cup P \cup DOMAIN j.pending) \ (DeletesOf(b) \cup j.victims)
  BY <1>1, <1>6, <1>7, <1>8, <1>9
<1>11. ASSUME NEW k \in DOMAIN r
       PROVE  /\ k \in DOMAIN j.pending => r[k] = j.pending[k]
              /\ k \in P => r[k].tick = j.tick /\ r[k].bytes = b.does[k]
              /\ k \notin DOMAIN j.pending \cup P => k \in old /\ r[k] = rows[k]
  <2>1. k \in DOMAIN y /\ r[k] = y[k]
    BY <1>9
  <2>2. k \in DOMAIN j.pending => r[k] = j.pending[k]
    BY <1>8, <2>1
  <2>3. k \notin DOMAIN j.pending => k \in DOMAIN x /\ r[k] = x[k]
    BY <1>8, <2>1
  <2>4. k \in P => k \notin DOMAIN j.pending
    BY DEF P
  <2>5. k \in P => r[k] = new[k]
    BY <1>6, <1>7, <2>3, <2>4
  <2>6. k \notin DOMAIN j.pending \cup P => k \in old /\ r[k] = rows[k]
    BY <1>1, <1>6, <1>7, <2>3
  <2> QED
    BY <1>6, <2>2, <2>5, <2>6
<1> QED
  BY <1>4, <1>5, <1>10, <1>11 DEF P, old

(* What a landed commit leaves, key by key.                                *)
LEMMA LandFact ==
  ASSUME Invariant, NEW t \in Tabs, Land(t)
  PROVE  LET j == job[t] IN
         /\ j \in Jobs /\ j.at = "committing" /\ j.batch \in Batches
         /\ job' = [job EXCEPT ![t].at = "landed"]
         /\ rows' = RowsAfter(j) /\ nextTick' = IF j.evict THEN nextTick ELSE j.counter
         /\ unrowed' = unrowed \ Covered(j) /\ alone' = alone \cap {t}
         /\ UNCHANGED <<tab, reader, chan, behind>>
         /\ rec' \in Contents
         /\ j.victims \subseteq Keys \ Touched(j.batch.does)
         /\ \A k \in j.victims \cup DeletesOf(j.batch) : rec'[k] = Gone
         /\ \A k \in PutsOf(j.batch) : rec'[k] = j.batch.does[k] /\ rec'[k] \in Vals
         /\ \A k \in Keys \ Covered(j) : rec'[k] = rec[k]
         /\ \A k \in DOMAIN j.pending : /\ k \in Keys /\ k \notin PutsOf(j.batch) /\ rec[k] # Gone
                                        /\ j.pending[k].bytes = BytesIn(k)
         /\ Covered(j) = PutsOf(j.batch) \cup DeletesOf(j.batch) \cup j.victims
<1> DEFINE j == job[t]
           b == j.batch
<1>1. /\ j.at = "committing" /\ job' = [job EXCEPT ![t].at = "landed"]
      /\ rec' = [k \in Keys |-> IF k \in j.victims THEN Gone ELSE Then(rec, b.does)[k]]
      /\ rows' = RowsAfter(j) /\ nextTick' = IF j.evict THEN nextTick ELSE j.counter
      /\ unrowed' = unrowed \ Covered(j) /\ alone' = alone \cap {t}
      /\ UNCHANGED <<tab, reader, chan, behind>>
  BY DEF Land, Covered
<1>2. j \in Jobs /\ b \in Batches /\ rec \in Contents
  BY TabFact DEF Invariant, Types
<1>3. /\ PutsOf(b) \cup DeletesOf(b) = Touched(b.does)
      /\ \A k \in Keys : b.does[k] \in Vals \cup {Gone, Kept}
  <2> HIDE DEF j
  <2> QED
    BY <1>2, BatchFact
<1>4. /\ Planned(tab[t], j)
      /\ \A k \in DOMAIN j.pending : /\ k \notin PutsOf(b) /\ rec[k] # Gone
                                     /\ j.pending[k].bytes = BytesIn(k)
  BY <1>1 DEF Invariant, Plans, PlanOf
<1>5. j.victims \subseteq Keys \ Touched(b.does)
  BY <1>2, <1>4 DEF Planned, Jobs
<1>6. DOMAIN j.pending \subseteq Keys
  <2>1. j.pending \in Partial(Entries)
    BY <1>2 DEF Jobs
  <2> HIDE DEF j
  <2> QED
    BY <2>1, PartialValue
<1> HIDE DEF j, b
<1>7. \A k \in Keys : rec'[k] = IF k \in j.victims THEN Gone
                                ELSE IF b.does[k] = Kept THEN rec[k] ELSE b.does[k]
  BY <1>1 DEF Then
<1>8. rec' \in Contents
  <2>1. \A k \in Keys : rec'[k] \in Vals \cup {Gone}
    BY <1>2, <1>3, <1>7 DEF Contents
  <2>2. rec' = [k \in Keys |-> rec'[k]]
    BY <1>1
  <2> QED
    BY <2>1, <2>2 DEF Contents
<1>9. \A k \in j.victims \cup DeletesOf(b) : rec'[k] = Gone
  BY <1>5, <1>7, BatchAssumption DEF DeletesOf
<1>10. \A k \in PutsOf(b) : rec'[k] = b.does[k] /\ rec'[k] \in Vals
  BY <1>3, <1>5, <1>7, BatchAssumption DEF PutsOf, Touched
<1>11. Covered(j) = PutsOf(b) \cup DeletesOf(b) \cup j.victims
  BY <1>3 DEF Covered, b
<1>12. \A k \in Keys \ Covered(j) : rec'[k] = rec[k]
  BY <1>7 DEF Covered, Touched, b
<1> QED
  BY <1>1, <1>2, <1>4, <1>5, <1>6, <1>8, <1>9, <1>10, <1>11, <1>12 DEF j, b

(* Records and rows land together.                                         *)
LEMMA LandRows ==
  ASSUME Invariant, NEW t \in Tabs, Land(t)
  PROVE  rows' \in Partial(Entries) /\ RowsMatchRecords'
<1> DEFINE j == job[t]
           P == PutsOf(j.batch)
           D == DeletesOf(j.batch)
           old == IF j.batch.cleared THEN {} ELSE DOMAIN rows
<1>1. /\ j \in Jobs /\ j.batch \in Batches
      /\ rows' = RowsAfter(j) /\ unrowed' = unrowed \ Covered(j)
      /\ j.victims \subseteq Keys \ Touched(j.batch.does)
      /\ \A k \in j.victims \cup D : rec'[k] = Gone
      /\ \A k \in P : rec'[k] = j.batch.does[k] /\ rec'[k] \in Vals
      /\ \A k \in Keys \ Covered(j) : rec'[k] = rec[k]
      /\ \A k \in DOMAIN j.pending : /\ k \in Keys /\ k \notin P /\ rec[k] # Gone
                                     /\ j.pending[k].bytes = BytesIn(k)
      /\ Covered(j) = P \cup D \cup j.victims
  BY LandFact
<1>2. rows \in Partial(Entries) /\ rec \in Contents
  BY DEF Invariant, Types
<1>3. P \cup D = Touched(j.batch.does) /\ (j.batch.cleared => P \cup D = Keys) /\ P \cap D = {}
      /\ P \subseteq Keys
  <2> HIDE DEF j
  <2> QED
    BY <1>1, BatchFact
<1>4. /\ rows' \in Partial(Entries)
      /\ DOMAIN rows' = (old \cup P \cup DOMAIN j.pending) \ (D \cup j.victims)
      /\ \A k \in DOMAIN rows' :
           /\ k \in DOMAIN j.pending => rows'[k] = j.pending[k]
           /\ k \in P => rows'[k].bytes = j.batch.does[k]
           /\ k \notin DOMAIN j.pending \cup P => k \in old /\ rows'[k] = rows[k]
  <2>1. \A k \in DOMAIN j.pending : k \notin PutsOf(j.batch)
    BY <1>1
  <2> HIDE DEF j
  <2> QED
    BY <1>1, <1>2, <2>1, RowsFact
<1>5. DOMAIN rows \subseteq Keys
  BY <1>2, PartialValue
<1> HIDE DEF j, P, D
<1>6. ASSUME NEW k \in DOMAIN rows'
      PROVE  rec'[k] # Gone /\ rows'[k].bytes = IF k \in unrowed' THEN 0 ELSE rec'[k]
  <2>1. k \notin D \cup j.victims /\ k \in Keys
    BY <1>1, <1>3, <1>4, <1>5, <1>6
  <2>2. CASE k \in P
    BY <1>1, <1>4, <2>2, BatchAssumption
  <2>3. CASE k \in DOMAIN j.pending
    <3>1. k \notin Covered(j) /\ rec'[k] = rec[k] /\ (k \in unrowed' <=> k \in unrowed)
      BY <1>1, <2>1, <2>3
    <3>2. rows'[k].bytes = BytesIn(k) /\ rec[k] # Gone
      BY <1>1, <1>4, <2>3
    <3> QED
      BY <3>1, <3>2 DEF BytesIn
  <2>4. CASE k \notin DOMAIN j.pending \cup P
    <3>1. k \in DOMAIN rows /\ rows'[k] = rows[k]
      BY <1>4, <2>4
    <3>2. k \notin Covered(j) /\ rec'[k] = rec[k] /\ (k \in unrowed' <=> k \in unrowed)
      BY <1>1, <2>1, <2>4
    <3> QED
      BY <3>1, <3>2 DEF Invariant, RowsMatchRecords
  <2> QED
    BY <2>2, <2>3, <2>4
<1>7. ASSUME NEW k \in Keys, rec'[k] # Gone, k \notin unrowed' PROVE k \in DOMAIN rows'
  <2>1. k \notin D \cup j.victims
    BY <1>1, <1>7
  <2>2. CASE k \in P
    BY <1>4, <2>1, <2>2
  <2>3. CASE k \notin P
    <3>1. k \notin Covered(j) /\ rec'[k] = rec[k] /\ k \notin unrowed /\ ~j.batch.cleared
      BY <1>1, <1>3, <1>7, <2>1, <2>3
    <3>2. k \in DOMAIN rows
      BY <1>7, <3>1 DEF Invariant, RowsMatchRecords, StoredIn
    <3> QED
      BY <1>4, <2>1, <3>1, <3>2
  <2> QED
    BY <2>2, <2>3
<1>8. RowsMatchRecords'
  BY <1>6, <1>7 DEF RowsMatchRecords, StoredIn
<1> QED
  BY <1>4, <1>8

(* A commit lands.                                                         *)
LEMMA LandStep ==
  ASSUME Invariant, NEW t \in Tabs, Land(t)
  PROVE  Invariant'
<1> DEFINE j == job[t]
           i == [j EXCEPT !.at = "landed"]
<1>1. /\ j \in Jobs /\ j.at = "committing" /\ j.batch \in Batches
      /\ job' = [job EXCEPT ![t].at = "landed"]
      /\ rows' = RowsAfter(j) /\ nextTick' = IF j.evict THEN nextTick ELSE j.counter
      /\ unrowed' = unrowed \ Covered(j) /\ alone' = alone \cap {t}
      /\ UNCHANGED <<tab, reader, chan, behind>>
      /\ rec' \in Contents
      /\ j.victims \subseteq Keys \ Touched(j.batch.does)
      /\ \A k \in j.victims \cup DeletesOf(j.batch) : rec'[k] = Gone
      /\ \A k \in PutsOf(j.batch) : rec'[k] = j.batch.does[k] /\ rec'[k] \in Vals
      /\ \A k \in Keys \ Covered(j) : rec'[k] = rec[k]
      /\ Covered(j) = PutsOf(j.batch) \cup DeletesOf(j.batch) \cup j.victims
  BY LandFact
<1>2. /\ i \in Jobs /\ i.at = "landed" /\ i.evict = j.evict /\ i.batch = j.batch /\ i.tick = j.tick
      /\ i.victims = j.victims /\ i.total = j.total /\ i.pending = j.pending
  BY <1>1 DEF Jobs
<1>3. job' = [job EXCEPT ![t] = i]
  BY <1>1 DEF Invariant, Types
<1> HIDE DEF i
<1>4. job'[t] = i /\ \A s \in Tabs \ {t} : job'[s] = job[s]
  BY <1>3 DEF Invariant, Types
<1>5. /\ tab[t].open /\ t \notin behind
      /\ \A s \in Tabs \ {t} : job[s].at = "idle" /\ \A u \in Tabs : chan[s][u] = <<>>
      /\ \A k \in Keys : ~LandedOn(k)
  BY <1>1, MineAlone
<1>6. Covered(i) = Covered(j) /\ (Planned(tab[t], j) => Planned(tab[t], i))
      /\ Left(tab[t], i) = Left(tab[t], j)
  BY <1>2 DEF Covered, Planned, Left
<1>7. Types'
  <2>1. job' \in [Tabs -> Jobs] /\ rows' \in Partial(Entries)
    BY <1>2, <1>3, LandRows DEF Invariant, Types
  <2>2. nextTick' \in 0..MaxTick
    BY <1>1 DEF Invariant, Types, Jobs
  <2>3. unrowed' \subseteq Keys /\ alone' \subseteq Tabs
    BY <1>1 DEF Invariant, Types
  <2> QED
    BY <1>1, <2>1, <2>2, <2>3 DEF Invariant, Types
<1>8. Turns'
  <2>1. \A s \in Tabs \ {t} : job'[s] = job[s] /\ reader'[s] = reader[s]
    BY <1>1, <1>4
  <2>2. (\A s \in Tabs : tab'[s].open = tab[s].open) /\ job[t].at # "idle"
        /\ (reader'[t].at # "idle" => reader[t].at # "idle")
    BY <1>1
  <2> HIDE DEF j
  <2> QED
    BY <1>1, <2>1, <2>2, TurnsKept DEF Invariant
<1>9. Plans'
  <2>1. ASSUME NEW s \in Tabs \ {t} PROVE PlanOf(s)'
    <3>1. job'[s].at = "idle" /\ job'[s].batch.again = {}
      BY <1>4, <1>5 DEF Invariant, Plans, PlanOf
    <3> QED
      BY <3>1, IdlePlan
  <2>2. PlanOf(t)'
    <3>1. PlanOf(t) /\ tab' = tab
      BY <1>1 DEF Invariant, Plans
    <3>2. Covered(j) \cap unrowed' = {}
      BY <1>1
    <3>3. ASSUME NEW k \in Covered(j)
          PROVE  rec'[k] = IF k \in j.victims THEN Gone ELSE j.batch.does[k]
      BY <1>1, <3>3 DEF DeletesOf
    <3>4. PlanOf(t)' <=> /\ i.batch.again = {} /\ Planned(tab[t], i)
                         /\ (i.evict => i.batch = NoBatch)
                         /\ (~i.evict => i.total <= MaxBytes \/ Left(tab[t], i) = {})
                         /\ Covered(i) \cap unrowed' = {}
                         /\ \A k \in Covered(i) : rec'[k] = IF k \in i.victims THEN Gone
                                                            ELSE i.batch.does[k]
      BY <1>2, <1>4, <3>1 DEF PlanOf
    <3>5. /\ j.batch.again = {} /\ Planned(tab[t], j) /\ (j.evict => j.batch = NoBatch)
          /\ (~j.evict => j.total <= MaxBytes \/ Left(tab[t], j) = {})
      BY <1>1, <3>1 DEF PlanOf
    <3> HIDE DEF j
    <3> QED
      BY <1>2, <1>6, <3>2, <3>3, <3>4, <3>5
  <2> QED
    BY <2>1, <2>2 DEF Plans
<1>10. \A k \in Keys : LandedOn(k)' <=> k \in Covered(j)
  <2>1. ASSUME NEW k \in Keys, LandedOn(k)' PROVE k \in Covered(j)
    <3>1. PICK s \in Tabs : job'[s].at = "landed" /\ k \in Covered(job'[s])
      BY <2>1 DEF LandedOn
    <3>2. s = t
      BY <1>4, <1>5, <3>1
    <3> QED
      BY <1>4, <1>6, <3>1, <3>2
  <2>2. ASSUME NEW k \in Covered(j) PROVE LandedOn(k)'
    BY <1>2, <1>4, <1>6, <2>2 DEF LandedOn
  <2> QED
    BY <2>1, <2>2
<1>11. \A s \in Tabs : Follows(s)' <=> Follows(s)
  BY <1>1 DEF Follows
<1> HIDE DEF j
<1>12. Told'
  <2>1. ASSUME NEW s \in Tabs, NEW u \in Tabs, NEW m \in DOMAIN chan'[s][u]
        PROVE  /\ chan'[s][u][m].cleared => \A k \in Keys : chan'[s][u][m].does[k] # Kept
               /\ \A k \in unrowed' : ~Covers(chan'[s][u][m], k)
    BY <1>1 DEF Invariant, Told
  <2>2. ASSUME NEW s \in Tabs, NEW u \in Tabs, Follows(u)', NEW k \in Keys, ~LandedOn(k)'
        PROVE  LastSays(chan'[s][u], k, rec'[k])
    <3>1. rec'[k] = rec[k] /\ chan' = chan
      BY <1>1, <1>10, <2>2
    <3>2. LastSays(chan[s][u], k, rec[k])
      BY <1>5, <1>11, <2>2 DEF Invariant, Told
    <3> QED
      BY <3>1, <3>2
  <2> QED
    BY <2>1, <2>2 DEF Told
<1>13. Right'
  <2>1. ASSUME NEW u \in Tabs, Follows(u)', NEW k \in Keys, ~Awaits(u, k)', ~LandedOn(k)'
        PROVE  RightAt(tab[u], k)'
    <3>1. rec'[k] = rec[k] /\ chan' = chan /\ tab' = tab /\ (k \in unrowed' <=> k \in unrowed)
      BY <1>1, <1>10, <2>1
    <3>2. ~Awaits(u, k)
      BY <2>1, <3>1 DEF Awaits
    <3>3. RightAt(tab[u], k)
      BY <1>5, <1>11, <2>1, <3>2 DEF Invariant, Right
    <3> QED
      BY <3>1, <3>3 DEF RightAt
  <2> QED
    BY <2>1 DEF Right
<1>14. TotalIsSum'
  BY <1>1 DEF Invariant, TotalIsSum
<1>15. RowsMatchRecords'
  BY LandRows
<1>16. Clock'
  <2>1. ASSUME t \in alone' PROVE Ahead(t)'
    <3>1. Ahead(t)
      BY <1>1, <2>1 DEF Invariant, Clock
    <3> DEFINE now == Cursor(tab[t].clock)
    <3>2. /\ (j.evict \/ j.tick < now) /\ \A k \in DOMAIN j.pending : j.pending[k].tick < now
      BY <1>1, <3>1 DEF Ahead, j
    <3>3. \A k \in DOMAIN rows' : rows'[k].tick < now
      <4>1. \A k \in DOMAIN j.pending : k \notin PutsOf(j.batch)
        BY LandFact DEF j
      <4>2. \A k \in DOMAIN rows' :
              /\ k \in DOMAIN j.pending => rows'[k] = j.pending[k]
              /\ k \in PutsOf(j.batch) => rows'[k].tick = j.tick
              /\ k \notin DOMAIN j.pending \cup PutsOf(j.batch) => k \in DOMAIN rows /\ rows'[k] = rows[k]
        BY <1>1, <4>1, RowsFact DEF Invariant, Types
      <4>3. j.evict => PutsOf(j.batch) = {}
        <5>1. j.evict => j.batch = NoBatch
          BY <1>1 DEF Invariant, Plans, PlanOf, j
        <5>2. PutsOf(NoBatch) = {}
          BY BatchAssumption DEF PutsOf, NoBatch, NoEffect
        <5> QED
          BY <5>1, <5>2
      <4>4. \A k \in DOMAIN rows : rows[k].tick < now
        BY <3>1 DEF Ahead
      <4> HIDE DEF now
      <4>5. ASSUME NEW k \in DOMAIN rows' PROVE rows'[k].tick < now
        <5>1. CASE k \in DOMAIN j.pending
          BY <3>2, <4>2, <5>1
        <5>2. CASE k \in PutsOf(j.batch)
          BY <3>2, <4>2, <4>3, <5>2
        <5>3. CASE k \notin DOMAIN j.pending \cup PutsOf(j.batch)
          BY <4>2, <4>4, <5>3
        <5> QED
          BY <5>1, <5>2, <5>3
      <4> QED
        BY <4>5
    <3>4. tab' = tab /\ chan' = chan
      BY <1>1
    <3>5. ASSUME NEW k \in DOMAIN tab[t].entries, Adopted(t, k) PROVE Adopted(t, k)'
      <4>1. tab[t].entries[k].tick = 0 /\ k \in unrowed
        BY <1>1, <3>5 DEF Adopted, j
      <4> QED
        BY <1>1, <1>2, <1>4, <1>6, <3>4, <4>1 DEF Adopted
    <3>6. \A k \in DOMAIN tab[t].entries : tab[t].entries[k].tick < now \/ Adopted(t, k)'
      BY <3>1, <3>5 DEF Ahead
    <3>7. /\ tab[t].open /\ \A s \in Tabs \ {t} : ~tab[s].open /\ chan[s][t] = <<>>
          /\ \A k \in DOMAIN tab[t].pending : tab[t].pending[k] < now
      BY <3>1 DEF Ahead
    <3>8. /\ (job'[t].evict \/ job'[t].tick < now)
          /\ \A k \in DOMAIN job'[t].pending : job'[t].pending[k].tick < now
      BY <1>2, <1>4, <3>2
    <3> QED
      BY <3>3, <3>4, <3>6, <3>7, <3>8 DEF Ahead
  <2>2. tab'[t].clock.seeded \/ tab'[t].clock.next = 0
    BY <1>1 DEF Invariant, Clock
  <2> QED
    BY <1>1, <1>5, <2>1, <2>2, ClockKept DEF Invariant
<1> QED
  BY <1>7, <1>8, <1>9, <1>12, <1>13, <1>14, <1>15, <1>16 DEF Invariant

-----------------------------------------------------------------------------
(* A commit is applied and announced.                                      *)

Announcement(j) == [does |-> [k \in Keys |-> Carried(j.batch.does[k])],
               cleared |-> j.batch.cleared, shed |-> j.victims]

(* What its announcement says of each key.                                 *)
LEMMA NewsFact ==
  ASSUME NEW j \in Jobs
  PROVE  /\ Announcement(j) \in SizeNews
         /\ Announcement(j).cleared => \A k \in Keys : Announcement(j).does[k] # Kept
         /\ \A k \in Keys : Covers(Announcement(j), k) <=> k \in Covered(j)
         /\ \A k \in Keys \ j.victims : k \in Covered(j) /\ j.batch.does[k] \in Vals \cup {Gone} =>
              Fits(Announcement(j), k, j.batch.does[k])
         /\ \A k \in j.victims : Fits(Announcement(j), k, Gone)
<1> DEFINE n == Announcement(j)
           b == j.batch
<1>1. b \in Batches /\ j.victims \subseteq Keys
  BY DEF Jobs
<1>2. /\ \A k \in Keys : b.does[k] \in Vals \cup {Gone, Kept}
      /\ b.cleared => Touched(b.does) = Keys
      /\ b.cleared \in BOOLEAN
  BY <1>1 DEF Batches, Effects
<1>3. /\ n.cleared = b.cleared /\ n.shed = j.victims
      /\ \A k \in Keys : n.does[k] = IF b.does[k] \in Mute THEN Changed ELSE b.does[k]
      /\ n.does = [k \in Keys |-> n.does[k]]
      /\ n = [does |-> n.does, cleared |-> n.cleared, shed |-> n.shed]
  BY DEF Announcement, Carried
<1> HIDE DEF n
<1>4. \A k \in Keys : n.does[k] \in Vals \cup {Gone, Kept, Changed}
  BY <1>2, <1>3
<1>5. n \in SizeNews
  <2>1. n.does \in [Keys -> Vals \cup {Gone, Kept, Changed}]
    BY <1>3, <1>4
  <2> QED
    BY <1>1, <1>2, <1>3, <2>1 DEF SizeNews
<1>6. \A k \in Keys : n.does[k] # Kept <=> b.does[k] # Kept
  BY <1>2, <1>3, BatchAssumption, CoherenceAssumption
<1>7. n.cleared => \A k \in Keys : n.does[k] # Kept
  BY <1>2, <1>3, <1>6 DEF Touched
<1>8. \A k \in Keys : Covers(n, k) <=> k \in Covered(j)
  BY <1>3, <1>6 DEF Covers, Covered, Touched
<1>9. \A k \in Keys \ j.victims : b.does[k] \in Vals \cup {Gone} => Fits(n, k, b.does[k])
  BY <1>3, BatchAssumption, CoherenceAssumption DEF Fits
<1>10. \A k \in j.victims : Fits(n, k, Gone)
  BY <1>3 DEF Fits
<1> QED
  BY <1>5, <1>7, <1>8, <1>9, <1>10 DEF n

(* apply_budget and the announcement, or the announcement lost.            *)
LEMMA FinishFact ==
  ASSUME Invariant, NEW t \in Tabs, Finish(t)
  PROVE  LET j == job[t]
             n == Announcement(j) IN
         /\ j \in Jobs /\ j.at = "landed" /\ tab[t].open /\ t \notin behind
         /\ tab' = [tab EXCEPT ![t] = Applied(@, j)] /\ job' = [job EXCEPT ![t] = NoJob]
         /\ UNCHANGED <<rec, rows, nextTick, unrowed, reader, alone>>
         /\ \A s \in Tabs \ {t} : job[s].at = "idle" /\ \A u \in Tabs : chan[s][u] = <<>>
         /\ \A u \in Tabs : u = t => chan[t][u] = <<>>
         /\ chan' \in [Tabs -> [Tabs -> Seq(SizeNews)]] /\ behind' \subseteq Tabs
         /\ t \notin behind'
         /\ \A s \in Tabs \ {t}, u \in Tabs : chan'[s][u] = chan[s][u]
         /\ \A u \in Tabs : \/ chan'[t][u] = chan[t][u]
                            \/ chan'[t][u] = Append(chan[t][u], n)
         /\ \A u \in Tabs \ {t} : Follows(u)' => Follows(u) /\ chan'[t][u] = Append(chan[t][u], n)
         /\ chan'[t][t] = chan[t][t]
<1> DEFINE j == job[t]
           n == Announcement(j)
           L == {s \in Tabs : tab[s].open}
<1>1. /\ j.at = "landed"
      /\ tab' = [tab EXCEPT ![t] = Applied(@, j)] /\ job' = [job EXCEPT ![t] = NoJob]
      /\ UNCHANGED <<rec, rows, nextTick, unrowed, reader, alone>>
      /\ \/ /\ chan' = chan /\ behind' = behind \cup {s \in Tabs : s # t /\ tab[s].open}
         \/ /\ chan' = Posted(chan, t, n, L) /\ behind' = behind
  BY DEF Finish, disk, Announcement
<1>2. /\ j \in Jobs /\ chan \in [Tabs -> [Tabs -> Seq(SizeNews)]] /\ behind \subseteq Tabs
      /\ tab \in [Tabs -> TabStates]
  BY DEF Invariant, Types
<1>3. n \in SizeNews
  <2> HIDE DEF j
  <2> QED
    BY <1>2, NewsFact
<1>4. /\ tab[t].open /\ t \notin behind /\ chan[t][t] = <<>>
      /\ \A s \in Tabs \ {t} : ~Sends(s)
  BY <1>1 DEF Invariant, Turns, Sends
<1>5. \A s \in Tabs \ {t} : job[s].at = "idle" /\ \A u \in Tabs : chan[s][u] = <<>>
  BY <1>4 DEF Sends
<1>6. \A u \in Tabs \ {t} : tab'[u].open = tab[u].open
  BY <1>1, <1>2
<1> HIDE DEF n, j
<1>7. CASE chan' = chan /\ behind' = behind \cup {s \in Tabs : s # t /\ tab[s].open}
  <2>1. \A u \in Tabs \ {t} : ~Follows(u)'
    BY <1>6, <1>7 DEF Follows
  <2> QED
    BY <1>1, <1>2, <1>4, <1>5, <1>7, <2>1 DEF j
<1>8. CASE chan' = Posted(chan, t, n, L) /\ behind' = behind
  <2>1. \A s \in Tabs \ {t}, u \in Tabs : chan'[s][u] = chan[s][u]
    BY <1>2, <1>8 DEF Posted
  <2>2. \A u \in Tabs : chan'[t][u] = IF u \in L \ {t} THEN Append(chan[t][u], n) ELSE chan[t][u]
    BY <1>2, <1>8 DEF Posted
  <2>3. chan' \in [Tabs -> [Tabs -> Seq(SizeNews)]]
    <3>1. \A u \in Tabs : Append(chan[t][u], n) \in Seq(SizeNews)
      BY <1>2, <1>3
    <3>2. [u \in Tabs |-> IF u \in L \ {t} THEN Append(chan[t][u], n) ELSE chan[t][u]]
            \in [Tabs -> Seq(SizeNews)]
      BY <1>2, <3>1
    <3> QED
      BY <1>2, <1>8, <3>2 DEF Posted
  <2>4. \A u \in Tabs \ {t} : Follows(u)' => Follows(u) /\ u \in L \ {t}
    BY <1>6, <1>8 DEF Follows
  <2> HIDE DEF L
  <2> QED
    BY <1>1, <1>2, <1>4, <1>5, <1>8, <2>1, <2>2, <2>3, <2>4 DEF j, n
<1> QED
  BY <1>1, <1>7, <1>8

(* One message more.                                                       *)
LEMMA AppendFact ==
  ASSUME NEW q \in Seq(SizeNews), NEW n \in SizeNews
  PROVE  /\ Append(q, n) \in Seq(SizeNews) /\ DOMAIN Append(q, n) = 1..(Len(q) + 1)
         /\ DOMAIN q = 1..Len(q) /\ Len(q) \in Nat
         /\ \A i \in DOMAIN q : i \in DOMAIN Append(q, n) /\ Append(q, n)[i] = q[i] /\ i < Len(q) + 1
         /\ Append(q, n)[Len(q) + 1] = n
OBVIOUS

(* After news that is last to speak of the keys it covers.                 *)
LEMMA LastSaid ==
  ASSUME NEW q \in Seq(SizeNews), NEW n \in SizeNews, NEW k, NEW v,
         Covers(n, k) => Fits(n, k, v), ~Covers(n, k) => LastSays(q, k, v)
  PROVE  LastSays(Append(q, n), k, v)
<1> DEFINE p == Append(q, n)
<1>1. /\ DOMAIN p = 1..(Len(q) + 1) /\ DOMAIN q = 1..Len(q) /\ Len(q) \in Nat
      /\ \A i \in DOMAIN q : i \in DOMAIN p /\ p[i] = q[i] /\ i < Len(q) + 1
      /\ p[Len(q) + 1] = n
  BY AppendFact
<1> HIDE DEF p
<1>2. ASSUME NEW i \in DOMAIN p, Covers(p[i], k), \A j \in DOMAIN p : j > i => ~Covers(p[j], k)
      PROVE  Fits(p[i], k, v)
  <2>1. CASE i = Len(q) + 1
    BY <1>1, <1>2, <2>1
  <2>2. CASE i # Len(q) + 1
    <3>1. i \in DOMAIN q /\ i < Len(q) + 1 /\ Len(q) + 1 \in DOMAIN p
      BY <1>1, <2>2
    <3>2. ~Covers(n, k)
      BY <1>1, <1>2, <3>1
    <3>3. \A j \in DOMAIN q : j > i => ~Covers(q[j], k)
      BY <1>1, <1>2
    <3> QED
      BY <1>1, <1>2, <3>1, <3>2, <3>3 DEF LastSays
  <2> QED
    BY <2>1, <2>2
<1> QED
  BY <1>2 DEF LastSays, p

(* A landed commit is applied and announced.                               *)
LEMMA FinishStep ==
  ASSUME Invariant, NEW t \in Tabs, Finish(t)
  PROVE  Invariant'
<1> DEFINE j == job[t]
           n == Announcement(j)
           s == tab[t]
           u == Applied(s, j)
<1>1. /\ j \in Jobs /\ j.at = "landed" /\ s.open /\ t \notin behind
      /\ tab' = [tab EXCEPT ![t] = u] /\ job' = [job EXCEPT ![t] = NoJob]
      /\ UNCHANGED <<rec, rows, nextTick, unrowed, reader, alone>>
      /\ \A v \in Tabs \ {t} : job[v].at = "idle" /\ \A w \in Tabs : chan[v][w] = <<>>
      /\ chan[t][t] = <<>>
      /\ chan' \in [Tabs -> [Tabs -> Seq(SizeNews)]] /\ behind' \subseteq Tabs
      /\ t \notin behind'
      /\ \A v \in Tabs \ {t}, w \in Tabs : chan'[v][w] = chan[v][w]
      /\ \A w \in Tabs : chan'[t][w] = chan[t][w] \/ chan'[t][w] = Append(chan[t][w], n)
      /\ \A w \in Tabs \ {t} : Follows(w)' => Follows(w) /\ chan'[t][w] = Append(chan[t][w], n)
      /\ chan'[t][t] = chan[t][t]
  BY FinishFact
<1>2. /\ Planned(s, j) /\ (j.evict => j.batch = NoBatch)
      /\ Covered(j) \cap unrowed = {}
      /\ \A k \in Covered(j) : rec[k] = IF k \in j.victims THEN Gone ELSE j.batch.does[k]
  BY <1>1 DEF Invariant, Plans, PlanOf
<1>3. Sound(s) /\ chan \in [Tabs -> [Tabs -> Seq(SizeNews)]] /\ rec \in Contents
  BY TabFact DEF Invariant, Types
<1> HIDE DEF j, s
<1>4. /\ Sound(u) /\ SameBut(s, u) /\ Balanced(u) /\ u.dirty = s.dirty
      /\ \A k \in DeletesOf(j.batch) \cup j.victims : NoneAt(u, k)
      /\ \A k \in PutsOf(j.batch) :
           /\ k \in u.index /\ k \in DOMAIN u.entries
           /\ u.entries[k].tick = j.tick /\ u.entries[k].bytes = j.batch.does[k]
      /\ \A k \in Keys \ Covered(j) : SameAt(s, u, k)
      /\ DOMAIN u.pending \subseteq DOMAIN s.pending
      /\ \A k \in DOMAIN u.pending : u.pending[k] = s.pending[k]
  BY <1>1, <1>2, <1>3, AppliedFact
<1>5. /\ n \in SizeNews
      /\ n.cleared => \A k \in Keys : n.does[k] # Kept
      /\ \A k \in Keys : Covers(n, k) <=> k \in Covered(j)
      /\ \A k \in Keys \ j.victims : k \in Covered(j) /\ j.batch.does[k] \in Vals \cup {Gone} =>
           Fits(n, k, j.batch.does[k])
      /\ \A k \in j.victims : Fits(n, k, Gone)
  BY <1>1, NewsFact
<1>6. Covered(j) = PutsOf(j.batch) \cup DeletesOf(j.batch) \cup j.victims /\ Covered(j) \subseteq Keys
  <2>1. j.batch \in Batches /\ j.victims \subseteq Keys
    BY <1>1 DEF Jobs
  <2> QED
    BY <2>1, BatchFact DEF Covered, Touched
<1> HIDE DEF n, u
<1>7. /\ tab'[t] = u /\ \A v \in Tabs \ {t} : tab'[v] = tab[v]
      /\ job'[t] = NoJob /\ \A v \in Tabs \ {t} : job'[v] = job[v]
  BY <1>1 DEF Invariant, Types
<1>8. NoJob.at = "idle" /\ NoJob.batch.again = {}
  BY DEF NoJob, NoBatch
<1>9. u.open = s.open /\ u.clock = s.clock
  BY <1>4 DEF SameBut
<1>10. \A v \in Tabs : tab'[v].open = tab[v].open
  BY <1>7, <1>9 DEF s
<1>11. Types'
  <2>1. tab' \in [Tabs -> TabStates] /\ job' \in [Tabs -> Jobs]
    BY <1>1, <1>4, NoneFact DEF Invariant, Types, Sound
  <2>2. \A v \in Tabs : DOMAIN tab'[v].pending \subseteq DOMAIN tab'[v].entries
    BY <1>4, <1>7 DEF Invariant, Types, Sound
  <2> QED
    BY <1>1, <2>1, <2>2 DEF Invariant, Types
<1>12. Turns'
  <2>1. ASSUME NEW v \in Tabs \ {t} PROVE ~Sends(v)'
    <3>a. \A w \in Tabs : chan[v][w] = <<>>
      BY <1>1
    <3>b. \A w \in Tabs : chan'[v][w] = chan[v][w]
      BY <1>1
    <3>1. \A w \in Tabs : chan'[v][w] = <<>>
      BY <3>a, <3>b
    <3>2. job'[v].at = "idle"
      BY <1>1, <1>7
    <3> QED
      BY <3>1, <3>2 DEF Sends
  <2>2. ASSUME NEW v \in Tabs
        PROVE  /\ chan'[v][v] = <<>>
               /\ job'[v].at # "idle" => tab'[v].open /\ v \notin behind'
               /\ reader'[v].at # "idle" => tab'[v].open
    <3>1. /\ chan[v][v] = <<>>
          /\ job[v].at # "idle" => tab[v].open /\ v \notin behind
          /\ reader[v].at # "idle" => tab[v].open
      BY DEF Invariant, Turns
    <3>2. chan'[v][v] = <<>>
      <4>1. chan'[t][t] = chan[t][t] /\ \A w \in Tabs \ {t} : chan'[w][w] = chan[w][w]
        BY <1>1
      <4> QED
        BY <3>1, <4>1
    <3>3. job'[v].at # "idle" => tab'[v].open /\ v \notin behind'
      BY <1>1, <1>7, <1>8, <1>10, <3>1
    <3>4. reader'[v].at # "idle" => tab'[v].open
      BY <1>1, <1>10, <3>1
    <3> QED
      BY <3>2, <3>3, <3>4
  <2> QED
    BY <2>1, <2>2 DEF Turns
<1>13. Plans'
  <2>1. PlanOf(t)'
    BY <1>7, <1>8, IdlePlan
  <2> QED
    BY <1>1, <1>7, <1>11, <2>1, OthersPlansKept DEF Invariant
<1>14. \A k \in Keys : LandedOn(k) <=> k \in Covered(j)
  BY <1>1 DEF LandedOn, j
<1>15. \A k \in Keys : ~LandedOn(k)'
  BY <1>1, <1>7, <1>8 DEF LandedOn
<1>16. Told'
  <2>1. ASSUME NEW v \in Tabs, NEW w \in Tabs, NEW i \in DOMAIN chan'[v][w]
        PROVE  /\ chan'[v][w][i].cleared => \A k \in Keys : chan'[v][w][i].does[k] # Kept
               /\ \A k \in unrowed' : ~Covers(chan'[v][w][i], k)
    <3>1. CASE chan'[v][w] = chan[v][w]
      BY <1>1, <2>1, <3>1 DEF Invariant, Told
    <3>2. CASE v = t /\ chan'[t][w] = Append(chan[t][w], n)
      <4> DEFINE q == chan[t][w]
                 p == Append(q, n)
      <4>1. q \in Seq(SizeNews)
        BY <1>3
      <4>2. /\ DOMAIN p = 1..(Len(q) + 1) /\ DOMAIN q = 1..Len(q) /\ Len(q) \in Nat
            /\ \A m \in DOMAIN q : m \in DOMAIN p /\ p[m] = q[m] /\ m < Len(q) + 1
            /\ p[Len(q) + 1] = n
        BY <1>5, <4>1, AppendFact
      <4>3. i \in DOMAIN p /\ chan'[v][w][i] = p[i]
        BY <2>1, <3>2
      <4>4. unrowed \subseteq Keys /\ unrowed' = unrowed
        BY <1>1 DEF Invariant, Types
      <4>5. \A m \in DOMAIN q : /\ q[m].cleared => \A k \in Keys : q[m].does[k] # Kept
                                /\ \A k \in unrowed : ~Covers(q[m], k)
        BY DEF Invariant, Told
      <4> HIDE DEF p, q
      <4>6. CASE i = Len(q) + 1
        <5>1. chan'[v][w][i] = n
          BY <4>2, <4>3, <4>6
        <5>2. \A k \in unrowed : ~Covers(n, k)
          BY <1>2, <1>5, <4>4
        <5> QED
          BY <1>5, <4>4, <5>1, <5>2
      <4>7. CASE i # Len(q) + 1
        <5>1. i \in DOMAIN q
          BY <4>2, <4>3, <4>7
        <5>2. chan'[v][w][i] = q[i]
          BY <4>2, <4>3, <5>1
        <5> QED
          BY <4>4, <4>5, <5>1, <5>2
      <4> QED
        BY <4>6, <4>7
    <3> QED
      BY <1>1, <3>1, <3>2
  <2>2. ASSUME NEW v \in Tabs, NEW w \in Tabs, Follows(w)', NEW k \in Keys, ~LandedOn(k)'
        PROVE  LastSays(chan'[v][w], k, rec'[k])
    <3>1. CASE v # t \/ w = t
      <4>1. v # t => chan'[v][w] = chan[v][w] /\ chan[v][w] = <<>>
        BY <1>1
      <4>2. v = t => chan'[v][w] = chan[t][t] /\ chan[t][t] = <<>>
        BY <1>1, <3>1
      <4>3. chan'[v][w] = <<>>
        BY <4>1, <4>2
      <4> QED
        BY <4>3 DEF LastSays
    <3>2. CASE v = t /\ w # t
      <4>1. Follows(w) /\ chan'[t][w] = Append(chan[t][w], n) /\ rec' = rec
        BY <1>1, <2>2, <3>2
      <4>2. chan[t][w] \in Seq(SizeNews) /\ n \in SizeNews
        BY <1>3, <1>5
      <4>3. Covers(n, k) => Fits(n, k, rec[k])
        <5>1. SUFFICES ASSUME k \in Covered(j) PROVE Fits(n, k, rec[k])
          BY <1>5
        <5>2. CASE k \in j.victims
          BY <1>2, <1>5, <5>1, <5>2
        <5>3. CASE k \notin j.victims
          <6>1. rec[k] = j.batch.does[k] /\ rec[k] \in Vals \cup {Gone}
            BY <1>2, <1>3, <5>1, <5>3 DEF Contents
          <6> QED
            BY <1>5, <5>1, <5>3, <6>1
        <5> QED
          BY <5>2, <5>3
      <4>4. ~Covers(n, k) => LastSays(chan[t][w], k, rec[k])
        <5>1. ~Covers(n, k) => ~LandedOn(k)
          BY <1>5, <1>14
        <5> QED
          BY <4>1, <5>1 DEF Invariant, Told
      <4>5. LastSays(Append(chan[t][w], n), k, rec[k])
        BY <4>2, <4>3, <4>4, LastSaid
      <4> QED
        BY <3>2, <4>1, <4>5
    <3> QED
      BY <3>1, <3>2
  <2> QED
    BY <2>1, <2>2 DEF Told
<1>17. Right'
  <2>1. ASSUME NEW k \in Keys PROVE RightAt(u, k)
    <3>1. CASE k \in PutsOf(j.batch)
      <4>1. k \in Covered(j)
        BY <1>6, <3>1
      <4>2. j.batch.does[k] \in Vals /\ j.batch.does[k] # Kept /\ j.batch.does[k] # Gone
        BY <3>1, BatchAssumption DEF PutsOf
      <4>3. k \in Touched(j.batch.does)
        BY <4>2 DEF Touched
      <4>4. k \notin j.victims
        BY <1>2, <4>3 DEF Planned
      <4>5. k \notin unrowed
        BY <1>2, <4>1
      <4>6. rec[k] = j.batch.does[k]
        BY <1>2, <4>1, <4>4
      <4>7. k \in u.index /\ k \in DOMAIN u.entries /\ u.entries[k].bytes = j.batch.does[k]
        BY <1>4, <3>1
      <4> QED
        BY <4>2, <4>5, <4>6, <4>7 DEF RightAt
    <3>2. CASE k \in DeletesOf(j.batch) \cup j.victims
      <4>1. k \in Covered(j)
        BY <1>6, <3>2
      <4>2. rec[k] = Gone
        BY <1>2, <3>2, <4>1 DEF DeletesOf
      <4>3. NoneAt(u, k)
        BY <1>4, <3>2
      <4> QED
        BY <4>2, <4>3 DEF RightAt, NoneAt
    <3>3. CASE k \notin Covered(j)
      <4>1. SameAt(s, u, k) /\ u.dirty = s.dirty
        BY <1>4, <3>3
      <4>2. RightAt(s, k)
        <5>1. ~LandedOn(k)
          BY <1>14, <3>3
        <5>2. ~Awaits(t, k)
          <6>1. \A v \in Tabs : chan[v][t] = <<>>
            BY <1>1
          <6> QED
            BY <6>1 DEF Awaits
        <5>3. Follows(t)
          BY <1>1 DEF Follows, s
        <5> QED
          BY <5>1, <5>2, <5>3 DEF Invariant, Right, s
      <4> QED
        BY <4>1, <4>2 DEF RightAt, SameAt
    <3> QED
      BY <1>6, <3>1, <3>2, <3>3
  <2>2. ASSUME NEW w \in Tabs, Follows(w)', NEW k \in Keys, ~Awaits(w, k)'
        PROVE  RightAt(tab[w], k)'
    <3>1. CASE w = t
      BY <1>1, <1>7, <2>1, <3>1 DEF RightAt
    <3>2. CASE w # t
      <4>1. Follows(w) /\ chan'[t][w] = Append(chan[t][w], n)
        BY <1>1, <2>2, <3>2
      <4> DEFINE q == chan[t][w]
                 p == Append(q, n)
      <4>2. /\ q \in Seq(SizeNews) /\ DOMAIN p = 1..(Len(q) + 1) /\ Len(q) \in Nat
            /\ \A m \in DOMAIN q : m \in DOMAIN p /\ p[m] = q[m]
            /\ p[Len(q) + 1] = n
        BY <1>3, <1>5, AppendFact
      <4>3. \A i \in DOMAIN p : ~Covers(p[i], k)
        BY <2>2, <4>1 DEF Awaits
      <4> HIDE DEF p, q
      <4>4. ~Covers(n, k)
        <5>1. Len(q) + 1 \in DOMAIN p
          BY <4>2
        <5> QED
          BY <4>2, <4>3, <5>1
      <4>5. ~Awaits(w, k)
        <5>1. \A i \in DOMAIN q : ~Covers(q[i], k)
          BY <4>2, <4>3
        <5>2. \A v \in Tabs \ {t} : chan[v][w] = <<>>
          BY <1>1
        <5> QED
          BY <5>1, <5>2 DEF Awaits, q
      <4>6. ~LandedOn(k)
        BY <1>5, <1>14, <4>4
      <4>7. RightAt(tab[w], k)
        BY <4>1, <4>5, <4>6 DEF Invariant, Right
      <4> QED
        BY <1>1, <1>7, <3>2, <4>7 DEF RightAt
    <3> QED
      BY <3>1, <3>2
  <2> QED
    BY <2>2 DEF Right
<1>18. TotalIsSum'
  BY <1>4, <1>7 DEF Invariant, TotalIsSum, Balanced
<1>19. RowsMatchRecords'
  BY <1>1 DEF Invariant, RowsMatchRecords, StoredIn
<1>20. Clock'
  <2>1. ASSUME t \in alone' PROVE Ahead(t)'
    <3>1. Ahead(t) /\ s = tab[t] /\ j = job[t]
      BY <1>1, <2>1 DEF Invariant, Clock, s, j
    <3> DEFINE now == Cursor(s.clock)
    <3>2. Cursor(tab'[t].clock) = now
      BY <1>7, <1>9
    <3>3. \A k \in DOMAIN rows' : rows'[k].tick < now
      BY <1>1, <3>1 DEF Ahead
    <3>4. ASSUME NEW k \in DOMAIN u.entries PROVE u.entries[k].tick < now \/ Adopted(t, k)'
      <4>1. k \in Keys
        <5>1. u.entries \in Partial(Entries)
          BY <1>4 DEF Sound, TabStates
        <5> HIDE DEF now
        <5> QED
          BY <5>1, PartialValue
      <4>2. CASE k \in PutsOf(j.batch)
        <5>1. ~j.evict
          <6>1. PutsOf(NoBatch) = {}
            BY BatchAssumption DEF PutsOf, NoBatch, NoEffect
          <6> QED
            BY <1>2, <4>2, <6>1
        <5>2. j.tick < now
          BY <1>1, <3>1, <5>1 DEF Ahead
        <5> QED
          BY <1>4, <4>2, <5>2
      <4>3. CASE k \in DeletesOf(j.batch) \cup j.victims
        BY <1>4, <3>4, <4>3 DEF NoneAt
      <4>4. CASE k \notin Covered(j)
        <5>1. k \in DOMAIN s.entries /\ u.entries[k] = s.entries[k]
          BY <1>4, <3>4, <4>1, <4>4 DEF SameAt
        <5>2. s.entries[k].tick < now \/ Adopted(t, k)
          BY <3>1, <5>1 DEF Ahead
        <5>3. Adopted(t, k) => s.entries[k].tick = 0 /\ k \in unrowed
          BY <3>1, <4>4 DEF Adopted
        <5> HIDE DEF now
        <5> QED
          BY <1>1, <1>7, <5>1, <5>2, <5>3 DEF Adopted
      <4> QED
        BY <1>6, <4>2, <4>3, <4>4
    <3>5. ASSUME NEW k \in DOMAIN u.pending PROVE u.pending[k] < now
      <4>1. k \in DOMAIN s.pending /\ u.pending[k] = s.pending[k]
        BY <1>4, <3>5
      <4> QED
        BY <3>1, <4>1 DEF Ahead
    <3>6. tab'[t].open /\ \A v \in Tabs \ {t} : ~tab'[v].open /\ chan'[v][t] = <<>>
      BY <1>1, <1>10, <3>1 DEF Ahead
    <3>7. job'[t].at = "idle"
      BY <1>7, <1>8
    <3> HIDE DEF now
    <3> QED
      BY <1>7, <3>2, <3>3, <3>4, <3>5, <3>6, <3>7 DEF Ahead
  <2>2. tab'[t].clock.seeded \/ tab'[t].clock.next = 0
    BY <1>7, <1>9 DEF Invariant, Clock, s
  <2>3. tab[t].open /\ alone' \subseteq alone
    BY <1>1 DEF s
  <2> QED
    BY <1>7, <2>1, <2>2, <2>3, ClockKept DEF Invariant
<1> QED
  BY <1>11, <1>12, <1>13, <1>16, <1>17, <1>18, <1>19, <1>20 DEF Invariant

(* One message less.                                                       *)
LEMMA TailFact ==
  ASSUME NEW q \in Seq(SizeNews), q # <<>>
  PROVE  /\ Head(q) \in SizeNews /\ Tail(q) \in Seq(SizeNews)
         /\ Len(q) \in Nat /\ DOMAIN q = 1..Len(q) /\ 1 \in DOMAIN q /\ q[1] = Head(q)
         /\ DOMAIN Tail(q) = 1..(Len(q) - 1)
         /\ \A i \in DOMAIN Tail(q) : i + 1 \in DOMAIN q /\ Tail(q)[i] = q[i + 1]
         /\ \A i \in DOMAIN q : i # 1 => i - 1 \in DOMAIN Tail(q) /\ Tail(q)[i - 1] = q[i]
OBVIOUS

(* What is left to hear once the first news has been heard.                *)
LEMMA StillSaid ==
  ASSUME NEW q \in Seq(SizeNews), q # <<>>, NEW k, NEW v, LastSays(q, k, v)
  PROVE  /\ LastSays(Tail(q), k, v)
         /\ Covers(Head(q), k) /\ (\A i \in DOMAIN Tail(q) : ~Covers(Tail(q)[i], k))
            => Fits(Head(q), k, v)
<1> DEFINE p == Tail(q)
<1>1. /\ Len(q) \in Nat /\ DOMAIN q = 1..Len(q) /\ 1 \in DOMAIN q /\ q[1] = Head(q)
      /\ DOMAIN p = 1..(Len(q) - 1)
      /\ \A i \in DOMAIN p : i + 1 \in DOMAIN q /\ p[i] = q[i + 1]
      /\ \A i \in DOMAIN q : i # 1 => i - 1 \in DOMAIN p /\ p[i - 1] = q[i]
  BY TailFact
<1> HIDE DEF p
<1>2. ASSUME NEW i \in DOMAIN p, Covers(p[i], k), \A j \in DOMAIN p : j > i => ~Covers(p[j], k)
      PROVE  Fits(p[i], k, v)
  <2>1. i + 1 \in DOMAIN q /\ p[i] = q[i + 1] /\ i \in Nat /\ i >= 1
    BY <1>1
  <2>2. ASSUME NEW j \in DOMAIN q, j > i + 1 PROVE ~Covers(q[j], k)
    <3>1. j # 1 /\ j - 1 > i /\ j - 1 \in DOMAIN p /\ p[j - 1] = q[j]
      BY <1>1, <2>1, <2>2
    <3> QED
      BY <1>2, <3>1
  <2>3. Covers(q[i + 1], k)
    BY <1>2, <2>1
  <2>4. Fits(q[i + 1], k, v)
    BY <2>1, <2>2, <2>3 DEF LastSays
  <2> QED
    BY <2>1, <2>4
<1>3. ASSUME Covers(Head(q), k), \A i \in DOMAIN p : ~Covers(p[i], k)
      PROVE  Fits(Head(q), k, v)
  <2>1. ASSUME NEW j \in DOMAIN q, j > 1 PROVE ~Covers(q[j], k)
    <3>1. j - 1 \in DOMAIN p /\ p[j - 1] = q[j]
      BY <1>1, <2>1
    <3> QED
      BY <1>3, <3>1
  <2> QED
    BY <1>1, <1>3, <2>1 DEF LastSays
<1> QED
  BY <1>2, <1>3 DEF LastSays, p

(* A key the news is about is accounted for as the news says.              *)
LEMMA FollowsRight ==
  ASSUME NEW n, NEW u, NEW k, Follow(n, u, k), Fits(n, k, rec[k]), k \notin unrowed
  PROVE  RightAt(u, k)
<1>1. CASE k \in n.shed \/ n.does[k] = Gone
  <2>1. NoneAt(u, k) /\ rec[k] = Gone
    BY <1>1 DEF Follow, Fits, ChangedAt
  <2> QED
    BY <2>1 DEF RightAt, NoneAt
<1>2. CASE k \notin n.shed /\ n.does[k] # Gone
  <2>1. /\ k \in u.index /\ k \in DOMAIN u.entries
        /\ u.dirty \/ (n.does[k] # Changed /\ u.entries[k].bytes = n.does[k])
    BY <1>2 DEF Follow, ChangedAt
  <2>2. rec[k] \in Vals /\ (n.does[k] = rec[k] \/ n.does[k] = Changed)
    BY <1>2 DEF Fits
  <2>3. rec[k] # Gone
    BY <2>2, BatchAssumption
  <2> QED
    BY <2>1, <2>2, <2>3 DEF RightAt
<1> QED
  BY <1>1, <1>2

(* LazySink::apply.                                                        *)
LEMMA HearStep ==
  ASSUME Invariant, NEW s \in Tabs, NEW t \in Tabs, Hear(s, t)
  PROVE  Invariant'
<1> DEFINE q == chan[s][t]
           n == Head(q)
           u == IF tab[t].open THEN Absorbed(tab[t], n) ELSE tab[t]
<1>1. /\ q # <<>> /\ tab' = [tab EXCEPT ![t] = u]
      /\ chan' = [chan EXCEPT ![s][t] = Tail(q)]
      /\ UNCHANGED <<rec, rows, nextTick, unrowed, job, reader, alone, behind>>
  BY DEF Hear, Heard, disk
<1>2. /\ chan \in [Tabs -> [Tabs -> Seq(SizeNews)]] /\ q \in Seq(SizeNews)
      /\ tab \in [Tabs -> TabStates] /\ Sound(tab[t])
  BY TabFact DEF Invariant, Types
<1>3. n \in SizeNews /\ Tail(q) \in Seq(SizeNews) /\ 1 \in DOMAIN q /\ q[1] = n
  BY <1>1, <1>2, TailFact
<1>4. s # t /\ Sends(s)
  BY <1>1 DEF Invariant, Turns, Sends
<1>5. \A v \in Tabs \ {s} : ~Sends(v)
  BY <1>4 DEF Invariant, Turns
<1>6. job[t].at = "idle" /\ job[t].batch.again = {} /\ \A v \in Tabs \ {s}, w \in Tabs : chan[v][w] = <<>>
  BY <1>4, <1>5 DEF Sends, Invariant, Plans, PlanOf
<1>7. n.cleared => \A k \in Keys : n.does[k] # Kept
  BY <1>3 DEF Invariant, Told
<1>8. \A k \in unrowed : ~Covers(n, k)
  BY <1>3 DEF Invariant, Told
<1>9. /\ Sound(u) /\ SameBut(tab[t], u)
      /\ Balanced(tab[t]) => Balanced(u)
      /\ tab[t].open => \A k \in Keys : Covers(n, k) => Follow(n, u, k)
      /\ tab[t].open => \A k \in Keys : ~Covers(n, k) => SameAt(tab[t], u, k) /\ (tab[t].dirty => u.dirty)
  <2>1. CASE tab[t].open
    <3>1. u = Absorbed(tab[t], n)
      BY <2>1
    <3> HIDE DEF u, n
    <3> QED
      BY <1>2, <1>3, <1>7, <2>1, <3>1, AbsorbedFact
  <2>2. CASE ~tab[t].open
    BY <1>2, <2>2 DEF SameBut
  <2> QED
    BY <2>1, <2>2
<1>10. ~tab[t].open => u = tab[t]
  OBVIOUS
<1> HIDE DEF u, n
<1>11. tab'[t] = u /\ \A v \in Tabs \ {t} : tab'[v] = tab[v]
  BY <1>1, <1>2
<1>12. /\ chan'[s][t] = Tail(q)
       /\ \A v \in Tabs, w \in Tabs : v # s \/ w # t => chan'[v][w] = chan[v][w]
  BY <1>1, <1>2
<1>13. chan' \in [Tabs -> [Tabs -> Seq(SizeNews)]]
  BY <1>1, <1>2, <1>3
<1> HIDE DEF q
<1>14. u.open = tab[t].open /\ u.clock = tab[t].clock
  BY <1>9 DEF SameBut
<1>15. \A v \in Tabs : tab'[v].open = tab[v].open /\ tab'[v].clock = tab[v].clock
  BY <1>11, <1>14
<1>16. Types'
  <2>1. tab' \in [Tabs -> TabStates]
    BY <1>1, <1>2, <1>9 DEF Sound
  <2>2. \A v \in Tabs : DOMAIN tab'[v].pending \subseteq DOMAIN tab'[v].entries
    BY <1>9, <1>11 DEF Invariant, Types, Sound
  <2> QED
    BY <1>1, <1>13, <2>1, <2>2 DEF Invariant, Types
<1>17. Turns'
  <2>1. ASSUME NEW v \in Tabs \ {s} PROVE ~Sends(v)'
    <3>1. \A w \in Tabs : chan'[v][w] = <<>>
      BY <1>6, <1>12
    <3>2. job'[v].at = "idle"
      BY <1>1, <1>5 DEF Sends
    <3> QED
      BY <3>1, <3>2 DEF Sends
  <2>2. ASSUME NEW v \in Tabs
        PROVE  /\ chan'[v][v] = <<>>
               /\ job'[v].at # "idle" => tab'[v].open /\ v \notin behind'
               /\ reader'[v].at # "idle" => tab'[v].open
    <3>1. chan'[v][v] = chan[v][v]
      BY <1>4, <1>12
    <3> QED
      BY <1>1, <1>15, <3>1 DEF Invariant, Turns
  <2> QED
    BY <2>1, <2>2 DEF Turns
<1>18. Plans'
  <2>1. PlanOf(t)'
    BY <1>1, <1>6, IdlePlan
  <2> QED
    BY <1>1, <1>11, <1>16, <2>1, OthersPlansKept DEF Invariant
<1>19. \A k \in Keys : LandedOn(k)' <=> LandedOn(k)
  BY <1>1 DEF LandedOn
<1>20. \A v \in Tabs : Follows(v)' <=> Follows(v)
  BY <1>1, <1>15 DEF Follows
<1>21. Told'
  <2>1. ASSUME NEW v \in Tabs, NEW w \in Tabs, NEW i \in DOMAIN chan'[v][w]
        PROVE  /\ chan'[v][w][i].cleared => \A k \in Keys : chan'[v][w][i].does[k] # Kept
               /\ \A k \in unrowed' : ~Covers(chan'[v][w][i], k)
    <3>1. \E m \in DOMAIN chan[v][w] : chan'[v][w][i] = chan[v][w][m]
      <4>1. CASE v = s /\ w = t
        <5>1. i \in DOMAIN Tail(q)
          BY <1>12, <2>1, <4>1
        <5>2. i + 1 \in DOMAIN q /\ Tail(q)[i] = q[i + 1]
          BY <1>1, <1>2, <5>1, TailFact
        <5> QED
          BY <1>12, <4>1, <5>2 DEF q
      <4>2. CASE v # s \/ w # t
        BY <1>12, <2>1, <4>2
      <4> QED
        BY <4>1, <4>2
    <3>2. PICK m \in DOMAIN chan[v][w] : chan'[v][w][i] = chan[v][w][m]
      BY <3>1
    <3>3. /\ chan[v][w][m].cleared => \A k \in Keys : chan[v][w][m].does[k] # Kept
          /\ \A k \in unrowed : ~Covers(chan[v][w][m], k)
      BY DEF Invariant, Told
    <3> QED
      BY <1>1, <3>2, <3>3
  <2>2. ASSUME NEW v \in Tabs, NEW w \in Tabs, Follows(w)', NEW k \in Keys, ~LandedOn(k)'
        PROVE  LastSays(chan'[v][w], k, rec'[k])
    <3>1. LastSays(chan[v][w], k, rec[k])
      BY <1>19, <1>20, <2>2 DEF Invariant, Told
    <3>2. CASE v = s /\ w = t
      <4>1. LastSays(q, k, rec[k])
        BY <3>1, <3>2 DEF q
      <4>2. LastSays(Tail(q), k, rec[k])
        BY <1>1, <1>2, <4>1, StillSaid
      <4> QED
        BY <1>1, <1>12, <3>2, <4>2
    <3>3. CASE v # s \/ w # t
      BY <1>1, <1>12, <3>1, <3>3
    <3> QED
      BY <3>2, <3>3
  <2> QED
    BY <2>1, <2>2 DEF Told
<1>22. Right'
  <2>1. ASSUME NEW w \in Tabs, Follows(w)', NEW k \in Keys, ~Awaits(w, k)', ~LandedOn(k)'
        PROVE  RightAt(tab[w], k)'
    <3>1. Follows(w) /\ ~LandedOn(k)
      BY <1>19, <1>20, <2>1
    <3>2. CASE w # t
      <4>1. \A v \in Tabs : chan'[v][w] = chan[v][w]
        BY <1>12, <3>2
      <4>2. ~Awaits(w, k)
        BY <2>1, <4>1 DEF Awaits
      <4>3. RightAt(tab[w], k)
        BY <3>1, <4>2 DEF Invariant, Right
      <4> QED
        BY <1>1, <1>11, <3>2, <4>3 DEF RightAt
    <3>3. CASE w = t
      <4>1. tab[t].open
        BY <3>1, <3>3 DEF Follows
      <4>2. \A i \in DOMAIN Tail(q) : ~Covers(Tail(q)[i], k)
        BY <1>12, <2>1, <3>3 DEF Awaits
      <4>3. CASE Covers(n, k)
        <5>1. LastSays(q, k, rec[k])
          BY <3>1, <3>3 DEF Invariant, Told, q
        <5>2. Fits(n, k, rec[k])
          BY <1>1, <1>2, <4>2, <4>3, <5>1, StillSaid DEF n
        <5>3. Follow(n, u, k) /\ k \notin unrowed
          BY <1>8, <1>9, <4>1, <4>3
        <5>4. RightAt(u, k)
          BY <5>2, <5>3, FollowsRight
        <5> QED
          BY <1>1, <1>11, <3>3, <5>4 DEF RightAt
      <4>4. CASE ~Covers(n, k)
        <5>1. ASSUME NEW i \in DOMAIN q PROVE ~Covers(q[i], k)
          <6>1. CASE i = 1
            BY <1>3, <4>4, <6>1
          <6>2. CASE i # 1
            <7>1. i - 1 \in DOMAIN Tail(q) /\ Tail(q)[i - 1] = q[i]
              BY <1>1, <1>2, <6>2, TailFact
            <7> QED
              BY <4>2, <7>1
          <6> QED
            BY <6>1, <6>2
        <5>2. ASSUME NEW v \in Tabs, NEW i \in DOMAIN chan[v][t] PROVE ~Covers(chan[v][t][i], k)
          <6>1. CASE v = s
            BY <5>1, <5>2, <6>1 DEF q
          <6>2. CASE v # s
            <7>1. chan[v][t] = <<>>
              BY <1>6, <6>2
            <7> QED
              BY <5>2, <7>1
          <6> QED
            BY <6>1, <6>2
        <5>3. ~Awaits(t, k)
          BY <5>2 DEF Awaits
        <5>4. RightAt(tab[t], k)
          BY <3>1, <3>3, <5>3 DEF Invariant, Right
        <5>5. SameAt(tab[t], u, k) /\ (tab[t].dirty => u.dirty)
          BY <1>9, <4>1, <4>4
        <5>6. RightAt(u, k)
          BY <5>4, <5>5 DEF RightAt, SameAt
        <5> QED
          BY <1>1, <1>11, <3>3, <5>6 DEF RightAt
      <4> QED
        BY <4>3, <4>4
    <3> QED
      BY <3>2, <3>3
  <2> QED
    BY <2>1 DEF Right
<1>23. TotalIsSum'
  BY <1>9, <1>11, <1>14 DEF Invariant, TotalIsSum, Balanced
<1>24. RowsMatchRecords'
  BY <1>1 DEF Invariant, RowsMatchRecords, StoredIn
<1>25. Clock'
  <2>1. ASSUME NEW v \in alone' PROVE Ahead(v)'
    <3>1. Ahead(v) /\ v \in Tabs
      BY <1>1, <2>1 DEF Invariant, Clock, Types
    <3>2. v # t
      <4>1. v = t => chan[s][t] = <<>>
        BY <1>4, <3>1 DEF Ahead
      <4> QED
        BY <1>1, <4>1 DEF q
    <3>3. tab'[v] = tab[v] /\ \A w \in Tabs : chan'[w][v] = chan[w][v]
      BY <1>11, <1>12, <3>1, <3>2
    <3>4. rows' = rows /\ job' = job /\ unrowed' = unrowed
      BY <1>1
    <3>5. \A w \in Tabs \ {v} : ~tab'[w].open /\ chan'[w][v] = <<>>
      <4>1. \A w \in Tabs \ {v} : ~tab[w].open /\ chan[w][v] = <<>>
        BY <3>1 DEF Ahead
      <4> QED
        BY <1>15, <3>3, <4>1
    <3>6. \A k \in DOMAIN tab[v].entries : Adopted(v, k)' <=> Adopted(v, k)
      BY <3>3, <3>4 DEF Adopted
    <3> QED
      BY <3>1, <3>3, <3>4, <3>5, <3>6 DEF Ahead
  <2>2. \A v \in Tabs : tab'[v].clock.seeded \/ tab'[v].clock.next = 0
    BY <1>15 DEF Invariant, Clock
  <2> QED
    BY <2>1, <2>2 DEF Clock
<1> QED
  BY <1>16, <1>17, <1>18, <1>21, <1>22, <1>23, <1>24, <1>25 DEF Invariant

(* What is found agrees with itself.                                       *)
LEMMA InitStep == Init => Invariant
<1> SUFFICES ASSUME Init PROVE Invariant
  OBVIOUS
<1>1. PICK f \in Found : /\ rec = f.rec /\ rows = f.rows /\ nextTick = f.next
                         /\ unrowed = StoredIn(f.rec) \ DOMAIN f.rows
  BY DEF Init
<1>2. /\ tab = [t \in Tabs |-> NewTab] /\ job = [t \in Tabs |-> NoJob]
      /\ reader = [t \in Tabs |-> NoRead] /\ chan = NoNews /\ alone = {} /\ behind = {}
  BY DEF Init
<1>3. /\ f.rec \in Contents /\ f.rows \in [DOMAIN f.rows -> Entries] /\ f.next \in 0..MaxTick
      /\ DOMAIN f.rows \subseteq StoredIn(f.rec)
      /\ \A k \in DOMAIN f.rows : f.rows[k].bytes = f.rec[k]
  BY FoundAssumption
<1>4. rec \in Contents /\ rows \in Partial(Entries) /\ nextTick \in 0..MaxTick
  <2>1. DOMAIN f.rows \subseteq Keys
    BY <1>3 DEF StoredIn
  <2>2. f.rows \in Partial(Entries)
    BY <1>3, <2>1, PartialFact
  <2> QED
    BY <1>1, <1>3, <2>2
<1>5. /\ NoJob.at = "idle" /\ NoJob.batch.again = {} /\ NoRead.at = "idle"
      /\ ~NewTab.open /\ NewTab.clock.next = 0
  BY DEF NoJob, NoBatch, NoRead, NewTab, ClockOf
<1>6. \A s, t \in Tabs : chan[s][t] = <<>>
  BY <1>2 DEF NoNews
<1>7. \A t \in Tabs : tab[t] = NewTab /\ job[t] = NoJob /\ reader[t] = NoRead
  BY <1>2
<1>8. Types
  <2>1. chan \in [Tabs -> [Tabs -> Seq(SizeNews)]]
    BY <1>2 DEF NoNews
  <2>2. unrowed \subseteq Keys
    BY <1>1 DEF StoredIn
  <2> QED
    BY <1>2, <1>4, <2>1, <2>2, NoneFact DEF Types
<1>9. Turns
  BY <1>5, <1>6, <1>7 DEF Turns, Sends
<1>10. Plans
  BY <1>5, <1>7 DEF Plans, PlanOf
<1>11. \A t \in Tabs : ~Follows(t)
  BY <1>5, <1>7 DEF Follows
<1>12. Told
  BY <1>6, <1>11 DEF Told
<1>13. Right
  BY <1>11 DEF Right
<1>14. TotalIsSum
  BY <1>5, <1>7 DEF TotalIsSum
<1>15. RowsMatchRecords
  <2>1. \A k \in DOMAIN rows : /\ rec[k] # Gone /\ k \notin unrowed /\ rows[k].bytes = rec[k]
    BY <1>1, <1>3 DEF StoredIn
  <2>2. \A k \in StoredIn(rec) \ unrowed : k \in DOMAIN rows
    BY <1>1
  <2> QED
    BY <2>1, <2>2 DEF RowsMatchRecords
<1>16. Clock
  BY <1>2, <1>5, <1>7 DEF Clock
<1> QED
  BY <1>8, <1>9, <1>10, <1>12, <1>13, <1>14, <1>15, <1>16 DEF Invariant

(* Every step keeps the invariant.                                         *)
LEMMA NextStep ==
  ASSUME Callers, Invariant, [Next]_vars
  PROVE  Invariant'
<1>1. CASE UNCHANGED vars
  <2>1. /\ UNCHANGED <<rec, rows, nextTick, tab, job, reader, chan, unrowed, alone, behind>>
    BY <1>1 DEF vars
  <2>2. Types' /\ Turns' /\ Told' /\ Right' /\ TotalIsSum' /\ RowsMatchRecords'
    <3>1. Types' /\ Turns'
      BY <2>1 DEF Invariant, Types, Turns, Sends
    <3>2. Told'
      BY <2>1 DEF Invariant, Told, Follows, LandedOn
    <3>3. Right'
      BY <2>1 DEF Invariant, Right, RightAt, Follows, Awaits, LandedOn
    <3> QED
      BY <2>1, <3>1, <3>2, <3>3 DEF Invariant, TotalIsSum, RowsMatchRecords, StoredIn
  <2>3. Plans'
    BY <2>1 DEF Invariant, Plans, PlanOf, BytesIn
  <2>4. Clock'
    BY <2>1 DEF Invariant, Clock, Ahead, Adopted
  <2> QED
    BY <2>2, <2>3, <2>4 DEF Invariant
<1>2. CASE Next
  <2>1. PICK t \in Tabs :
          \/ OpenTab(t) \/ CloseTab(t) \/ EndTab(t)
          \/ \E k \in Keys : BeginRead(t, k)
          \/ NoteRead(t)
          \/ \E b \in Writes : Begin(t, b)
          \/ Reload(t) \/ ReadTick(t) \/ PlanCommit(t) \/ Fetched(t) \/ EvictDown(t)
          \/ Fail(t) \/ Land(t) \/ Finish(t)
          \/ \E s \in Tabs : Hear(s, t)
    BY <1>2 DEF Next
  <2>2. CASE OpenTab(t) \/ CloseTab(t) \/ EndTab(t)
    BY <2>2, OpenTabStep, CloseTabStep, EndTabStep
  <2>3. CASE NoteRead(t) \/ \E k \in Keys : BeginRead(t, k)
    BY <2>3, NoteReadStep, BeginReadStep
  <2>4. CASE \E b \in Writes : Begin(t, b)
    BY <2>4, BeginStep
  <2>5. CASE Reload(t) \/ ReadTick(t) \/ PlanCommit(t) \/ Fetched(t)
    BY <2>5, ReloadStep, ReadTickStep, PlanCommitStep, FetchedStep
  <2>6. CASE EvictDown(t)
    BY <2>6, EvictDownStep
  <2>7. CASE Fail(t) \/ Land(t) \/ Finish(t)
    BY <2>7, FailStep, LandStep, FinishStep
  <2>8. CASE \E s \in Tabs : Hear(s, t)
    BY <2>8, HearStep
  <2> QED
    BY <2>1, <2>2, <2>3, <2>4, <2>5, <2>6, <2>7, <2>8
<1> QED
  BY <1>1, <1>2

(* The rows, the plans, the news under way and the accounts of every tab   *)
(* agree at every step, while callers take turns (budget_ops,              *)
(* Inner::commit, apply_budget, LazySink::apply).                          *)
THEOREM InvariantHolds == ASSUME Callers PROVE Spec => []Invariant
<1>1. Invariant /\ [Next]_vars => Invariant'
  BY NextStep
<1> QED
  BY <1>1, InitStep, PTL DEF Spec

(* The types are part of the invariant.                                    *)
LEMMA InvariantTypes == Invariant => TypeOK
<1> SUFFICES ASSUME Invariant PROVE TypeOK
  OBVIOUS
<1>1. Types
  BY DEF Invariant
<1>2. rec \in Contents /\ PartlyIn(rows, Entries) /\ nextTick \in 0..MaxTick
  <2>1. rows \in Partial(Entries)
    BY <1>1 DEF Types
  <2> QED
    BY <1>1, <2>1, PartialValue DEF Types, PartlyIn
<1>3. ASSUME NEW t \in Tabs
      PROVE  /\ tab[t].open \in BOOLEAN /\ tab[t].clock \in Clocks
             /\ PartlyIn(tab[t].entries, Entries) /\ tab[t].total \in Nat
             /\ PartlyIn(tab[t].pending, 0..MaxTick) /\ DOMAIN tab[t].pending \subseteq DOMAIN tab[t].entries
             /\ tab[t].dirty \in BOOLEAN /\ tab[t].index \subseteq Keys
             /\ job[t].at \in {"idle", "reloading", "ticking", "seeding", "fetching", "committing", "landed"}
             /\ job[t].batch \in Batches /\ job[t].victims \subseteq Keys /\ job[t].total \in Nat
             /\ PartlyIn(job[t].pending, Entries) /\ {job[t].tick, job[t].counter} \subseteq 0..MaxTick
             /\ reader[t].at \in {"idle", "ticking", "seeding"}
             /\ \A s \in Tabs : chan[s][t] \in Seq(SizeNews)
  <2>1. tab[t] \in TabStates /\ job[t] \in Jobs /\ reader[t] \in Readers
    BY <1>1, TabFact
  <2>2. /\ tab[t].open \in BOOLEAN /\ tab[t].clock \in Clocks /\ tab[t].total \in Nat
        /\ tab[t].dirty \in BOOLEAN /\ tab[t].index \subseteq Keys
        /\ tab[t].entries \in Partial(Entries) /\ tab[t].pending \in Partial(0..MaxTick)
    BY <2>1 DEF TabStates
  <2>3. /\ job[t].at \in {"idle", "reloading", "ticking", "seeding", "fetching", "committing", "landed"}
        /\ job[t].batch \in Batches /\ job[t].victims \subseteq Keys /\ job[t].total \in Nat
        /\ job[t].pending \in Partial(Entries) /\ {job[t].tick, job[t].counter} \subseteq 0..MaxTick
    BY <2>1 DEF Jobs
  <2>4. reader[t].at \in {"idle", "ticking", "seeding"}
    BY <2>1 DEF Readers
  <2>5. PartlyIn(tab[t].entries, Entries)
    BY <2>2, PartialValue DEF PartlyIn
  <2>6. PartlyIn(tab[t].pending, 0..MaxTick)
    BY <2>2, PartialValue DEF PartlyIn
  <2>7. PartlyIn(job[t].pending, Entries)
    BY <2>3, PartialValue DEF PartlyIn
  <2>8. DOMAIN tab[t].pending \subseteq DOMAIN tab[t].entries /\ \A s \in Tabs : chan[s][t] \in Seq(SizeNews)
    BY <1>1 DEF Types
  <2> QED
    BY <2>2, <2>3, <2>4, <2>5, <2>6, <2>7, <2>8
<1>4. unrowed \subseteq Keys /\ alone \subseteq Tabs /\ behind \subseteq Tabs
  BY <1>1 DEF Types
<1> QED
  BY <1>2, <1>3, <1>4 DEF TypeOK

(* Ticks stay within u64, totals never go below zero, the pending reads of *)
(* a tab are about keys it accounts for.                                   *)
THEOREM TypeCorrect == ASSUME Callers PROVE Spec => []TypeOK
BY InvariantTypes, InvariantHolds, PTL

(* A row describes a stored value and its bytes, and every value stored by *)
(* this locker has one: rows and records go in one commit (lru.rs:3).      *)
THEOREM RowsMatch == ASSUME Callers PROVE Spec => []RowsMatchRecords
<1>1. Invariant => RowsMatchRecords
  BY DEF Invariant
<1> QED
  BY <1>1, InvariantHolds, PTL

(* A tab with no news to come is right about every key.                    *)
LEMMA InvariantAccounts == Invariant => AccountsMatch
<1> SUFFICES ASSUME Invariant PROVE AccountsMatch
  OBVIOUS
<1>1. TypeOK /\ TotalIsSum
  BY InvariantTypes DEF Invariant
<1>2. ASSUME NEW t \in Tabs, tab[t].open, t \notin behind,
             \A s \in Tabs : job[s].at # "landed" /\ chan[s][t] = <<>>
      PROVE  /\ tab[t].index = StoredIn(rec)
             /\ StoredIn(rec) \ unrowed \subseteq DOMAIN tab[t].entries
             /\ DOMAIN tab[t].entries \subseteq StoredIn(rec)
             /\ \/ tab[t].dirty
                \/ \A k \in StoredIn(rec) \ unrowed : tab[t].entries[k].bytes = rec[k]
  <2>1. \A k \in Keys : ~Awaits(t, k) /\ ~LandedOn(k)
    BY <1>2 DEF Awaits, LandedOn
  <2>2. \A k \in Keys : RightAt(tab[t], k)
    BY <1>2, <2>1 DEF Invariant, Right, Follows
  <2>3. DOMAIN tab[t].entries \subseteq Keys /\ tab[t].index \subseteq Keys
    BY <1>1 DEF TypeOK, PartlyIn
  <2>4. tab[t].index = StoredIn(rec)
    BY <2>2, <2>3 DEF RightAt, StoredIn
  <2>5. StoredIn(rec) \ unrowed \subseteq DOMAIN tab[t].entries
    BY <2>2 DEF RightAt, StoredIn
  <2>6. DOMAIN tab[t].entries \subseteq StoredIn(rec)
    BY <2>2, <2>3 DEF RightAt, StoredIn
  <2>7. ~tab[t].dirty => \A k \in StoredIn(rec) \ unrowed : tab[t].entries[k].bytes = rec[k]
    BY <2>2, <2>5 DEF RightAt, StoredIn
  <2> QED
    BY <2>4, <2>5, <2>6, <2>7
<1> QED
  BY <1>1, <1>2 DEF AccountsMatch

(* A tab that has heard everything has exactly the stored keys in its      *)
(* index and its accounts, with the sizes they have unless it knows it     *)
(* does not know them, and its total is their sum (resident.rs:462).       *)
THEOREM AccountsHold == ASSUME Callers PROVE Spec => []AccountsMatch
BY InvariantAccounts, InvariantHolds, PTL

(* What a plan promised, the store keeps when the commit lands.            *)
LEMMA LandFits ==
  ASSUME Invariant, NEW t \in Tabs, Land(t), ~job[t].evict
  PROVE  LET mine == PutsOf(job[t].batch)
             accounted == StoredIn(rec') \ unrowed' IN
         /\ \A k \in mine : rec'[k] = job[t].batch.does[k]
         /\ SizeOf(rec', accounted) <= MaxBytes \/ accounted \subseteq mine
<1> DEFINE j == job[t]
           s == tab[t]
           P == PutsOf(j.batch)
           A == StoredIn(rec') \ unrowed'
           R == Left(s, j)
           does == j.batch.does
           now == rec'
<1>1. /\ j \in Jobs /\ j.at = "committing" /\ j.batch \in Batches
      /\ unrowed' = unrowed \ Covered(j) /\ now \in Contents
      /\ \A k \in j.victims \cup DeletesOf(j.batch) : now[k] = Gone
      /\ \A k \in P : now[k] = does[k] /\ now[k] \in Vals
      /\ \A k \in Keys \ Covered(j) : now[k] = rec[k]
      /\ Covered(j) = P \cup DeletesOf(j.batch) \cup j.victims
  BY LandFact
<1>2. s.open /\ ~s.dirty /\ \A k \in Keys : RightAt(s, k)
  BY <1>1, MineAlone DEF Invariant, Plans, PlanOf
<1>3. /\ j.total = BytesOf(s.entries, R) + SizeOf(does, P)
      /\ j.total <= MaxBytes \/ R = {}
  BY <1>1 DEF Invariant, Plans, PlanOf, Planned
<1>4. s.entries \in Partial(Entries)
  BY TabFact DEF Invariant, TabStates
<1>5. P \subseteq Keys /\ A \subseteq Keys /\ IsFiniteSet(Keys) /\ Vals \subseteq Nat
  BY LruAssumption DEF PutsOf, StoredIn
<1>6. j.batch.cleared => Covered(j) = Keys
  <2>1. j.batch.cleared => Touched(does) = Keys
    BY <1>1 DEF Batches
  <2>2. j.victims \subseteq Keys
    BY <1>1 DEF Jobs
  <2> QED
    BY <2>1, <2>2 DEF Covered
<1>7. P \subseteq A
  <2>1. ASSUME NEW k \in P PROVE k \in A
    <3>1. now[k] # Gone
      BY <1>1, BatchAssumption
    <3>2. k \notin unrowed'
      BY <1>1
    <3> QED
      BY <1>5, <3>1, <3>2 DEF StoredIn
  <2> QED
    BY <2>1
<1>8. ASSUME NEW k \in A \ P
      PROVE  k \in R /\ k \in DOMAIN s.entries /\ s.entries[k].bytes = now[k]
  <2>1. k \in Keys /\ now[k] # Gone
    BY <1>8 DEF StoredIn
  <2>2. k \notin Covered(j)
    BY <1>1, <1>8, <2>1
  <2>3. rec[k] = now[k] /\ k \notin unrowed
    BY <1>1, <1>8, <2>1, <2>2
  <2>4. k \in DOMAIN s.entries /\ s.entries[k].bytes = rec[k]
    BY <1>2, <2>1, <2>3 DEF RightAt
  <2>5. k \notin P \cup DeletesOf(j.batch) \cup j.victims /\ ~j.batch.cleared
    BY <1>1, <1>6, <2>1, <2>2
  <2> QED
    BY <2>3, <2>4, <2>5 DEF Left
<1> DEFINE e == s.entries
           B == R \cap DOMAIN e
<1>9. BytesOf(e, R) = SizeOf(Sizes(e), B) /\ Summable(Sizes(e), B)
      /\ \A k \in DOMAIN e : Sizes(e)[k] = e[k].bytes
  BY <1>4, BytesFact
<1>10. A \ P \in SUBSET B /\ \A k \in A \ P : Sizes(e)[k] = now[k]
  BY <1>8, <1>9
<1>11. Summable(now, A)
  <2>1. IsFiniteSet(A)
    BY <1>5, FS_Subset
  <2>2. ASSUME NEW k \in A PROVE now[k] \in Nat
    <3>1. now[k] # Gone /\ k \in Keys
      BY DEF StoredIn
    <3>2. now[k] \in Vals \cup {Gone}
      BY <1>1, <3>1 DEF Contents
    <3> QED
      BY <1>5, <3>1, <3>2
  <2> QED
    BY <2>1, <2>2 DEF Summable
<1>12. \A k \in P : now[k] = does[k]
  BY <1>1
<1> HIDE DEF now, A, P, R, B, e, does
<1>13. /\ SizeOf(now, A) = SizeOf(now, P) + SizeOf(now, A \ P)
       /\ SizeOf(now, P) \in Nat /\ SizeOf(now, A \ P) \in Nat
  BY <1>7, <1>11, SumSplit
<1>14. SizeOf(now, P) = SizeOf(does, P)
  <2>1. Summable(now, P)
    BY <1>7, <1>11, FS_Subset DEF Summable
  <2>2. \A k \in P : does[k] = now[k]
    BY <1>12
  <2> QED
    BY <2>1, <2>2, SumSame
<1>15. /\ SizeOf(Sizes(e), B) = SizeOf(Sizes(e), A \ P) + SizeOf(Sizes(e), B \ (A \ P))
       /\ SizeOf(Sizes(e), A \ P) \in Nat /\ SizeOf(Sizes(e), B \ (A \ P)) \in Nat
  BY <1>9, <1>10, SumSplit
<1>16. SizeOf(now, A \ P) = SizeOf(Sizes(e), A \ P)
  <2>1. Summable(now, A \ P)
    BY <1>11, FS_Subset DEF Summable
  <2> QED
    BY <1>10, <2>1, SumSame
<1>17. CASE R = {}
  <2>1. A \subseteq P
    BY <1>8, <1>17 DEF e
  <2> QED
    BY <1>12, <2>1 DEF now, A, P, does
<1>18. CASE j.total <= MaxBytes
  <2>1. SizeOf(now, A) <= j.total
    BY <1>3, <1>9, <1>13, <1>14, <1>15, <1>16 DEF e
  <2>2. SizeOf(now, A) <= MaxBytes
    <3>1. SizeOf(now, A) \in Nat /\ j.total \in Nat /\ MaxBytes \in Nat
      BY <1>1, <1>13, LruAssumption DEF Jobs
    <3> QED
      BY <1>18, <2>1, <3>1
  <2> QED
    BY <1>12, <2>2 DEF now, A, P, does
<1> QED
  BY <1>3, <1>17, <1>18

(* A commit leaves what is accounted for within the budget, or nothing of  *)
(* it but what it writes itself (resident.rs:620).                         *)
THEOREM BudgetKept == ASSUME Callers PROVE Spec => BudgetHeld
<1>1. Invariant /\ [Next]_vars =>
        [\A t \in Tabs : Land(t) /\ ~job[t].evict =>
           LET mine == PutsOf(job[t].batch)
               accounted == StoredIn(rec') \ unrowed' IN
           /\ \A k \in mine : rec'[k] = job[t].batch.does[k]
           /\ SizeOf(rec', accounted) <= MaxBytes \/ accounted \subseteq mine]_vars
  BY LandFits
<1> QED
  BY <1>1, InvariantHolds, PTL DEF Spec, BudgetHeld

(* The tick a plan takes is past all that are recorded.                    *)
LEMMA TicksFresh ==
  ASSUME Invariant, NEW t \in alone, PlanCommit(t)
  PROVE  /\ \A k \in DOMAIN rows : rows[k].tick < job'[t].tick
         /\ \A k \in DOMAIN tab[t].entries :
              \/ tab[t].entries[k].tick < job'[t].tick
              \/ k \in unrowed /\ tab[t].entries[k].tick = 0
<1> DEFINE c == IF job[t].at = "seeding" THEN Seeded(tab[t].clock, job[t].stored) ELSE tab[t].clock
           now == Cursor(tab[t].clock)
<1>1. t \in Tabs /\ Ahead(t) /\ Types /\ job \in [Tabs -> Jobs]
  BY DEF Invariant, Types, Clock
<1>2. job[t].at \in {"ticking", "seeding"} /\ job'[t].tick = Cursor(c)
  BY <1>1 DEF PlanCommit
<1>3. (c = tab[t].clock /\ tab[t].clock.seeded) \/ c = Seeded(tab[t].clock, job[t].stored)
  BY DEF PlanCommit
<1>4. Cursor(c) >= now /\ Cursor(c) \in Nat /\ now \in Nat
  BY <1>1, <1>3, TakenFact DEF Jobs
<1>5. /\ \A k \in DOMAIN rows : rows[k].tick < now /\ rows[k].tick \in Nat
      /\ \A k \in DOMAIN tab[t].entries :
           /\ tab[t].entries[k].tick \in Nat
           /\ tab[t].entries[k].tick < now \/ (k \in unrowed /\ tab[t].entries[k].tick = 0)
  BY <1>1, <1>2, TicksBelow DEF Ahead, Adopted
<1> HIDE DEF c, now
<1>6. \A x \in Nat : x < now => x < Cursor(c)
  BY <1>4
<1> QED
  BY <1>2, <1>5, <1>6

(* A bank that has had the store to itself issues no tick at or below one  *)
(* that a row or its own accounts hold (lru.rs:25).                        *)
THEOREM TicksAreFresh == ASSUME Callers PROVE Spec => FreshTicks
<1>1. Invariant /\ [Next]_vars =>
        [\A t \in alone : PlanCommit(t) =>
           /\ \A k \in DOMAIN rows : rows[k].tick < job'[t].tick
           /\ \A k \in DOMAIN tab[t].entries :
                \/ tab[t].entries[k].tick < job'[t].tick
                \/ k \in unrowed /\ tab[t].entries[k].tick = 0]_vars
  BY TicksFresh
<1> QED
  BY <1>1, InvariantHolds, PTL DEF Spec, FreshTicks

=============================================================================

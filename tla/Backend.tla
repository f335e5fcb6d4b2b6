------------------------------- MODULE Backend -------------------------------
(***************************************************************************)
(* What a storage backend keeps, loses and refuses                         *)
(* (src/src/backend/api.rs, memory.rs, redb.rs, indexeddb.rs), and the     *)
(* decorator the conformance suite breaks commits with                     *)
(* (src/crossbank-conformance/src/fault.rs).                               *)
(*                                                                         *)
(* A store has two contents: live, what its reads answer, and safe, what   *)
(* the next process finds under the same name.  They differ only on redb,  *)
(* between a commit of Durability::Eventual and the next commit that is    *)
(* Immediate, and when the file no longer has its name.  A commit is one   *)
(* step: redb runs it in one synchronous block, IndexedDB in one           *)
(* transaction, the memory backend under its lock.                         *)
(***************************************************************************)
EXTENDS Batch, FiniteSets, Integers

CONSTANTS Damaged,  \* bytes no chain can open
          MaxAt     \* how far ahead a fault may be aimed, in ops

ASSUME BackendAssumption == /\ Damaged \notin Vals \cup {Gone, Kept}
                            /\ MaxAt \in Nat
                            /\ IsFiniteSet(Keys)

Kinds == {"memory", "redb", "indexeddb"}

Stored == [Keys -> Vals \cup {Gone, Damaged}]
Nothing == [k \in Keys |-> Gone]

(* held: the handle is there (Option<Database> is Some); named: the store  *)
(* is what its location leads to, false once the file has been unlinked.   *)
Stores == [live : Stored, safe : Stored, held : BOOLEAN, named : BOOLEAN]

Opened(contents) == [live |-> contents, safe |-> contents, held |-> TRUE, named |-> TRUE]

(* commit and commit_with.  Only redb honours Eventual.                    *)
Committed(s, kind, b, eventual) ==
  LET after == Then(s.live, b)
  IN [s EXCEPT !.live = after,
               !.safe = IF ~s.named \/ (kind = "redb" /\ eventual) THEN @ ELSE after]

(* flush: on redb an empty commit that is Immediate, elsewhere nothing.    *)
(* Slip: taken for a formality on every backend.                           *)
FlushedNothing(s) == s
Flushed(s) == IF s.named THEN [s EXCEPT !.safe = s.live] ELSE s

(* close, or the last handle dropped.  Memory forgets.  What redb does     *)
(* with Eventual commits nobody flushed is redb's affair: either.          *)
Released(s, kind) ==
  {[s EXCEPT !.live = c, !.safe = c, !.held = FALSE] :
     c \in IF kind = "memory" THEN {Nothing}
           ELSE IF s.named THEN {s.safe, s.live} ELSE {s.safe}}

(* The process dies. *)
Survived(s, kind) ==
  LET c == IF kind = "memory" THEN Nothing ELSE s.safe
  IN [s EXCEPT !.live = c, !.safe = c, !.held = FALSE]

(* remove_file: what is open stays open, under no name.                    *)
Unlinked(s) ==
  [s EXCEPT !.safe = Nothing, !.named = FALSE, !.live = IF s.held THEN @ ELSE Nothing]

-----------------------------------------------------------------------------
(* Fault: one plan, aimed at an op of the stream of ops.  The counter that *)
(* arm resets and intercept advances is kept as the distance still to go.  *)
NoPlan == [how |-> "none", at |-> 0]
Plans == {NoPlan} \cup [how : {"refuse", "damage"}, at : 0 .. MaxAt]

(* What intercept makes of a commit: the plan that is left, whether the    *)
(* commit goes through, and what then lands.  Which op of a commit is      *)
(* which is not modelled: a plan aimed inside a commit may find a put at   *)
(* or after its op, or none and stay armed.                                *)
Intercept(plan, b) ==
  LET ops == Cardinality(Touched(b))
      puts == {k \in Keys : b[k] \notin {Gone, Kept}}
      past == [plan |-> [plan EXCEPT !.at = IF @ > ops THEN @ - ops ELSE 0],
               through |-> TRUE, lands |-> b]
  IN IF plan.how = "none" THEN {[past EXCEPT !.plan = NoPlan]}
     ELSE IF plan.at >= ops THEN {past}
     ELSE IF plan.how = "refuse"
          THEN {[plan |-> NoPlan, through |-> FALSE, lands |-> NoEffect]}
     ELSE {[plan |-> NoPlan, through |-> TRUE, lands |-> [b EXCEPT ![k] = Damaged]] : k \in puts}
          \cup {x \in {past} : puts = {} \/ plan.at > 0}

=============================================================================

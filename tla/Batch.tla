-------------------------------- MODULE Batch --------------------------------
(***************************************************************************)
(* What a list of mutations does to a locker.                              *)
(*                                                                         *)
(* The code keeps a write-set as a list (Vec<Pending>, Vec<Staged>) and    *)
(* collapses it when it is committed: everything before the last clear is  *)
(* dropped and the last action per key survives.  Only that collapsed      *)
(* effect is ever observable, so the modules of the lockers keep a batch   *)
(* as its effect: a function that says of each key whether it is kept,     *)
(* gone, or given a value.  Module StagedList checks that the list and the *)
(* effect agree.                                                           *)
(***************************************************************************)

CONSTANTS Keys,   \* user keys of one locker
          Vals,   \* payloads
          Gone,   \* the key holds nothing
          Kept    \* the batch does not touch the key

ASSUME BatchAssumption == /\ Gone \notin Vals
                          /\ Kept \notin Vals
                          /\ Gone # Kept

Contents == [Keys -> Vals \cup {Gone}]
Effects  == [Keys -> Vals \cup {Gone, Kept}]

NoEffect == [k \in Keys |-> Kept]
PutOf(k, v) == [NoEffect EXCEPT ![k] = v]
DeleteOf(k) == [NoEffect EXCEPT ![k] = Gone]
ClearAll == [k \in Keys |-> Gone]

(* Pending::Put, Pending::Delete and Pending::Clear, as effects. *)
Mutations == {PutOf(k, v) : k \in Keys, v \in Vals}
             \cup {DeleteOf(k) : k \in Keys}
             \cup {ClearAll}

Touched(b) == {k \in Keys : b[k] # Kept}

(* First a, then b: b wins wherever it speaks.  With contents for a, this  *)
(* is what applying the batch b leaves.                                    *)
Then(a, b) == [k \in Keys |-> IF b[k] = Kept THEN a[k] ELSE b[k]]

=============================================================================

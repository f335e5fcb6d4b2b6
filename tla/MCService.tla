------------------------------ MODULE MCService ------------------------------
(***************************************************************************)
(* One bank with one key: a caller of its handle, whose job may outlive    *)
(* its call, and a typed locker.                                           *)
(***************************************************************************)
EXTENDS Service, TLC

CONSTANTS k1, raw1, own1, c1

MCKeys == {k1}
MCRawVals == {raw1}
MCOwnVals == {own1}
MCVals == {raw1, own1}
OneCaller == {c1}

(* Eventual means something on redb only; redb with immediate commits       *)
(* differs from IndexedDB in nothing but what delete_bank asks.            *)
MCSetups == {<<"redb", TRUE>>, <<"memory", FALSE>>, <<"indexeddb", FALSE>>}

(* The second op is refused, or the first one that puts something damaged. *)
MCFaults == {NoPlan, [how |-> "refuse", at |-> 1], [how |-> "damage", at |-> 0]}

=============================================================================

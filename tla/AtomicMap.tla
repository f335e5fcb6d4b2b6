------------------------------ MODULE AtomicMap ------------------------------
(***************************************************************************)
(* What a locker promises the tasks that share it: one map, in which every *)
(* call takes effect at one moment between its beginning and its end, as a *)
(* whole or not at all (LazyLocker::transact: "every staged write lands    *)
(* together, or none does").                                               *)
(*                                                                         *)
(* A call that reports success has taken effect.  One that reports an      *)
(* error has not, unless Lenient: a deferred write is staged before the    *)
(* flush it triggers fails, and stays staged.                              *)
(***************************************************************************)
EXTENDS Batch

CONSTANTS Tasks, Lenient

VARIABLES content,   \* the map
          status,    \* of each task's call: idle, pending, done
          effect,    \* what the call does
          outcome    \* how the task's last call ended

vars == <<content, status, effect, outcome>>

TypeOK == /\ content \in Contents
          /\ status \in [Tasks -> {"idle", "pending", "done"}]
          /\ effect \in [Tasks -> Effects]
          /\ outcome \in [Tasks -> {"none", "ok", "failed"}]

Init == /\ content \in Contents
        /\ status = [t \in Tasks |-> "idle"]
        /\ effect = [t \in Tasks |-> NoEffect]
        /\ outcome = [t \in Tasks |-> "none"]

(* A call that writes nothing has nothing left to do. *)
Invoke(t, b) == /\ status[t] = "idle"
                /\ status' = [status EXCEPT ![t] = IF b = NoEffect THEN "done"
                                                   ELSE "pending"]
                /\ effect' = [effect EXCEPT ![t] = b]
                /\ outcome' = [outcome EXCEPT ![t] = "none"]
                /\ UNCHANGED content

TakeEffect(t) == /\ status[t] = "pending"
                 /\ content' = Then(content, effect[t])
                 /\ status' = [status EXCEPT ![t] = "done"]
                 /\ UNCHANGED <<effect, outcome>>

End(t, r) == /\ status' = [status EXCEPT ![t] = "idle"]
             /\ outcome' = [outcome EXCEPT ![t] = r]
             /\ UNCHANGED <<content, effect>>

Succeed(t) == status[t] = "done" /\ End(t, "ok")

(* A write that is staged and returns in one step. *)
TakeEffectAndSucceed(t) == /\ status[t] = "pending"
                           /\ content' = Then(content, effect[t])
                           /\ status' = [status EXCEPT ![t] = "idle"]
                           /\ outcome' = [outcome EXCEPT ![t] = "ok"]
                           /\ UNCHANGED effect

Refuse(t) == /\ \/ status[t] = "pending"
                \/ status[t] = "done" /\ (Lenient \/ effect[t] = NoEffect)
             /\ End(t, "failed")

Next == \E t \in Tasks : \/ \E b \in Effects : Invoke(t, b)
                         \/ TakeEffect(t) \/ TakeEffectAndSucceed(t)
                         \/ Succeed(t) \/ Refuse(t)

Spec == Init /\ [][Next]_vars

=============================================================================

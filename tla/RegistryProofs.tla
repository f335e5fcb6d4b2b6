--------------------------- MODULE RegistryProofs ---------------------------
(***************************************************************************)
(* Proofs about Registry, for any names, types, chains and tasks.          *)
(*                                                                         *)
(* While nothing is deleted, one name is one live locker and every handle  *)
(* on it agrees, however many opens race and whenever the process ends.    *)
(* When one task at a time opens and deletes, an open locker reads only    *)
(* what was written through its own name, type and chain.                  *)
(***************************************************************************)
EXTENDS Registry, TLAPS

USE RegistryAssumption

-----------------------------------------------------------------------------
(* Types. *)

LEMMA InitType == Init => TypeOK
<1> SUFFICES ASSUME Init PROVE TypeOK
  OBVIOUS
<1>1. /\ row \in [Names -> Ids \cup {None}] /\ nextId \in Ids
      /\ schema \in [Ids -> Types \cup {None}] /\ data \in [Ids -> SUBSET Seals]
  <2>1. CASE Fresh
    BY <2>1 DEF Fresh, Ids
  <2>2. CASE Legacy
    BY <2>2 DEF Legacy, Ids, Seals, Shapes
  <2> QED
    BY <2>1, <2>2 DEF Init
<1> QED
  BY <1>1 DEF Init, TypeOK, PCs, Ids

LEMMA AliveType ==
  ASSUME TypeOK, NEW s \in Slots
  PROVE  Alive(s) <=> lockers[s] \in Lockers
BY DEF TypeOK, Alive, Lockers, NoLocker, Ids

(* The whole locker_id, bind_schema and bind_chain part of an open.        *)
LEMMA TypeStep ==
  ASSUME TypeOK, [Next]_vars
  PROVE  TypeOK'
<1>1. ASSUME NEW t \in Tasks, Open(t) PROVE TypeOK'
  <2>1. PICK n \in Names, shape \in Shapes :
          /\ name' = [name EXCEPT ![t] = n]
          /\ as' = [as EXCEPT ![t] = shape]
          /\ \/ IsOpen(n) /\ Share(t, n, shape) /\ UNCHANGED pc
             \/ ~IsOpen(n) /\ Goto(t, "exists")
                /\ opened' = [opened EXCEPT ![t] = None]
    BY <1>1 DEF Open
  <2>2. /\ opened' \in [Tasks -> Slots \cup {None}]
        /\ pc' \in {pc, [pc EXCEPT ![t] = "exists"]}
        /\ pc[t] = "idle"
    BY <1>1, <2>1 DEF Open, Share, Goto, TypeOK
  <2>3. pc' \in [Tasks -> PCs]
    BY <2>2 DEF TypeOK, PCs
  <2>4. name' \in [Tasks -> Names] /\ as' \in [Tasks -> Shapes \cup {NoShape}]
    BY <2>1 DEF TypeOK
  <2>5. UNCHANGED <<store, ram, existed, id>>
    BY <1>1 DEF Open
  <2>6. \A u \in Tasks : pc'[u] \notin {"idle", "exists"} => as'[u] # NoShape
           \/ pc'[u] \notin {"schema", "bindschema", "chain", "bindchain", "claim"}
    BY <2>1, <2>2 DEF TypeOK
  <2> QED
    BY <2>2, <2>3, <2>4, <2>5, <2>6 DEF TypeOK, store, ram
<1>2. ASSUME NEW t \in Tasks,
             Delete(t) \/ Exists(t) \/ Cached(t) \/ LookUp(t) \/ Cache(t) \/ GiveUp(t)
      PROVE  TypeOK'
  <2>1. CASE Delete(t)
    BY <2>1 DEF Delete, Goto, TypeOK, PCs, store, ram
  <2>2. CASE Exists(t)
    BY <2>2 DEF Exists, Goto, TypeOK, PCs, store, ram, Deleting
  <2>3. CASE Cached(t)
    BY <2>3 DEF Cached, Goto, TypeOK, PCs, store, ram, AfterId, Deleting
  <2>4. CASE LookUp(t)
    <3>1. id' \in [Tasks -> Ids] /\ pc' \in [Tasks -> PCs]
      BY <2>4 DEF LookUp, Goto, TypeOK, PCs
    <3>2. \A u \in Tasks : pc'[u] \in {"register", "caching"} \/ pc'[u] = pc[u]
      BY <2>4 DEF LookUp, Goto, TypeOK
    <3> QED
      BY <2>4, <3>1, <3>2 DEF LookUp, TypeOK, store, ram
  <2>5. CASE Cache(t)
    BY <2>5 DEF Cache, Goto, TypeOK, PCs, store, ram, AfterId, Deleting
  <2>6. CASE GiveUp(t)
    BY <2>6 DEF GiveUp, Goto, TypeOK, PCs, store, ram
  <2> QED
    BY <1>2, <2>1, <2>2, <2>3, <2>4, <2>5, <2>6
<1>3. ASSUME NEW t \in Tasks, Register(t) PROVE TypeOK'
  <2>1. nextId' \in Ids
    BY <1>3 DEF Register, CanAdvance, NextAfter, TypeOK, Ids
  <2> QED
    BY <1>3, <2>1 DEF Register, Goto, TypeOK, PCs, ram
<1>4. ASSUME NEW t \in Tasks,
             ReadSchema(t) \/ BindSchema(t) \/ ReadChain(t) \/ BindChain(t)
      PROVE  TypeOK'
  <2>1. CASE ReadSchema(t)
    BY <2>1 DEF ReadSchema, Goto, TypeOK, PCs, store, ram
  <2>2. CASE BindSchema(t)
    BY <2>2 DEF BindSchema, Goto, TypeOK, PCs, ram, Shapes
  <2>3. CASE ReadChain(t)
    BY <2>3 DEF ReadChain, Goto, TypeOK, PCs, store, ram
  <2>4. CASE BindChain(t)
    BY <2>4 DEF BindChain, Goto, TypeOK, PCs, ram, Shapes
  <2> QED
    BY <1>4, <2>1, <2>2, <2>3, <2>4
<1>5. ASSUME NEW t \in Tasks, ClaimOpen(t) PROVE TypeOK'
  <2>1. as[t] \in Shapes /\ pc' = [pc EXCEPT ![t] = "idle"]
    BY <1>5 DEF ClaimOpen, TypeOK, Goto
  <2>2. [name |-> name[t], id |-> id[t], as |-> as[t]] \in Lockers
    BY <2>1 DEF TypeOK, Lockers
  <2>3. /\ lockers' \in [Slots -> Lockers \cup {NoLocker}]
        /\ openLockers' \in [Names -> Slots \cup {None}]
        /\ opened' \in [Tasks -> Slots \cup {None}]
    <3>1. CASE Unclaimed(t)
      <4>1. PICK s \in Slots :
              /\ lockers' = [lockers EXCEPT ![s] =
                               [name |-> name[t], id |-> id[t], as |-> as[t]]]
              /\ openLockers' = [openLockers EXCEPT ![name[t]] = s]
              /\ opened' = [opened EXCEPT ![t] = s]
        BY <1>5, <3>1 DEF ClaimOpen
      <4> QED
        BY <2>2, <4>1 DEF TypeOK
    <3>2. CASE ~Unclaimed(t)
      BY <1>5, <3>2 DEF ClaimOpen, TypeOK, Share
    <3> QED
      BY <3>1, <3>2
  <2> QED
    BY <1>5, <2>1, <2>3 DEF ClaimOpen, TypeOK, PCs, store
<1>6. ASSUME NEW t \in Tasks, Erase(t) \/ Forget(t) PROVE TypeOK'
  <2>1. CASE Erase(t)
    BY <2>1 DEF Erase, Goto, TypeOK, PCs, store, ram
  <2>2. CASE Forget(t)
    BY <2>2 DEF Forget, RegistryWithout, Goto, TypeOK, PCs, store, ram
  <2> QED
    BY <1>6, <2>1, <2>2
<1>7. ASSUME NEW s \in Slots, Write(s) PROVE TypeOK'
  <2>1. lockers[s] \in Lockers
    BY <1>7, AliveType DEF Write
  <2>2. [name |-> lockers[s].name, as |-> lockers[s].as] \in Seals
    BY <2>1 DEF Lockers, Seals
  <2> QED
    BY <1>7, <2>1, <2>2 DEF Write, TypeOK, Lockers, ram
<1>8. ASSUME NEW s \in Slots, CloseLocker(s) PROVE TypeOK'
  BY <1>8 DEF CloseLocker, TypeOK, store
<1>9. CASE Crash
  BY <1>9 DEF Crash, TypeOK, PCs, store
<1>10. CASE UNCHANGED vars
  BY <1>10 DEF vars, TypeOK
<1> QED
  BY <1>1, <1>2, <1>3, <1>4, <1>5, <1>6, <1>7, <1>8, <1>9, <1>10 DEF Next, Step

(* Every variable of the registry stays in its type. *)
THEOREM TypeCorrect == Spec => []TypeOK
BY InitType, TypeStep, PTL DEF Spec

-----------------------------------------------------------------------------
(* The claim. *)

(* The live lockers and the names they hold stay in step, as long as a     *)
(* delete forgets no name that is held.                                    *)
LEMMA ClaimStep ==
  ASSUME TypeOK, LiveHoldsName, HolderIsLive, [Next]_vars,
         \A t \in Tasks, s \in Slots :
           Forget(t) /\ Alive(s) => lockers[s].name # name[t]
  PROVE  LiveHoldsName' /\ HolderIsLive'
<1> DEFINE Same == openLockers' = openLockers /\ lockers' = lockers
<1>1. CASE Same
  BY <1>1 DEF LiveHoldsName, HolderIsLive, Alive
<1>2. ASSUME NEW t \in Tasks, ClaimOpen(t), ~Same
      PROVE  LiveHoldsName' /\ HolderIsLive'
  <2>1. PICK s \in Slots :
          /\ ~Alive(s) /\ Unclaimed(t)
          /\ lockers' = [lockers EXCEPT ![s] =
                           [name |-> name[t], id |-> id[t], as |-> as[t]]]
          /\ openLockers' = [openLockers EXCEPT ![name[t]] = s]
    BY <1>2 DEF ClaimOpen
  <2>2. /\ name[t] \in Names /\ as[t] \in Shapes /\ id[t] \in Ids
        /\ openLockers[name[t]] = None
    BY <1>2, <2>1 DEF ClaimOpen, TypeOK, Unclaimed, IsOpen
  <2>3. /\ lockers'[s] = [name |-> name[t], id |-> id[t], as |-> as[t]]
        /\ lockers'[s] # NoLocker
    BY <2>1, <2>2 DEF TypeOK, NoLocker, Ids
  <2>4. \A r \in Slots : r # s => lockers'[r] = lockers[r]
    BY <2>1 DEF TypeOK
  <2>5. openLockers'[name[t]] = s
        /\ \A n \in Names : n # name[t] => openLockers'[n] = openLockers[n]
    BY <2>1, <2>2 DEF TypeOK
  <2>6. \A r \in Slots : Alive(r) => lockers[r].name # name[t]
    BY <2>2 DEF LiveHoldsName
  <2>7. LiveHoldsName'
    <3> SUFFICES ASSUME NEW r \in Slots, lockers'[r] # NoLocker
                 PROVE  openLockers'[lockers'[r].name] = r
      BY DEF LiveHoldsName, Alive
    <3>1. CASE r = s
      BY <3>1, <2>3, <2>5
    <3>2. CASE r # s
      <4>1. Alive(r) /\ lockers'[r] = lockers[r] /\ lockers[r].name \in Names
        BY <3>2, <2>4, AliveType DEF Alive, Lockers
      <4> QED
        BY <4>1, <2>5, <2>6 DEF LiveHoldsName
    <3> QED
      BY <3>1, <3>2
  <2>8. HolderIsLive'
    <3> SUFFICES ASSUME NEW n \in Names, openLockers'[n] # None
                 PROVE  lockers'[openLockers'[n]] # NoLocker
                        /\ lockers'[openLockers'[n]].name = n
      BY DEF HolderIsLive, Alive
    <3>1. CASE n = name[t]
      <4>1. openLockers'[n] = s /\ lockers'[s].name = name[t]
        BY <3>1, <2>3, <2>5
      <4> QED
        BY <3>1, <4>1, <2>3
    <3>2. CASE n # name[t]
      <4>1. openLockers[n] \in Slots /\ Alive(openLockers[n])
            /\ lockers[openLockers[n]].name = n
        BY <3>2, <2>5 DEF HolderIsLive, TypeOK
      <4>2. openLockers[n] # s
        BY <4>1, <2>1
      <4> QED
        BY <4>1, <4>2, <3>2, <2>4, <2>5 DEF Alive
    <3> QED
      BY <3>1, <3>2
  <2> QED
    BY <2>7, <2>8
<1>3. ASSUME NEW t \in Tasks, Forget(t) PROVE LiveHoldsName' /\ HolderIsLive'
  <2>1. /\ lockers' = lockers
        /\ openLockers' = [openLockers EXCEPT ![name[t]] = None]
        /\ \A s \in Slots : Alive(s) => lockers[s].name # name[t]
    BY <1>3 DEF Forget
  <2> QED
    BY <2>1, AliveType DEF LiveHoldsName, HolderIsLive, TypeOK, Alive, Lockers
<1>4. ASSUME NEW s \in Slots, CloseLocker(s) PROVE LiveHoldsName' /\ HolderIsLive'
  <2>1. /\ lockers' = [lockers EXCEPT ![s] = NoLocker]
        /\ openLockers' = [n \in Names |->
             IF openLockers[n] = s THEN None ELSE openLockers[n]]
    BY <1>4 DEF CloseLocker
  <2>2. \A r \in Slots : lockers'[r] = IF r = s THEN NoLocker ELSE lockers[r]
    BY <2>1 DEF TypeOK
  <2>3. LiveHoldsName'
    BY <2>1, <2>2, AliveType DEF LiveHoldsName, Alive, Lockers
  <2>4. HolderIsLive'
    BY <2>1, <2>2 DEF HolderIsLive, Alive, TypeOK
  <2> QED
    BY <2>3, <2>4
<1>5. CASE Crash
  BY <1>5 DEF Crash, LiveHoldsName, HolderIsLive, Alive
<1>6. ASSUME NEW t \in Tasks, Step(t), ~ClaimOpen(t), ~Forget(t) PROVE Same
  BY <1>6 DEF Step, Open, Delete, Exists, Cached, LookUp, Register, Cache,
     ReadSchema, BindSchema, ReadChain, BindChain, Erase, GiveUp, ram
<1>7. ASSUME NEW s \in Slots, Write(s) PROVE Same
  BY <1>7 DEF Write, ram
<1> QED
  BY <1>1, <1>2, <1>3, <1>4, <1>5, <1>6, <1>7 DEF Next, vars

(* A name is held by one slot, so two live lockers of one name are one.    *)
LEMMA HoldersApart == LiveHoldsName => OneLockerPerName
BY DEF LiveHoldsName, OneLockerPerName

LEMMA InitClaim == Init => LiveHoldsName /\ HolderIsLive /\ HandlesAgree /\ NobodyDeletes
BY DEF Init, LiveHoldsName, HolderIsLive, HandlesAgree, NobodyDeletes, Alive, PCs

LEMMA NobodyDeletesStep ==
  ASSUME TypeOK, NobodyDeletes, [Next]_vars, ~MayDelete
  PROVE  NobodyDeletes'
<1>1. ASSUME NEW t \in Tasks, Open(t) PROVE NobodyDeletes'
  <2>1. PICK shape \in Shapes :
          /\ as' = [as EXCEPT ![t] = shape]
          /\ pc' \in {pc, [pc EXCEPT ![t] = "exists"]}
    BY <1>1 DEF Open, Goto
  <2>2. shape # NoShape
    BY DEF Shapes, NoShape
  <2> QED
    BY <1>1, <2>1, <2>2 DEF Open, NobodyDeletes, Deleting, TypeOK
<1>2. ASSUME NEW t \in Tasks, Step(t), ~Open(t) PROVE NobodyDeletes'
  <2>1. as' = as /\ ~Delete(t)
    BY <1>2 DEF Step, Delete, Exists, Cached, LookUp, Register, Cache, ReadSchema,
       BindSchema, ReadChain, BindChain, ClaimOpen, Erase, Forget, GiveUp
  <2>2. \A u \in Tasks : u # t => pc'[u] = pc[u]
    BY <1>2, <2>1 DEF Step, Exists, Cached, LookUp, Register, Cache, ReadSchema,
       BindSchema, ReadChain, BindChain, ClaimOpen, Erase, Forget, GiveUp, Goto, TypeOK
  <2>3. pc[t] # "idle" /\ pc[t] \notin {"erase", "forget"} /\ ~Deleting(t)
    BY <1>2, <2>1 DEF Step, Exists, Cached, LookUp, Register, Cache, ReadSchema,
       BindSchema, ReadChain, BindChain, ClaimOpen, Erase, Forget, GiveUp, NobodyDeletes
  <2>4. pc'[t] \notin {"erase", "forget"}
    BY <1>2, <2>1, <2>3 DEF Step, Exists, Cached, LookUp, Register, Cache, ReadSchema,
       BindSchema, ReadChain, BindChain, ClaimOpen, Erase, Forget, GiveUp, Goto, TypeOK,
       AfterId
  <2> QED
    BY <2>1, <2>2, <2>3, <2>4 DEF NobodyDeletes, Deleting
<1>3. ASSUME as' = as, pc' = pc \/ pc' = [t \in Tasks |-> "idle"] PROVE NobodyDeletes'
  BY <1>3 DEF NobodyDeletes, Deleting
<1> QED
  BY <1>1, <1>2, <1>3 DEF Next, Write, CloseLocker, Crash, vars

(* It is enough to look at each handle by itself. *)
LEMMA HandlesAgreeNext ==
  ASSUME \A u \in Tasks : opened'[u] # None =>
           /\ openLockers'[name'[u]] = opened'[u]
           /\ lockers'[opened'[u]] # NoLocker
           /\ lockers'[opened'[u]].name = name'[u]
           /\ lockers'[opened'[u]].as = as'[u]
  PROVE  HandlesAgree'
BY DEF HandlesAgree, Alive

(* Every handle is a view of the locker that holds its name.               *)
LEMMA HandlesStep ==
  ASSUME ClaimInv, [Next]_vars
  PROVE  HandlesAgree'
<1> USE DEF ClaimInv
<1>1. ASSUME NEW t \in Tasks, Open(t) PROVE HandlesAgree'
  <2>1. PICK n \in Names, shape \in Shapes :
          /\ name' = [name EXCEPT ![t] = n]
          /\ as' = [as EXCEPT ![t] = shape]
          /\ \/ IsOpen(n) /\ Share(t, n, shape)
             \/ opened' = [opened EXCEPT ![t] = None]
    BY <1>1 DEF Open
  <2>2. openLockers' = openLockers /\ lockers' = lockers
    BY <1>1 DEF Open, ram
  <2>3. ASSUME opened'[t] # None
        PROVE  /\ openLockers[n] = opened'[t] /\ openLockers[n] # None
               /\ lockers[opened'[t]].as = shape
    BY <2>1, <2>3 DEF Share, Agrees, IsOpen, TypeOK
  <2>4. \A u \in Tasks : u # t =>
          opened'[u] = opened[u] /\ name'[u] = name[u] /\ as'[u] = as[u]
    BY <2>1 DEF Share, TypeOK
  <2>5. name'[t] = n /\ as'[t] = shape
    BY <2>1 DEF TypeOK
  <2> QED
    <3>1. ASSUME NEW u \in Tasks, opened'[u] # None
          PROVE  /\ openLockers'[name'[u]] = opened'[u]
                 /\ lockers'[opened'[u]] # NoLocker
                 /\ lockers'[opened'[u]].name = name'[u]
                 /\ lockers'[opened'[u]].as = as'[u]
      <4>1. CASE u = t
        BY <4>1, <3>1, <2>2, <2>3, <2>5 DEF HolderIsLive, Alive
      <4>2. CASE u # t
        BY <4>2, <3>1, <2>2, <2>4 DEF HandlesAgree, Alive
      <4> QED
        BY <4>1, <4>2
    <3> QED
      BY <3>1, HandlesAgreeNext
<1>2. ASSUME NEW t \in Tasks, ClaimOpen(t) PROVE HandlesAgree'
  <2>1. name' = name /\ as' = as /\ as[t] \in Shapes /\ name[t] \in Names
    BY <1>2 DEF ClaimOpen, TypeOK
  <2>2. CASE ~Unclaimed(t)
    <3>1. openLockers' = openLockers /\ lockers' = lockers /\ Share(t, name[t], as[t])
      BY <1>2, <2>2 DEF ClaimOpen
    <3>2. ASSUME opened'[t] # None
          PROVE  /\ openLockers[name[t]] = opened'[t] /\ openLockers[name[t]] # None
                 /\ lockers[opened'[t]].as = as[t]
      BY <3>1, <3>2, <2>2 DEF Share, Agrees, Unclaimed, IsOpen, TypeOK
    <3>3. \A u \in Tasks : u # t => opened'[u] = opened[u]
      BY <3>1 DEF Share, TypeOK
    <3> QED
      <4>1. ASSUME NEW u \in Tasks, opened'[u] # None
            PROVE  /\ openLockers'[name'[u]] = opened'[u]
                   /\ lockers'[opened'[u]] # NoLocker
                   /\ lockers'[opened'[u]].name = name'[u]
                   /\ lockers'[opened'[u]].as = as'[u]
        <5>1. CASE u = t
          BY <5>1, <4>1, <2>1, <3>1, <3>2 DEF HolderIsLive, Alive
        <5>2. CASE u # t
          BY <5>2, <4>1, <2>1, <3>1, <3>3 DEF HandlesAgree, Alive
        <5> QED
          BY <5>1, <5>2
      <4> QED
        BY <4>1, HandlesAgreeNext
  <2>3. CASE Unclaimed(t)
    <3>1. PICK s \in Slots :
            /\ ~Alive(s)
            /\ lockers' = [lockers EXCEPT ![s] =
                             [name |-> name[t], id |-> id[t], as |-> as[t]]]
            /\ openLockers' = [openLockers EXCEPT ![name[t]] = s]
            /\ opened' = [opened EXCEPT ![t] = s]
      BY <1>2, <2>3 DEF ClaimOpen
    <3>2. openLockers[name[t]] = None
      BY <2>3 DEF Unclaimed, IsOpen
    <3>3. /\ openLockers'[name[t]] = s /\ opened'[t] = s
          /\ lockers'[s] = [name |-> name[t], id |-> id[t], as |-> as[t]]
          /\ lockers'[s] # NoLocker
      BY <3>1, <2>1 DEF TypeOK, NoLocker, Ids
    <3>4. ASSUME NEW u \in Tasks, u # t, opened'[u] # None
          PROVE  /\ openLockers'[name[u]] = opened'[u]
                 /\ lockers'[opened'[u]] # NoLocker
                 /\ lockers'[opened'[u]].name = name[u]
                 /\ lockers'[opened'[u]].as = as[u]
      <4>1. opened'[u] = opened[u] /\ opened[u] \in Slots /\ name[u] \in Names
        BY <3>1, <3>4 DEF TypeOK
      <4>2. /\ openLockers[name[u]] = opened[u] /\ Alive(opened[u])
            /\ lockers[opened[u]].name = name[u] /\ lockers[opened[u]].as = as[u]
        BY <3>4, <4>1 DEF HandlesAgree
      <4>3. opened[u] # s /\ name[u] # name[t]
        BY <3>1, <3>2, <3>4, <4>1, <4>2
      <4>4. openLockers'[name[u]] = openLockers[name[u]]
            /\ lockers'[opened[u]] = lockers[opened[u]]
        BY <3>1, <4>1, <4>3 DEF TypeOK
      <4> QED
        BY <4>1, <4>2, <4>4 DEF Alive
    <3> QED
      <4>1. ASSUME NEW u \in Tasks, opened'[u] # None
            PROVE  /\ openLockers'[name'[u]] = opened'[u]
                   /\ lockers'[opened'[u]] # NoLocker
                   /\ lockers'[opened'[u]].name = name'[u]
                   /\ lockers'[opened'[u]].as = as'[u]
        <5>1. CASE u = t
          <6>1. lockers'[s].name = name[t] /\ lockers'[s].as = as[t]
            BY <3>3
          <6> QED
            BY <5>1, <6>1, <2>1, <3>3
        <5>2. CASE u # t
          BY <5>2, <4>1, <2>1, <3>4
        <5> QED
          BY <5>1, <5>2
      <4> QED
        BY <4>1, HandlesAgreeNext
  <2> QED
    BY <2>2, <2>3
<1>3. ASSUME NEW s \in Slots, CloseLocker(s) PROVE HandlesAgree'
  BY <1>3 DEF CloseLocker, HandlesAgree, Alive, TypeOK
<1>4. CASE Crash
  BY <1>4 DEF Crash, HandlesAgree
<1>5. ASSUME NEW t \in Tasks, Delete(t) PROVE HandlesAgree'
  <2>1. /\ UNCHANGED <<openLockers, lockers>>
        /\ opened' = [opened EXCEPT ![t] = None]
        /\ \A u \in Tasks : u # t => name'[u] = name[u] /\ as'[u] = as[u]
    <3>1. /\ UNCHANGED <<openLockers, lockers>> /\ opened' = [opened EXCEPT ![t] = None]
      BY <1>5 DEF Delete, ram
    <3>2. name' = [name EXCEPT ![t] = name'[t]] /\ as' = [as EXCEPT ![t] = as'[t]]
      <4>1. /\ name \in [Tasks -> Names] /\ as \in [Tasks -> Shapes \cup {NoShape}]
        BY DEF TypeOK
      <4>2. PICK n \in Names : name' = [name EXCEPT ![t] = n]
        BY <1>5 DEF Delete
      <4>3. as' = [as EXCEPT ![t] = NoShape]
        BY <1>5 DEF Delete
      <4> QED
        BY <4>1, <4>2, <4>3
    <3> QED
      BY <3>1, <3>2 DEF TypeOK
  <2>2. \A u \in Tasks : opened'[u] # None => u # t /\ opened'[u] = opened[u]
    BY <2>1 DEF TypeOK
  <2>3. ASSUME NEW u \in Tasks, opened'[u] # None
        PROVE  /\ openLockers'[name'[u]] = opened'[u] /\ lockers'[opened'[u]] # NoLocker
               /\ lockers'[opened'[u]].name = name'[u] /\ lockers'[opened'[u]].as = as'[u]
    <3>1. opened'[u] = opened[u] /\ name'[u] = name[u] /\ as'[u] = as[u]
      BY <2>1, <2>2, <2>3
    <3>2. /\ openLockers[name[u]] = opened[u] /\ Alive(opened[u])
          /\ lockers[opened[u]].name = name[u] /\ lockers[opened[u]].as = as[u]
      BY <2>3, <3>1 DEF HandlesAgree
    <3> QED
      BY <2>1, <3>1, <3>2 DEF Alive
  <2> QED
    BY <2>3 DEF HandlesAgree, Alive
<1>6. ASSUME UNCHANGED <<openLockers, lockers, opened, name, as>> PROVE HandlesAgree'
  BY <1>6 DEF HandlesAgree, Alive
<1>7. ASSUME NEW t \in Tasks, Step(t), ~Open(t), ~Delete(t), ~ClaimOpen(t)
      PROVE  UNCHANGED <<openLockers, lockers, opened, name, as>>
  <2>1. ~Forget(t)
    BY DEF Forget, NobodyDeletes
  <2> QED
    BY <1>7, <2>1 DEF Step, Exists, Cached, LookUp, Register, Cache, ReadSchema,
       BindSchema, ReadChain, BindChain, Erase, GiveUp, ram
<1> QED
  BY <1>1, <1>2, <1>3, <1>4, <1>5, <1>6, <1>7 DEF Next, Write, vars, ram

(* Nothing deleted: the claim's invariant holds, however many tasks open.  *)
THEOREM ClaimInvHolds == ASSUME ~MayDelete PROVE Spec => []ClaimInv
<1>1. Init => ClaimInv
  BY InitType, InitClaim DEF ClaimInv
<1>2. ClaimInv /\ [Next]_vars => ClaimInv'
  <2> SUFFICES ASSUME ClaimInv, [Next]_vars PROVE ClaimInv'
    OBVIOUS
  <2>1. \A t \in Tasks : ~Forget(t)
    BY DEF Forget, ClaimInv, NobodyDeletes
  <2> QED
    BY <2>1, TypeStep, ClaimStep, HandlesStep, NobodyDeletesStep DEF ClaimInv
<1> QED
  BY <1>1, <1>2, PTL DEF Spec

(* Nothing deleted: of one name, one locker is alive at a time, however    *)
(* many opens of it race past the check in locker_with (claim_open).       *)
THEOREM OneNameOneLocker == ASSUME ~MayDelete PROVE Spec => []OneLockerPerName
<1>1. ClaimInv => OneLockerPerName
  BY HoldersApart DEF ClaimInv
<1> QED
  BY <1>1, ClaimInvHolds, PTL

(* Nothing deleted: every handle is a view of the locker that holds its    *)
(* name, opened as its caller asked (check_shared).                        *)
THEOREM HandlesAreViews == ASSUME ~MayDelete PROVE Spec => []HandlesAgree
<1>1. ClaimInv => HandlesAgree
  BY DEF ClaimInv
<1> QED
  BY <1>1, ClaimInvHolds, PTL

-----------------------------------------------------------------------------
(* One task at a time. *)

OneAtATime == \A t, u \in Tasks : t = u
Described == IdsInOrder /\ RowsDescribe /\ LiveIsBound

LEMMA InitAlone == Init => Described /\ FindingsHold
<1> SUFFICES ASSUME Init PROVE Described /\ FindingsHold
  OBVIOUS
<1>1. FindingsHold /\ LiveIsBound
  BY DEF Init, FindingsHold, LiveIsBound, Alive, Bound
<1>2. IdsInOrder /\ RowsDescribe
  <2>1. CASE Fresh
    BY <2>1 DEF Init, Fresh, IdsInOrder, RowsDescribe, Ids
  <2>2. CASE Legacy
    <3>1. PICK n \in Names, ty \in Types :
            /\ row = [m \in Names |-> IF m = n THEN 0 ELSE None] /\ nextId = 1
            /\ schema = [i \in Ids |-> IF i = 0 THEN ty ELSE None]
            /\ data = [i \in Ids |-> IF i # 0 THEN {} ELSE
                 {[name |-> n, as |-> [type |-> ty, chain |-> BankChain]]}]
      BY <2>2 DEF Legacy
    <3>2. IdsInOrder
      BY <3>1 DEF Init, IdsInOrder, Ids
    <3>3. RowsDescribe
      BY <3>1 DEF Init, RowsDescribe, Ids
    <3> QED
      BY <3>2, <3>3
  <2> QED
    BY <2>1, <2>2 DEF Init
<1> QED
  BY <1>1, <1>2 DEF Described

(* The parts of the invariant that speak of rows and records, when only    *)
(* the tasks move.                                                         *)
LEMMA DescribedStays ==
  ASSUME Described, UNCHANGED <<row, nextId, schema, chainRow, data, registry, lockers>>,
         \A t \in Tasks : pc[t] # "forget"
  PROVE  Described'
BY DEF Described, IdsInOrder, RowsDescribe, LiveIsBound, Alive

(* Only the task moves: what it has found, it has found of a store and a   *)
(* registry that nobody else has changed.                                  *)
LEMMA QuietStep ==
  ASSUME OneAtATime, AloneInv, NEW t \in Tasks,
         \/ Open(t) \/ Delete(t) \/ Exists(t) \/ Cached(t) \/ LookUp(t)
         \/ ReadSchema(t) \/ ReadChain(t) \/ GiveUp(t)
  PROVE  Described' /\ FindingsHold'
<1> USE DEF AloneInv
<1>1. UNCHANGED <<row, nextId, schema, chainRow, data, registry, openLockers, lockers>>
  BY DEF Open, Delete, Exists, Cached, LookUp, ReadSchema, ReadChain, GiveUp, store, ram
<1>2. pc[t] # "forget" /\ \A u \in Tasks : u = t
  BY DEF OneAtATime, Open, Delete, Exists, Cached, LookUp, ReadSchema, ReadChain, GiveUp
<1>3. Described'
  <2>1. Described /\ \A u \in Tasks : pc[u] # "forget"
    BY <1>2 DEF Described
  <2> QED
    BY <1>1, <2>1, DescribedStays
<1>4. FindingsHold'
  <2>1. CASE Open(t) \/ Delete(t)
    <3>1. PICK n \in Names :
            /\ name' = [name EXCEPT ![t] = n]
            /\ pc' = pc \/ (pc' = [pc EXCEPT ![t] = "exists"] /\ ~IsOpen(n))
      BY <2>1 DEF Open, Delete, Goto
    <3>2. pc[t] = "idle" /\ name'[t] = n
      BY <2>1, <3>1 DEF Open, Delete, TypeOK
    <3>3. ~IsOpen(n) => \A s \in Slots : Alive(s) => lockers[s].name # n
      BY DEF LiveHoldsName, IsOpen
    <3>4. pc'[t] \in {"idle", "exists"} /\ (pc'[t] = "exists" => ~IsOpen(n))
      BY <3>1, <3>2 DEF TypeOK
    <3> QED
      BY <1>1, <1>2, <3>2, <3>3, <3>4 DEF FindingsHold, Alive, Bound
  <2>2. CASE Exists(t)
    <3>1. registry[name[t]] # None => row[name[t]] # None
      BY <1>2 DEF IdsInOrder, TypeOK
    <3>2. /\ name' = name /\ pc[t] = "exists" /\ pc'[t] \in {"idle", "id"}
          /\ existed'[t] <=> row[name[t]] # None
      BY <2>2, <3>1 DEF Exists, Goto, TypeOK
    <3>3. \A s \in Slots : Alive(s)' => lockers'[s].name # name'[t]
      BY <1>1, <1>2, <3>2 DEF FindingsHold, Alive
    <3> HIDE DEF AloneInv
    <3> QED
      BY <1>1, <1>2, <3>2, <3>3 DEF FindingsHold, Bound
  <2>3. CASE Cached(t)
    <3>1. row[name[t]] = registry[name[t]] /\ row[name[t]] # None
      BY <1>2, <2>3 DEF IdsInOrder, TypeOK, Cached
    <3>2. /\ name' = name /\ existed' = existed /\ pc[t] = "id"
          /\ pc'[t] \in {"schema", "erase"} /\ id'[t] = row[name[t]]
      BY <2>3, <3>1 DEF Cached, Goto, TypeOK, AfterId
    <3> QED
      BY <1>1, <1>2, <3>1, <3>2 DEF FindingsHold, Alive, Bound
  <2>4. CASE LookUp(t)
    <3>1. /\ name' = name /\ existed' = existed /\ pc[t] = "id"
          /\ \/ row[name[t]] # None /\ pc'[t] = "caching" /\ id'[t] = row[name[t]]
             \/ row[name[t]] = None /\ pc'[t] = "register" /\ id'[t] = nextId
      BY <2>4 DEF LookUp, Goto, TypeOK
    <3>2. /\ \A s \in Slots : Alive(s)' => lockers'[s].name # name'[t]
          /\ existed[t] <=> row[name[t]] # None
      BY <1>1, <3>1 DEF FindingsHold, Alive
    <3> HIDE DEF AloneInv
    <3>3. CASE pc'[t] = "caching" /\ id'[t] = row[name[t]] /\ row[name[t]] # None
      BY <1>1, <1>2, <3>1, <3>2, <3>3 DEF FindingsHold, Bound
    <3>4. CASE pc'[t] = "register" /\ id'[t] = nextId /\ row[name[t]] = None
      BY <1>1, <1>2, <3>1, <3>2, <3>4 DEF FindingsHold, Bound
    <3> QED
      BY <3>1, <3>3, <3>4
  <2>5. CASE ReadSchema(t)
    <3>1. /\ UNCHANGED <<name, as, existed, id>> /\ pc[t] = "schema"
          /\ \/ pc'[t] = "bindschema" /\ schema[id[t]] = None
             \/ pc'[t] = "chain" /\ schema[id[t]] = as[t].type
             \/ pc'[t] = "idle"
      <4>0. as[t].type # None
        BY <2>5 DEF ReadSchema, TypeOK, Shapes
      <4>1. CASE schema[id[t]] = None
        BY <2>5, <4>0, <4>1 DEF ReadSchema, Goto, TypeOK
      <4>2. CASE schema[id[t]] # None /\ schema[id[t]] = as[t].type
        BY <2>5, <4>2 DEF ReadSchema, Goto, TypeOK
      <4>3. CASE schema[id[t]] # None /\ schema[id[t]] # as[t].type
        BY <2>5, <4>3 DEF ReadSchema, Goto, TypeOK
      <4> QED
        BY <4>1, <4>2, <4>3
    <3> QED
      BY <1>1, <1>2, <3>1 DEF FindingsHold, Alive, Bound
  <2>6. CASE ReadChain(t)
    <3>1. /\ UNCHANGED <<name, as, existed, id>> /\ pc[t] = "chain"
          /\ \/ pc'[t] = "bindchain" /\ chainRow[id[t]] = None /\ Adopts(t)
             \/ pc'[t] = "claim" /\ chainRow[id[t]] = as[t].chain
             \/ pc'[t] = "idle"
      <4>0. as[t].chain # None
        BY <2>6 DEF ReadChain, TypeOK, Shapes
      <4>1. CASE chainRow[id[t]] = None
        BY <2>6, <4>0, <4>1 DEF ReadChain, Goto, TypeOK
      <4>2. CASE chainRow[id[t]] # None /\ chainRow[id[t]] = as[t].chain
        BY <2>6, <4>2 DEF ReadChain, Goto, TypeOK
      <4>3. CASE chainRow[id[t]] # None /\ chainRow[id[t]] # as[t].chain
        BY <2>6, <4>3 DEF ReadChain, Goto, TypeOK
      <4> QED
        BY <4>1, <4>2, <4>3
    <3>2. /\ pc'[t] \in {"idle", "bindchain", "claim"}
          /\ pc'[t] = "bindchain" => chainRow'[id'[t]] = None /\ Adopts(t)'
          /\ pc'[t] = "claim" => chainRow'[id'[t]] = as'[t].chain
      BY <1>1, <3>1 DEF Adopts
    <3>3. /\ \A s \in Slots : Alive(s)' => lockers'[s].name # name'[t]
          /\ row'[name'[t]] = id'[t] /\ (~existed'[t] => data'[id'[t]] = {})
          /\ schema'[id'[t]] = as'[t].type
      BY <1>1, <3>1 DEF FindingsHold, Alive, Bound
    <3> QED
      BY <1>2, <3>2, <3>3 DEF FindingsHold, Bound
  <2>7. CASE GiveUp(t)
    <3>1. pc'[t] = "idle"
      BY <2>7 DEF GiveUp, Goto, TypeOK
    <3> QED
      BY <1>2, <3>1 DEF FindingsHold, Bound
  <2> QED
    BY <2>1, <2>2, <2>3, <2>4, <2>5, <2>6, <2>7
<1> QED
  BY <1>3, <1>4

(* locker_id registers the name under the counter, past every id in use.   *)
LEMMA RegisterStep ==
  ASSUME OneAtATime, AloneInv, NEW t \in Tasks, Register(t)
  PROVE  Described' /\ FindingsHold'
<1> USE DEF AloneInv
<1>1. /\ row' = [row EXCEPT ![name[t]] = id[t]] /\ nextId' = id[t] + 1
      /\ UNCHANGED <<schema, chainRow, data, registry, lockers, name, as, existed, id>>
      /\ pc[t] = "register" /\ pc'[t] = "caching"
      /\ name[t] \in Names /\ id[t] \in Nat /\ nextId \in Nat
  BY DEF Register, NextAfter, Goto, TypeOK, Ids, ram
<1>2. /\ row[name[t]] = None /\ id[t] = nextId /\ ~existed[t]
      /\ \A s \in Slots : Alive(s) => lockers[s].name # name[t]
      /\ \A u \in Tasks : u = t
  BY <1>1 DEF FindingsHold, OneAtATime
<1>3. row'[name[t]] = nextId /\ nextId' = nextId + 1
      /\ \A n \in Names : n # name[t] => row'[n] = row[n]
  BY <1>1, <1>2 DEF TypeOK
<1>4. /\ schema[nextId] = None /\ chainRow[nextId] = None /\ data[nextId] = {}
      /\ \A n \in Names : row[n] \in Nat => row[n] < nextId
  BY DEF IdsInOrder, TypeOK, Ids
<1>5. IdsInOrder'
  <2>1. \A n \in Names : row'[n] # None => row'[n] < nextId'
    BY <1>1, <1>3, <1>4 DEF TypeOK, Ids
  <2>2. \A m, n \in Names : row'[m] # None /\ row'[m] = row'[n] => m = n
    BY <1>1, <1>3, <1>4 DEF IdsInOrder, TypeOK, Ids
  <2>3. \A i \in Ids : i >= nextId' =>
          schema'[i] = None /\ chainRow'[i] = None /\ data'[i] = {}
    BY <1>1, <1>3 DEF IdsInOrder, Ids
  <2>4. \A n \in Names : registry'[n] # None => row'[n] = registry'[n]
    <3>1. \A n \in Names : registry[n] # None => row[n] = registry[n]
      BY <1>1, <1>2 DEF IdsInOrder
    <3> QED
      BY <1>1, <1>2, <1>3, <3>1
  <2> QED
    BY <2>1, <2>2, <2>3, <2>4 DEF IdsInOrder
<1>6. RowsDescribe'
  <2> SUFFICES ASSUME NEW i \in Ids, NEW d \in data[i]
               PROVE  /\ row'[d.name] = i /\ schema[i] = d.as.type
                      /\ chainRow[i] = d.as.chain
                         \/ (chainRow[i] = None /\ d.as.chain = BankChain)
    BY <1>1 DEF RowsDescribe
  <2>1. row[d.name] = i /\ d.name \in Names /\ i # None
    <3>1. d \in Seals
      BY DEF TypeOK
    <3> QED
      BY <3>1 DEF RowsDescribe, Seals, Ids
  <2> QED
    BY <1>2, <1>3, <2>1 DEF RowsDescribe
<1>7. LiveIsBound'
  <2> SUFFICES ASSUME NEW s \in Slots, Alive(s)
               PROVE  /\ row'[lockers[s].name] = lockers[s].id
                      /\ schema[lockers[s].id] = lockers[s].as.type
                      /\ chainRow[lockers[s].id] = lockers[s].as.chain
    BY <1>1 DEF LiveIsBound, Alive
  <2>1. lockers[s].name \in Names /\ lockers[s].name # name[t]
    BY <1>2, AliveType DEF Lockers
  <2> QED
    BY <1>3, <2>1 DEF LiveIsBound
<1>8. FindingsHold'
  <2>1. \A s \in Slots : Alive(s)' => lockers'[s].name # name'[t]
    BY <1>1, <1>2 DEF Alive
  <2>2. row'[name'[t]] = id'[t] /\ data'[id'[t]] = {}
    BY <1>1, <1>2, <1>3, <1>4
  <2> HIDE DEF AloneInv
  <2> QED
    BY <1>1, <1>2, <2>1, <2>2 DEF FindingsHold, Bound
<1> QED
  BY <1>5, <1>6, <1>7, <1>8 DEF Described

LEMMA CacheStep ==
  ASSUME OneAtATime, AloneInv, NEW t \in Tasks, Cache(t)
  PROVE  Described' /\ FindingsHold'
<1> USE DEF AloneInv
<1>1. /\ UNCHANGED <<row, nextId, schema, chainRow, data, lockers, name, as, existed, id>>
      /\ registry' = [registry EXCEPT ![name[t]] = id[t]]
      /\ pc[t] = "caching" /\ pc'[t] \in {"schema", "erase"} /\ name[t] \in Names
      /\ \A u \in Tasks : u = t
  BY DEF Cache, Goto, AfterId, TypeOK, store, OneAtATime
<1>2. /\ row[name[t]] = id[t] /\ (~existed[t] => data[id[t]] = {})
      /\ \A s \in Slots : Alive(s) => lockers[s].name # name[t]
  BY <1>1 DEF FindingsHold, Bound
<1>3. \A n \in Names : registry'[n] # None => row'[n] = registry'[n]
  BY <1>1, <1>2 DEF IdsInOrder, TypeOK
<1>4. Described'
  BY <1>1, <1>3 DEF Described, IdsInOrder, RowsDescribe, LiveIsBound, Alive
<1>5. FindingsHold'
  BY <1>1, <1>2 DEF FindingsHold, Bound, Alive
<1> QED
  BY <1>4, <1>5

(* bind_schema and bind_chain write rows that no record and no live locker *)
(* speaks of yet; the chain they adopt is that of the records there are.   *)
LEMMA BindStep ==
  ASSUME OneAtATime, AloneInv, NEW t \in Tasks, BindSchema(t) \/ BindChain(t)
  PROVE  Described' /\ FindingsHold'
<1> USE DEF AloneInv
<1>1. /\ UNCHANGED <<row, nextId, data, registry, lockers, name, as, existed, id>>
      /\ pc[t] \in {"bindschema", "bindchain"} /\ as[t] \in Shapes
      /\ id[t] \in Ids /\ name[t] \in Names
      /\ \A u \in Tasks : u = t
  BY DEF BindSchema, BindChain, TypeOK, ram, OneAtATime
<1>2. /\ row[name[t]] = id[t] /\ (~existed[t] => data[id[t]] = {})
      /\ \A s \in Slots : Alive(s) => lockers[s].name # name[t]
  BY <1>1 DEF FindingsHold, Bound
<1>3. id[t] < nextId
  BY <1>1, <1>2 DEF IdsInOrder, TypeOK, Ids
<1>4. \A s \in Slots : Alive(s) => lockers[s].id # id[t]
  BY <1>1, <1>2, AliveType DEF LiveIsBound, IdsInOrder, Lockers, Ids
<1>5. CASE BindSchema(t)
  <2>1. /\ schema' = [schema EXCEPT ![id[t]] = as[t].type] /\ chainRow' = chainRow
        /\ pc[t] = "bindschema" /\ pc'[t] = "chain"
    BY <1>5 DEF BindSchema, Goto, TypeOK
  <2>2. schema'[id[t]] = as[t].type /\ \A i \in Ids : i # id[t] => schema'[i] = schema[i]
    BY <1>1, <2>1 DEF TypeOK
  <2>3. data[id[t]] = {}
    <3>1. schema[id[t]] = None
      BY <2>1 DEF FindingsHold
    <3>2. \A d \in data[id[t]] : d.as.type \in Types
      BY <1>1 DEF TypeOK, Seals, Shapes
    <3> QED
      BY <1>1, <3>1, <3>2 DEF RowsDescribe, TypeOK
  <2>4. IdsInOrder'
    <3>1. \A i \in Ids : i >= nextId => i # id[t]
      BY <1>1, <1>3 DEF TypeOK, Ids
    <3>2. \A n \in Names : registry[n] # None => row[n] = registry[n]
      BY <1>1 DEF IdsInOrder
    <3> QED
      BY <1>1, <2>1, <2>2, <3>1, <3>2 DEF IdsInOrder
  <2>5. RowsDescribe'
    <3>0. RowsDescribe
      OBVIOUS
    <3> HIDE DEF AloneInv
    <3> SUFFICES ASSUME NEW i \in Ids, NEW d \in data'[i]
                 PROVE  /\ row'[d.name] = i /\ schema'[i] = d.as.type
                        /\ chainRow'[i] = d.as.chain
                           \/ (chainRow'[i] = None /\ d.as.chain = BankChain)
      BY DEF RowsDescribe
    <3>2. d \in data[i] /\ row' = row /\ chainRow' = chainRow
      BY <1>1, <2>1
    <3>1. schema'[i] = schema[i]
      BY <2>2, <2>3, <3>2
    <3> QED
      BY <3>0, <3>1, <3>2 DEF RowsDescribe
  <2>6. LiveIsBound'
    BY <1>1, <1>4, <2>1, <2>2, AliveType DEF LiveIsBound, Alive, Lockers
  <2>7. FindingsHold'
    <3>1. \A s \in Slots : Alive(s)' => lockers'[s].name # name'[t]
      BY <1>1, <1>2 DEF Alive
    <3>2. row'[name'[t]] = id'[t] /\ (~existed'[t] => data'[id'[t]] = {})
      BY <1>1, <1>2
    <3>3. schema'[id'[t]] = as'[t].type
      BY <1>1, <2>2
    <3> HIDE DEF AloneInv
    <3> QED
      BY <1>1, <2>1, <3>1, <3>2, <3>3 DEF FindingsHold, Bound
  <2> QED
    BY <2>4, <2>5, <2>6, <2>7 DEF Described
<1>6. CASE BindChain(t)
  <2>1. /\ chainRow' = [chainRow EXCEPT ![id[t]] = as[t].chain] /\ schema' = schema
        /\ pc[t] = "bindchain" /\ pc'[t] = "claim"
    BY <1>6 DEF BindChain, Goto, TypeOK
  <2>2. /\ chainRow'[id[t]] = as[t].chain
        /\ \A i \in Ids : i # id[t] => chainRow'[i] = chainRow[i]
    BY <1>1, <2>1 DEF TypeOK
  <2>3. /\ chainRow[id[t]] = None /\ schema[id[t]] = as[t].type
        /\ existed[t] => as[t].chain = BankChain
    BY <2>1 DEF FindingsHold, Adopts
  <2>4. \A d \in data[id[t]] : d.as.chain = as[t].chain
    <3>1. \A d \in data[id[t]] : d.as.chain = BankChain
      <4>1. \A d \in data[id[t]] : d.as.chain \in Chains
        BY <1>1 DEF TypeOK, Seals, Shapes
      <4> QED
        BY <1>1, <2>3, <4>1 DEF RowsDescribe
    <3> QED
      BY <1>2, <2>3, <3>1
  <2>5. IdsInOrder'
    <3>1. \A i \in Ids : i >= nextId => i # id[t]
      BY <1>1, <1>3 DEF TypeOK, Ids
    <3>2. \A n \in Names : registry[n] # None => row[n] = registry[n]
      BY <1>1 DEF IdsInOrder
    <3> QED
      BY <1>1, <2>1, <2>2, <3>1, <3>2 DEF IdsInOrder
  <2>6. RowsDescribe'
    <3>0. RowsDescribe
      OBVIOUS
    <3> HIDE DEF AloneInv
    <3> SUFFICES ASSUME NEW i \in Ids, NEW d \in data'[i]
                 PROVE  /\ row'[d.name] = i /\ schema'[i] = d.as.type
                        /\ chainRow'[i] = d.as.chain
                           \/ (chainRow'[i] = None /\ d.as.chain = BankChain)
      BY DEF RowsDescribe
    <3>1. d \in data[i] /\ row' = row /\ schema' = schema
      BY <1>1, <2>1
    <3>2. CASE i = id[t]
      BY <3>0, <2>2, <2>4, <3>1, <3>2 DEF RowsDescribe
    <3>3. CASE i # id[t]
      BY <3>0, <2>2, <3>1, <3>3 DEF RowsDescribe
    <3> QED
      BY <3>2, <3>3
  <2>7. LiveIsBound'
    BY <1>1, <1>4, <2>1, <2>2, AliveType DEF LiveIsBound, Alive, Lockers
  <2>8. FindingsHold'
    <3>1. \A s \in Slots : Alive(s)' => lockers'[s].name # name'[t]
      BY <1>1, <1>2 DEF Alive
    <3>2. row'[name'[t]] = id'[t] /\ (~existed'[t] => data'[id'[t]] = {})
      BY <1>1, <1>2
    <3>3. schema'[id'[t]] = as'[t].type /\ chainRow'[id'[t]] = as'[t].chain
      BY <1>1, <2>1, <2>2, <2>3
    <3> HIDE DEF AloneInv
    <3> QED
      BY <1>1, <2>1, <3>1, <3>2, <3>3 DEF FindingsHold, Bound
  <2> QED
    BY <2>5, <2>6, <2>7, <2>8 DEF Described
<1> QED
  BY <1>5, <1>6

(* A locker that claims its name is bound to the rows it has verified.     *)
LEMMA ClaimOpenStep ==
  ASSUME OneAtATime, AloneInv, NEW t \in Tasks, ClaimOpen(t)
  PROVE  Described' /\ FindingsHold'
<1> USE DEF AloneInv
<1>1. /\ UNCHANGED <<row, nextId, schema, chainRow, data, registry>>
      /\ pc[t] = "claim" /\ pc'[t] = "idle"
      /\ \A u \in Tasks : u = t
  BY DEF ClaimOpen, Goto, TypeOK, store, OneAtATime
<1>2. /\ row[name[t]] = id[t] /\ schema[id[t]] = as[t].type
      /\ chainRow[id[t]] = as[t].chain
  BY <1>1 DEF FindingsHold, Bound
<1>3. IdsInOrder' /\ RowsDescribe'
  BY <1>1 DEF IdsInOrder, RowsDescribe
<1>4. LiveIsBound'
  <2> SUFFICES ASSUME NEW s \in Slots, lockers'[s] # NoLocker
               PROVE  /\ row[lockers'[s].name] = lockers'[s].id
                      /\ schema[lockers'[s].id] = lockers'[s].as.type
                      /\ chainRow[lockers'[s].id] = lockers'[s].as.chain
    BY <1>1 DEF LiveIsBound, Alive
  <2>1. \/ lockers'[s] = lockers[s]
        \/ lockers'[s] = [name |-> name[t], id |-> id[t], as |-> as[t]]
    BY DEF ClaimOpen, TypeOK
  <2>2. CASE lockers'[s] = lockers[s]
    BY <2>2 DEF LiveIsBound, Alive
  <2>3. CASE lockers'[s] = [name |-> name[t], id |-> id[t], as |-> as[t]]
    <3>1. /\ lockers'[s].name = name[t] /\ lockers'[s].id = id[t]
          /\ lockers'[s].as = as[t]
      BY <2>3
    <3> QED
      BY <3>1, <1>2
  <2> QED
    BY <2>1, <2>2, <2>3
<1>5. FindingsHold'
  BY <1>1 DEF FindingsHold, Bound
<1> QED
  BY <1>3, <1>4, <1>5 DEF Described

(* delete_locker takes the records together with the rows that describe    *)
(* them, from under a name no live locker has.                             *)
LEMMA EraseStep ==
  ASSUME OneAtATime, AloneInv, NEW t \in Tasks, Erase(t)
  PROVE  Described' /\ FindingsHold'
<1> USE DEF AloneInv
<1>1. /\ UNCHANGED <<nextId, chainRow, registry, lockers, name, as, existed, id>>
      /\ data' = [data EXCEPT ![id[t]] = {}]
      /\ row' = [row EXCEPT ![name[t]] = None]
      /\ schema' = [schema EXCEPT ![id[t]] = None]
      /\ pc[t] = "erase" /\ pc'[t] = "forget"
      /\ name[t] \in Names /\ id[t] \in Ids
      /\ \A u \in Tasks : u = t
  BY DEF Erase, Goto, TypeOK, ram, OneAtATime
<1>2. /\ row[name[t]] = id[t]
      /\ \A s \in Slots : Alive(s) => lockers[s].name # name[t]
  BY <1>1 DEF FindingsHold, Bound
<1>3. /\ \A n \in Names : row'[n] = IF n = name[t] THEN None ELSE row[n]
      /\ \A i \in Ids : i # id[t] => data'[i] = data[i] /\ schema'[i] = schema[i]
      /\ data'[id[t]] = {} /\ schema'[id[t]] = None
  BY <1>1 DEF TypeOK
<1>4. \A n \in Names : row[n] = id[t] => n = name[t]
  BY <1>1, <1>2 DEF IdsInOrder, Ids
<1>5. IdsInOrder'
  <2>1. \A n \in Names : row'[n] # None => row'[n] < nextId'
    BY <1>1, <1>3 DEF IdsInOrder
  <2>2. \A m, n \in Names : row'[m] # None /\ row'[m] = row'[n] => m = n
    BY <1>3 DEF IdsInOrder
  <2>3. \A i \in Ids : i >= nextId' =>
          schema'[i] = None /\ chainRow'[i] = None /\ data'[i] = {}
    BY <1>1, <1>3 DEF IdsInOrder
  <2>4. \A n \in Names : registry'[n] # None => row'[n] = registry'[n]
           \/ \E u \in Tasks : pc'[u] = "forget" /\ name'[u] = n
    <3>1. \A n \in Names : registry[n] # None => row[n] = registry[n]
      BY <1>1 DEF IdsInOrder
    <3> QED
      BY <1>1, <1>3, <3>1
  <2> QED
    BY <2>1, <2>2, <2>3, <2>4 DEF IdsInOrder
<1>6. RowsDescribe'
  <2> SUFFICES ASSUME NEW i \in Ids, NEW d \in data'[i]
               PROVE  /\ row'[d.name] = i /\ schema'[i] = d.as.type
                      /\ chainRow[i] = d.as.chain
                         \/ (chainRow[i] = None /\ d.as.chain = BankChain)
    BY <1>1 DEF RowsDescribe
  <2>1. i # id[t] /\ d \in data[i]
    BY <1>3
  <2>2. d \in Seals
    BY <2>1 DEF TypeOK
  <2>3. d.name \in Names /\ row[d.name] = i
    BY <2>1, <2>2 DEF RowsDescribe, Seals
  <2>4. d.name # name[t]
    BY <2>1, <2>3, <1>2
  <2> QED
    BY <1>3, <2>1, <2>3, <2>4 DEF RowsDescribe
<1>7. LiveIsBound'
  <2> SUFFICES ASSUME NEW s \in Slots, Alive(s)
               PROVE  /\ row'[lockers[s].name] = lockers[s].id
                      /\ schema'[lockers[s].id] = lockers[s].as.type
                      /\ chainRow[lockers[s].id] = lockers[s].as.chain
    BY <1>1 DEF LiveIsBound, Alive
  <2>1. /\ lockers[s].name \in Names /\ lockers[s].name # name[t]
        /\ lockers[s].id \in Ids
    BY <1>2, AliveType DEF Lockers
  <2>2. lockers[s].id # id[t]
    BY <1>4, <2>1 DEF LiveIsBound
  <2> QED
    BY <1>3, <2>1, <2>2 DEF LiveIsBound
<1>8. FindingsHold'
  BY <1>1, <1>2 DEF FindingsHold, Bound, Alive
<1> QED
  BY <1>5, <1>6, <1>7, <1>8 DEF Described

LEMMA ForgetStep ==
  ASSUME OneAtATime, AloneInv, NEW t \in Tasks, Forget(t)
  PROVE  Described' /\ FindingsHold'
<1> USE DEF AloneInv
<1>1. /\ UNCHANGED <<row, nextId, schema, chainRow, data, lockers, name>>
      /\ registry' = [registry EXCEPT ![name[t]] = None]
      /\ pc'[t] = "idle" /\ name[t] \in Names
      /\ \A u \in Tasks : u = t
  BY DEF Forget, RegistryWithout, Goto, TypeOK, store, OneAtATime
<1>2. \A n \in Names : registry'[n] # None => row'[n] = registry'[n]
  <2>1. \A n \in Names : n # name[t] /\ registry[n] # None => row[n] = registry[n]
    BY <1>1 DEF IdsInOrder
  <2> QED
    BY <1>1, <2>1 DEF TypeOK
<1> QED
  BY <1>1, <1>2 DEF Described, IdsInOrder, RowsDescribe, LiveIsBound, Alive,
     FindingsHold, Bound

(* A write lands under the rows its locker is bound to.                    *)
LEMMA WriteStep ==
  ASSUME AloneInv, NEW s \in Slots, Write(s)
  PROVE  Described' /\ FindingsHold'
<1> USE DEF AloneInv
<1> DEFINE l == lockers[s]
           new == [name |-> l.name, as |-> l.as]
<1>1. /\ UNCHANGED <<row, nextId, schema, chainRow, registry, lockers, pc, name, as,
                     existed, id>>
      /\ Alive(s) /\ l.name \in Names /\ l.id \in Ids
  BY AliveType DEF Write, Lockers, ram
<1>2. /\ data'[l.id] = data[l.id] \cup {new}
      /\ \A i \in Ids : i # l.id => data'[i] = data[i]
  BY <1>1 DEF Write, TypeOK
<1>3. /\ row[l.name] = l.id /\ schema[l.id] = l.as.type
      /\ chainRow[l.id] = l.as.chain
  BY <1>1 DEF LiveIsBound
<1>4. IdsInOrder'
  <2>1. l.id < nextId
    BY <1>1, <1>3 DEF IdsInOrder, Ids
  <2>2. \A i \in Ids : i >= nextId => i # l.id
    BY <1>1, <2>1 DEF TypeOK, Ids
  <2> QED
    BY <1>1, <1>2, <2>2 DEF IdsInOrder
<1>5. RowsDescribe'
  <2> SUFFICES ASSUME NEW i \in Ids, NEW d \in data'[i]
               PROVE  /\ row[d.name] = i /\ schema[i] = d.as.type
                      /\ chainRow[i] = d.as.chain
                         \/ (chainRow[i] = None /\ d.as.chain = BankChain)
    BY <1>1 DEF RowsDescribe
  <2>1. CASE d \in data[i]
    BY <2>1 DEF RowsDescribe
  <2>2. CASE d \notin data[i]
    <3>1. i = l.id /\ d = new
      BY <2>2, <1>2
    <3>2. d.name = l.name /\ d.as = l.as
      BY <3>1
    <3> QED
      BY <1>3, <3>1, <3>2
  <2> QED
    BY <2>1, <2>2
<1>6. LiveIsBound'
  BY <1>1 DEF LiveIsBound, Alive
<1>7. FindingsHold'
  <2> SUFFICES ASSUME NEW t \in Tasks, pc[t] \in Bound, ~existed[t]
               PROVE  data'[id[t]] = {}
    BY <1>1 DEF FindingsHold, Alive, Adopts
  <2>1. id[t] \in Ids /\ name[t] \in Names /\ l.name \in Names
    BY <1>1 DEF TypeOK
  <2>2. pc[t] # "idle"
    BY DEF Bound
  <2>3. row[name[t]] = id[t] /\ l.name # name[t]
    BY <1>1, <2>2 DEF FindingsHold
  <2>4. id[t] # l.id
    <3>1. row[name[t]] # None
      BY <2>1, <2>3, RegistryAssumption DEF Ids
    <3> QED
      BY <1>3, <2>1, <2>3, <3>1 DEF IdsInOrder
  <2> QED
    BY <1>2, <2>1, <2>4 DEF FindingsHold
<1> QED
  BY <1>4, <1>5, <1>6, <1>7 DEF Described

LEMMA CloseStep ==
  ASSUME AloneInv, NEW s \in Slots, CloseLocker(s)
  PROVE  Described' /\ FindingsHold'
<1> USE DEF AloneInv
<1>1. /\ UNCHANGED <<row, nextId, schema, chainRow, data, registry, pc, name, as,
                     existed, id>>
      /\ \A r \in Slots : Alive(r)' => Alive(r) /\ lockers'[r] = lockers[r]
  BY DEF CloseLocker, store, Alive, TypeOK
<1>2. Described'
  BY <1>1 DEF Described, IdsInOrder, RowsDescribe, LiveIsBound
<1>3. \A t \in Tasks : Adopts(t)' <=> Adopts(t)
  BY <1>1 DEF Adopts
<1>4. \A t \in Tasks :
        pc[t] # "idle" => \A r \in Slots : Alive(r)' => lockers'[r].name # name[t]
  <2> SUFFICES ASSUME NEW t \in Tasks, pc[t] # "idle", NEW r \in Slots, Alive(r)'
               PROVE  lockers'[r].name # name[t]
    OBVIOUS
  <2>1. Alive(r) /\ lockers'[r] = lockers[r]
    BY <1>1
  <2>2. lockers[r].name # name[t]
    BY <2>1 DEF FindingsHold
  <2> QED
    BY <2>1, <2>2
<1>5. FindingsHold'
  BY <1>1, <1>3, <1>4 DEF FindingsHold
<1> QED
  BY <1>2, <1>5

LEMMA CrashStep ==
  ASSUME AloneInv, Crash
  PROVE  Described' /\ FindingsHold'
<1> USE DEF AloneInv
<1>1. /\ UNCHANGED <<row, nextId, schema, chainRow, data>>
      /\ \A n \in Names : registry'[n] = None
      /\ \A s \in Slots : ~Alive(s)'
      /\ \A t \in Tasks : pc'[t] = "idle"
  BY DEF Crash, store, Alive
<1> QED
  BY <1>1 DEF Described, IdsInOrder, RowsDescribe, LiveIsBound, FindingsHold, Bound

(* One task at a time: what a restart would find agrees with what the open *)
(* lockers hold, across deletes, interrupted opens and crashes.            *)
THEOREM AloneInvHolds == ASSUME OneAtATime PROVE Spec => []AloneInv
<1>1. Init => AloneInv
  BY InitType, InitClaim, InitAlone DEF AloneInv, Described
<1>2. AloneInv /\ [Next]_vars => AloneInv'
  <2> SUFFICES ASSUME AloneInv, [Next]_vars PROVE AloneInv'
    OBVIOUS
  <2>1. TypeOK'
    BY TypeStep DEF AloneInv
  <2>2. LiveHoldsName' /\ HolderIsLive'
    <3>1. \A t \in Tasks, s \in Slots :
            Forget(t) /\ Alive(s) => lockers[s].name # name[t]
      BY DEF AloneInv, FindingsHold, Forget
    <3> QED
      BY <3>1, ClaimStep DEF AloneInv
  <2>3. Described' /\ FindingsHold'
    <3>1. CASE UNCHANGED vars
      <4>1. Described /\ FindingsHold
        BY DEF AloneInv, Described
      <4>2. Described'
        BY <3>1, <4>1 DEF vars, Described, IdsInOrder, RowsDescribe, LiveIsBound, Alive
      <4>3. FindingsHold'
        BY <3>1, <4>1 DEF vars, FindingsHold, Alive, Adopts
      <4> QED
        BY <4>2, <4>3
    <3>2. ASSUME NEW t \in Tasks, Step(t) PROVE Described' /\ FindingsHold'
      BY <3>2, QuietStep, RegisterStep, CacheStep, BindStep, ClaimOpenStep, EraseStep,
         ForgetStep DEF Step
    <3>3. ASSUME NEW s \in Slots, Write(s) \/ CloseLocker(s)
          PROVE  Described' /\ FindingsHold'
      BY <3>3, WriteStep, CloseStep
    <3> QED
      BY <3>1, <3>2, <3>3, CrashStep DEF Next
  <2> QED
    BY <2>1, <2>2, <2>3 DEF AloneInv, Described
<1> QED
  BY <1>1, <1>2, PTL DEF Spec

(* One task at a time: an open locker finds under its id only what was     *)
(* written through its name, type and chain (bind_schema, bind_chain).     *)
THEOREM LockersReadTheirOwn == ASSUME OneAtATime PROVE Spec => []ReadsOwnBytes
<1>1. AloneInv => ReadsOwnBytes
  <2> SUFFICES ASSUME AloneInv, NEW s \in Slots, Alive(s), NEW d \in data[lockers[s].id]
               PROVE  d.name = lockers[s].name /\ d.as = lockers[s].as
    BY DEF ReadsOwnBytes
  <2> USE DEF AloneInv
  <2>1. lockers[s] \in Lockers
    BY AliveType
  <2>2. /\ lockers[s].id \in Ids /\ lockers[s].name \in Names /\ lockers[s].as \in Shapes
    BY <2>1 DEF Lockers
  <2>3. d \in Seals
    BY <2>2 DEF TypeOK
  <2>4. d.name \in Names /\ d.as \in Shapes
    BY <2>3 DEF Seals
  <2>5. /\ row[d.name] = lockers[s].id /\ row[lockers[s].name] = lockers[s].id
        /\ lockers[s].id # None
    BY <2>2 DEF RowsDescribe, LiveIsBound, Ids
  <2>6. d.name = lockers[s].name
    BY <2>2, <2>4, <2>5 DEF IdsInOrder
  <2>7. d.as.type = lockers[s].as.type
    BY <2>2 DEF RowsDescribe, LiveIsBound
  <2>8. d.as.chain = lockers[s].as.chain
    <3>1. chainRow[lockers[s].id] = lockers[s].as.chain /\ lockers[s].as.chain # None
      BY <2>2 DEF LiveIsBound, Shapes
    <3> QED
      BY <2>2, <3>1 DEF RowsDescribe
  <2>9. d.as = lockers[s].as
    BY <2>2, <2>4, <2>7, <2>8 DEF Shapes
  <2> QED
    BY <2>6, <2>9
<1> QED
  BY <1>1, AloneInvHolds, PTL

(* One task at a time: the id an open locker writes under is the one its   *)
(* name has in the store (locker_id, delete_locker).                       *)
THEOREM LockersAreRegistered == ASSUME OneAtATime PROVE Spec => []OpenIsRegistered
<1>1. AloneInv => OpenIsRegistered
  BY DEF AloneInv, LiveIsBound, OpenIsRegistered
<1> QED
  BY <1>1, AloneInvHolds, PTL

=============================================================================

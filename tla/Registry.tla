------------------------------ MODULE Registry ------------------------------
(***************************************************************************)
(* The bank's registry (src/src/bank.rs): which id a locker name has, what *)
(* its records were sealed with, and which lockers are open.               *)
(*                                                                         *)
(* Opening and deleting a locker are chains of backend calls with an await *)
(* between any two, so tasks overtake each other between every check and   *)
(* the commit it was made for.  The names, the counter, the schema and the *)
(* chain rows survive the process; the cache of ids and the table of open  *)
(* lockers do not.                                                         *)
(*                                                                         *)
(* Abstracted: a locker's records are the set of ways in which those under *)
(* its id were sealed; the Weak references of open_lockers are pruned when *)
(* the last handle goes, not at the next look; eager and lazy lockers and  *)
(* the rest of the config open and share alike.                            *)
(***************************************************************************)
EXTENDS Naturals

CONSTANTS Names, Types, Chains,
          BankChain,   \* the bank's own filter chain
          Tasks,       \* concurrent callers of the bank
          Slots,       \* bound: lockers open at once
          LastId,      \* u32::MAX, which is never handed out
          MayDelete,   \* whether delete_locker is called
          None

ASSUME RegistryAssumption == /\ BankChain \in Chains
                             /\ LastId \in Nat
                             /\ MayDelete \in BOOLEAN
                             /\ None \notin Slots /\ None \notin Nat
                             /\ None \notin Types /\ None \notin Chains

Ids == 0..LastId
Shapes == [type : Types, chain : Chains]
Seals == [name : Names, as : Shapes]
Lockers == [name : Names, id : Ids, as : Shapes]
NoLocker == [id |-> None]
NoShape == [type |-> None]

VARIABLES
  \* the store
  row,          \* locker::{name}
  nextId,       \* META_NEXT_LOCKER_ID
  schema,       \* schema::{id}
  chainRow,     \* chain::{id}
  data,         \* the seals of the records under an id
  \* Bank
  registry,     \* the cache of ids
  openLockers,  \* open_lockers: the slot that holds the name
  lockers,      \* the lockers that are alive and not closed
  \* tasks
  pc, name,
  as,           \* what the open asks for; NoShape for a delete
  existed,      \* pre_existing
  id,           \* the id found, read from the counter or registered
  opened        \* the slot of the handle the last open has returned

store == <<row, nextId, schema, chainRow, data>>
ram == <<registry, openLockers, lockers>>
vars == <<row, nextId, schema, chainRow, data, registry, openLockers, lockers,
          pc, name, as, existed, id, opened>>

PCs == {"idle", "exists", "id", "register", "caching", "schema", "bindschema",
        "chain", "bindchain", "claim", "erase", "forget"}

TypeOK == /\ row \in [Names -> Ids \cup {None}]
          /\ nextId \in Ids
          /\ schema \in [Ids -> Types \cup {None}]
          /\ chainRow \in [Ids -> Chains \cup {None}]
          /\ data \in [Ids -> SUBSET Seals]
          /\ registry \in [Names -> Ids \cup {None}]
          /\ openLockers \in [Names -> Slots \cup {None}]
          /\ lockers \in [Slots -> Lockers \cup {NoLocker}]
          /\ pc \in [Tasks -> PCs]
          /\ name \in [Tasks -> Names]
          /\ as \in [Tasks -> Shapes \cup {NoShape}]
          /\ existed \in [Tasks -> BOOLEAN]
          /\ id \in [Tasks -> Ids]
          /\ opened \in [Tasks -> Slots \cup {None}]
          /\ \A t \in Tasks :
               pc[t] \in {"schema", "bindschema", "chain", "bindchain", "claim"}
                 => as[t] # NoShape

(* A new store, or one an older build has left: a locker with data sealed  *)
(* by the bank chain and no chain row.                                     *)
Fresh == /\ row = [n \in Names |-> None] /\ nextId = 0
         /\ schema = [i \in Ids |-> None]
         /\ data = [i \in Ids |-> {}]
Legacy == \E n \in Names, ty \in Types :
  /\ LastId > 0
  /\ row = [m \in Names |-> IF m = n THEN 0 ELSE None] /\ nextId = 1
  /\ schema = [i \in Ids |-> IF i = 0 THEN ty ELSE None]
  /\ data = [i \in Ids |-> IF i # 0 THEN {} ELSE
               {[name |-> n, as |-> [type |-> ty, chain |-> BankChain]]}]

Init == /\ Fresh \/ Legacy
        /\ chainRow = [i \in Ids |-> None]
        /\ registry = [n \in Names |-> None]
        /\ openLockers = [n \in Names |-> None]
        /\ lockers = [s \in Slots |-> NoLocker]
        /\ pc = [t \in Tasks |-> "idle"]
        /\ name \in [Tasks -> Names]
        /\ as = [t \in Tasks |-> NoShape]
        /\ existed = [t \in Tasks |-> FALSE]
        /\ id = [t \in Tasks |-> 0]
        /\ opened = [t \in Tasks |-> None]

-----------------------------------------------------------------------------
Goto(t, s) == pc' = [pc EXCEPT ![t] = s]
Alive(s) == lockers[s] # NoLocker
Deleting(t) == as[t] = NoShape

(* open_locker, is_locker_open: the live locker that has claimed the name. *)
IsOpen(n) == openLockers[n] # None

(* check_shared: the two opens ask for the same.  Slip: no such check.     *)
AgreesAlways(n, shape) == TRUE
Agrees(n, shape) == lockers[openLockers[n]].as = shape

(* share_eager, share_lazy: another handle, or an error.                   *)
Share(t, n, shape) ==
  opened' = [opened EXCEPT ![t] = IF Agrees(n, shape) THEN openLockers[n] ELSE None]

(* locker_with, lazy_locker_with. *)
Open(t) ==
  /\ pc[t] = "idle"
  /\ \E n \in Names, shape \in Shapes :
       /\ name' = [name EXCEPT ![t] = n]
       /\ as' = [as EXCEPT ![t] = shape]
       /\ \/ IsOpen(n) /\ Share(t, n, shape) /\ UNCHANGED pc
          \/ ~IsOpen(n) /\ Goto(t, "exists")
             /\ opened' = [opened EXCEPT ![t] = None]
  /\ UNCHANGED <<store, ram, existed, id>>

(* delete_locker, refused while the name is open. *)
Delete(t) ==
  /\ MayDelete /\ pc[t] = "idle"
  /\ \E n \in Names : ~IsOpen(n) /\ name' = [name EXCEPT ![t] = n]
  /\ as' = [as EXCEPT ![t] = NoShape]
  /\ opened' = [opened EXCEPT ![t] = None]
  /\ Goto(t, "exists")
  /\ UNCHANGED <<store, ram, existed, id>>

(* locker_exists. *)
Exists(t) ==
  /\ pc[t] = "exists"
  /\ LET found == registry[name[t]] # None \/ row[name[t]] # None IN
       /\ existed' = [existed EXCEPT ![t] = found]
       /\ Goto(t, IF Deleting(t) /\ ~found THEN "idle" ELSE "id")
  /\ UNCHANGED <<store, ram, name, as, id, opened>>

-----------------------------------------------------------------------------
(* locker_id. *)

AfterId(t) == IF Deleting(t) THEN "erase" ELSE "schema"

Cached(t) ==
  /\ pc[t] = "id" /\ registry[name[t]] # None
  /\ id' = [id EXCEPT ![t] = registry[name[t]]]
  /\ Goto(t, AfterId(t))
  /\ UNCHANGED <<store, ram, name, as, existed, opened>>

(* The row and the counter, in one get_many. *)
LookUp(t) ==
  /\ pc[t] = "id" /\ registry[name[t]] = None
  /\ \/ /\ row[name[t]] # None
        /\ id' = [id EXCEPT ![t] = row[name[t]]]
        /\ Goto(t, "caching")
     \/ /\ row[name[t]] = None
        /\ id' = [id EXCEPT ![t] = nextId]
        /\ Goto(t, "register")
  /\ UNCHANGED <<store, ram, name, as, existed, opened>>

(* checked_add: the id space is exhausted when the counter cannot be       *)
(* advanced.  Slips: it is advanced all the same; it is left where it was. *)
CanAdvanceAlways(i) == i <= LastId
CanAdvance(i) == i < LastId
NextStays(t) == nextId
NextAfter(t) == id[t] + 1

Register(t) ==
  /\ pc[t] = "register" /\ CanAdvance(id[t])
  /\ row' = [row EXCEPT ![name[t]] = id[t]]
  /\ nextId' = NextAfter(t)
  /\ Goto(t, "caching")
  /\ UNCHANGED <<schema, chainRow, data, ram, name, as, existed, id, opened>>

Cache(t) ==
  /\ pc[t] = "caching"
  /\ registry' = [registry EXCEPT ![name[t]] = id[t]]
  /\ Goto(t, AfterId(t))
  /\ UNCHANGED <<store, openLockers, lockers, name, as, existed, id, opened>>

-----------------------------------------------------------------------------
(* bind_schema and bind_chain: the first open writes the row, later ones   *)
(* must match it.                                                          *)

ReadSchema(t) ==
  /\ pc[t] = "schema"
  /\ Goto(t, CASE schema[id[t]] = None -> "bindschema"
               [] schema[id[t]] = as[t].type -> "chain"
               [] OTHER -> "idle")
  /\ UNCHANGED <<store, ram, name, as, existed, id, opened>>

BindSchema(t) ==
  /\ pc[t] = "bindschema"
  /\ schema' = [schema EXCEPT ![id[t]] = as[t].type]
  /\ Goto(t, "chain")
  /\ UNCHANGED <<row, nextId, chainRow, data, ram, name, as, existed, id, opened>>

(* What a locker without a chain row may be opened with: any chain if the  *)
(* name is fresh, the bank's if it was registered before.  Slip: any.      *)
AdoptsAlways(t) == TRUE
Adopts(t) == existed[t] => as[t].chain = BankChain

ReadChain(t) ==
  /\ pc[t] = "chain"
  /\ Goto(t, CASE chainRow[id[t]] = None -> IF Adopts(t) THEN "bindchain" ELSE "idle"
               [] chainRow[id[t]] = as[t].chain -> "claim"
               [] OTHER -> "idle")
  /\ UNCHANGED <<store, ram, name, as, existed, id, opened>>

BindChain(t) ==
  /\ pc[t] = "bindchain"
  /\ chainRow' = [chainRow EXCEPT ![id[t]] = as[t].chain]
  /\ Goto(t, "claim")
  /\ UNCHANGED <<row, nextId, schema, data, ram, name, as, existed, id, opened>>

(* The locker has been opened on its records; claim_open has the last      *)
(* word on whether it is the one that holds the name.  Slip: the name is   *)
(* claimed without asking who holds it.                                    *)
UnclaimedAlways(t) == TRUE
Unclaimed(t) == ~IsOpen(name[t])

ClaimOpen(t) ==
  /\ pc[t] = "claim"
  /\ \/ /\ ~Unclaimed(t)
        /\ Share(t, name[t], as[t])
        /\ UNCHANGED <<openLockers, lockers>>
     \/ /\ Unclaimed(t)
        /\ \E s \in Slots :
             /\ ~Alive(s)
             /\ lockers' = [lockers EXCEPT ![s] =
                              [name |-> name[t], id |-> id[t], as |-> as[t]]]
             /\ openLockers' = [openLockers EXCEPT ![name[t]] = s]
             /\ opened' = [opened EXCEPT ![t] = s]
  /\ Goto(t, "idle")
  /\ UNCHANGED <<store, registry, name, as, existed, id>>

-----------------------------------------------------------------------------
(* The rest of delete_locker: one commit of the cleared records and the    *)
(* dropped rows; the chain row and the counter stay.                       *)
Erase(t) ==
  /\ pc[t] = "erase"
  /\ data' = [data EXCEPT ![id[t]] = {}]
  /\ row' = [row EXCEPT ![name[t]] = None]
  /\ schema' = [schema EXCEPT ![id[t]] = None]
  /\ Goto(t, "forget")
  /\ UNCHANGED <<nextId, chainRow, ram, name, as, existed, id, opened>>

(* Then the bank forgets the name.  Slip: the cached id is kept. *)
RegistryKept(n) == registry
RegistryWithout(n) == [registry EXCEPT ![n] = None]

Forget(t) ==
  /\ pc[t] = "forget"
  /\ registry' = RegistryWithout(name[t])
  /\ openLockers' = [openLockers EXCEPT ![name[t]] = None]
  /\ Goto(t, "idle")
  /\ UNCHANGED <<store, lockers, name, as, existed, id, opened>>

(* An error of the backend, a locker that cannot be opened, an exhausted   *)
(* counter, a call dropped while it waits: what was committed stays.       *)
GiveUp(t) ==
  /\ pc[t] \notin {"idle", "caching", "forget"}
  /\ Goto(t, "idle")
  /\ UNCHANGED <<store, ram, name, as, existed, id, opened>>

-----------------------------------------------------------------------------
(* A write through an open locker. *)
Write(s) ==
  /\ Alive(s)
  /\ data' = [data EXCEPT ![lockers[s].id] = @ \cup
                {[name |-> lockers[s].name, as |-> lockers[s].as]}]
  /\ UNCHANGED <<row, nextId, schema, chainRow, ram, pc, name, as, existed, id, opened>>

(* A handle is closed, or the last one dropped. *)
CloseLocker(s) ==
  /\ Alive(s)
  /\ lockers' = [lockers EXCEPT ![s] = NoLocker]
  /\ openLockers' = [n \in Names |-> IF openLockers[n] = s THEN None ELSE openLockers[n]]
  /\ opened' = [t \in Tasks |-> IF opened[t] = s THEN None ELSE opened[t]]
  /\ UNCHANGED <<store, registry, pc, name, as, existed, id>>

(* The process ends at any moment and the bank is opened again. *)
Crash ==
  /\ registry' = [n \in Names |-> None]
  /\ openLockers' = [n \in Names |-> None]
  /\ lockers' = [s \in Slots |-> NoLocker]
  /\ pc' = [t \in Tasks |-> "idle"]
  /\ opened' = [t \in Tasks |-> None]
  /\ UNCHANGED <<store, name, as, existed, id>>

Step(t) == \/ Open(t) \/ Delete(t) \/ Exists(t)
           \/ Cached(t) \/ LookUp(t) \/ Register(t) \/ Cache(t)
           \/ ReadSchema(t) \/ BindSchema(t) \/ ReadChain(t) \/ BindChain(t)
           \/ ClaimOpen(t) \/ Erase(t) \/ Forget(t) \/ GiveUp(t)

Next == \/ \E t \in Tasks : Step(t)
        \/ \E s \in Slots : Write(s) \/ CloseLocker(s)
        \/ Crash

Spec == Init /\ [][Next]_vars

-----------------------------------------------------------------------------
(* Properties. *)

(* claim_open: two lockers alive under one name would each prove absent    *)
(* what the other has written, however many opens of it race.              *)
OneLockerPerName ==
  \A r, s \in Slots : Alive(r) /\ Alive(s) /\ lockers[r].name = lockers[s].name
                        => r = s

(* check_shared: a handle is a view of the one locker that holds its name, *)
(* opened the way its caller asked, whichever open of it came first.       *)
HandlesAgree ==
  \A t \in Tasks : opened[t] # None =>
    /\ openLockers[name[t]] = opened[t]
    /\ Alive(opened[t])
    /\ lockers[opened[t]].name = name[t] /\ lockers[opened[t]].as = as[t]

(* An open locker never finds, under its id, records of another name or    *)
(* records sealed under another type or chain: nothing is decoded through  *)
(* the wrong inverse transform, and no two lockers interleave their keys   *)
(* (locker_id, bind_schema, bind_chain, delete_locker).                    *)
ReadsOwnBytes ==
  \A s \in Slots : Alive(s) =>
    \A d \in data[lockers[s].id] : d.name = lockers[s].name /\ d.as = lockers[s].as

(* A locker's id is the one its name will still have after a restart: what *)
(* is written through it is found again.                                   *)
OpenIsRegistered == \A s \in Slots : Alive(s) => row[lockers[s].name] = lockers[s].id

(* Why OneLockerPerName and HandlesAgree hold, while nothing is deleted:   *)
(* every live locker holds its name.                                       *)
LiveHoldsName == \A s \in Slots : Alive(s) => openLockers[lockers[s].name] = s
HolderIsLive ==
  \A n \in Names : openLockers[n] # None =>
    Alive(openLockers[n]) /\ lockers[openLockers[n]].name = n
NobodyDeletes ==
  \A t \in Tasks : pc[t] # "idle" => ~Deleting(t) /\ pc[t] \notin {"erase", "forget"}
ClaimInv == TypeOK /\ LiveHoldsName /\ HolderIsLive /\ HandlesAgree /\ NobodyDeletes

(* Why the others hold, while one task at a time opens and deletes.  Rows  *)
(* and ids: every id in use is below the counter and of one name, and the  *)
(* cache agrees with the rows, but for a name just erased.                 *)
IdsInOrder ==
  /\ \A n \in Names : row[n] # None => row[n] < nextId
  /\ \A m, n \in Names : row[m] # None /\ row[m] = row[n] => m = n
  /\ \A i \in Ids : i >= nextId => schema[i] = None /\ chainRow[i] = None /\ data[i] = {}
  /\ \A n \in Names : registry[n] # None =>
       row[n] = registry[n] \/ \E t \in Tasks : pc[t] = "forget" /\ name[t] = n

(* Records are what their rows say they are. *)
RowsDescribe ==
  \A i \in Ids : \A d \in data[i] :
    /\ row[d.name] = i /\ schema[i] = d.as.type
    /\ chainRow[i] = d.as.chain \/ (chainRow[i] = None /\ d.as.chain = BankChain)
LiveIsBound ==
  \A s \in Slots : Alive(s) =>
    /\ row[lockers[s].name] = lockers[s].id
    /\ schema[lockers[s].id] = lockers[s].as.type
    /\ chainRow[lockers[s].id] = lockers[s].as.chain

(* What a task on its way has found still holds. *)
Bound == {"caching", "schema", "bindschema", "chain", "bindchain", "claim"}
FindingsHold ==
  \A t \in Tasks :
    /\ pc[t] # "idle" => \A s \in Slots : Alive(s) => lockers[s].name # name[t]
    /\ pc[t] = "id" => (existed[t] <=> row[name[t]] # None)
    /\ pc[t] = "register" => ~existed[t] /\ row[name[t]] = None /\ id[t] = nextId
    /\ pc[t] \in Bound \cup {"erase"} => row[name[t]] = id[t]
    /\ pc[t] \in Bound /\ ~existed[t] => data[id[t]] = {}
    /\ pc[t] = "bindschema" => schema[id[t]] = None
    /\ pc[t] \in {"chain", "bindchain", "claim"} => schema[id[t]] = as[t].type
    /\ pc[t] = "bindchain" => chainRow[id[t]] = None /\ Adopts(t)
    /\ pc[t] = "claim" => chainRow[id[t]] = as[t].chain

AloneInv == /\ TypeOK /\ LiveHoldsName /\ HolderIsLive
            /\ IdsInOrder /\ RowsDescribe /\ LiveIsBound /\ FindingsHold

(* Statements of the code's own comments, checked against what it does     *)
(* when tasks race.                                                        *)

(* bank.rs: "two lockers sharing a prefix would interleave their keys": no *)
(* two names have one id.                                                  *)
IdsApart == \A m, n \in Names : row[m] # None /\ row[m] = row[n] => m = n

(* bank.rs, bind_chain: "The same first-write-wins rule as bind_schema":   *)
(* what a locker was first bound to stays.                                 *)
FirstWriteWins ==
  [][\A i \in Ids : chainRow[i] # None => chainRow'[i] = chainRow[i]]_vars

(* bank.rs, bind_chain: "Only a genuinely fresh name adopts the chain it   *)
(* was opened with": only a locker with records is refused for want of a   *)
(* chain row.                                                              *)
RefusesOnlyOldData ==
  [][\A t \in Tasks :
       ReadChain(t) /\ chainRow[id[t]] = None /\ pc'[t] = "idle"
         => data[id[t]] # {}]_vars

(* bank.rs, delete_locker: "Refuses with Error::InvalidConfig while a      *)
(* handle to the locker is open."                                          *)
DeleteRefusesOpen == [][\A t \in Tasks : Erase(t) => ~IsOpen(name[t])]_vars

=============================================================================

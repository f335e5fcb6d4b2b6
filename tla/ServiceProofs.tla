---------------------------- MODULE ServiceProofs ----------------------------
(***************************************************************************)
(* DurableAnswers and ReadsAreCurrent of module Service, for any number of *)
(* keys, values and callers, any of the faults, setups and bounds.         *)
(***************************************************************************)
EXTENDS Service, FiniteSetTheorems, TLAPS

SomeKey == CHOOSE k \in Keys : TRUE
Bytes == Vals \cup {Gone, Damaged}
Landing == [Keys -> Bytes \cup {Kept}]

Jobs == [who : Callers \cup {Nobody},
         do : {"none", "get", "write", "flush_all", "delete_locker"},
         key : Keys \cup {SomeKey}, b : Landing,
         at : {"none", "queued", "work", "sweep", "erase", "reply"},
         says : Answers, seen : SUBSET Bytes]
Sweeps == [at : {"off", "start", "wait", "commit", "sync", "done"}, err : BOOLEAN,
           owes : Promised]
Reads(j) == /\ j.do = "get" => j.key \in Keys
            /\ j.do \notin {"write", "delete_locker"} => j.b = NoEffect

(* What is where: TypeOK in parts, with what it leaves out of sweep, used  *)
(* and the jobs.                                                           *)
HostShape ==
  /\ kind \in Kinds /\ eventual \in BOOLEAN
  /\ store \in Stores /\ plan \in Plans
  /\ bank \in {"none", "opening", "held", "served", "gone"}
  /\ tracked \in BOOLEAN /\ closed \in BOOLEAN
  /\ closer \in {"no", "flush", "swap", "backend", "release"}
  /\ owed \in Promised
TypedShape ==
  /\ locker \in BOOLEAN /\ staged \in Effects
  /\ lock \in {"free", "sweep", "own"} /\ flight \in Effects
  /\ own \in {"no", "wait", "commit", "sync"}
SweepShape == sweep \in Sweeps
QueueShape ==
  /\ calling \subseteq Callers
  /\ jobs \in Seq(Jobs)
  /\ \A i \in DOMAIN jobs : jobs[i].at = "queued" /\ Reads(jobs[i]) /\ jobs[i].b \in Effects
  /\ job \in Jobs /\ Reads(job) /\ job.at # "queued"
  /\ job.at = "work" => job.b \in Effects
UsedShape == /\ used \in [DOMAIN Bounds -> Nat]
             /\ \A what \in DOMAIN Bounds : used[what] \in 0 .. Bounds[what]
Shape == HostShape /\ TypedShape /\ SweepShape /\ QueueShape /\ UsedShape

(* Who is at work: the holder of the locker's lock, whom a flush_all is    *)
(* for, and when the store is the one its name leads to.                   *)
Control ==
  /\ lock = "own" <=> own = "commit"
  /\ lock = "sweep" <=> sweep.at = "commit"
  /\ lock = "free" => flight = NoEffect
  /\ sweep.at # "off" => \/ bank = "held" /\ closer # "no"
                         \/ /\ bank = "served" /\ job.do = "flush_all"
                            /\ job.at \in {"sweep", "reply"}
  /\ job.at = "sweep" => job.do = "flush_all"
  /\ job.at = "erase" => job.do = "delete_locker"
  /\ job.at = "reply" /\ job.do = "flush_all" => sweep.at = "done"
  /\ job.at # "none" => bank = "served"
  /\ jobs # <<>> => bank \in {"held", "served"}
  /\ closer # "no" => bank = "held"
  /\ closer \in {"backend", "release"} => sweep.at = "done"
  /\ closer = "release" => ~store.held
  /\ bank \in {"opening", "held", "served"} /\ store.held =>
       store.named /\ (kind = "redb" /\ bank # "opening" => tracked)

(* What has been promised is stored and is what reads find.                *)
Owed == \A k \in Keys : owed[k] # Unsaid => store.safe[k] = owed[k] /\ store.live[k] = owed[k]

(* What a flush_all without an error will promise: staged, in its hands or *)
(* stored as it goes along.                                                *)
Sweeping ==
  ~sweep.err => \A k \in Keys : sweep.owes[k] # Unsaid =>
    /\ sweep.at \notin {"off", "start"}
    /\ sweep.at \in {"wait", "commit"} =>
         sweep.owes[k] = IF staged[k] # Kept THEN staged[k]
                         ELSE IF flight[k] # Kept THEN flight[k] ELSE store.live[k]
    /\ sweep.at = "commit" => staged[k] = Kept
    /\ sweep.at \in {"sync", "done"} =>
         staged[k] = Kept /\ flight[k] = Kept /\ store.live[k] = sweep.owes[k]
    /\ sweep.at = "done" => store.safe[k] = sweep.owes[k]

(* What the answer of a write will promise, and nothing has overwritten.   *)
Replying ==
  job.at = "reply" /\ job.do \in {"write", "delete_locker"} /\ job.says = "ok" =>
    /\ store.held
    /\ \A k \in Keys : job.b[k] # Kept => store.safe[k] = job.b[k] /\ store.live[k] = job.b[k]

Promises == kind # "memory" => Owed /\ Sweeping /\ Replying

(* A read that has yet to be served has seen what the store holds.         *)
Seen(j) == j.do = "get" => store.live[j.key] \in j.seen
Witnesses ==
  /\ store.held => (\A i \in DOMAIN jobs : Seen(jobs[i])) /\ (job.at = "work" => Seen(job))
  /\ job.at = "reply" /\ job.do = "get" /\ job.says \notin {"failed", "closed"}
       => job.says \in job.seen \ {Damaged}

IInv == Shape /\ Control /\ Promises /\ Witnesses

-----------------------------------------------------------------------------
(* Batches. *)

(* The batches the code builds are batches, and what lands may be any.     *)
LEMMA EffectsAre ==
  /\ NoEffect \in Effects /\ ClearAll \in Effects /\ Effects \subseteq Landing
  /\ \A k \in Keys, v \in Vals : PutOf(k, v) \in Effects
  /\ \A k \in Keys : DeleteOf(k) \in Effects
  /\ \A k \in Keys : NoEffect[k] = Kept
BY DEF NoEffect, ClearAll, PutOf, DeleteOf, Effects, Landing, Bytes

(* Then, key by key.                                                       *)
LEMMA ThenIs ==
  ASSUME NEW a, NEW b
  PROVE  \A k \in Keys : Then(a, b)[k] = IF b[k] = Kept THEN a[k] ELSE b[k]
BY DEF Then

(* A batch after a batch is a batch.                                       *)
LEMMA ThenEffects ==
  ASSUME NEW a \in Effects, NEW b \in Effects
  PROVE  Then(a, b) \in Effects
BY DEF Then, Effects

(* What is stored after something has landed on it.                        *)
LEMMA ThenStored ==
  ASSUME NEW a \in Stored, NEW b \in Landing
  PROVE  Then(a, b) \in Stored
BY DEF Then, Stored, Landing, Bytes

(* Unsay withdraws what has been overwritten, and nothing else.            *)
LEMMA UnsayPromises ==
  ASSUME NEW p \in Promised, NEW b
  PROVE  /\ Unsay(p, b) \in Promised
         /\ \A k \in Keys : Unsay(p, b)[k] = IF b[k] # Kept THEN Unsaid ELSE p[k]
BY DEF Unsay, Promised

(* Say promises what was said, and keeps the rest.                         *)
LEMMA SayPromises ==
  ASSUME NEW p \in Promised, NEW b \in [Keys -> Bytes \cup {Kept, Unsaid}]
  PROVE  /\ Say(p, b) \in Promised
         /\ \A k \in Keys : Say(p, b)[k] = IF b[k] \notin {Kept, Unsaid} THEN b[k] ELSE p[k]
BY DEF Say, Promised, Bytes

(* Commits. *)

(* A plan is aimed by counting the ops of commits: they are finitely many. *)
LEMMA TouchedIsFinite ==
  ASSUME NEW b
  PROVE  Cardinality(Touched(b)) \in Nat
<1>1. Touched(b) \subseteq Keys
  BY DEF Touched
<1>2. IsFiniteSet(Touched(b))
  BY <1>1, BackendAssumption, FS_Subset
<1> QED BY <1>2, FS_CardinalityType

(* What Fault makes of a commit: nothing of it lands, or all of it with at *)
(* most a value damaged.                                                   *)
LEMMA InterceptIs ==
  ASSUME NEW p \in Plans, NEW b \in Effects, NEW i \in Intercept(p, b)
  PROVE  /\ i.plan \in Plans
         /\ i.through \in BOOLEAN
         /\ ~i.through => i.lands = NoEffect
         /\ i.through => /\ i.lands \in Landing
                         /\ \A k \in Keys : i.lands[k] \in {b[k], Damaged}
                                            /\ (b[k] = Kept => i.lands[k] = Kept)
<1> DEFINE ops == Cardinality(Touched(b))
           puts == {k \in Keys : b[k] \notin {Gone, Kept}}
           past == [plan |-> [p EXCEPT !.at = IF @ > ops THEN @ - ops ELSE 0],
                    through |-> TRUE, lands |-> b]
<1>1. ops \in Nat
  BY TouchedIsFinite
<1>2. p.at \in 0 .. MaxAt /\ NoPlan \in Plans /\ MaxAt \in Nat
  BY BackendAssumption DEF Plans, NoPlan
<1>3. [p EXCEPT !.at = IF @ > ops THEN @ - ops ELSE 0] \in Plans
  <2> HIDE DEF ops
  <2>1. CASE p = NoPlan
    BY <1>1, <2>1 DEF NoPlan
  <2>2. CASE p # NoPlan
    BY <1>1, <1>2, <2>2 DEF Plans
  <2> QED BY <2>1, <2>2
<1>4. b \in Landing
  BY EffectsAre
<1>5. i \in {[past EXCEPT !.plan = NoPlan], past,
             [plan |-> NoPlan, through |-> FALSE, lands |-> NoEffect]}
          \cup {[plan |-> NoPlan, through |-> TRUE, lands |-> [b EXCEPT ![k] = Damaged]] : k \in puts}
  BY DEF Intercept
<1>6. CASE i = [past EXCEPT !.plan = NoPlan]
  BY <1>2, <1>4, <1>6
<1>7. CASE i = past
  BY <1>3, <1>4, <1>7
<1>8. CASE i = [plan |-> NoPlan, through |-> FALSE, lands |-> NoEffect]
  BY <1>2, <1>8
<1>9. CASE i \in {[plan |-> NoPlan, through |-> TRUE, lands |-> [b EXCEPT ![k] = Damaged]] : k \in puts}
  <2>1. PICK k \in puts : i = [plan |-> NoPlan, through |-> TRUE, lands |-> [b EXCEPT ![k] = Damaged]]
    BY <1>9
  <2>2. [b EXCEPT ![k] = Damaged] \in Landing
    BY <1>4 DEF Landing, Bytes
  <2> QED BY <1>2, <2>1, <2>2
<1> QED BY <1>5, <1>6, <1>7, <1>8, <1>9

(* commit: the contents that are read, and the ones that survive, which at *)
(* Immediate are the same.                                                 *)
LEMMA CommittedIs ==
  ASSUME NEW s \in Stores, NEW b \in Landing, NEW relaxed \in BOOLEAN, NEW kd
  PROVE  LET c == Committed(s, kd, b, relaxed) IN
         /\ c \in Stores
         /\ c.held = s.held /\ c.named = s.named
         /\ c.live = Then(s.live, b)
         /\ c.safe \in {s.safe, c.live}
         /\ s.named /\ ~relaxed => c.safe = c.live
<1> DEFINE after == Then(s.live, b)
<1>1. s.live \in Stored /\ s.safe \in Stored
  BY DEF Stores
<1>2. after \in Stored
  BY <1>1, ThenStored
<1>3. Committed(s, kd, b, relaxed)
        = [s EXCEPT !.live = after,
                    !.safe = IF ~s.named \/ (kd = "redb" /\ relaxed) THEN @ ELSE after]
  BY DEF Committed
<1> HIDE DEF after
<1> QED BY <1>2, <1>3 DEF Stores, after

(* Commit, as the actions that use it need it.                             *)
LEMMA CommitDoes ==
  ASSUME store \in Stores, plan \in Plans, owed \in Promised,
         NEW b \in Effects, NEW relaxed \in BOOLEAN, NEW x \in Landings(b),
         Commit(b, relaxed, x.through, x.lands)
  PROVE  /\ x.through \in BOOLEAN /\ x.lands \in Landing
         /\ store' \in Stores /\ plan' \in Plans /\ owed' \in Promised
         /\ store'.held = store.held /\ store'.named = store.named
         /\ x.through => store.held
         /\ ~x.through => x.lands = NoEffect /\ store' = store
         /\ \A k \in Keys :
              /\ x.through => x.lands[k] \in {b[k], Damaged} /\ (b[k] = Kept => x.lands[k] = Kept)
              /\ store'.live[k] = IF x.lands[k] = Kept THEN store.live[k] ELSE x.lands[k]
              /\ store'.safe[k] \in {store.safe[k], store'.live[k]}
              /\ x.through /\ ~relaxed /\ store.named => store'.safe[k] = store'.live[k]
              /\ owed'[k] = IF x.lands[k] # Kept THEN Unsaid ELSE owed[k]
<1>1. CASE ~store.held
  <2>1. ~x.through /\ x.lands = NoEffect /\ UNCHANGED <<store, plan, owed>>
    BY <1>1 DEF Commit
  <2>2. x.through \in BOOLEAN
    BY DEF Landings
  <2> QED BY <2>1, <2>2, EffectsAre
<1>2. CASE store.held
  <2>1. PICK i \in Intercept(plan, b) : plan' = i.plan /\ x.through = i.through /\ x.lands = i.lands
    BY <1>2 DEF Commit
  <2>2. /\ store' = IF x.through THEN Committed(store, kind, x.lands, relaxed) ELSE store
        /\ owed' = Unsay(owed, x.lands)
    BY <1>2 DEF Commit
  <2>3. /\ plan' \in Plans
        /\ x.through \in BOOLEAN
        /\ ~x.through => x.lands = NoEffect
        /\ x.through => /\ x.lands \in Landing
                        /\ \A k \in Keys : x.lands[k] \in {b[k], Damaged}
                                           /\ (b[k] = Kept => x.lands[k] = Kept)
    BY <2>1, InterceptIs
  <2>4. x.lands \in Landing
    BY <2>3, EffectsAre
  <2>5. /\ owed' \in Promised
        /\ \A k \in Keys : owed'[k] = IF x.lands[k] # Kept THEN Unsaid ELSE owed[k]
    BY <2>2, UnsayPromises
  <2>6. CASE x.through
    <3>1. /\ store' \in Stores
          /\ store'.held = store.held /\ store'.named = store.named
          /\ store'.live = Then(store.live, x.lands)
          /\ store'.safe \in {store.safe, store'.live}
          /\ store.named /\ ~relaxed => store'.safe = store'.live
      BY <2>2, <2>4, <2>6, CommittedIs
    <3>2. \A k \in Keys : store'.live[k] = IF x.lands[k] = Kept THEN store.live[k] ELSE x.lands[k]
      BY <3>1, ThenIs
    <3> QED BY <1>2, <2>3, <2>5, <2>6, <3>1, <3>2
  <2>7. CASE ~x.through
    BY <2>2, <2>3, <2>5, <2>7, EffectsAre
  <2> QED BY <2>6, <2>7
<1> QED BY <1>1, <1>2

(* Jobs: what a commit does to those under way. *)

(* A read notes the contents; nothing else of a job changes.               *)
LEMMA SeesIs ==
  ASSUME NEW j \in Jobs, Reads(j), NEW contents \in Stored
  PROVE  LET n == Sees(j, contents) IN
         /\ n \in Jobs
         /\ n.at = j.at /\ n.do = j.do /\ n.key = j.key /\ n.b = j.b /\ n.says = j.says
         /\ j.seen \subseteq n.seen
         /\ Reads(n) /\ (j.do = "get" => contents[n.key] \in n.seen)
<1> DEFINE s == IF j.do = "get" THEN j.seen \cup {contents[j.key]} ELSE j.seen
<1>1. Sees(j, contents) = [j EXCEPT !.seen = s]
  BY DEF Sees
<1>2. s \subseteq Bytes
  BY DEF Reads, Jobs, Stored, Bytes
<1>3. j.seen \subseteq s /\ (j.do = "get" => contents[j.key] \in s)
  OBVIOUS
<1> HIDE DEF s
<1> QED BY <1>1, <1>2, <1>3 DEF Jobs, Reads

(* A job that is being answered promises nothing on keys that were         *)
(* committed to since.                                                     *)
LEMMA OvertakenIs ==
  ASSUME NEW j \in Jobs, NEW b \in Landing
  PROVE  LET n == Overtaken(j, b) IN
         /\ n \in Jobs
         /\ n.at = j.at /\ n.do = j.do /\ n.key = j.key /\ n.says = j.says /\ n.seen = j.seen
         /\ Reads(j) => Reads(n)
         /\ j.at # "reply" => n = j
         /\ j.at = "reply" => \A k \in Keys : n.b[k] = IF b[k] # Kept THEN Kept ELSE j.b[k]
<1>1. CASE j.at # "reply"
  BY <1>1 DEF Overtaken
<1>2. CASE j.at = "reply"
  <2> DEFINE left == [k \in Keys |-> IF b[k] # Kept THEN Kept ELSE j.b[k]]
  <2>1. Overtaken(j, b) = [j EXCEPT !.b = left]
    BY <1>2 DEF Overtaken
  <2>2. left \in Landing
    BY DEF Jobs, Landing
  <2>3. j.b = NoEffect => left = NoEffect
    BY DEF NoEffect
  <2>4. \A k \in Keys : left[k] = IF b[k] # Kept THEN Kept ELSE j.b[k]
    OBVIOUS
  <2> HIDE DEF left
  <2> QED BY <1>2, <2>1, <2>2, <2>3, <2>4 DEF Jobs, Reads
<1> QED BY <1>1, <1>2

(* After a commit every queued read has noted the new contents.            *)
LEMMA WitnessedIs ==
  ASSUME QueueShape, store' \in Stores, jobs' = Witnessed
  PROVE  /\ jobs' \in Seq(Jobs) /\ DOMAIN jobs' = DOMAIN jobs /\ (jobs' # <<>> => jobs # <<>>)
         /\ \A i \in DOMAIN jobs' :
              /\ jobs'[i].at = "queued" /\ Reads(jobs'[i]) /\ jobs'[i].b \in Effects
              /\ jobs'[i].do = "get" => store'.live[jobs'[i].key] \in jobs'[i].seen
<1>1. store'.live \in Stored
  BY DEF Stores
<1>2. jobs' = [i \in DOMAIN jobs |-> Sees(jobs[i], store'.live)]
  BY DEF Witnessed
<1>3. \A i \in DOMAIN jobs : /\ jobs[i] \in Jobs /\ jobs[i].at = "queued" /\ Reads(jobs[i])
                             /\ jobs[i].b \in Effects
  BY DEF QueueShape
<1>4. \A i \in DOMAIN jobs : LET n == Sees(jobs[i], store'.live) IN
        /\ n \in Jobs /\ n.at = "queued" /\ Reads(n) /\ n.b \in Effects
        /\ n.do = "get" => store'.live[n.key] \in n.seen
  BY <1>1, <1>3, SeesIs
<1> QED BY <1>2, <1>4

-----------------------------------------------------------------------------
(* The first state. *)
(* The constants and initial values are of their types.                    *)
LEMMA TypedConstants ==
  /\ RawVals \subseteq Vals /\ OwnVals \subseteq Vals
  /\ NoPromise \in Promised /\ NoSweep.owes = NoPromise /\ NoSweep.at = "off" /\ ~NoSweep.err
  /\ \A k \in Keys : NoPromise[k] = Unsaid
  /\ Nothing \in Stored
BY ServiceAssumption DEF NoPromise, Promised, NoSweep, Nothing, Stored

(* No job.                                                                 *)
LEMMA NoJobIs == /\ NoJob \in Jobs /\ Reads(NoJob) /\ NoJob.at = "none" /\ NoJob.do = "none"
                 /\ NoJob.says = "none" /\ NoJob.who = Nobody
BY EffectsAre DEF NoJob, Jobs, Reads, Answers

(* The bounds are kept.                                                    *)
LEMMA SpendIs ==
  ASSUME Shape, NEW what \in {"calls", "stages", "opens", "deletes"}, Spend(what)
  PROVE  /\ used' \in [DOMAIN Bounds -> Nat]
         /\ \A w \in DOMAIN Bounds : used'[w] \in 0 .. Bounds[w]
<1>1. what \in DOMAIN Bounds /\ \A w \in DOMAIN Bounds : Bounds[w] \in Nat
  BY ServiceAssumption DEF Bounds
<1> QED BY <1>1 DEF Shape, UsedShape, Spend

(* Stores. *)

(* Opening, flushing and unlinking a store.                                *)
LEMMA StoreMoves ==
  ASSUME NEW s \in Stores
  PROVE  /\ Opened(s.safe) \in Stores
         /\ Opened(s.safe).live = s.safe /\ Opened(s.safe).safe = s.safe
         /\ Opened(s.safe).held /\ Opened(s.safe).named
         /\ Flushed(s) \in Stores
         /\ Flushed(s).live = s.live /\ Flushed(s).safe \in {s.safe, s.live}
         /\ Flushed(s).held = s.held /\ Flushed(s).named = s.named
         /\ s.named => Flushed(s).safe = s.live
         /\ Unlinked(s) \in Stores /\ Unlinked(s).held = s.held
         /\ s.held => Unlinked(s).live = s.live
<1>1. Opened(s.safe) = [live |-> s.safe, safe |-> s.safe, held |-> TRUE, named |-> TRUE]
  BY DEF Opened
<1>2. Flushed(s) = IF s.named THEN [s EXCEPT !.safe = s.live] ELSE s
  BY DEF Flushed
<1>3. Unlinked(s) = [s EXCEPT !.safe = Nothing, !.named = FALSE,
                              !.live = IF s.held THEN @ ELSE Nothing]
  BY DEF Unlinked
<1>4. Nothing \in Stored
  BY TypedConstants
<1>5. Opened(s.safe) \in Stores /\ Flushed(s) \in Stores
  BY <1>1, <1>2 DEF Stores
<1>6. /\ Unlinked(s) \in Stores /\ Unlinked(s).held = s.held
      /\ (s.held => Unlinked(s).live = s.live)
  BY <1>3, <1>4 DEF Stores
<1>7. /\ Flushed(s).live = s.live /\ Flushed(s).safe \in {s.safe, s.live}
      /\ Flushed(s).held = s.held /\ Flushed(s).named = s.named
      /\ s.named => Flushed(s).safe = s.live
  BY <1>2
<1> QED BY <1>1, <1>5, <1>6, <1>7

(* A store that is let go of, or left by a dead process, keeps what was    *)
(* safe, or what was read.                                                 *)
LEMMA StoreEnds ==
  ASSUME NEW s \in Stores, NEW kd, NEW r \in Released(s, kd) \cup {Survived(s, kd)}
  PROVE  /\ r \in Stores /\ ~r.held /\ r.named = s.named
         /\ kd # "memory" => r.live = r.safe /\ r.safe \in {s.safe, s.live}
<1>1. Nothing \in Stored /\ s.live \in Stored /\ s.safe \in Stored
  BY TypedConstants DEF Stores
<1>2. PICK c \in {Nothing, s.safe, s.live} :
        /\ r = [s EXCEPT !.live = c, !.safe = c, !.held = FALSE]
        /\ kd # "memory" => c \in {s.safe, s.live}
  BY DEF Released, Survived
<1> QED BY <1>1, <1>2 DEF Stores

(* The invariant holds at first.                                           *)
LEMMA Initially == Init => IInv
<1> SUFFICES ASSUME Init PROVE IInv
  OBVIOUS
<1>1. kind \in Kinds /\ eventual \in BOOLEAN /\ plan \in Plans
  BY ServiceAssumption DEF Init
<1>2. store \in Stores
  BY TypedConstants DEF Init, Stores
<1>3. used \in [DOMAIN Bounds -> Nat] /\ \A what \in DOMAIN Bounds : used[what] \in 0 .. Bounds[what]
  BY ServiceAssumption DEF Init, Bounds
<1>4. sweep \in Sweeps
  BY TypedConstants DEF Init, NoSweep, Sweeps
<1>5. job \in Jobs /\ Reads(job) /\ job.at = "none" /\ job.says \in Answers
  BY NoJobIs DEF Init, Answers
<1>6. jobs \in Seq(Jobs) /\ DOMAIN jobs = {}
  BY DEF Init
<1>7. Shape
  BY <1>1, <1>2, <1>3, <1>4, <1>5, <1>6, TypedConstants, EffectsAre DEF Init, Shape,
     HostShape, TypedShape, SweepShape, QueueShape, UsedShape
<1>8. Control
  BY TypedConstants, NoJobIs DEF Init, Control
<1>9. Promises
  BY TypedConstants, NoJobIs DEF Init, Promises, Owed, Sweeping, Replying
<1>10. Witnesses
  BY NoJobIs DEF Init, Witnesses
<1> QED BY <1>7, <1>8, <1>9, <1>10 DEF IInv

(* Bank::open takes up what the last bank left. *)
LEMMA OpenBackendKeeps ==
  ASSUME IInv, OpenBackend
  PROVE  IInv'
<1>1. used' \in [DOMAIN Bounds -> Nat] /\ \A what \in DOMAIN Bounds : used'[what] \in 0 .. Bounds[what]
  BY SpendIs DEF OpenBackend, IInv
<1>2. /\ store' \in Stores /\ store'.live = store.safe /\ store'.safe = store.safe
      /\ store'.held /\ store'.named
  BY StoreMoves DEF OpenBackend, IInv, Shape, HostShape
<1>3. Shape'
  <2>1. HostShape'
    BY <1>2 DEF OpenBackend, IInv, Shape, HostShape
  <2>2. TypedShape'
    BY DEF OpenBackend, typed, IInv, Shape, TypedShape
  <2>3. SweepShape'
    BY DEF OpenBackend, IInv, Shape, SweepShape
  <2>4. QueueShape'
    BY DEF OpenBackend, queue, IInv, Shape, QueueShape
  <2>5. UsedShape'
    BY <1>1 DEF UsedShape
  <2> QED BY <2>1, <2>2, <2>3, <2>4, <2>5 DEF Shape
<1>4. Control'
  BY <1>2 DEF OpenBackend, typed, queue, IInv, Control
<1>5. Promises'
  BY <1>2 DEF OpenBackend, queue, IInv, Control, Promises, Owed, Sweeping, Replying
<1>6. Witnesses'
  BY DEF OpenBackend, queue, IInv, Control, Witnesses
<1> QED BY <1>3, <1>4, <1>5, <1>6 DEF IInv

(* The entry in OPEN_BANKS. *)
LEMMA RegisterKeeps ==
  ASSUME IInv, Register
  PROVE  IInv'
<1>1. Shape'
  <2>1. HostShape'
    BY DEF Register, IInv, Shape, HostShape
  <2>2. TypedShape'
    BY DEF Register, typed, IInv, Shape, TypedShape
  <2>3. SweepShape'
    BY DEF Register, IInv, Shape, SweepShape
  <2>4. QueueShape'
    BY DEF Register, queue, IInv, Shape, QueueShape
  <2>5. UsedShape'
    BY DEF Register, IInv, Shape, UsedShape
  <2> QED BY <2>1, <2>2, <2>3, <2>4, <2>5 DEF Shape
<1>2. Control'
  BY DEF Register, typed, queue, IInv, Control
<1>3. Promises'
  BY DEF Register, typed, queue, IInv, Promises, Owed, Sweeping, Replying
<1>4. Witnesses'
  BY DEF Register, queue, IInv, Witnesses, Seen
<1> QED BY <1>1, <1>2, <1>3, <1>4 DEF IInv

(* A handle of the typed locker. *)
LEMMA OpenLockerKeeps ==
  ASSUME IInv, OpenLocker
  PROVE  IInv'
<1>1. Shape'
  <2>1. HostShape'
    BY DEF OpenLocker, host, IInv, Shape, HostShape
  <2>2. TypedShape'
    BY DEF OpenLocker, IInv, Shape, TypedShape
  <2>3. SweepShape'
    BY DEF OpenLocker, IInv, Shape, SweepShape
  <2>4. QueueShape'
    BY DEF OpenLocker, queue, IInv, Shape, QueueShape
  <2>5. UsedShape'
    BY DEF OpenLocker, IInv, Shape, UsedShape
  <2> QED BY <2>1, <2>2, <2>3, <2>4, <2>5 DEF Shape
<1>2. Control'
  BY DEF OpenLocker, host, queue, IInv, Control
<1>3. Promises'
  BY DEF OpenLocker, host, queue, IInv, Promises, Owed, Sweeping, Replying
<1>4. Witnesses'
  BY DEF OpenLocker, queue, IInv, Witnesses, Seen
<1> QED BY <1>1, <1>2, <1>3, <1>4 DEF IInv

(* The locker's flush. *)
LEMMA OwnFlushKeeps ==
  ASSUME IInv, OwnFlush
  PROVE  IInv'
<1>1. Shape'
  <2>1. HostShape'
    BY DEF OwnFlush, host, IInv, Shape, HostShape
  <2>2. TypedShape'
    BY DEF OwnFlush, IInv, Shape, TypedShape
  <2>3. SweepShape'
    BY DEF OwnFlush, IInv, Shape, SweepShape
  <2>4. QueueShape'
    BY DEF OwnFlush, queue, IInv, Shape, QueueShape
  <2>5. UsedShape'
    BY DEF OwnFlush, IInv, Shape, UsedShape
  <2> QED BY <2>1, <2>2, <2>3, <2>4, <2>5 DEF Shape
<1>2. Control'
  BY DEF OwnFlush, host, queue, IInv, Control
<1>3. Promises'
  BY DEF OwnFlush, host, queue, IInv, Promises, Owed, Sweeping, Replying
<1>4. Witnesses'
  BY DEF OwnFlush, queue, IInv, Witnesses, Seen
<1> QED BY <1>1, <1>2, <1>3, <1>4 DEF IInv

(* It takes the staged batch. *)
LEMMA OwnDrainKeeps ==
  ASSUME IInv, OwnDrain
  PROVE  IInv'
<1>1. Shape'
  <2>1. HostShape'
    BY DEF OwnDrain, host, IInv, Shape, HostShape
  <2>2. TypedShape'
    BY EffectsAre DEF OwnDrain, Drain, IInv, Shape, TypedShape
  <2>3. SweepShape'
    BY DEF OwnDrain, IInv, Shape, SweepShape
  <2>4. QueueShape'
    BY DEF OwnDrain, queue, IInv, Shape, QueueShape
  <2>5. UsedShape'
    BY DEF OwnDrain, IInv, Shape, UsedShape
  <2> QED BY <2>1, <2>2, <2>3, <2>4, <2>5 DEF Shape
<1>2. Control'
  BY DEF OwnDrain, host, queue, Drain, IInv, Control
<1>3. Promises'
  BY EffectsAre DEF OwnDrain, host, queue, Drain, IInv, Control, Promises, Owed, Sweeping,
     Replying
<1>4. Witnesses'
  BY DEF OwnDrain, queue, IInv, Witnesses, Seen
<1> QED BY <1>1, <1>2, <1>3, <1>4 DEF IInv

(* flush_backend. *)
LEMMA OwnSyncKeeps ==
  ASSUME IInv, OwnSync
  PROVE  IInv'
<1>1. Shape'
  <2>1. HostShape'
    BY StoreMoves DEF OwnSync, host, IInv, Shape, HostShape
  <2>2. TypedShape'
    BY DEF OwnSync, IInv, Shape, TypedShape
  <2>3. SweepShape'
    BY DEF OwnSync, IInv, Shape, SweepShape
  <2>4. QueueShape'
    BY DEF OwnSync, queue, IInv, Shape, QueueShape
  <2>5. UsedShape'
    BY DEF OwnSync, IInv, Shape, UsedShape
  <2> QED BY <2>1, <2>2, <2>3, <2>4, <2>5 DEF Shape
<1>2. Control'
  BY StoreMoves DEF OwnSync, host, queue, IInv, Shape, HostShape, Control
<1>3. Promises'
  BY StoreMoves DEF OwnSync, host, queue, IInv, Shape, HostShape, Promises, Owed, Sweeping,
     Replying
<1>4. Witnesses'
  BY StoreMoves DEF OwnSync, queue, IInv, Shape, HostShape, Witnesses, Seen
<1> QED BY <1>1, <1>2, <1>3, <1>4 DEF IInv

(* flush_all takes the staged batch. *)
LEMMA SweepDrainKeeps ==
  ASSUME IInv, SweepDrain
  PROVE  IInv'
<1>1. Shape'
  <2>1. HostShape'
    BY DEF SweepDrain, host, IInv, Shape, HostShape
  <2>2. TypedShape'
    BY EffectsAre DEF SweepDrain, Drain, IInv, Shape, TypedShape
  <2>3. SweepShape'
    BY DEF SweepDrain, IInv, Shape, SweepShape, Sweeps
  <2>4. QueueShape'
    BY DEF SweepDrain, queue, IInv, Shape, QueueShape
  <2>5. UsedShape'
    BY DEF SweepDrain, IInv, Shape, UsedShape
  <2> QED BY <2>1, <2>2, <2>3, <2>4, <2>5 DEF Shape
<1>2. Control'
  BY DEF SweepDrain, host, queue, Drain, IInv, Control
<1>3. Promises'
  BY EffectsAre DEF SweepDrain, host, queue, Drain, IInv, Control, Promises, Owed, Sweeping,
     Replying
<1>4. Witnesses'
  BY DEF SweepDrain, queue, IInv, Witnesses, Seen
<1> QED BY <1>1, <1>2, <1>3, <1>4 DEF IInv

(* flush_all flushes the backend. *)
LEMMA SweepSyncKeeps ==
  ASSUME IInv, SweepSync
  PROVE  IInv'
<1>1. store \in Stores /\ store.held \in BOOLEAN
  BY DEF IInv, Shape, HostShape, Stores
<1>2. /\ store' \in Stores /\ store'.live = store.live /\ store'.safe \in {store.safe, store.live}
      /\ store'.held = store.held /\ store'.named = store.named
      /\ store.held /\ store.named => store'.safe = store.live
  BY <1>1, StoreMoves DEF SweepSync
<1>3. /\ sweep' \in Sweeps
      /\ sweep'.at = "done" /\ sweep'.owes = sweep.owes /\ (~sweep'.err => ~sweep.err /\ store.held)
  <2> DEFINE e == sweep.err \/ ~store.held
  <2>1. sweep' = [sweep EXCEPT !.at = "done", !.err = e]
    BY DEF SweepSync
  <2>2. e \in BOOLEAN
    OBVIOUS
  <2> HIDE DEF e
  <2>3. sweep' \in Sweeps /\ sweep'.at = "done" /\ sweep'.owes = sweep.owes /\ sweep'.err = e
    BY <2>1, <2>2 DEF IInv, Shape, SweepShape, Sweeps
  <2> QED BY <2>3 DEF e
<1>4. Shape'
  <2>1. HostShape'
    BY <1>2 DEF SweepSync, host, IInv, Shape, HostShape
  <2>2. TypedShape'
    BY DEF SweepSync, typed, IInv, Shape, TypedShape
  <2>3. SweepShape'
    BY DEF SweepSync, IInv, Shape, SweepShape, Sweeps
  <2>4. QueueShape'
    BY DEF SweepSync, queue, IInv, Shape, QueueShape
  <2>5. UsedShape'
    BY DEF SweepSync, IInv, Shape, UsedShape
  <2> QED BY <2>1, <2>2, <2>3, <2>4, <2>5 DEF Shape
<1>5. Control'
  BY <1>2 DEF SweepSync, host, typed, queue, IInv, Control
<1>6. Promises'
  BY <1>2, <1>3 DEF SweepSync, host, typed, queue, IInv, Control, Promises, Owed, Sweeping,
     Replying
<1>7. Witnesses'
  BY <1>2 DEF SweepSync, queue, IInv, Witnesses, Seen
<1> QED BY <1>4, <1>5, <1>6, <1>7 DEF IInv

(* close begins with flush_all. *)
LEMMA CloseBeginKeeps ==
  ASSUME IInv, CloseBegin
  PROVE  IInv'
<1>1. Shape'
  <2>1. HostShape'
    BY DEF CloseBegin, IInv, Shape, HostShape
  <2>2. TypedShape'
    BY DEF CloseBegin, typed, IInv, Shape, TypedShape
  <2>3. SweepShape'
    BY TypedConstants DEF CloseBegin, NoSweep, SweepShape, Sweeps
  <2>4. QueueShape'
    BY DEF CloseBegin, queue, IInv, Shape, QueueShape
  <2>5. UsedShape'
    BY DEF CloseBegin, IInv, Shape, UsedShape
  <2> QED BY <2>1, <2>2, <2>3, <2>4, <2>5 DEF Shape
<1>2. Control'
  BY DEF CloseBegin, typed, queue, IInv, Control
<1>3. Promises'
  BY TypedConstants DEF CloseBegin, queue, IInv, Promises, Owed, Sweeping, Replying
<1>4. Witnesses'
  BY DEF CloseBegin, queue, IInv, Witnesses, Seen
<1> QED BY <1>1, <1>2, <1>3, <1>4 DEF IInv

(* close marks the bank. *)
LEMMA CloseSwapKeeps ==
  ASSUME IInv, CloseSwap
  PROVE  IInv'
<1>1. Shape'
  <2>1. HostShape'
    BY DEF CloseSwap, IInv, Shape, HostShape
  <2>2. TypedShape'
    BY DEF CloseSwap, typed, IInv, Shape, TypedShape
  <2>3. SweepShape'
    BY DEF CloseSwap, IInv, Shape, SweepShape
  <2>4. QueueShape'
    BY DEF CloseSwap, queue, IInv, Shape, QueueShape
  <2>5. UsedShape'
    BY DEF CloseSwap, IInv, Shape, UsedShape
  <2> QED BY <2>1, <2>2, <2>3, <2>4, <2>5 DEF Shape
<1>2. Control'
  BY DEF CloseSwap, typed, queue, IInv, Control
<1>3. Promises'
  BY DEF CloseSwap, typed, queue, IInv, Promises, Owed, Sweeping, Replying
<1>4. Witnesses'
  BY DEF CloseSwap, queue, IInv, Witnesses, Seen
<1> QED BY <1>1, <1>2, <1>3, <1>4 DEF IInv

(* into_service. *)
LEMMA IntoServiceKeeps ==
  ASSUME IInv, IntoService
  PROVE  IInv'
<1>1. Shape'
  <2>1. HostShape'
    BY DEF IntoService, IInv, Shape, HostShape
  <2>2. TypedShape'
    BY DEF IntoService, typed, IInv, Shape, TypedShape
  <2>3. SweepShape'
    BY DEF IntoService, IInv, Shape, SweepShape
  <2>4. QueueShape'
    BY DEF IntoService, queue, IInv, Shape, QueueShape
  <2>5. UsedShape'
    BY DEF IntoService, IInv, Shape, UsedShape
  <2> QED BY <2>1, <2>2, <2>3, <2>4, <2>5 DEF Shape
<1>2. Control'
  BY DEF IntoService, typed, queue, IInv, Control
<1>3. Promises'
  BY DEF IntoService, typed, queue, IInv, Promises, Owed, Sweeping, Replying
<1>4. Witnesses'
  BY DEF IntoService, queue, IInv, Witnesses, Seen
<1> QED BY <1>1, <1>2, <1>3, <1>4 DEF IInv

(* flush_all notes what it promises. *)
LEMMA SweepStartKeeps ==
  ASSUME IInv, SweepStart
  PROVE  IInv'
<1>1. /\ sweep' \in Sweeps
      /\ sweep'.at \in {"wait", "sync", "done"}
      /\ sweep'.at = "done" => sweep'.err
      /\ ~sweep'.err => /\ sweep'.at = IF staged = NoEffect THEN "sync" ELSE "wait"
                        /\ \A k \in Keys : sweep'.owes[k] =
                             IF flight[k] # Kept THEN Unsaid
                             ELSE IF staged[k] = Kept THEN store.live[k] ELSE staged[k]
  <2>1. CASE closed
    BY <2>1 DEF SweepStart, IInv, Shape, SweepShape, Sweeps
  <2>2. CASE ~closed
    <3> DEFINE p == Unsay(Then(store.live, staged), flight)
    <3>1. sweep' = [sweep EXCEPT !.at = IF staged = NoEffect THEN "sync" ELSE "wait", !.owes = p]
      BY <2>2 DEF SweepStart
    <3>2. staged \in Landing /\ store.live \in Stored
      BY EffectsAre DEF IInv, Shape, HostShape, TypedShape, Stores
    <3>3. Then(store.live, staged) \in Promised
      BY <3>2, ThenStored DEF Stored, Promised
    <3>4. p \in Promised
          /\ \A k \in Keys : p[k] = IF flight[k] # Kept THEN Unsaid ELSE Then(store.live, staged)[k]
      BY <3>3, UnsayPromises
    <3>5. \A k \in Keys : Then(store.live, staged)[k] = IF staged[k] = Kept THEN store.live[k] ELSE staged[k]
      BY ThenIs
    <3> HIDE DEF p
    <3> QED BY <3>1, <3>4, <3>5 DEF IInv, Shape, SweepShape, Sweeps
  <2> QED BY <2>1, <2>2
<1>2. Shape'
  <2>1. HostShape'
    BY DEF SweepStart, host, IInv, Shape, HostShape
  <2>2. TypedShape'
    BY DEF SweepStart, typed, IInv, Shape, TypedShape
  <2>3. SweepShape'
    BY <1>1 DEF SweepShape
  <2>4. QueueShape'
    BY DEF SweepStart, queue, IInv, Shape, QueueShape
  <2>5. UsedShape'
    BY DEF SweepStart, IInv, Shape, UsedShape
  <2> QED BY <2>1, <2>2, <2>3, <2>4, <2>5 DEF Shape
<1>3. Control'
  BY DEF SweepStart, host, typed, queue, IInv, Control
<1>4. Promises'
  BY <1>1, EffectsAre DEF SweepStart, host, typed, queue, IInv, Promises, Owed, Sweeping,
     Replying
<1>5. Witnesses'
  BY DEF SweepStart, queue, IInv, Witnesses, Seen
<1> QED BY <1>2, <1>3, <1>4, <1>5 DEF IInv

(* close of the backend. *)
LEMMA CloseBackendKeeps ==
  ASSUME IInv, CloseBackend
  PROVE  IInv'
<1>1. /\ store' \in Stores /\ ~store'.held /\ store'.named = store.named
      /\ kind # "memory" => store'.live = store'.safe /\ store'.safe \in {store.safe, store.live}
  BY StoreEnds DEF CloseBackend, IInv, Shape, HostShape
<1>2. Shape'
  <2>1. HostShape'
    BY <1>1 DEF CloseBackend, IInv, Shape, HostShape
  <2>2. TypedShape'
    BY DEF CloseBackend, typed, IInv, Shape, TypedShape
  <2>3. SweepShape'
    BY DEF CloseBackend, IInv, Shape, SweepShape
  <2>4. QueueShape'
    BY DEF CloseBackend, queue, IInv, Shape, QueueShape
  <2>5. UsedShape'
    BY DEF CloseBackend, IInv, Shape, UsedShape
  <2> QED BY <2>1, <2>2, <2>3, <2>4, <2>5 DEF Shape
<1>3. Control'
  BY <1>1 DEF CloseBackend, typed, queue, IInv, Control
<1>4. Promises'
  BY <1>1 DEF CloseBackend, typed, queue, IInv, Control, Promises, Owed, Sweeping, Replying
<1>5. Witnesses'
  BY <1>1 DEF CloseBackend, queue, IInv, Witnesses
<1> QED BY <1>2, <1>3, <1>4, <1>5 DEF IInv

(* The answer of close. *)
LEMMA CloseReleaseKeeps ==
  ASSUME IInv, CloseRelease
  PROVE  IInv'
<1>1. sweep' \in Sweeps /\ sweep'.at = "off" /\ \A k \in Keys : sweep'.owes[k] = Unsaid
  BY TypedConstants DEF CloseRelease, NoSweep, Sweeps
<1>2. /\ owed' \in Promised
      /\ \A k \in Keys : owed'[k] = IF ~sweep.err /\ sweep.owes[k] \notin {Kept, Unsaid}
                                  THEN sweep.owes[k] ELSE owed[k]
  <2>1. sweep.owes \in [Keys -> Bytes \cup {Kept, Unsaid}] /\ owed \in Promised
    BY DEF IInv, Shape, HostShape, SweepShape, Sweeps, Promised, Bytes
  <2> QED BY <2>1, SayPromises DEF CloseRelease, Heard
<1>3. Shape'
  <2>1. HostShape'
    BY <1>2 DEF CloseRelease, IInv, Shape, HostShape
  <2>2. TypedShape'
    BY DEF CloseRelease, typed, IInv, Shape, TypedShape
  <2>3. SweepShape'
    BY <1>1 DEF SweepShape
  <2>4. QueueShape'
    BY DEF CloseRelease, queue, IInv, Shape, QueueShape
  <2>5. UsedShape'
    BY DEF CloseRelease, IInv, Shape, UsedShape
  <2> QED BY <2>1, <2>2, <2>3, <2>4, <2>5 DEF Shape
<1>4. Control'
  BY <1>1 DEF CloseRelease, typed, queue, IInv, Control
<1>5. Promises'
  BY <1>1, <1>2 DEF CloseRelease, queue, IInv, Control, Promises, Owed, Sweeping, Replying
<1>6. Witnesses'
  BY DEF CloseRelease, queue, IInv, Witnesses, Seen
<1> QED BY <1>3, <1>4, <1>5, <1>6 DEF IInv

(* LazyLocker::put. *)
LEMMA StageKeeps ==
  ASSUME IInv, Stage
  PROVE  IInv'
<1>1. used' \in [DOMAIN Bounds -> Nat] /\ \A what \in DOMAIN Bounds : used'[what] \in 0 .. Bounds[what]
  BY SpendIs DEF Stage, IInv
<1>2. /\ staged' \in Effects
      /\ sweep' \in Sweeps /\ sweep'.at = sweep.at /\ sweep'.err = sweep.err
      /\ \A k \in Keys : \/ staged'[k] = staged[k] /\ sweep'.owes[k] = sweep.owes[k]
                         \/ sweep'.owes[k] = Unsaid
  <2>1. PICK k \in Keys, v \in OwnVals : /\ staged' = Then(staged, PutOf(k, v))
                                         /\ sweep' = [sweep EXCEPT !.owes = Unsay(@, PutOf(k, v))]
    BY DEF Stage
  <2>2. PutOf(k, v) \in Effects
    BY TypedConstants, EffectsAre
  <2>3. staged' \in Effects
    BY <2>1, <2>2, ThenEffects DEF IInv, Shape, TypedShape
  <2>4. \A j \in Keys : staged'[j] = IF PutOf(k, v)[j] = Kept THEN staged[j] ELSE PutOf(k, v)[j]
    BY <2>1, ThenIs
  <2> DEFINE p == Unsay(sweep.owes, PutOf(k, v))
  <2>5. p \in Promised
        /\ \A j \in Keys : p[j] = IF PutOf(k, v)[j] # Kept THEN Unsaid ELSE sweep.owes[j]
    BY UnsayPromises DEF IInv, Shape, SweepShape, Sweeps
  <2>6. sweep' = [sweep EXCEPT !.owes = p]
    BY <2>1
  <2> HIDE DEF p
  <2>7. sweep' \in Sweeps /\ sweep'.at = sweep.at /\ sweep'.err = sweep.err /\ sweep'.owes = p
    BY <2>5, <2>6 DEF IInv, Shape, SweepShape, Sweeps
  <2> QED BY <2>3, <2>4, <2>5, <2>7
<1>3. Shape'
  <2>1. HostShape'
    BY DEF Stage, host, IInv, Shape, HostShape
  <2>2. TypedShape'
    BY <1>2 DEF Stage, IInv, Shape, TypedShape
  <2>3. SweepShape'
    BY <1>2 DEF SweepShape
  <2>4. QueueShape'
    BY DEF Stage, queue, IInv, Shape, QueueShape
  <2>5. UsedShape'
    BY <1>1 DEF UsedShape
  <2> QED BY <2>1, <2>2, <2>3, <2>4, <2>5 DEF Shape
<1>4. Control'
  BY DEF Stage, host, queue, IInv, Control
<1>5. Promises'
  BY <1>2 DEF Stage, host, queue, IInv, Promises, Owed, Sweeping, Replying
<1>6. Witnesses'
  BY DEF Stage, queue, IInv, Witnesses, Seen
<1> QED BY <1>3, <1>4, <1>5, <1>6 DEF IInv

(* The last handle of the locker goes. *)
LEMMA DropLockerKeeps ==
  ASSUME IInv, DropLocker
  PROVE  IInv'
<1>1. /\ store' \in Stores
      /\ store' = store \/ /\ ~store'.held /\ store'.named = store.named /\ bank \in {"none", "gone"}
                           /\ kind # "memory" => store'.live = store'.safe /\ store'.safe \in {store.safe, store.live}
  BY StoreEnds DEF DropLocker, IInv, Shape, HostShape
<1>2. Shape'
  <2>1. HostShape'
    BY <1>1 DEF DropLocker, host, IInv, Shape, HostShape
  <2>2. TypedShape'
    BY EffectsAre DEF DropLocker, IInv, Shape, TypedShape
  <2>3. SweepShape'
    BY DEF DropLocker, IInv, Shape, SweepShape
  <2>4. QueueShape'
    BY DEF DropLocker, queue, IInv, Shape, QueueShape
  <2>5. UsedShape'
    BY DEF DropLocker, IInv, Shape, UsedShape
  <2> QED BY <2>1, <2>2, <2>3, <2>4, <2>5 DEF Shape
<1>3. Control'
  BY DEF DropLocker, host, queue, IInv, Control
<1>4. Promises'
  BY <1>1 DEF DropLocker, host, queue, IInv, Control, Promises, Owed, Sweeping, Replying
<1>5. Witnesses'
  BY <1>1 DEF DropLocker, queue, IInv, Witnesses, Seen
<1> QED BY <1>2, <1>3, <1>4, <1>5 DEF IInv

(* The Bank is dropped by the application. *)
LEMMA DropBankKeeps ==
  ASSUME IInv, DropBank
  PROVE  IInv'
<1>1. /\ store' \in Stores /\ store'.named = store.named
      /\ store'.held => store' = store
      /\ \/ store' = store
         \/ kind # "memory" => store'.live = store'.safe /\ store'.safe \in {store.safe, store.live}
  BY StoreEnds DEF DropBank, BankEnds, IInv, Shape, HostShape
<1>2. /\ jobs' = <<>> /\ DOMAIN jobs' = {} /\ jobs' \in Seq(Jobs) /\ job' = NoJob
      /\ calling' = {} /\ bank' = "gone" /\ tracked' = FALSE
  BY DEF DropBank, BankEnds
<1>3. Shape'
  <2>1. HostShape'
    BY <1>1, <1>2 DEF DropBank, IInv, Shape, HostShape
  <2>2. TypedShape'
    BY DEF DropBank, typed, IInv, Shape, TypedShape
  <2>3. SweepShape'
    BY DEF DropBank, IInv, Shape, SweepShape
  <2>4. QueueShape'
    BY <1>2, NoJobIs DEF QueueShape
  <2>5. UsedShape'
    BY DEF DropBank, IInv, Shape, UsedShape
  <2> QED BY <2>1, <2>2, <2>3, <2>4, <2>5 DEF Shape
<1>4. Control'
  BY <1>2, NoJobIs DEF DropBank, typed, IInv, Control
<1>5. Promises'
  BY <1>1, <1>2, NoJobIs DEF DropBank, IInv, Control, Promises, Owed, Sweeping, Replying
<1>6. Witnesses'
  BY <1>2, NoJobIs DEF Witnesses
<1> QED BY <1>3, <1>4, <1>5, <1>6 DEF IInv

(* The service future is dropped. *)
LEMMA DropServiceKeeps ==
  ASSUME IInv, DropService
  PROVE  IInv'
<1>1. /\ store' \in Stores /\ store'.named = store.named
      /\ store'.held => store' = store
      /\ \/ store' = store
         \/ kind # "memory" => store'.live = store'.safe /\ store'.safe \in {store.safe, store.live}
  BY StoreEnds DEF DropService, BankEnds, IInv, Shape, HostShape
<1>2. /\ jobs' = <<>> /\ DOMAIN jobs' = {} /\ jobs' \in Seq(Jobs) /\ job' = NoJob
      /\ calling' = {} /\ bank' = "gone" /\ tracked' = FALSE
  BY DEF DropService, BankEnds
<1>3. sweep' \in Sweeps /\ sweep'.at = "off" /\ \A k \in Keys : sweep'.owes[k] = Unsaid
  BY TypedConstants DEF DropService, NoSweep, Sweeps
<1>4. Shape'
  <2>1. HostShape'
    BY <1>1, <1>2 DEF DropService, IInv, Shape, HostShape
  <2>2. TypedShape'
    BY EffectsAre DEF DropService, IInv, Shape, TypedShape
  <2>3. SweepShape'
    BY <1>3 DEF SweepShape
  <2>4. QueueShape'
    BY <1>2, NoJobIs DEF QueueShape
  <2>5. UsedShape'
    BY DEF DropService, IInv, Shape, UsedShape
  <2> QED BY <2>1, <2>2, <2>3, <2>4, <2>5 DEF Shape
<1>5. Control'
  BY <1>2, <1>3, NoJobIs DEF DropService, IInv, Control
<1>6. Promises'
  BY <1>1, <1>2, <1>3, NoJobIs DEF DropService, IInv, Promises, Owed, Sweeping, Replying
<1>7. Witnesses'
  BY <1>2, NoJobIs DEF Witnesses
<1> QED BY <1>4, <1>5, <1>6, <1>7 DEF IInv

(* delete_bank. *)
LEMMA DeleteBankKeeps ==
  ASSUME IInv, DeleteBank
  PROVE  IInv'
<1>1. used' \in [DOMAIN Bounds -> Nat] /\ \A what \in DOMAIN Bounds : used'[what] \in 0 .. Bounds[what]
  BY SpendIs DEF DeleteBank, IInv
<1>2. store' \in Stores /\ store'.held = store.held /\ (store.held => store'.live = store.live)
  BY StoreMoves DEF DeleteBank, IInv, Shape, HostShape
<1>3. /\ sweep' \in Sweeps /\ sweep'.at = sweep.at /\ sweep'.err = sweep.err
      /\ owed' \in Promised /\ \A k \in Keys : sweep'.owes[k] = Unsaid /\ owed'[k] = Unsaid
  BY TypedConstants DEF DeleteBank, IInv, Shape, SweepShape, Sweeps
<1>4. Shape'
  <2>1. HostShape'
    BY <1>2, <1>3 DEF DeleteBank, host, IInv, Shape, HostShape
  <2>2. TypedShape'
    BY DEF DeleteBank, typed, IInv, Shape, TypedShape
  <2>3. SweepShape'
    BY <1>3 DEF SweepShape
  <2>4. QueueShape'
    BY DEF DeleteBank, queue, IInv, Shape, QueueShape
  <2>5. UsedShape'
    BY <1>1 DEF UsedShape
  <2> QED BY <2>1, <2>2, <2>3, <2>4, <2>5 DEF Shape
<1>5. Control'
  BY <1>2 DEF DeleteBank, host, typed, queue, DeleteRefused, Kinds, IInv, Shape, HostShape,
     Control
<1>6. Promises'
  BY <1>3 DEF DeleteBank, queue, DeleteRefused, Kinds, IInv, Shape, HostShape, Control,
     Promises, Owed, Sweeping, Replying
<1>7. Witnesses'
  BY <1>2 DEF DeleteBank, queue, IInv, Witnesses, Seen
<1> QED BY <1>4, <1>5, <1>6, <1>7 DEF IInv

(* The process dies. *)
LEMMA CrashKeeps ==
  ASSUME IInv, Crash
  PROVE  IInv'
<1>1. /\ store' \in Stores /\ ~store'.held
      /\ kind # "memory" => store'.live = store'.safe /\ store'.safe \in {store.safe, store.live}
  <2>1. store \in Stores /\ store' \in Released(store, kind) \cup {Survived(store, kind)}
    BY DEF Crash, IInv, Shape, HostShape
  <2> QED BY <2>1, StoreEnds
<1>2. sweep' \in Sweeps /\ sweep'.at = "off" /\ \A k \in Keys : sweep'.owes[k] = Unsaid
  BY TypedConstants DEF Crash, NoSweep, Sweeps
<1>3. Shape'
  <2>1. HostShape'
    BY <1>1, TypedConstants DEF Crash, IInv, Shape, HostShape
  <2>2. TypedShape'
    BY EffectsAre DEF Crash, TypedShape
  <2>3. SweepShape'
    BY <1>2 DEF SweepShape
  <2>4. QueueShape'
    BY NoJobIs DEF Crash, QueueShape
  <2>5. UsedShape'
    BY DEF Crash, IInv, Shape, UsedShape
  <2> QED BY <2>1, <2>2, <2>3, <2>4, <2>5 DEF Shape
<1>4. Control'
  BY NoJobIs, TypedConstants DEF Crash, Control
<1>5. Promises'
  BY <1>1, NoJobIs, TypedConstants DEF Crash, IInv, Promises, Owed, Sweeping, Replying
<1>6. Witnesses'
  BY NoJobIs DEF Crash, Witnesses
<1> QED BY <1>3, <1>4, <1>5, <1>6 DEF IInv

(* BankHandle::dispatch. *)
LEMMA DispatchKeeps ==
  ASSUME IInv, NEW c \in Callers, Dispatch(c)
  PROVE  IInv'
<1>1. used' \in [DOMAIN Bounds -> Nat] /\ \A what \in DOMAIN Bounds : used'[what] \in 0 .. Bounds[what]
  BY SpendIs DEF Dispatch, IInv
<1>2. PICK a \in Asked : jobs' = Append(jobs, JobOf(c, a))
  BY DEF Dispatch
<1> DEFINE j == JobOf(c, a)
<1>3. /\ a.do \in {"get", "write", "flush_all", "delete_locker"} /\ a.key \in Keys \cup {SomeKey}
      /\ a.do = "get" => a.key \in Keys
      /\ a.do \notin {"write", "delete_locker"} => a.b = NoEffect
      /\ a.b \in Effects
  BY TypedConstants, EffectsAre DEF Asked, SomeKey, RawWrites, Effects
<1>4. /\ j \in Jobs /\ j.at = "queued" /\ j.b \in Effects /\ Reads(j)
      /\ store.held => Seen(j)
  <2> DEFINE s == IF a.do = "get" /\ store.held THEN {store.live[a.key]} ELSE {}
  <2>1. j = [NoJob EXCEPT !.who = c, !.do = a.do, !.key = a.key, !.b = a.b, !.at = "queued", !.seen = s]
    BY DEF JobOf
  <2>2. a.do = "get" => store.live[a.key] \in Bytes
    BY <1>3 DEF IInv, Shape, HostShape, Stores, Stored, Bytes
  <2>3. a.b \in Landing
    BY <1>3, EffectsAre
  <2>4. s \subseteq Bytes
    BY <2>2
  <2> HIDE DEF j, s
  <2>5. /\ j \in Jobs /\ j.at = "queued" /\ j.b = a.b /\ j.do = a.do /\ j.key = a.key /\ j.seen = s
    BY <1>3, <2>1, <2>3, <2>4, NoJobIs DEF Jobs
  <2> QED BY <1>3, <2>5 DEF Reads, Seen, s
<1> HIDE DEF j
<1>5. /\ jobs' \in Seq(Jobs) /\ jobs' # <<>>
      /\ \A i \in DOMAIN jobs' : (i \in DOMAIN jobs /\ jobs'[i] = jobs[i]) \/ jobs'[i] = j
      /\ j \in Jobs /\ j.at = "queued" /\ j.b \in Effects /\ Reads(j)
      /\ store.held => Seen(j)
  BY <1>2, <1>4 DEF IInv, Shape, QueueShape, j
<1>6. Shape'
  <2>1. HostShape'
    BY DEF Dispatch, host, IInv, Shape, HostShape
  <2>2. TypedShape'
    BY DEF Dispatch, typed, IInv, Shape, TypedShape
  <2>3. SweepShape'
    BY DEF Dispatch, IInv, Shape, SweepShape
  <2>4. QueueShape'
    BY <1>5 DEF Dispatch, IInv, Shape, QueueShape
  <2>5. UsedShape'
    BY <1>1 DEF UsedShape
  <2> QED BY <2>1, <2>2, <2>3, <2>4, <2>5 DEF Shape
<1>7. Control'
  BY DEF Dispatch, host, typed, IInv, Control
<1>8. Promises'
  BY DEF Dispatch, host, typed, IInv, Promises, Owed, Sweeping, Replying
<1>9. Witnesses'
  BY <1>5 DEF Dispatch, IInv, Witnesses, Seen
<1> QED BY <1>6, <1>7, <1>8, <1>9 DEF IInv

(* A caller drops its call. *)
LEMMA GiveUpKeeps ==
  ASSUME IInv, NEW c \in Callers, GiveUp(c)
  PROVE  IInv'
<1>1. \A q \in Jobs : /\ Abandon(q, c) \in Jobs /\ Abandon(q, c).at = q.at /\ Abandon(q, c).b = q.b
                      /\ Abandon(q, c).do = q.do /\ Abandon(q, c).key = q.key
                      /\ Abandon(q, c).says = q.says /\ Abandon(q, c).seen = q.seen
                      /\ Reads(q) => Reads(Abandon(q, c))
                      /\ Seen(q) => Seen(Abandon(q, c))
  BY DEF Abandon, Jobs, Reads, Seen
<1>2. Shape'
  <2>1. HostShape'
    BY DEF GiveUp, host, IInv, Shape, HostShape
  <2>2. TypedShape'
    BY DEF GiveUp, typed, IInv, Shape, TypedShape
  <2>3. SweepShape'
    BY DEF GiveUp, IInv, Shape, SweepShape
  <2>4. QueueShape'
    BY <1>1 DEF GiveUp, IInv, Shape, QueueShape
  <2>5. UsedShape'
    BY DEF GiveUp, IInv, Shape, UsedShape
  <2> QED BY <2>1, <2>2, <2>3, <2>4, <2>5 DEF Shape
<1>3. Control'
  BY <1>1 DEF GiveUp, host, typed, IInv, Shape, QueueShape, Control
<1>4. Promises'
  BY <1>1 DEF GiveUp, host, typed, IInv, Shape, QueueShape, Promises, Owed, Sweeping,
     Replying
<1>5. Witnesses'
  BY <1>1 DEF GiveUp, IInv, Shape, QueueShape, Witnesses, Seen
<1> QED BY <1>2, <1>3, <1>4, <1>5 DEF IInv

(* The service takes the next job. *)
LEMMA TakeJobKeeps ==
  ASSUME IInv, TakeJob
  PROVE  IInv'
<1>1. /\ Head(jobs) \in Jobs /\ Reads(Head(jobs)) /\ Head(jobs).b \in Effects /\ 1 \in DOMAIN jobs
      /\ Head(jobs) = jobs[1]
      /\ Tail(jobs) \in Seq(Jobs)
      /\ \A i \in DOMAIN Tail(jobs) : i + 1 \in DOMAIN jobs /\ Tail(jobs)[i] = jobs[i + 1]
  BY DEF TakeJob, IInv, Shape, QueueShape
<1>2. /\ job' \in Jobs /\ Reads(job') /\ job'.at = "work" /\ job'.b \in Effects
      /\ job'.do = jobs[1].do /\ job'.key = jobs[1].key /\ job'.seen = jobs[1].seen
      /\ jobs' = Tail(jobs) /\ job.at = "none"
  BY <1>1, NoJobIs DEF TakeJob, Jobs, Reads
<1>3. Shape'
  <2>1. HostShape'
    BY DEF TakeJob, host, IInv, Shape, HostShape
  <2>2. TypedShape'
    BY DEF TakeJob, typed, IInv, Shape, TypedShape
  <2>3. SweepShape'
    BY DEF TakeJob, IInv, Shape, SweepShape
  <2>4. QueueShape'
    BY <1>2 DEF TakeJob, IInv, Shape, QueueShape
  <2>5. UsedShape'
    BY DEF TakeJob, IInv, Shape, UsedShape
  <2> QED BY <2>1, <2>2, <2>3, <2>4, <2>5 DEF Shape
<1>4. Control'
  BY <1>2 DEF TakeJob, host, typed, IInv, Control
<1>5. Promises'
  BY DEF TakeJob, host, typed, IInv, Promises, Owed, Sweeping, Replying
<1>6. Witnesses'
  BY DEF TakeJob, host, typed, IInv, Witnesses, Seen
<1> QED BY <1>3, <1>4, <1>5, <1>6 DEF IInv

(* raw_get. *)
LEMMA ServeReadKeeps ==
  ASSUME IInv, ServeRead
  PROVE  IInv'
<1>1. ReadAnswer(store.live[job.key]) \in Answers
  <2>1. store.live[job.key] \in Vals \cup {Gone, Damaged}
    BY DEF ServeRead, IInv, Shape, HostShape, QueueShape, Reads, Stores, Stored
  <2> QED BY <2>1 DEF ReadAnswer, Answers
<1>2. /\ job' \in Jobs /\ Reads(job') /\ job'.at = "reply" /\ job'.says = ReadAnswer(store.live[job.key])
      /\ job'.do = job.do /\ job'.key = job.key /\ job'.b = job.b /\ job'.seen = job.seen
      /\ job'.says \in Answers
  BY <1>1 DEF ServeRead, Answered, IInv, Shape, QueueShape, Jobs, Reads
<1>3. Shape'
  <2>1. HostShape'
    BY DEF ServeRead, host, IInv, Shape, HostShape
  <2>2. TypedShape'
    BY DEF ServeRead, typed, IInv, Shape, TypedShape
  <2>3. SweepShape'
    BY DEF ServeRead, IInv, Shape, SweepShape
  <2>4. QueueShape'
    BY <1>2 DEF ServeRead, IInv, Shape, QueueShape
  <2>5. UsedShape'
    BY DEF ServeRead, IInv, Shape, UsedShape
  <2> QED BY <2>1, <2>2, <2>3, <2>4, <2>5 DEF Shape
<1>4. Control'
  BY <1>2 DEF ServeRead, host, typed, IInv, Control
<1>5. Promises'
  BY <1>2 DEF ServeRead, host, typed, IInv, Promises, Owed, Sweeping, Replying
<1>6. Witnesses'
  BY <1>2 DEF ServeRead, IInv, Witnesses, Seen, ReadAnswer
<1> QED BY <1>3, <1>4, <1>5, <1>6 DEF IInv

(* A flush_all job begins. *)
LEMMA ServeFlushAllKeeps ==
  ASSUME IInv, ServeFlushAll
  PROVE  IInv'
<1>1. sweep' \in Sweeps /\ sweep'.at = "start" /\ \A k \in Keys : sweep'.owes[k] = Unsaid
  BY TypedConstants DEF ServeFlushAll, NoSweep, Sweeps
<1>2. /\ job' \in Jobs /\ Reads(job') /\ job'.at = "sweep" /\ job'.do = "flush_all"
  BY DEF ServeFlushAll, IInv, Shape, QueueShape, Jobs, Reads
<1>3. Shape'
  <2>1. HostShape'
    BY DEF ServeFlushAll, host, IInv, Shape, HostShape
  <2>2. TypedShape'
    BY DEF ServeFlushAll, typed, IInv, Shape, TypedShape
  <2>3. SweepShape'
    BY <1>1 DEF SweepShape
  <2>4. QueueShape'
    BY <1>2 DEF ServeFlushAll, IInv, Shape, QueueShape
  <2>5. UsedShape'
    BY DEF ServeFlushAll, IInv, Shape, UsedShape
  <2> QED BY <2>1, <2>2, <2>3, <2>4, <2>5 DEF Shape
<1>4. Control'
  BY DEF ServeFlushAll, host, typed, IInv, Control
<1>5. Promises'
  BY <1>1 DEF ServeFlushAll, host, IInv, Promises, Owed, Sweeping, Replying
<1>6. Witnesses'
  BY DEF ServeFlushAll, IInv, Witnesses, Seen
<1> QED BY <1>3, <1>4, <1>5, <1>6 DEF IInv

(* It has ended. *)
LEMMA EndFlushAllKeeps ==
  ASSUME IInv, EndFlushAll
  PROVE  IInv'
<1>1. (IF sweep.err THEN "failed" ELSE "ok") \in Answers
  BY DEF Answers
<1>2. /\ job' \in Jobs /\ Reads(job') /\ job'.at = "reply" /\ job'.says = (IF sweep.err THEN "failed" ELSE "ok")
      /\ job'.do = job.do /\ job'.key = job.key /\ job'.b = job.b /\ job'.seen = job.seen
      /\ job'.says \in Answers
  BY <1>1 DEF EndFlushAll, Answered, IInv, Shape, QueueShape, Jobs, Reads
<1>3. Shape'
  <2>1. HostShape'
    BY DEF EndFlushAll, host, IInv, Shape, HostShape
  <2>2. TypedShape'
    BY DEF EndFlushAll, typed, IInv, Shape, TypedShape
  <2>3. SweepShape'
    BY DEF EndFlushAll, IInv, Shape, SweepShape
  <2>4. QueueShape'
    BY <1>2 DEF EndFlushAll, IInv, Shape, QueueShape
  <2>5. UsedShape'
    BY DEF EndFlushAll, IInv, Shape, UsedShape
  <2> QED BY <2>1, <2>2, <2>3, <2>4, <2>5 DEF Shape
<1>4. Control'
  BY <1>2 DEF EndFlushAll, host, typed, IInv, Control
<1>5. Promises'
  <2>1. UNCHANGED <<host, store, typed, sweep, owed>> /\ job.at = "sweep" /\ job.do = "flush_all"
    BY DEF EndFlushAll, IInv, Control
  <2>2. Owed => Owed'
    BY <2>1 DEF Owed
  <2>3. Sweeping => Sweeping'
    BY <2>1 DEF Sweeping, typed
  <2>4. Replying'
    BY <1>2, <2>1 DEF Replying
  <2> QED
    BY <2>1, <2>2, <2>3, <2>4 DEF IInv, Promises, host
<1>6. Witnesses'
  BY <1>2 DEF EndFlushAll, IInv, Control, Witnesses, Seen
<1> QED BY <1>3, <1>4, <1>5, <1>6 DEF IInv

(* delete_locker is refused, or goes on to erase. *)
LEMMA ServeDeleteLockerKeeps ==
  ASSUME IInv, ServeDeleteLocker
  PROVE  IInv'
<1>1. /\ job' \in Jobs /\ Reads(job') /\ job'.at \in {"reply", "erase"}
      /\ job'.at = "reply" => job'.says = "failed"
      /\ job'.do = "delete_locker" /\ job'.b = job.b
  <2>1. job \in Jobs /\ Reads(job) /\ job.do = "delete_locker"
    BY DEF ServeDeleteLocker, IInv, Shape, QueueShape
  <2>2. CASE job' = [job EXCEPT !.at = "reply", !.says = "failed"]
    BY <2>1, <2>2 DEF Answers, Jobs, Reads
  <2>3. CASE job' = [job EXCEPT !.at = "erase"]
    BY <2>1, <2>3 DEF Jobs, Reads
  <2> QED
    BY <2>2, <2>3 DEF ServeDeleteLocker, Answered
<1>2. Shape'
  <2>1. HostShape'
    BY DEF ServeDeleteLocker, host, IInv, Shape, HostShape
  <2>2. TypedShape'
    BY DEF ServeDeleteLocker, typed, IInv, Shape, TypedShape
  <2>3. SweepShape'
    BY DEF ServeDeleteLocker, IInv, Shape, SweepShape
  <2>4. QueueShape'
    BY <1>1 DEF ServeDeleteLocker, IInv, Shape, QueueShape
  <2>5. UsedShape'
    BY DEF ServeDeleteLocker, IInv, Shape, UsedShape
  <2> QED BY <2>1, <2>2, <2>3, <2>4, <2>5 DEF Shape
<1>3. Control'
  BY <1>1 DEF ServeDeleteLocker, host, typed, IInv, Control
<1>4. Promises'
  BY <1>1 DEF ServeDeleteLocker, host, typed, IInv, Promises, Owed, Sweeping, Replying
<1>5. Witnesses'
  BY <1>1 DEF ServeDeleteLocker, IInv, Witnesses, Seen
<1> QED BY <1>2, <1>3, <1>4, <1>5 DEF IInv

(* reply.send. *)
LEMMA ReplyKeeps ==
  ASSUME IInv, Reply
  PROVE  IInv'
<1>1. /\ sweep' \in Sweeps
      /\ \/ sweep' = sweep /\ job.do # "flush_all"
         \/ sweep'.at = "off" /\ (\A k \in Keys : sweep'.owes[k] = Unsaid) /\ job.do = "flush_all"
  <2>1. NoSweep \in Sweeps /\ NoSweep.at = "off" /\ \A k \in Keys : NoSweep.owes[k] = Unsaid
    BY TypedConstants DEF NoSweep, Sweeps
  <2> QED BY <2>1 DEF Reply, IInv, Shape, SweepShape
<1>2. /\ owed' \in Promised
      /\ \A k \in Keys : \/ owed'[k] = owed[k]
                         \/ /\ job.do = "flush_all" /\ ~sweep.err
                            /\ sweep.owes[k] # Unsaid /\ owed'[k] = sweep.owes[k]
                         \/ /\ job.do \in {"write", "delete_locker"} /\ job.says = "ok"
                            /\ job.b[k] # Kept /\ owed'[k] = job.b[k]
  <2>1. owed \in Promised /\ sweep.owes \in [Keys -> Bytes \cup {Kept, Unsaid}]
    BY DEF IInv, Shape, HostShape, SweepShape, Sweeps, Promised, Bytes
  <2>2. /\ job \in Jobs /\ job.b \in [Keys -> Bytes \cup {Kept, Unsaid}]
        /\ job.do \in {"none", "get", "write", "flush_all", "delete_locker"}
        /\ Reads(job)
    BY DEF IInv, Shape, QueueShape, Jobs, Landing
  <2>3. CASE job.do = "flush_all"
    BY <2>1, <2>3, SayPromises DEF Reply, Heard
  <2>4. CASE job.do # "flush_all"
    <3>1. owed' = IF job.says = "ok" THEN Say(owed, job.b) ELSE owed
      BY <2>4 DEF Reply
    <3>2. job.do \in {"get", "none"} => job.b = NoEffect
      BY <2>2 DEF Reads
    <3> QED BY <2>1, <2>2, <2>4, <3>1, <3>2, SayPromises, EffectsAre
  <2> QED BY <2>3, <2>4
<1>3. Shape'
  <2>1. HostShape'
    BY <1>2 DEF Reply, host, IInv, Shape, HostShape
  <2>2. TypedShape'
    BY DEF Reply, typed, IInv, Shape, TypedShape
  <2>3. SweepShape'
    BY <1>1 DEF SweepShape
  <2>4. QueueShape'
    BY NoJobIs DEF Reply, IInv, Shape, QueueShape
  <2>5. UsedShape'
    BY DEF Reply, IInv, Shape, UsedShape
  <2> QED BY <2>1, <2>2, <2>3, <2>4, <2>5 DEF Shape
<1>4. Control'
  BY <1>1, NoJobIs DEF Reply, host, typed, IInv, Control
<1>5. Promises'
  BY <1>1, <1>2, NoJobIs DEF Reply, host, IInv, Control, Promises, Owed, Sweeping, Replying
<1>6. Witnesses'
  BY NoJobIs DEF Reply, IInv, Witnesses, Seen
<1> QED BY <1>3, <1>4, <1>5, <1>6 DEF IInv

(* The locker's flush commits. *)
LEMMA OwnCommitKeeps ==
  ASSUME IInv, OwnCommit
  PROVE  IInv'
<1>1. PICK x \in Landings(flight) :
        /\ Commit(flight, eventual, x.through, x.lands)
        /\ staged' = IF x.through THEN staged ELSE Then(flight, staged)
        /\ flight' = NoEffect /\ lock' = Unlocked(x.through)
        /\ jobs' = Witnessed /\ job' = Overtaken(Sees(job, store'.live), x.lands)
        /\ sweep' = [at |-> sweep.at, err |-> sweep.err \/ (sweep.at # sweep.at /\ ~x.through),
                     owes |-> [k \in Keys |-> IF x.lands[k] = Damaged THEN Unsaid
                                              ELSE sweep.owes[k]]]
  BY DEF OwnCommit, CommitFlight
<1>2. /\ x.through \in BOOLEAN /\ x.lands \in Landing
      /\ store' \in Stores /\ plan' \in Plans /\ owed' \in Promised
      /\ store'.held = store.held /\ store'.named = store.named
      /\ x.through => store.held
      /\ ~x.through => x.lands = NoEffect /\ store' = store
      /\ \A k \in Keys :
           /\ x.through => x.lands[k] \in {flight[k], Damaged} /\ (flight[k] = Kept => x.lands[k] = Kept)
           /\ store'.live[k] = IF x.lands[k] = Kept THEN store.live[k] ELSE x.lands[k]
           /\ store'.safe[k] \in {store.safe[k], store'.live[k]}
           /\ x.through /\ ~eventual /\ store.named => store'.safe[k] = store'.live[k]
           /\ owed'[k] = IF x.lands[k] # Kept THEN Unsaid ELSE owed[k]
  <2>1. store \in Stores /\ plan \in Plans /\ owed \in Promised /\ flight \in Effects
        /\ eventual \in BOOLEAN
    BY DEF IInv, Shape, HostShape, TypedShape
  <2> QED BY <1>1, <2>1, CommitDoes
<1>3. /\ staged' \in Effects /\ flight' \in Effects /\ flight' = NoEffect
      /\ lock' = "free" /\ \A k \in Keys : flight'[k] = Kept
      /\ \A k \in Keys : staged'[k] = IF ~x.through /\ staged[k] = Kept THEN flight[k] ELSE staged[k]
  <2>1. staged \in Effects /\ flight \in Effects
    BY DEF IInv, Shape, TypedShape
  <2> QED BY <1>1, <2>1, ThenEffects, ThenIs, EffectsAre DEF Unlocked
<1>4. /\ sweep' \in Sweeps /\ sweep'.at = sweep.at
      /\ ~sweep'.err => ~sweep.err /\ (sweep.at # sweep.at => x.through)
      /\ \A k \in Keys : sweep'.owes[k] = IF x.lands[k] = Damaged THEN Unsaid ELSE sweep.owes[k]
  <2> DEFINE e == sweep.err \/ (sweep.at # sweep.at /\ ~x.through)
             o == [k \in Keys |-> IF x.lands[k] = Damaged THEN Unsaid ELSE sweep.owes[k]]
  <2>1. sweep \in Sweeps /\ sweep.owes \in Promised
    BY DEF IInv, Shape, SweepShape, Sweeps
  <2>2. o \in Promised
    BY <2>1 DEF Promised
  <2>3. e \in BOOLEAN
    OBVIOUS
  <2>4. sweep' = [at |-> sweep.at, err |-> e, owes |-> o]
    BY <1>1
  <2> HIDE DEF e, o
  <2>5. sweep' \in Sweeps /\ sweep'.at = sweep.at /\ sweep'.err = e /\ sweep'.owes = o
    BY <2>1, <2>2, <2>3, <2>4 DEF Sweeps
  <2> QED BY <2>5 DEF e, o
<1>5. /\ jobs' \in Seq(Jobs) /\ DOMAIN jobs' = DOMAIN jobs /\ (jobs' # <<>> => jobs # <<>>)
      /\ \A i \in DOMAIN jobs' :
           /\ jobs'[i].at = "queued" /\ Reads(jobs'[i]) /\ jobs'[i].b \in Effects
           /\ jobs'[i].do = "get" => store'.live[jobs'[i].key] \in jobs'[i].seen
  BY <1>1, <1>2, WitnessedIs DEF IInv, Shape
<1>6. /\ job' \in Jobs /\ Reads(job')
      /\ job'.at = job.at /\ job'.do = job.do /\ job'.key = job.key /\ job'.says = job.says
      /\ job.seen \subseteq job'.seen
      /\ job.do = "get" => store'.live[job'.key] \in job'.seen
      /\ job.at # "reply" => job'.b = job.b
      /\ job.at = "reply" => \A k \in Keys : job'.b[k] = IF x.lands[k] # Kept THEN Kept ELSE job.b[k]
  <2>1. job \in Jobs /\ Reads(job)
    BY DEF IInv, Shape, QueueShape
  <2>2. store'.live \in Stored
    BY <1>2 DEF Stores
  <2> DEFINE n == Sees(job, store'.live)
  <2>3. /\ n \in Jobs /\ n.at = job.at /\ n.do = job.do /\ n.key = job.key
        /\ n.b = job.b /\ n.says = job.says
        /\ job.seen \subseteq n.seen
        /\ Reads(n) /\ (job.do = "get" => store'.live[n.key] \in n.seen)
    BY <2>1, <2>2, SeesIs
  <2>4. job' = Overtaken(n, x.lands)
    BY <1>1
  <2> HIDE DEF n
  <2>5. /\ job' \in Jobs
        /\ job'.at = n.at /\ job'.do = n.do /\ job'.key = n.key /\ job'.says = n.says /\ job'.seen = n.seen
        /\ Reads(n) => Reads(job')
        /\ n.at # "reply" => job' = n
        /\ n.at = "reply" => \A k \in Keys : job'.b[k] = IF x.lands[k] # Kept THEN Kept ELSE n.b[k]
    BY <1>2, <2>3, <2>4, OvertakenIs
  <2> QED BY <2>3, <2>5
<1>7. Shape'
  <2>1. HostShape'
    BY <1>2 DEF OwnCommit, host, IInv, Shape, HostShape
  <2>2. TypedShape'
    BY <1>3 DEF OwnCommit, IInv, Shape, TypedShape
  <2>3. SweepShape'
    BY <1>4 DEF SweepShape
  <2>4. QueueShape'
    BY <1>5, <1>6 DEF OwnCommit, IInv, Shape, QueueShape
  <2>5. UsedShape'
    BY DEF OwnCommit, IInv, Shape, UsedShape
  <2> QED BY <2>1, <2>2, <2>3, <2>4, <2>5 DEF Shape
<1>8. Control'
  BY <1>2, <1>3, <1>4, <1>5, <1>6 DEF OwnCommit, host, IInv, Control
<1>9. Promises'
  BY <1>2, <1>3, <1>4, <1>6 DEF OwnCommit, host, IInv, Control, Promises, Owed, Sweeping,
     Replying
<1>10. Witnesses'
  BY <1>5, <1>6 DEF IInv, Witnesses, Seen
<1> QED BY <1>7, <1>8, <1>9, <1>10 DEF IInv

(* flush_all commits what it took. *)
LEMMA SweepCommitKeeps ==
  ASSUME IInv, SweepCommit
  PROVE  IInv'
<1>1. PICK x \in Landings(flight) :
        /\ Commit(flight, eventual, x.through, x.lands)
        /\ staged' = IF x.through THEN staged ELSE Then(flight, staged)
        /\ flight' = NoEffect /\ lock' = Unlocked(x.through)
        /\ jobs' = Witnessed /\ job' = Overtaken(Sees(job, store'.live), x.lands)
        /\ sweep' = [at |-> "sync", err |-> sweep.err \/ ("sync" # sweep.at /\ ~x.through),
                     owes |-> [k \in Keys |-> IF x.lands[k] = Damaged THEN Unsaid
                                              ELSE sweep.owes[k]]]
  BY DEF SweepCommit, CommitFlight
<1>2. /\ x.through \in BOOLEAN /\ x.lands \in Landing
      /\ store' \in Stores /\ plan' \in Plans /\ owed' \in Promised
      /\ store'.held = store.held /\ store'.named = store.named
      /\ x.through => store.held
      /\ ~x.through => x.lands = NoEffect /\ store' = store
      /\ \A k \in Keys :
           /\ x.through => x.lands[k] \in {flight[k], Damaged} /\ (flight[k] = Kept => x.lands[k] = Kept)
           /\ store'.live[k] = IF x.lands[k] = Kept THEN store.live[k] ELSE x.lands[k]
           /\ store'.safe[k] \in {store.safe[k], store'.live[k]}
           /\ x.through /\ ~eventual /\ store.named => store'.safe[k] = store'.live[k]
           /\ owed'[k] = IF x.lands[k] # Kept THEN Unsaid ELSE owed[k]
  <2>1. store \in Stores /\ plan \in Plans /\ owed \in Promised /\ flight \in Effects
        /\ eventual \in BOOLEAN
    BY DEF IInv, Shape, HostShape, TypedShape
  <2> QED BY <1>1, <2>1, CommitDoes
<1>3. /\ staged' \in Effects /\ flight' \in Effects /\ flight' = NoEffect
      /\ lock' = "free" /\ \A k \in Keys : flight'[k] = Kept
      /\ \A k \in Keys : staged'[k] = IF ~x.through /\ staged[k] = Kept THEN flight[k] ELSE staged[k]
  <2>1. staged \in Effects /\ flight \in Effects
    BY DEF IInv, Shape, TypedShape
  <2> QED BY <1>1, <2>1, ThenEffects, ThenIs, EffectsAre DEF Unlocked
<1>4. /\ sweep' \in Sweeps /\ sweep'.at = "sync"
      /\ ~sweep'.err => ~sweep.err /\ ("sync" # sweep.at => x.through)
      /\ \A k \in Keys : sweep'.owes[k] = IF x.lands[k] = Damaged THEN Unsaid ELSE sweep.owes[k]
  <2> DEFINE e == sweep.err \/ ("sync" # sweep.at /\ ~x.through)
             o == [k \in Keys |-> IF x.lands[k] = Damaged THEN Unsaid ELSE sweep.owes[k]]
  <2>1. sweep \in Sweeps /\ sweep.owes \in Promised
    BY DEF IInv, Shape, SweepShape, Sweeps
  <2>2. o \in Promised
    BY <2>1 DEF Promised
  <2>3. e \in BOOLEAN
    OBVIOUS
  <2>4. sweep' = [at |-> "sync", err |-> e, owes |-> o]
    BY <1>1
  <2> HIDE DEF e, o
  <2>5. sweep' \in Sweeps /\ sweep'.at = "sync" /\ sweep'.err = e /\ sweep'.owes = o
    BY <2>2, <2>3, <2>4 DEF Sweeps
  <2> QED BY <2>5 DEF e, o
<1>5. /\ jobs' \in Seq(Jobs) /\ DOMAIN jobs' = DOMAIN jobs /\ (jobs' # <<>> => jobs # <<>>)
      /\ \A i \in DOMAIN jobs' :
           /\ jobs'[i].at = "queued" /\ Reads(jobs'[i]) /\ jobs'[i].b \in Effects
           /\ jobs'[i].do = "get" => store'.live[jobs'[i].key] \in jobs'[i].seen
  BY <1>1, <1>2, WitnessedIs DEF IInv, Shape
<1>6. /\ job' \in Jobs /\ Reads(job')
      /\ job'.at = job.at /\ job'.do = job.do /\ job'.key = job.key /\ job'.says = job.says
      /\ job.seen \subseteq job'.seen
      /\ job.do = "get" => store'.live[job'.key] \in job'.seen
      /\ job.at # "reply" => job'.b = job.b
      /\ job.at = "reply" => \A k \in Keys : job'.b[k] = IF x.lands[k] # Kept THEN Kept ELSE job.b[k]
  <2>1. job \in Jobs /\ Reads(job)
    BY DEF IInv, Shape, QueueShape
  <2>2. store'.live \in Stored
    BY <1>2 DEF Stores
  <2> DEFINE n == Sees(job, store'.live)
  <2>3. /\ n \in Jobs /\ n.at = job.at /\ n.do = job.do /\ n.key = job.key
        /\ n.b = job.b /\ n.says = job.says
        /\ job.seen \subseteq n.seen
        /\ Reads(n) /\ (job.do = "get" => store'.live[n.key] \in n.seen)
    BY <2>1, <2>2, SeesIs
  <2>4. job' = Overtaken(n, x.lands)
    BY <1>1
  <2> HIDE DEF n
  <2>5. /\ job' \in Jobs
        /\ job'.at = n.at /\ job'.do = n.do /\ job'.key = n.key /\ job'.says = n.says /\ job'.seen = n.seen
        /\ Reads(n) => Reads(job')
        /\ n.at # "reply" => job' = n
        /\ n.at = "reply" => \A k \in Keys : job'.b[k] = IF x.lands[k] # Kept THEN Kept ELSE n.b[k]
    BY <1>2, <2>3, <2>4, OvertakenIs
  <2> QED BY <2>3, <2>5
<1>7. Shape'
  <2>1. HostShape'
    BY <1>2 DEF SweepCommit, host, IInv, Shape, HostShape
  <2>2. TypedShape'
    BY <1>3 DEF SweepCommit, IInv, Shape, TypedShape
  <2>3. SweepShape'
    BY <1>4 DEF SweepShape
  <2>4. QueueShape'
    BY <1>5, <1>6 DEF SweepCommit, IInv, Shape, QueueShape
  <2>5. UsedShape'
    BY DEF SweepCommit, IInv, Shape, UsedShape
  <2> QED BY <2>1, <2>2, <2>3, <2>4, <2>5 DEF Shape
<1>8. Control'
  BY <1>2, <1>3, <1>4, <1>6 DEF SweepCommit, host, IInv, Control
<1>9. Promises'
  BY <1>2, <1>3, <1>4, <1>6 DEF SweepCommit, host, IInv, Promises, Owed, Sweeping, Replying
<1>10. Witnesses'
  BY <1>5, <1>6 DEF IInv, Witnesses, Seen
<1> QED BY <1>7, <1>8, <1>9, <1>10 DEF IInv

(* A raw write commits. *)
LEMMA ServeWriteKeeps ==
  ASSUME IInv, ServeWrite
  PROVE  IInv'
<1>1. job \in Jobs /\ Reads(job) /\ job.b \in Effects
  BY DEF ServeWrite, IInv, Shape, QueueShape
<1>2. PICK x \in Landings(job.b) :
        /\ Commit(job.b, RawRelaxed, x.through, x.lands)
        /\ job' = [job EXCEPT !.at = "reply", !.b = x.lands,
                              !.says = IF x.through THEN "ok"
                                       ELSE IF store.held THEN "failed" ELSE "closed"]
        /\ jobs' = Witnessed
  BY DEF ServeWrite, Written
<1>3. /\ x.through \in BOOLEAN /\ x.lands \in Landing
      /\ store' \in Stores /\ plan' \in Plans /\ owed' \in Promised
      /\ store'.held = store.held /\ store'.named = store.named
      /\ x.through => store.held
      /\ ~x.through => x.lands = NoEffect /\ store' = store
      /\ \A k \in Keys :
           /\ store'.live[k] = IF x.lands[k] = Kept THEN store.live[k] ELSE x.lands[k]
           /\ store'.safe[k] \in {store.safe[k], store'.live[k]}
           /\ x.through /\ store.named => store'.safe[k] = store'.live[k]
           /\ owed'[k] = IF x.lands[k] # Kept THEN Unsaid ELSE owed[k]
  <2>1. store \in Stores /\ plan \in Plans /\ owed \in Promised
    BY DEF IInv, Shape, HostShape
  <2>2. RawRelaxed \in BOOLEAN /\ ~RawRelaxed
    BY DEF RawRelaxed
  <2> QED BY <1>1, <1>2, <2>1, <2>2, CommitDoes
<1>4. /\ job' \in Jobs /\ job'.at = "reply" /\ job'.b = x.lands /\ job'.do = job.do
      /\ job'.says = "ok" => x.through
      /\ job.do \in {"write", "delete_locker"} /\ Reads(job')
  <2> DEFINE s == IF x.through THEN "ok" ELSE IF store.held THEN "failed" ELSE "closed"
  <2>1. s \in Answers /\ (s = "ok" => x.through)
    BY DEF Answers
  <2>2. job' = [job EXCEPT !.at = "reply", !.b = x.lands, !.says = s]
    BY <1>2
  <2>3. job.do \in {"write", "delete_locker"}
    BY DEF ServeWrite
  <2> HIDE DEF s
  <2> QED BY <1>1, <1>3, <2>1, <2>2, <2>3 DEF Jobs, Reads
<1>5. /\ jobs' \in Seq(Jobs) /\ DOMAIN jobs' = DOMAIN jobs /\ (jobs' # <<>> => jobs # <<>>)
      /\ \A i \in DOMAIN jobs' :
           /\ jobs'[i].at = "queued" /\ Reads(jobs'[i]) /\ jobs'[i].b \in Effects
           /\ jobs'[i].do = "get" => store'.live[jobs'[i].key] \in jobs'[i].seen
  BY <1>2, <1>3, WitnessedIs DEF IInv, Shape
<1>6. Shape'
  <2>1. HostShape'
    BY <1>3 DEF ServeWrite, host, IInv, Shape, HostShape
  <2>2. TypedShape'
    BY DEF ServeWrite, typed, IInv, Shape, TypedShape
  <2>3. SweepShape'
    BY DEF ServeWrite, IInv, Shape, SweepShape
  <2>4. QueueShape'
    BY <1>4, <1>5 DEF ServeWrite, IInv, Shape, QueueShape
  <2>5. UsedShape'
    BY DEF ServeWrite, IInv, Shape, UsedShape
  <2> QED BY <2>1, <2>2, <2>3, <2>4, <2>5 DEF Shape
<1>7. Control'
  BY <1>3, <1>4 DEF ServeWrite, host, typed, IInv, Control
<1>8. Promises'
  BY <1>3, <1>4 DEF ServeWrite, host, IInv, Control, Promises, Owed, Sweeping, Replying
<1>9. Witnesses'
  BY <1>4, <1>5 DEF Witnesses, Seen
<1> QED BY <1>6, <1>7, <1>8, <1>9 DEF IInv

(* delete_locker commits. *)
LEMMA EraseLockerKeeps ==
  ASSUME IInv, EraseLocker
  PROVE  IInv'
<1>1. job \in Jobs /\ Reads(job) /\ ClearAll \in Effects
  BY EffectsAre DEF IInv, Shape, QueueShape
<1>2. PICK x \in Landings(ClearAll) :
        /\ Commit(ClearAll, RawRelaxed, x.through, x.lands)
        /\ job' = [job EXCEPT !.at = "reply", !.b = x.lands,
                              !.says = IF x.through THEN "ok"
                                       ELSE IF store.held THEN "failed" ELSE "closed"]
        /\ jobs' = Witnessed
  BY DEF EraseLocker, Written
<1>3. /\ x.through \in BOOLEAN /\ x.lands \in Landing
      /\ store' \in Stores /\ plan' \in Plans /\ owed' \in Promised
      /\ store'.held = store.held /\ store'.named = store.named
      /\ x.through => store.held
      /\ ~x.through => x.lands = NoEffect /\ store' = store
      /\ \A k \in Keys :
           /\ store'.live[k] = IF x.lands[k] = Kept THEN store.live[k] ELSE x.lands[k]
           /\ store'.safe[k] \in {store.safe[k], store'.live[k]}
           /\ x.through /\ store.named => store'.safe[k] = store'.live[k]
           /\ owed'[k] = IF x.lands[k] # Kept THEN Unsaid ELSE owed[k]
  <2>1. store \in Stores /\ plan \in Plans /\ owed \in Promised
    BY DEF IInv, Shape, HostShape
  <2>2. RawRelaxed \in BOOLEAN /\ ~RawRelaxed
    BY DEF RawRelaxed
  <2> QED BY <1>1, <1>2, <2>1, <2>2, CommitDoes
<1>4. /\ job' \in Jobs /\ job'.at = "reply" /\ job'.b = x.lands /\ job'.do = job.do
      /\ job'.says = "ok" => x.through
      /\ job.do \in {"write", "delete_locker"} /\ Reads(job')
  <2> DEFINE s == IF x.through THEN "ok" ELSE IF store.held THEN "failed" ELSE "closed"
  <2>1. s \in Answers /\ (s = "ok" => x.through)
    BY DEF Answers
  <2>2. job' = [job EXCEPT !.at = "reply", !.b = x.lands, !.says = s]
    BY <1>2
  <2>3. job.do \in {"write", "delete_locker"}
    BY DEF EraseLocker, IInv, Control
  <2> HIDE DEF s
  <2> QED BY <1>1, <1>3, <2>1, <2>2, <2>3 DEF Jobs, Reads
<1>5. /\ jobs' \in Seq(Jobs) /\ DOMAIN jobs' = DOMAIN jobs /\ (jobs' # <<>> => jobs # <<>>)
      /\ \A i \in DOMAIN jobs' :
           /\ jobs'[i].at = "queued" /\ Reads(jobs'[i]) /\ jobs'[i].b \in Effects
           /\ jobs'[i].do = "get" => store'.live[jobs'[i].key] \in jobs'[i].seen
  BY <1>2, <1>3, WitnessedIs DEF IInv, Shape
<1>6. Shape'
  <2>1. HostShape'
    BY <1>3 DEF EraseLocker, host, IInv, Shape, HostShape
  <2>2. TypedShape'
    BY DEF EraseLocker, typed, IInv, Shape, TypedShape
  <2>3. SweepShape'
    BY DEF EraseLocker, IInv, Shape, SweepShape
  <2>4. QueueShape'
    BY <1>4, <1>5 DEF EraseLocker, IInv, Shape, QueueShape
  <2>5. UsedShape'
    BY DEF EraseLocker, IInv, Shape, UsedShape
  <2> QED BY <2>1, <2>2, <2>3, <2>4, <2>5 DEF Shape
<1>7. Control'
  BY <1>3, <1>4 DEF EraseLocker, host, typed, IInv, Control
<1>8. Promises'
  BY <1>3, <1>4 DEF EraseLocker, host, IInv, Control, Promises, Owed, Sweeping, Replying
<1>9. Witnesses'
  BY <1>4, <1>5 DEF Witnesses, Seen
<1> QED BY <1>6, <1>7, <1>8, <1>9 DEF IInv

-----------------------------------------------------------------------------
(* Every step keeps it.                                                    *)
LEMMA StepKeeps == IInv /\ [Next]_vars => IInv'
<1> SUFFICES ASSUME IInv, [Next]_vars PROVE IInv'
  OBVIOUS
<1>1. CASE OpenBackend
  BY <1>1, OpenBackendKeeps
<1>2. CASE Register
  BY <1>2, RegisterKeeps
<1>3. CASE OpenLocker
  BY <1>3, OpenLockerKeeps
<1>4. CASE Stage
  BY <1>4, StageKeeps
<1>5. CASE OwnFlush
  BY <1>5, OwnFlushKeeps
<1>6. CASE DropLocker
  BY <1>6, DropLockerKeeps
<1>7. CASE CloseBegin
  BY <1>7, CloseBeginKeeps
<1>8. CASE DropBank
  BY <1>8, DropBankKeeps
<1>9. CASE DropService
  BY <1>9, DropServiceKeeps
<1>10. CASE DeleteBank
  BY <1>10, DeleteBankKeeps
<1>11. CASE Crash
  BY <1>11, CrashKeeps
<1>12. CASE IntoService
  BY <1>12, IntoServiceKeeps
<1>13. CASE OwnDrain
  BY <1>13, OwnDrainKeeps
<1>14. CASE OwnCommit
  BY <1>14, OwnCommitKeeps
<1>15. CASE OwnSync
  BY <1>15, OwnSyncKeeps
<1>16. CASE SweepStart
  BY <1>16, SweepStartKeeps
<1>17. CASE SweepDrain
  BY <1>17, SweepDrainKeeps
<1>18. CASE SweepCommit
  BY <1>18, SweepCommitKeeps
<1>19. CASE SweepSync
  BY <1>19, SweepSyncKeeps
<1>20. CASE TakeJob
  BY <1>20, TakeJobKeeps
<1>21. CASE ServeRead
  BY <1>21, ServeReadKeeps
<1>22. CASE ServeWrite
  BY <1>22, ServeWriteKeeps
<1>23. CASE ServeFlushAll
  BY <1>23, ServeFlushAllKeeps
<1>24. CASE EndFlushAll
  BY <1>24, EndFlushAllKeeps
<1>25. CASE ServeDeleteLocker
  BY <1>25, ServeDeleteLockerKeeps
<1>26. CASE EraseLocker
  BY <1>26, EraseLockerKeeps
<1>27. CASE Reply
  BY <1>27, ReplyKeeps
<1>28. CASE CloseSwap
  BY <1>28, CloseSwapKeeps
<1>29. CASE CloseBackend
  BY <1>29, CloseBackendKeeps
<1>30. CASE CloseRelease
  BY <1>30, CloseReleaseKeeps
<1>31. CASE \E c \in Callers : Dispatch(c) \/ GiveUp(c)
  BY <1>31, DispatchKeeps, GiveUpKeeps
<1>32. CASE UNCHANGED vars
  BY <1>32 DEF vars, IInv, Shape, HostShape, TypedShape, SweepShape, QueueShape, UsedShape,
               Control, Promises, Owed, Sweeping, Replying, Witnesses, Seen
<1> QED
  BY <1>1, <1>2, <1>3, <1>4, <1>5, <1>6, <1>7, <1>8, <1>9, <1>10, <1>11, <1>12,
     <1>13, <1>14, <1>15, <1>16, <1>17, <1>18, <1>19, <1>20, <1>21, <1>22, <1>23, <1>24,
     <1>25, <1>26, <1>27, <1>28, <1>29, <1>30, <1>31, <1>32 DEF Next, Own, Sweep, Serve, Close

(* The inductive invariant: who is at work and for whom (Control), what    *)
(* has been and will be promised (Promises), and what reads may answer     *)
(* (Witnesses).                                                            *)
THEOREM InvHolds == Spec => []IInv
  BY Initially, StepKeeps, PTL DEF Spec

(* Shape says at least what TypeOK does.                                   *)
LEMMA ShapeIsTyped == IInv => TypeOK
<1> SUFFICES ASSUME IInv PROVE TypeOK
  OBVIOUS
<1>1. /\ sweep.at \in {"off", "start", "wait", "commit", "sync", "done"}
      /\ sweep.err \in BOOLEAN /\ sweep.owes \in Promised
  BY DEF IInv, Shape, SweepShape, Sweeps
<1>2. /\ \A i \in DOMAIN jobs : jobs[i].at = "queued" /\ jobs[i].who \in Callers \cup {Nobody}
      /\ job.at \in {"none", "work", "sweep", "erase", "reply"}
      /\ job.says \in Answers /\ calling \subseteq Callers
  <2>1. /\ jobs \in Seq(Jobs) /\ \A i \in DOMAIN jobs : jobs[i].at = "queued"
        /\ job \in Jobs /\ job.at # "queued" /\ calling \subseteq Callers
    BY DEF IInv, Shape, QueueShape
  <2>3. \A j \in Jobs : /\ j.who \in Callers \cup {Nobody} /\ j.says \in Answers
                        /\ j.at \in {"none", "queued", "work", "sweep", "erase", "reply"}
    BY DEF Jobs
  <2> QED BY <2>1, <2>3
<1> QED BY <1>1, <1>2 DEF IInv, Shape, HostShape, TypedShape, UsedShape, TypeOK

(* What was answered durable is what the next process finds, whatever is   *)
(* refused, damaged, flushed by others, dropped or killed in between: for  *)
(* writes, flush_all, close and delete_locker, on every backend that       *)
(* keeps anything.                                                         *)
THEOREM AnswersAreDurable == Spec => []DurableAnswers
<1>1. IInv => DurableAnswers
  BY ShapeIsTyped DEF IInv, Promises, Owed, DurableAnswers
<1> QED BY <1>1, InvHolds, PTL

(* A read through the handle answers with what the store held between the  *)
(* call and its answer, or with an error.                                  *)
THEOREM ReadsSeeTheStore == Spec => []ReadsAreCurrent
<1>1. IInv => ReadsAreCurrent
  BY DEF IInv, Witnesses, ReadsAreCurrent
<1> QED BY <1>1, InvHolds, PTL

=============================================================================

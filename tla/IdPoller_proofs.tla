--------------------------- MODULE IdPoller_proofs ---------------------------
(***************************************************************************)
(* Proofs about the idpoller's cache and cron table, for every set of      *)
(* identities, intervals and syncers and every bound.                      *)
(***************************************************************************)
EXTENDS IdPoller, TLAPS

\* An order to change an interval names one.
OrdersOK == \A m \in orders : m.order = "update_interval" => m.param \in Intervals

\* The part of the state fullSync, the handler and the cron table are about.
SyncTypeOK ==
    /\ cache \in [Ids -> Entry \cup {None}]
    /\ mutex \in Syncers \cup {Nobody}
    /\ cron \subseteq Job
    /\ nextId \in Nat
    /\ toRead \subseteq Ids
    /\ active \subseteq Ids
    /\ tasks \in [Syncers -> [Ids -> Task \cup {None}]]
    /\ storing \in [Syncers -> CacheWrite \cup {None}]

HandlerTypeOK ==
    /\ hstep \in {"idle", "update_store", "update_schedule", "delete_store",
                  "delete_schedule", "add_store"}
    /\ IF hstep = "idle" THEN hid = None /\ hentry = None ELSE hid \in Ids /\ hentry \in Entry

OutsideTypeOK ==
    /\ status \in [Ids -> {"absent", "active", "inactive", "deleted"}]
    /\ interval \in [Ids -> Intervals \cup {Unset}]
    /\ orders \subseteq Orders
    /\ phase \in {"down", "subscribed", "ready", "starting", "up"}
    /\ ops \in 0..MaxOps /\ failures \in 0..MaxFailures

(* The type invariant is the conjunction of these parts. *)
LEMMA TypeParts == TypeOK <=> SyncTypeOK /\ HandlerTypeOK /\ OutsideTypeOK
BY DEF TypeOK, SyncTypeOK, HandlerTypeOK, OutsideTypeOK

TInv == SyncTypeOK /\ HandlerTypeOK /\ OutsideTypeOK /\ OrdersOK

(* The poller starts in a well typed state, without orders. *)
LEMMA InitTInv == Init => TInv
<1> SUFFICES ASSUME Init PROVE TInv
  OBVIOUS
<1> USE IdsAssumption, IntervalsAssumption, SyncersAssumption, BoundsAssumption
<1>1. SyncTypeOK
  BY DEF Init, SyncTypeOK, NoTasks
<1>2. HandlerTypeOK
  BY DEF Init, HandlerTypeOK
<1>3. OutsideTypeOK
  BY DEF Init, OutsideTypeOK
<1>4. OrdersOK
  BY DEF Init, OrdersOK
<1>5. QED
  BY <1>1, <1>2, <1>3, <1>4 DEF TInv

(* The database's users and the network publish and lose orders only. *)
LEMMA DatabaseTInv == TInv /\ Database => TInv'
<1> SUFFICES ASSUME TInv, Database PROVE TInv'
  OBVIOUS
<1> USE IntervalsAssumption, BoundsAssumption
<1> USE DEF TInv
<1>1. UNCHANGED NotDb
  BY DEF Database, CreateUserIdentity, PatchUserIdentity, DeleteUserIdentity,
     ThrottleRemoteIdentity, DisableRemoteIdentity
<1>2. SyncTypeOK'
  BY <1>1 DEF NotDb, cronVars, syncVars, SyncTypeOK
<1>3. HandlerTypeOK'
  BY <1>1 DEF NotDb, handlerVars, HandlerTypeOK
<1>4. ASSUME NEW o \in {"add", "update_interval", "delete"}, NEW k \in Ids,
             NEW p \in Intervals \cup {Unset}, o = "update_interval" => p \in Intervals,
             Publish(o, k, p)
      PROVE  orders' \subseteq Orders /\ OrdersOK'
  BY <1>4 DEF Publish, Orders, OrdersOK, OutsideTypeOK
<1>5. /\ phase' = phase /\ failures' = failures
      /\ ops' \in 0..MaxOps
  BY <1>1 DEF NotDb, Database, CreateUserIdentity, PatchUserIdentity, DeleteUserIdentity,
     ThrottleRemoteIdentity, DisableRemoteIdentity, DbStep, OutsideTypeOK
<1>6. ASSUME NEW k \in Ids, NEW i \in Intervals \cup {Unset}, CreateUserIdentity(k, i)
      PROVE  OutsideTypeOK' /\ OrdersOK'
  <2>1. orders' \subseteq Orders /\ OrdersOK'
    BY <1>4, <1>6 DEF CreateUserIdentity
  <2>2. QED
    BY <1>5, <1>6, <2>1 DEF CreateUserIdentity, OutsideTypeOK
<1>7. ASSUME NEW k \in Ids, NEW i \in Intervals \cup {Unset},
             NEW st \in {"active", "inactive"}, PatchUserIdentity(k, st, i)
      PROVE  OutsideTypeOK' /\ OrdersOK'
  BY <1>5, <1>7 DEF PatchUserIdentity, OutsideTypeOK, OrdersOK
<1>8. ASSUME NEW k \in Ids, DeleteUserIdentity(k)
      PROVE  OutsideTypeOK' /\ OrdersOK'
  <2>1. orders' \subseteq Orders /\ OrdersOK'
    BY <1>4, <1>8 DEF DeleteUserIdentity
  <2>2. QED
    BY <1>5, <1>8, <2>1 DEF DeleteUserIdentity, OutsideTypeOK
<1>9. ASSUME NEW k \in Ids, ThrottleRemoteIdentity(k)
      PROVE  OutsideTypeOK' /\ OrdersOK'
  <2> DEFINE new == IF interval[k] = Unset THEN RateLimited ELSE Zero
  <2>1. new \in Intervals
    OBVIOUS
  <2>2. /\ Publish("update_interval", k, new)
        /\ interval' \in {interval, [interval EXCEPT ![k] = new]}
        /\ status' = status
    BY <1>9 DEF ThrottleRemoteIdentity
  <2> HIDE DEF new
  <2>3. orders' \subseteq Orders /\ OrdersOK'
    BY <1>4, <2>1, <2>2
  <2>4. QED
    BY <1>5, <2>1, <2>2, <2>3 DEF OutsideTypeOK
<1>10. ASSUME NEW k \in Ids, DisableRemoteIdentity(k)
       PROVE  OutsideTypeOK' /\ OrdersOK'
  <2>1. orders' \subseteq Orders /\ OrdersOK'
    BY <1>4, <1>10 DEF DisableRemoteIdentity
  <2>2. QED
    BY <1>5, <1>10, <2>1 DEF DisableRemoteIdentity, OutsideTypeOK
<1>11. QED
  BY <1>2, <1>3, <1>6, <1>7, <1>8, <1>9, <1>10 DEF Database
-----------------------------------------------------------------------------
(* AddJob keeps the cron table and its counter well typed. *)
LEMMA AddJobTyped ==
  ASSUME cron \subseteq Job, nextId \in Nat, NEW k \in Ids, NEW i \in Intervals,
         NEW table \in SUBSET cron, AddJob(k, i, table)
  PROVE  cron' \subseteq Job /\ nextId' \in Nat
<1>1. [cronId |-> nextId + 1, id |-> k, interval |-> i] \in Job
  BY DEF Job
<1>2. QED
  BY <1>1 DEF AddJob

(* Removing a job leaves a part of the table. *)
LEMMA WithoutSubset == ASSUME NEW c PROVE Without(c) \in SUBSET cron
BY DEF Without

(* Adding a job keeps the cron table well typed. *)
LEMMA AddTyped ==
  ASSUME SyncTypeOK, NEW k \in Ids, NEW i \in Intervals, AddSyncJobFor(k, i)
  PROVE  cron' \subseteq Job /\ nextId' \in Nat
BY AddJobTyped DEF SyncTypeOK, AddSyncJobFor

(* Removing a job keeps the cron table well typed. *)
LEMMA RemoveTyped ==
  ASSUME SyncTypeOK, NEW e, RemoveJobFor(e)
  PROVE  cron' \subseteq Job /\ nextId' \in Nat
BY WithoutSubset DEF SyncTypeOK, RemoveJobFor

(* So does rescheduling one. *)
LEMMA UpdateTyped ==
  ASSUME SyncTypeOK, NEW k \in Ids, NEW e \in Entry, UpdateSyncJobFor(k, e)
  PROVE  cron' \subseteq Job /\ nextId' \in Nat
<1>1. e.interval \in Intervals
  BY DEF Entry
<1>2. QED
  BY <1>1, AddJobTyped, WithoutSubset DEF SyncTypeOK, UpdateSyncJobFor

(* The entry a scheduled job is given is an entry. *)
LEMMA ScheduledTyped ==
  ASSUME nextId \in Nat, NEW e \in Entry
  PROVE  ScheduledAs(e) \in Entry
BY DEF ScheduledAs, Entry
-----------------------------------------------------------------------------
(* fullSync: its tasks and the writes it prepares are well typed. *)
LEMMA SyncTInv == ASSUME TInv, NEW s \in Syncers, Sync(s) PROVE TInv'
<1> USE NoneAssumption, NoTaskAssumption, IntervalsAssumption, BoundsAssumption
<1> USE DEF TInv
<1>0. \A k \in Ids : tasks[s][k] # None =>
        tasks[s][k] \in Task /\ tasks[s][k].entry \in Entry
             /\ tasks[s][k].entry.interval \in Intervals
  BY DEF SyncTypeOK, Task, Entry
<1>1. UNCHANGED <<dbVars, orders, handlerVars, ops>>
  BY DEF Sync, SyncBegin, SyncRead, SyncMiss, SyncPrune, SyncAdded, SyncRemoved, SyncUpdated,
     SyncStore, Turn, NotSync
<1>2. HandlerTypeOK' /\ OrdersOK'
  BY <1>1 DEF HandlerTypeOK, OrdersOK, handlerVars
<1>3. OutsideTypeOK'
  <2>1. \/ phase' \in {"starting", "up"} /\ failures' = failures
        \/ phase' = phase /\ failures' = failures
        \/ phase' = phase /\ failures < MaxFailures /\ failures' = failures + 1
    BY DEF Sync, SyncBegin, SyncRead, SyncMiss, SyncPrune, SyncAdded, SyncRemoved, SyncUpdated,
       SyncStore, Turn
  <2>2. QED
    BY <1>1, <2>1 DEF OutsideTypeOK, dbVars
<1>4. SyncTypeOK'
  <2>1. CASE SyncBegin(s)
    BY <2>1 DEF SyncBegin, SyncTypeOK, cronVars
  <2>2. ASSUME NEW k \in Ids, SyncRead(s, k) PROVE SyncTypeOK'
    <3> DEFINE i == Effective(interval[k])
    <3>1. i \in Intervals
      BY DEF Effective, OutsideTypeOK
    <3>2. [cronId |-> 0, interval |-> i] \in Entry
      BY <3>1 DEF Entry
    <3>3. cache[k] # None => [cache[k] EXCEPT !.interval = i] \in Entry
      BY <3>1 DEF Entry, SyncTypeOK
    <3> HIDE DEF i
    <3>4. ASSUME NEW kind \in Kinds, NEW e \in Entry,
                 cache' = [cache EXCEPT ![k] = e],
                 tasks' = [tasks EXCEPT ![s][k] = [kind |-> kind, entry |-> e]]
          PROVE  /\ cache' \in [Ids -> Entry \cup {None}]
                 /\ tasks' \in [Syncers -> [Ids -> Task \cup {None}]]
      <4>1. [kind |-> kind, entry |-> e] \in Task
        BY DEF Task
      <4>2. QED
        BY <3>4, <4>1 DEF SyncTypeOK
    <3>5. /\ cache' \in [Ids -> Entry \cup {None}]
          /\ tasks' \in [Syncers -> [Ids -> Task \cup {None}]]
      BY <2>2, <3>2, <3>3, <3>4 DEF SyncRead, SyncTypeOK, Kinds, i
    <3>6. /\ mutex' = mutex /\ cron' = cron /\ nextId' = nextId /\ storing' = storing
          /\ toRead' \subseteq toRead /\ active' \subseteq active \cup {k}
      BY <2>2 DEF SyncRead, cronVars
    <3>7. QED
      BY <3>5, <3>6 DEF SyncTypeOK
  <2>3. ASSUME NEW k \in Ids, SyncMiss(s, k) PROVE SyncTypeOK'
    BY <2>3 DEF SyncMiss, SyncTypeOK, cronVars
  <2>4. CASE SyncPrune(s)
    <3>1. \A k \in Ids : cache[k] # None => [kind |-> "removed", entry |-> cache[k]] \in Task
      BY DEF SyncTypeOK, Task, Kinds
    <3>2. tasks' \in [Syncers -> [Ids -> Task \cup {None}]]
      BY <2>4, <3>1 DEF SyncPrune, SyncTypeOK
    <3>3. cache' \in [Ids -> Entry \cup {None}]
      BY <2>4 DEF SyncPrune, SyncTypeOK
    <3>4. QED
      BY <2>4, <3>2, <3>3 DEF SyncPrune, SyncTypeOK, cronVars
  <2>5. ASSUME NEW k \in Ids, NEW kind, Turn(s, k, kind)
        PROVE  /\ tasks' \in [Syncers -> [Ids -> Task \cup {None}]]
               /\ tasks[s][k] # None
               /\ UNCHANGED <<cache, mutex, toRead, active>>
    BY <2>5 DEF Turn, SyncTypeOK
  <2>6. ASSUME NEW k \in Ids, NEW b, NEW e \in Entry \cup {None}, StoreIf(b, s, k, e)
        PROVE  storing' \in [Syncers -> CacheWrite \cup {None}]
    <3>1. [id |-> k, entry |-> e] \in CacheWrite
      BY DEF CacheWrite
    <3>2. QED
      BY <2>6, <3>1 DEF StoreIf, SyncTypeOK
  <2>7. ASSUME NEW k \in Ids, SyncAdded(s, k) PROVE SyncTypeOK'
    <3> DEFINE e == tasks[s][k].entry
    <3>1. /\ Turn(s, k, "added")
          /\ AddSyncJobFor(k, e.interval)
          /\ StoreIf(e.interval \notin Unparsable, s, k, ScheduledAs(e))
      BY <2>7 DEF SyncAdded
    <3>2. e \in Entry /\ e.interval \in Intervals
      BY <1>0, <2>5, <3>1
    <3> HIDE DEF e
    <3>3. ScheduledAs(e) \in Entry
      BY <3>2, ScheduledTyped DEF SyncTypeOK
    <3>4. cron' \subseteq Job /\ nextId' \in Nat
      BY <3>1, <3>2, AddTyped
    <3>5. storing' \in [Syncers -> CacheWrite \cup {None}]
      BY <2>6, <3>1, <3>3
    <3>6. QED
      BY <2>5, <3>1, <3>4, <3>5 DEF SyncTypeOK
  <2>8. ASSUME NEW k \in Ids, SyncRemoved(s, k) PROVE SyncTypeOK'
    <3>1. /\ Turn(s, k, "removed")
          /\ RemoveJobFor(tasks[s][k].entry)
          /\ StoreIf(TRUE, s, k, None)
      BY <2>8 DEF SyncRemoved
    <3>2. cron' \subseteq Job /\ nextId' \in Nat
      BY <3>1, RemoveTyped
    <3>3. storing' \in [Syncers -> CacheWrite \cup {None}]
      BY <2>6, <3>1
    <3>4. QED
      BY <2>5, <3>1, <3>2, <3>3 DEF SyncTypeOK
  <2>9. ASSUME NEW k \in Ids, SyncUpdated(s, k) PROVE SyncTypeOK'
    <3> DEFINE e == tasks[s][k].entry
    <3>1. /\ Turn(s, k, "updated")
          /\ UpdateSyncJobFor(k, e)
          /\ StoreIf(e.interval \notin Unparsable, s, k, ScheduledAs(e))
      BY <2>9 DEF SyncUpdated
    <3>2. e \in Entry /\ e.interval \in Intervals
      BY <1>0, <2>5, <3>1
    <3> HIDE DEF e
    <3>3. ScheduledAs(e) \in Entry
      BY <3>2, ScheduledTyped DEF SyncTypeOK
    <3>4. cron' \subseteq Job /\ nextId' \in Nat
      BY <3>1, <3>2, UpdateTyped
    <3>5. storing' \in [Syncers -> CacheWrite \cup {None}]
      BY <2>6, <3>1, <3>3
    <3>6. QED
      BY <2>5, <3>1, <3>4, <3>5 DEF SyncTypeOK
  <2>10. CASE SyncStore(s)
    <3>1. storing[s] \in CacheWrite
      BY <2>10 DEF SyncStore, SyncTypeOK
    <3>2. storing[s].id \in Ids /\ storing[s].entry \in Entry \cup {None}
      BY <3>1 DEF CacheWrite
    <3>3. QED
      BY <2>10, <3>2 DEF SyncStore, SyncTypeOK, cronVars
  <2>11. QED
    BY <2>1, <2>2, <2>3, <2>4, <2>7, <2>8, <2>9, <2>10 DEF Sync
<1>5. QED
  BY <1>2, <1>3, <1>4
-----------------------------------------------------------------------------
(* natsIdentitiesHandler: the entry it works on is well typed. *)
LEMMA HandleTInv == ASSUME TInv, NEW m \in Orders, Handle(m) PROVE TInv'
<1> USE NoneAssumption, IntervalsAssumption DEF TInv
<1>1. /\ m \in orders /\ m.id \in Ids /\ m.param \in Intervals \cup {Unset}
      /\ orders' \subseteq orders
      /\ UNCHANGED <<dbVars, phase, syncVars, bounds>>
  BY DEF Handle, HandleUpdateInterval, HandleDelete, HandleAdd, Receive, NotHandler, Orders
<1>2. OutsideTypeOK' /\ OrdersOK'
  BY <1>1 DEF OutsideTypeOK, OrdersOK, dbVars, bounds
<1>3. ASSUME NEW step \in {"update_store", "delete_store"}, NEW e,
             cache[m.id] # None => e \in Entry,
             Get(m, step, e)
      PROVE  HandlerTypeOK'
  BY <1>1, <1>3 DEF Get, Then, handlerVars, HandlerTypeOK
<1>4. CASE HandleUpdateInterval(m)
  <2>1. m.order = "update_interval"
    BY <1>4 DEF HandleUpdateInterval, Receive
  <2>2. m.param \in Intervals
    BY <1>1, <2>1 DEF OrdersOK
  <2>3. cache[m.id] # None => [cache[m.id] EXCEPT !.interval = m.param] \in Entry
    BY <1>1, <2>2 DEF SyncTypeOK, Entry
  <2>4. HandlerTypeOK'
    BY <1>3, <1>4, <2>3 DEF HandleUpdateInterval
  <2>5. SyncTypeOK'
    BY <1>1, <1>4 DEF HandleUpdateInterval, SyncTypeOK, syncVars, cronVars
  <2>6. QED
    BY <1>2, <2>4, <2>5
<1>5. CASE HandleDelete(m)
  <2>1. cache[m.id] # None => cache[m.id] \in Entry
    BY <1>1 DEF SyncTypeOK
  <2>2. HandlerTypeOK'
    BY <1>3, <1>5, <2>1 DEF HandleDelete
  <2>3. SyncTypeOK'
    BY <1>1, <1>5 DEF HandleDelete, SyncTypeOK, syncVars, cronVars
  <2>4. QED
    BY <1>2, <2>2, <2>3
<1>6. CASE HandleAdd(m)
  <2> DEFINE i == IF m.param \in OutOfRange \cup {Unset} THEN DefaultInterval ELSE m.param
             e == [cronId |-> 0, interval |-> i]
  <2>1. /\ AddSyncJobFor(m.id, i)
        /\ Then("add_store", m.id, ScheduledAs(e))
        /\ UNCHANGED cache
    BY <1>6 DEF HandleAdd
  <2>2. i \in Intervals
    BY <1>1
  <2>3. e \in Entry
    BY <2>2 DEF Entry
  <2> HIDE DEF i, e
  <2>4. ScheduledAs(e) \in Entry
    BY <2>3, ScheduledTyped DEF SyncTypeOK
  <2>5. HandlerTypeOK'
    BY <1>1, <2>1, <2>4 DEF Then, HandlerTypeOK
  <2>6. cron' \subseteq Job /\ nextId' \in Nat
    BY <1>1, <2>1, <2>2, AddTyped
  <2>7. SyncTypeOK'
    BY <1>1, <2>1, <2>6 DEF SyncTypeOK, syncVars
  <2>8. QED
    BY <1>2, <2>5, <2>7
<1>7. QED
  BY <1>4, <1>5, <1>6 DEF Handle

(* The next steps of natsIdentitiesHandler keep the types. *)
LEMMA HandlerStepTInv == TInv /\ HandlerStep => TInv'
<1> SUFFICES ASSUME TInv, HandlerStep PROVE TInv'
  OBVIOUS
<1> USE NoneAssumption DEF TInv
<1>1. /\ hid \in Ids /\ hentry \in Entry
      /\ UNCHANGED <<NotHandler, orders>>
  BY DEF HandlerStep, UpdateStore, UpdateSchedule, DeleteStore, DeleteSchedule, AddStore,
     HandlerTypeOK
<1>2. OutsideTypeOK' /\ OrdersOK'
  BY <1>1 DEF NotHandler, OutsideTypeOK, OrdersOK, dbVars, bounds
<1>3. HandlerTypeOK'
  BY <1>1 DEF HandlerStep, UpdateStore, UpdateSchedule, DeleteStore, DeleteSchedule, AddStore,
     HandlerTypeOK, Then, Done
<1>4. ASSUME cache' \in [Ids -> Entry \cup {None}], cron' \subseteq Job, nextId' \in Nat
      PROVE  SyncTypeOK'
  BY <1>1, <1>4 DEF NotHandler, syncVars, SyncTypeOK
<1>5. ASSUME UpdateStore \/ DeleteStore \/ AddStore PROVE SyncTypeOK'
  BY <1>1, <1>4, <1>5 DEF UpdateStore, DeleteStore, AddStore, cronVars, SyncTypeOK
<1>6. ASSUME UpdateSchedule PROVE SyncTypeOK'
  BY <1>1, <1>4, <1>6, UpdateTyped DEF UpdateSchedule, SyncTypeOK
<1>7. ASSUME DeleteSchedule PROVE SyncTypeOK'
  BY <1>1, <1>4, <1>7, RemoveTyped DEF DeleteSchedule, SyncTypeOK
<1>8. SyncTypeOK'
  BY <1>4, <1>5, <1>6, <1>7 DEF HandlerStep
<1>9. QED
  BY <1>2, <1>3, <1>8
-----------------------------------------------------------------------------
(* Start-up, crashes and lost orders. *)
LEMMA ProcessTInv == TInv /\ Process => TInv'
<1> SUFFICES ASSUME TInv, Process PROVE TInv'
  OBVIOUS
<1> USE IdsAssumption, IntervalsAssumption, BoundsAssumption DEF TInv
<1>1. CASE Subscribe \/ StartCron
  BY <1>1 DEF Subscribe, StartCron, NotProcess, dbVars, cronVars, handlerVars,
     SyncTypeOK, HandlerTypeOK, OutsideTypeOK, OrdersOK
<1>2. CASE InitPoller
  <2>1. [cronId |-> 1, id |-> FullSync, interval |-> DefaultInterval] \in Job
    BY DEF Job
  <2>2. QED
    BY <1>2, <2>1 DEF InitPoller, NotProcess, dbVars, handlerVars,
       SyncTypeOK, HandlerTypeOK, OutsideTypeOK, OrdersOK
<1>3. CASE Crash
  <2>1. SyncTypeOK'
    BY <1>3 DEF Crash, SyncTypeOK, NoTasks
  <2>2. HandlerTypeOK'
    BY <1>3 DEF Crash, Done, Then, HandlerTypeOK
  <2>3. OutsideTypeOK' /\ OrdersOK'
    BY <1>3 DEF Crash, OutsideTypeOK, OrdersOK, dbVars
  <2>4. QED
    BY <2>1, <2>2, <2>3
<1>4. QED
  BY <1>1, <1>2, <1>3 DEF Process

(* A lost order, or one that comes too early, changes no other type. *)
LEMMA LostOrderTInv ==
  ASSUME TInv, NEW m \in Orders, LoseOrder(m) \/ CrashOnEarlyOrder(m)
  PROVE  TInv'
BY DEF TInv, LoseOrder, CrashOnEarlyOrder, NotDb, NotProcess, dbVars, cronVars, syncVars,
   handlerVars, SyncTypeOK, HandlerTypeOK, OutsideTypeOK, OrdersOK

(* A stuttering step changes nothing. *)
LEMMA StutterTInv == TInv /\ UNCHANGED vars => TInv'
BY DEF TInv, vars, dbVars, cronVars, syncVars, handlerVars, bounds, SyncTypeOK, HandlerTypeOK,
   OutsideTypeOK, OrdersOK

(* Every step of the poller and its environment keeps the types. *)
LEMMA NextTInv == TInv /\ [Next]_vars => TInv'
BY DatabaseTInv, SyncTInv, HandleTInv, HandlerStepTInv, ProcessTInv, LostOrderTInv, StutterTInv
   DEF Next

(***************************************************************************)
(* The type invariant holds in every state.                                *)
(***************************************************************************)
THEOREM TypeCorrect == Spec => []TypeOK
<1>1. Spec => []TInv
  BY InitTInv, NextTInv, PTL DEF Spec
<1>2. TInv => TypeOK
  BY TypeParts DEF TInv
<1>3. QED
  BY <1>1, <1>2, PTL
-----------------------------------------------------------------------------
(***************************************************************************)
(* EntriesOwnTheirJobs.  Cron ids are given once and in order, so an entry *)
(* whose id was given to identity k can only name k's job, however stale   *)
(* it is, provided that nothing survives a restart of the numbering.       *)
(***************************************************************************)

\* With n ids given and this table, e names no cron entry but one of k's.
GoodIn(k, e, n, table) == e.cronId <= n /\ \A j \in table : j.cronId = e.cronId => j.id = k

\* Some actor or the cache holds entry e for identity k.
IsHeld(k, e) ==
    \/ cache[k] = e
    \/ \E s \in Syncers : tasks[s][k] # None /\ tasks[s][k].entry = e
    \/ \E s \in Syncers : storing[s] # None /\ storing[s].id = k /\ storing[s].entry = e
    \/ hstep # "idle" /\ hid = k /\ hentry = e

HeldGood == \A k \in Ids, e \in Entry : IsHeld(k, e) => GoodIn(k, e, nextId, cron)

CronIdsGiven == \A j \in cron : j.cronId \in 1..nextId

\* Nobody holds anything while the process is not running.
Quiet ==
    ~Running => /\ cache = [k \in Ids |-> None]
                /\ mutex = Nobody
                /\ tasks = [s \in Syncers |-> NoTasks]
                /\ storing = [s \in Syncers |-> None]
                /\ hstep = "idle"

OInv == TInv /\ CronIdsGiven /\ HeldGood /\ Quiet

\* The ids of the jobs a step adds are new.
CronGrows == nextId' >= nextId /\ \A j \in cron' : j \in cron \/ j.cronId > nextId

(* The inductive invariant implies the property. *)
LEMMA OwnsFollows == OInv => EntriesOwnTheirJobs
<1> SUFFICES ASSUME OInv PROVE EntriesOwnTheirJobs
  OBVIOUS
<1> USE NoneAssumption, NoTaskAssumption DEF OInv, TInv
<1>1. ASSUME NEW k \in Ids, NEW e \in Entry, IsHeld(k, e) PROVE Owns(k, e)
  BY <1>1 DEF HeldGood, GoodIn, Owns
<1>2. ASSUME NEW k \in Ids, cache[k] # None PROVE Owns(k, cache[k])
  <2>1. cache[k] \in Entry
    BY <1>2 DEF SyncTypeOK
  <2>2. QED
    BY <1>1, <2>1 DEF IsHeld
<1>3. ASSUME NEW s \in Syncers, NEW k \in Ids, tasks[s][k] # None
      PROVE  Owns(k, tasks[s][k].entry)
  <2>1. tasks[s][k].entry \in Entry
    BY <1>3 DEF SyncTypeOK, Task
  <2>2. QED
    BY <1>1, <1>3, <2>1 DEF IsHeld
<1>4. ASSUME NEW s \in Syncers, storing[s] # None, storing[s].entry # None
      PROVE  Owns(storing[s].id, storing[s].entry)
  <2>1. storing[s].entry \in Entry /\ storing[s].id \in Ids
    BY <1>4 DEF SyncTypeOK, CacheWrite
  <2>2. QED
    BY <1>1, <1>4, <2>1 DEF IsHeld
<1>5. ASSUME hstep # "idle" PROVE Owns(hid, hentry)
  BY <1>1, <1>5 DEF HandlerTypeOK, IsHeld
<1>6. QED
  BY <1>2, <1>3, <1>4, <1>5 DEF EntriesOwnTheirJobs

(* Nothing is held in the initial states. *)
LEMMA InitOInv == Init => OInv
<1> SUFFICES ASSUME Init PROVE OInv
  OBVIOUS
<1>1. TInv
  BY InitTInv
<1>2. CronIdsGiven
  BY DEF Init, CronIdsGiven
<1>3. HeldGood
  BY NoneAssumption DEF Init, HeldGood, IsHeld, NoTasks
<1>4. Quiet
  BY DEF Init, Quiet
<1>5. QED
  BY <1>1, <1>2, <1>3, <1>4 DEF OInv
-----------------------------------------------------------------------------
(* Adding a job gives a new id, which the entry that is returned carries. *)
LEMMA AddJobGrows ==
  ASSUME TInv, CronIdsGiven, NEW k \in Ids, NEW i \in Intervals,
         NEW table \in SUBSET cron, AddJob(k, i, table)
  PROVE  /\ CronGrows
         /\ CronIdsGiven'
         /\ i \notin Unparsable =>
               \A e \in Entry : GoodIn(k, ScheduledAs(e), nextId', cron')
<1> USE DEF TInv, SyncTypeOK
<1>1. CASE i \in Unparsable
  <2>1. cron' \subseteq cron /\ nextId' = nextId
    BY <1>1 DEF AddJob
  <2>2. QED
    BY <1>1, <2>1 DEF CronGrows, CronIdsGiven
<1>2. CASE i \notin Unparsable
  <2> DEFINE new == [cronId |-> nextId + 1, id |-> k, interval |-> i]
  <2>1. nextId' = nextId + 1 /\ cron' = table \cup {new}
    BY <1>2 DEF AddJob
  <2>2. new.cronId = nextId + 1 /\ new.id = k
    OBVIOUS
  <2> HIDE DEF new
  <2>3. CronGrows /\ CronIdsGiven'
    BY <2>1, <2>2 DEF CronGrows, CronIdsGiven
  <2>4. ASSUME NEW e \in Entry PROVE GoodIn(k, ScheduledAs(e), nextId', cron')
    <3>1. ScheduledAs(e).cronId = nextId + 1
      BY DEF ScheduledAs, Entry
    <3>2. \A j \in cron' : j.cronId = nextId + 1 => j.id = k
      BY <2>1, <2>2 DEF CronIdsGiven
    <3>3. QED
      BY <2>1, <3>1, <3>2 DEF GoodIn
  <2>5. QED
    BY <2>3, <2>4
<1>3. QED
  BY <1>1, <1>2

(* Removing a job gives no id. *)
LEMMA RemoveGrows ==
  ASSUME TInv, CronIdsGiven, NEW e, RemoveJobFor(e)
  PROVE  CronGrows /\ CronIdsGiven'
BY DEF TInv, SyncTypeOK, RemoveJobFor, Without, CronGrows, CronIdsGiven

(* Neither does leaving the table alone. *)
LEMMA SameCronGrows ==
  ASSUME TInv, CronIdsGiven, UNCHANGED cronVars
  PROVE  CronGrows /\ CronIdsGiven'
BY DEF TInv, SyncTypeOK, cronVars, CronGrows, CronIdsGiven

(* AddSyncJobFor gives a new id, unless cron rejects the interval. *)
LEMMA AddGrows ==
  ASSUME TInv, CronIdsGiven, NEW k \in Ids, NEW i \in Intervals, AddSyncJobFor(k, i)
  PROVE  /\ CronGrows
         /\ CronIdsGiven'
         /\ i \notin Unparsable =>
               \A e \in Entry : GoodIn(k, ScheduledAs(e), nextId', cron')
BY AddJobGrows DEF AddSyncJobFor

(* So does UpdateSyncJobFor, whatever it removes first. *)
LEMMA UpdateGrows ==
  ASSUME TInv, CronIdsGiven, NEW k \in Ids, NEW e0 \in Entry, UpdateSyncJobFor(k, e0)
  PROVE  /\ CronGrows
         /\ CronIdsGiven'
         /\ e0.interval \notin Unparsable =>
               \A e \in Entry : GoodIn(k, ScheduledAs(e), nextId', cron')
<1>1. e0.interval \in Intervals
  BY DEF Entry
<1>2. QED
  BY <1>1, AddJobGrows, WithoutSubset DEF UpdateSyncJobFor

(***************************************************************************)
(* An entry that is good stays good, so a step that adds good entries only *)
(* keeps all of them good.                                                 *)
(***************************************************************************)
LEMMA HeldStep ==
  ASSUME TInv, HeldGood, CronGrows, nextId' \in Nat, cron' \subseteq Job,
         \A k \in Ids, e \in Entry :
            IsHeld(k, e)' => IsHeld(k, e) \/ GoodIn(k, e, nextId', cron')
  PROVE  HeldGood'
<1>1. ASSUME NEW k \in Ids, NEW e \in Entry, GoodIn(k, e, nextId, cron)
      PROVE  GoodIn(k, e, nextId', cron')
  <2>1. e.cronId \in Nat /\ e.cronId <= nextId
    BY <1>1 DEF GoodIn, Entry
  <2>2. \A j \in cron' : j.cronId \in Nat
    BY DEF Job
  <2>3. e.cronId <= nextId' /\ \A j \in cron' : j.cronId = e.cronId => j \in cron
    BY <2>1, <2>2 DEF CronGrows, TInv, SyncTypeOK
  <2>4. QED
    BY <1>1, <2>3 DEF GoodIn
<1>2. QED
  BY <1>1 DEF HeldGood

(* A sync, the handler and its orders need a process that runs. *)
LEMMA SyncRuns == ASSUME OInv, NEW s \in Syncers, Sync(s) PROVE Running'
<1> USE SyncersAssumption
<1>1. Running
  BY DEF OInv, Quiet, Sync, SyncBegin, SyncRead, SyncMiss, SyncPrune, SyncAdded, SyncRemoved,
     SyncUpdated, SyncStore, Turn, NoTasks, Running
<1>2. phase' = phase \/ phase' \in {"starting", "up"}
  BY DEF Sync, SyncBegin, SyncRead, SyncMiss, SyncPrune, SyncAdded, SyncRemoved, SyncUpdated,
     SyncStore, Turn
<1>3. QED
  BY <1>1, <1>2 DEF Running
-----------------------------------------------------------------------------
(* fullSync: the entries it finds, changes and stores are good. *)
LEMMA SyncHeld ==
  ASSUME OInv, NEW s \in Syncers, Sync(s)
  PROVE  CronIdsGiven' /\ HeldGood'
<1> USE NoneAssumption, NoTaskAssumption DEF OInv
<1>0. nextId' \in Nat /\ cron' \subseteq Job
  BY SyncTInv DEF TInv, SyncTypeOK
<1>1. ASSUME CronGrows, CronIdsGiven',
             \A k \in Ids, e \in Entry :
                IsHeld(k, e)' => IsHeld(k, e) \/ GoodIn(k, e, nextId', cron')
      PROVE  CronIdsGiven' /\ HeldGood'
  BY <1>0, <1>1, HeldStep
<1>2. UNCHANGED handlerVars
  BY DEF Sync, SyncBegin, SyncRead, SyncMiss, SyncPrune, SyncAdded, SyncRemoved, SyncUpdated,
     SyncStore, Turn, NotSync
<1>3. ASSUME SyncBegin(s) \/ \E k \in Ids : SyncMiss(s, k)
      PROVE  CronIdsGiven' /\ HeldGood'
  <2>1. UNCHANGED <<cache, cronVars, tasks, storing, handlerVars>>
    BY <1>2, <1>3 DEF SyncBegin, SyncMiss
  <2>2. CronGrows /\ CronIdsGiven'
    BY <2>1, SameCronGrows
  <2>3. \A k \in Ids, e \in Entry : IsHeld(k, e)' => IsHeld(k, e)
    BY <2>1 DEF IsHeld, handlerVars
  <2>4. QED
    BY <1>1, <2>2, <2>3
<1>4. ASSUME NEW k \in Ids, SyncRead(s, k) PROVE CronIdsGiven' /\ HeldGood'
  <2> DEFINE i == Effective(interval[k])
             fresh == [cronId |-> 0, interval |-> i]
             changed == [cache[k] EXCEPT !.interval = i]
  <2>1. UNCHANGED <<cronVars, storing, handlerVars>>
    BY <1>2, <1>4 DEF SyncRead
  <2>2. CronGrows /\ CronIdsGiven'
    BY <2>1, SameCronGrows
  <2>3. GoodIn(k, fresh, nextId, cron)
    <3>1. fresh.cronId = 0
      OBVIOUS
    <3> HIDE DEF fresh
    <3>2. QED
      BY <3>1 DEF GoodIn, CronIdsGiven, TInv, SyncTypeOK
  <2>4. ASSUME cache[k] # None PROVE GoodIn(k, changed, nextId, cron)
    <3>1. cache[k] \in Entry
      BY <2>4 DEF TInv, SyncTypeOK
    <3>2. changed.cronId = cache[k].cronId
      BY <3>1 DEF Entry
    <3>3. GoodIn(k, cache[k], nextId, cron)
      BY <3>1 DEF HeldGood, IsHeld
    <3> HIDE DEF changed
    <3>4. QED
      BY <3>2, <3>3 DEF GoodIn
  <2>5. \/ UNCHANGED <<cache, tasks>>
        \/ \E kind \in Kinds, e \in {fresh, changed} :
              /\ GoodIn(k, e, nextId, cron)
              /\ cache' = [cache EXCEPT ![k] = e]
              /\ tasks' = [tasks EXCEPT ![s][k] = [kind |-> kind, entry |-> e]]
    BY <1>4, <2>3, <2>4 DEF SyncRead, Kinds
  <2> HIDE DEF i, fresh, changed
  <2>6. \A l \in Ids, e \in Entry :
           IsHeld(l, e)' => IsHeld(l, e) \/ GoodIn(l, e, nextId', cron')
    <3>1. CASE UNCHANGED <<cache, tasks>>
      BY <2>1, <3>1 DEF IsHeld, handlerVars
    <3>2. ASSUME NEW kind \in Kinds, NEW new, GoodIn(k, new, nextId, cron),
                 cache' = [cache EXCEPT ![k] = new],
                 tasks' = [tasks EXCEPT ![s][k] = [kind |-> kind, entry |-> new]]
          PROVE  \A l \in Ids, e \in Entry : IsHeld(l, e)' => IsHeld(l, e)
                                                  \/ (l = k /\ e = new)
      <4>1. \A l \in Ids : cache'[l] = cache[l] \/ (l = k /\ cache'[l] = new)
        BY <3>2 DEF TInv, SyncTypeOK
      <4>2. \A t \in Syncers, l \in Ids :
               tasks'[t][l] = tasks[t][l] \/ (l = k /\ tasks'[t][l].entry = new)
        BY <3>2 DEF TInv, SyncTypeOK
      <4>3. storing' = storing /\ hstep' = hstep /\ hid' = hid /\ hentry' = hentry
        BY <2>1 DEF handlerVars
      <4>4. QED
        BY <4>1, <4>2, <4>3 DEF IsHeld
    <3>3. nextId' = nextId /\ cron' = cron
      BY <2>1 DEF cronVars
    <3>4. QED
      BY <2>5, <3>1, <3>2, <3>3
  <2>7. QED
    BY <1>1, <2>2, <2>6
<1>5. ASSUME SyncPrune(s) PROVE CronIdsGiven' /\ HeldGood'
  <2>1. UNCHANGED <<cronVars, storing, handlerVars>>
    BY <1>2, <1>5 DEF SyncPrune
  <2>2. CronGrows /\ CronIdsGiven'
    BY <2>1, SameCronGrows
  <2>3. \A l \in Ids : cache'[l] = cache[l] \/ cache'[l] = None
    BY <1>5 DEF SyncPrune
  <2>4. \A t \in Syncers, l \in Ids :
           tasks'[t][l] = tasks[t][l] \/ tasks'[t][l].entry = cache[l]
    BY <1>5 DEF SyncPrune, TInv, SyncTypeOK
  <2>5. \A k \in Ids, e \in Entry : IsHeld(k, e)' => IsHeld(k, e)
    BY <2>1, <2>3, <2>4 DEF IsHeld, handlerVars
  <2>6. QED
    BY <1>1, <2>2, <2>5
<1>6. ASSUME NEW k \in Ids, NEW kind, Turn(s, k, kind)
      PROVE  /\ cache' = cache
             /\ tasks[s][k] # None
             /\ tasks[s][k].entry \in Entry
             /\ tasks[s][k].entry.interval \in Intervals
             /\ \A t \in Syncers, l \in Ids : tasks'[t][l] = tasks[t][l] \/ tasks'[t][l] = None
  BY <1>6 DEF Turn, TInv, SyncTypeOK, Task, Entry
<1>7. ASSUME NEW k \in Ids, NEW kind, Turn(s, k, kind), NEW b, NEW new, StoreIf(b, s, k, new),
             CronGrows, CronIdsGiven',
             b /\ new \in Entry => GoodIn(k, new, nextId', cron')
      PROVE  CronIdsGiven' /\ HeldGood'
  <2>1. \A t \in Syncers : \/ storing'[t] = storing[t]
                           \/ b /\ storing'[t] = [id |-> k, entry |-> new]
    BY <1>7 DEF StoreIf, TInv, SyncTypeOK
  <2>2. \A l \in Ids, e \in Entry :
           IsHeld(l, e)' => IsHeld(l, e) \/ GoodIn(l, e, nextId', cron')
    <3> SUFFICES ASSUME NEW l \in Ids, NEW e \in Entry, IsHeld(l, e)'
                 PROVE  IsHeld(l, e) \/ GoodIn(l, e, nextId', cron')
      OBVIOUS
    <3>1. CASE cache'[l] = e
      BY <1>6, <1>7, <3>1 DEF IsHeld
    <3>2. CASE \E t \in Syncers : tasks'[t][l] # None /\ tasks'[t][l].entry = e
      BY <1>6, <1>7, <3>2 DEF IsHeld
    <3>3. ASSUME NEW t \in Syncers, storing'[t] # None, storing'[t].id = l,
                 storing'[t].entry = e
          PROVE  IsHeld(l, e) \/ GoodIn(l, e, nextId', cron')
      <4>1. CASE storing'[t] = storing[t]
        BY <3>3, <4>1 DEF IsHeld
      <4>2. CASE b /\ storing'[t] = [id |-> k, entry |-> new]
        <5>1. l = k /\ e = new
          BY <3>3, <4>2
        <5>2. QED
          BY <1>7, <4>2, <5>1
      <4>3. QED
        BY <2>1, <4>1, <4>2
    <3>4. CASE hstep' # "idle" /\ hid' = l /\ hentry' = e
      BY <1>2, <3>4 DEF IsHeld, handlerVars
    <3>5. QED
      BY <3>1, <3>2, <3>3, <3>4 DEF IsHeld
  <2>3. QED
    BY <1>1, <1>7, <2>2
<1>8. ASSUME NEW k \in Ids, SyncAdded(s, k) PROVE CronIdsGiven' /\ HeldGood'
  <2> DEFINE e == tasks[s][k].entry
  <2>1. /\ Turn(s, k, "added")
        /\ AddSyncJobFor(k, e.interval)
        /\ StoreIf(e.interval \notin Unparsable, s, k, ScheduledAs(e))
    BY <1>8 DEF SyncAdded
  <2>2. e \in Entry /\ e.interval \in Intervals
    BY <1>6, <2>1
  <2> HIDE DEF e
  <2>3. /\ CronGrows /\ CronIdsGiven'
        /\ e.interval \notin Unparsable => GoodIn(k, ScheduledAs(e), nextId', cron')
    BY <2>1, <2>2, AddGrows
  <2>4. QED
    BY <1>7, <2>1, <2>3
<1>9. ASSUME NEW k \in Ids, SyncRemoved(s, k) PROVE CronIdsGiven' /\ HeldGood'
  <2>1. /\ Turn(s, k, "removed")
        /\ RemoveJobFor(tasks[s][k].entry)
        /\ StoreIf(TRUE, s, k, None)
    BY <1>9 DEF SyncRemoved
  <2>2. CronGrows /\ CronIdsGiven'
    BY <2>1, RemoveGrows
  <2>3. QED
    BY <1>7, <2>1, <2>2
<1>10. ASSUME NEW k \in Ids, SyncUpdated(s, k) PROVE CronIdsGiven' /\ HeldGood'
  <2> DEFINE e == tasks[s][k].entry
  <2>1. /\ Turn(s, k, "updated")
        /\ UpdateSyncJobFor(k, e)
        /\ StoreIf(e.interval \notin Unparsable, s, k, ScheduledAs(e))
    BY <1>10 DEF SyncUpdated
  <2>2. e \in Entry /\ e.interval \in Intervals
    BY <1>6, <2>1
  <2> HIDE DEF e
  <2>3. /\ CronGrows /\ CronIdsGiven'
        /\ e.interval \notin Unparsable => GoodIn(k, ScheduledAs(e), nextId', cron')
    BY <2>1, <2>2, UpdateGrows
  <2>4. QED
    BY <1>7, <2>1, <2>3
<1>11. ASSUME SyncStore(s) PROVE CronIdsGiven' /\ HeldGood'
  <2>1. /\ UNCHANGED <<cronVars, tasks, handlerVars>>
        /\ storing[s] # None
        /\ cache' = [cache EXCEPT ![storing[s].id] = storing[s].entry]
        /\ storing' = [storing EXCEPT ![s] = None]
    BY <1>2, <1>11 DEF SyncStore
  <2>2. CronGrows /\ CronIdsGiven'
    BY <2>1, SameCronGrows
  <2>3. \A l \in Ids : \/ cache'[l] = cache[l]
                       \/ storing[s].id = l /\ cache'[l] = storing[s].entry
    BY <2>1 DEF TInv, SyncTypeOK
  <2>4. \A t \in Syncers : storing'[t] = storing[t] \/ storing'[t] = None
    BY <2>1 DEF TInv, SyncTypeOK
  <2>5. \A k \in Ids, e \in Entry : IsHeld(k, e)' => IsHeld(k, e)
    BY <2>1, <2>3, <2>4 DEF IsHeld, handlerVars
  <2>6. QED
    BY <1>1, <2>2, <2>5
<1>12. QED
  BY <1>3, <1>4, <1>5, <1>8, <1>9, <1>10, <1>11 DEF Sync
-----------------------------------------------------------------------------
(* What a step that holds no new entry and adds no job has to leave alone. *)
LEMMA NothingNew ==
  ASSUME OInv, nextId' \in Nat, cron' \subseteq Job, CronGrows, CronIdsGiven',
         UNCHANGED <<tasks, storing>>,
         \A k \in Ids : \/ cache'[k] = cache[k]
                        \/ cache'[k] = None
                        \/ hstep # "idle" /\ k = hid /\ cache'[k] = hentry,
         hstep' # "idle" => hstep # "idle" /\ hid' = hid /\ hentry' = hentry
  PROVE  CronIdsGiven' /\ HeldGood'
<1>1. \A k \in Ids, e \in Entry : IsHeld(k, e)' => IsHeld(k, e)
  BY NoneAssumption DEF IsHeld
<1>2. QED
  BY <1>1, HeldStep DEF OInv

(* The handler takes its entry from the cache, or schedules it. *)
LEMMA HandleHeld ==
  ASSUME OInv, NEW m \in Orders, Handle(m)
  PROVE  CronIdsGiven' /\ HeldGood'
<1> USE NoneAssumption, IntervalsAssumption DEF OInv
<1>0. /\ nextId' \in Nat /\ cron' \subseteq Job
      /\ m.id \in Ids
      /\ UNCHANGED <<cache, tasks, storing>>
  BY HandleTInv DEF TInv, SyncTypeOK, Orders, Handle, HandleUpdateInterval, HandleDelete,
     HandleAdd, Receive, NotHandler, syncVars
<1>1. ASSUME NEW new, CronGrows, CronIdsGiven', GoodIn(m.id, new, nextId', cron'),
             NEW step, Then(step, m.id, new)
      PROVE  CronIdsGiven' /\ HeldGood'
  <2>1. \A k \in Ids, e \in Entry :
           IsHeld(k, e)' => IsHeld(k, e) \/ GoodIn(k, e, nextId', cron')
    BY <1>0, <1>1 DEF IsHeld, Then
  <2>2. QED
    BY <1>0, <1>1, <2>1, HeldStep
<1>2. ASSUME NEW step, NEW new, Get(m, step, new), UNCHANGED cronVars,
             cache[m.id] # None => new.cronId = cache[m.id].cronId
      PROVE  CronIdsGiven' /\ HeldGood'
  <2>1. CronGrows /\ CronIdsGiven'
    BY <1>2, SameCronGrows
  <2>2. CASE cache[m.id] = None
    BY <1>0, <1>2, <2>1, <2>2, NothingNew DEF Get, handlerVars
  <2>3. CASE cache[m.id] # None
    <3>1. cache[m.id] \in Entry
      BY <1>0, <2>3 DEF TInv, SyncTypeOK
    <3>2. GoodIn(m.id, cache[m.id], nextId, cron)
      BY <1>0, <3>1 DEF HeldGood, IsHeld
    <3>3. GoodIn(m.id, new, nextId', cron')
      BY <1>2, <2>3, <3>2 DEF GoodIn, cronVars
    <3>4. Then(step, m.id, new)
      BY <1>2, <2>3 DEF Get
    <3>5. QED
      BY <1>1, <2>1, <3>3, <3>4
  <2>4. QED
    BY <2>2, <2>3
<1>3. CASE HandleUpdateInterval(m)
  <2> DEFINE new == [cache[m.id] EXCEPT !.interval = m.param]
  <2>1. Get(m, "update_store", new) /\ UNCHANGED cronVars
    BY <1>3 DEF HandleUpdateInterval
  <2>2. cache[m.id] # None => new.cronId = cache[m.id].cronId
    BY <1>0 DEF TInv, SyncTypeOK, Entry
  <2> HIDE DEF new
  <2>3. QED
    BY <1>2, <2>1, <2>2
<1>4. CASE HandleDelete(m)
  BY <1>2, <1>4 DEF HandleDelete
<1>5. CASE HandleAdd(m)
  <2> DEFINE i == IF m.param \in OutOfRange \cup {Unset} THEN DefaultInterval ELSE m.param
             e == [cronId |-> 0, interval |-> i]
  <2>1. AddSyncJobFor(m.id, i) /\ Then("add_store", m.id, ScheduledAs(e))
    BY <1>5 DEF HandleAdd
  <2>2. i \in Intervals /\ i \notin Unparsable
    BY DEF Orders
  <2>3. e \in Entry
    BY <2>2 DEF Entry
  <2> HIDE DEF i, e
  <2>4. CronGrows /\ CronIdsGiven' /\ GoodIn(m.id, ScheduledAs(e), nextId', cron')
    BY <1>0, <2>1, <2>2, <2>3, AddGrows
  <2>5. QED
    BY <1>1, <2>1, <2>4
<1>6. QED
  BY <1>3, <1>4, <1>5 DEF Handle

(* The next steps of the handler hold nothing new. *)
LEMMA HandlerStepHeld ==
  ASSUME OInv, HandlerStep
  PROVE  CronIdsGiven' /\ HeldGood'
<1> USE DEF OInv
<1>1. /\ nextId' \in Nat /\ cron' \subseteq Job
      /\ UNCHANGED <<tasks, storing>>
      /\ hstep # "idle" /\ hid \in Ids /\ hentry \in Entry
  BY HandlerStepTInv DEF TInv, SyncTypeOK, HandlerTypeOK, HandlerStep, UpdateStore,
     UpdateSchedule, DeleteStore, DeleteSchedule, AddStore, NotHandler, syncVars
<1>2. /\ hstep' # "idle" => hid' = hid /\ hentry' = hentry
      /\ \A k \in Ids : cache'[k] = cache[k] \/ cache'[k] = None \/ (k = hid /\ cache'[k] = hentry)
  BY DEF HandlerStep, UpdateStore, UpdateSchedule, DeleteStore, DeleteSchedule, AddStore,
     Then, Done, TInv, SyncTypeOK
<1>3. CronGrows /\ CronIdsGiven'
  <2>1. CASE UpdateStore \/ DeleteStore \/ AddStore
    BY <2>1, SameCronGrows DEF UpdateStore, DeleteStore, AddStore
  <2>2. CASE UpdateSchedule
    BY <1>1, <2>2, UpdateGrows DEF UpdateSchedule
  <2>3. CASE DeleteSchedule
    BY <1>1, <2>3, RemoveGrows DEF DeleteSchedule
  <2>4. QED
    BY <2>1, <2>2, <2>3 DEF HandlerStep
<1>4. QED
  BY <1>1, <1>2, <1>3, NothingNew

(* Everything else leaves what is held alone, or drops it with the process. *)
LEMMA ElseHeld ==
  ASSUME OInv,
         \/ UNCHANGED <<cache, tasks, storing, handlerVars, cronVars>>
         \/ InitPoller
         \/ Crash
  PROVE  CronIdsGiven' /\ HeldGood'
<1> USE NoneAssumption DEF OInv
<1>1. CASE UNCHANGED <<cache, tasks, storing, handlerVars, cronVars>>
  <2>1. CronGrows /\ CronIdsGiven'
    BY <1>1, SameCronGrows
  <2>2. nextId' \in Nat /\ cron' \subseteq Job
    BY <1>1 DEF cronVars, TInv, SyncTypeOK
  <2>3. QED
    BY <1>1, <2>1, <2>2, NothingNew DEF handlerVars
<1>2. ASSUME cache' = [k \in Ids |-> None], tasks' = [s \in Syncers |-> NoTasks],
             storing' = [s \in Syncers |-> None], hstep' = "idle"
      PROVE  HeldGood'
  BY <1>2 DEF HeldGood, IsHeld, NoTasks
<1>3. CASE InitPoller
  <2>1. ~Running
    BY <1>3 DEF InitPoller, Running
  <2>2. HeldGood'
    BY <1>2, <1>3, <2>1 DEF Quiet, InitPoller, NotProcess, handlerVars
  <2>3. CronIdsGiven'
    BY <1>3 DEF InitPoller, CronIdsGiven
  <2>4. QED
    BY <2>2, <2>3
<1>4. CASE Crash
  BY <1>2, <1>4 DEF Crash, Done, Then, CronIdsGiven
<1>5. QED
  BY <1>1, <1>3, <1>4

(* The invariant is inductive. *)
LEMMA NextOInv == OInv /\ [Next]_vars => OInv'
<1> SUFFICES ASSUME OInv, [Next]_vars PROVE OInv'
  OBVIOUS
<1>1. TInv'
  BY NextTInv DEF OInv
<1>2. ASSUME UNCHANGED <<cache, mutex, tasks, storing, handlerVars, cronVars>>,
             Running' <=> Running
      PROVE  OInv'
  <2>1. CronIdsGiven' /\ HeldGood'
    BY <1>2, ElseHeld
  <2>2. Quiet'
    BY <1>2 DEF OInv, Quiet, handlerVars
  <2>3. QED
    BY <1>1, <2>1, <2>2 DEF OInv
<1>3. CASE Database
  BY <1>2, <1>3 DEF Database, CreateUserIdentity, PatchUserIdentity, DeleteUserIdentity,
     ThrottleRemoteIdentity, DisableRemoteIdentity, NotDb, syncVars, Running
<1>4. ASSUME NEW m \in Orders, LoseOrder(m) \/ CrashOnEarlyOrder(m) PROVE OInv'
  BY <1>2, <1>4 DEF LoseOrder, CrashOnEarlyOrder, NotDb, NotProcess, syncVars, Running
<1>5. ASSUME NEW m \in Orders, Handle(m) PROVE OInv'
  <2>1. Running'
    BY <1>5 DEF Handle, HandleUpdateInterval, HandleDelete, HandleAdd, Receive, NotHandler,
       Running
  <2>2. QED
    BY <1>1, <1>5, <2>1, HandleHeld DEF OInv, Quiet
<1>6. ASSUME NEW s \in Syncers, Sync(s) PROVE OInv'
  BY <1>1, <1>6, SyncHeld, SyncRuns DEF OInv, Quiet
<1>7. CASE HandlerStep
  <2>1. hstep # "idle" /\ phase' = phase
    BY <1>7 DEF HandlerStep, UpdateStore, UpdateSchedule, DeleteStore, DeleteSchedule,
       AddStore, NotHandler
  <2>2. Running'
    BY <2>1 DEF OInv, Quiet, Running
  <2>3. QED
    BY <1>1, <1>7, <2>2, HandlerStepHeld DEF OInv, Quiet
<1>8. CASE Subscribe \/ StartCron
  BY <1>2, <1>8 DEF Subscribe, StartCron, NotProcess, Running
<1>9. CASE InitPoller
  <2>1. Running'
    BY <1>9 DEF InitPoller, Running
  <2>2. QED
    BY <1>1, <1>9, <2>1, ElseHeld DEF OInv, Quiet
<1>10. CASE Crash
  <2>1. Quiet'
    BY <1>10 DEF Crash, Done, Then, Quiet
  <2>2. QED
    BY <1>1, <1>10, <2>1, ElseHeld DEF OInv
<1>11. CASE UNCHANGED vars
  BY <1>2, <1>11 DEF vars, syncVars, Running
<1>12. QED
  BY <1>3, <1>4, <1>5, <1>6, <1>7, <1>8, <1>9, <1>10, <1>11 DEF Next, Process

(***************************************************************************)
(* No cache entry, in the cache or in the hands of a fullSync or of the    *)
(* handler, however stale, names the cron job of another identity or the   *)
(* periodic fullSync.                                                      *)
(***************************************************************************)
THEOREM EntriesCorrect == Spec => []EntriesOwnTheirJobs
BY InitOInv, NextOInv, OwnsFollows, PTL DEF Spec
------------------------------------------------------------------------------
(***************************************************************************)
(* Proof that what the idpoller caches is scheduled, for every set of      *)
(* identities, intervals and syncers and every bound.  The argument: who   *)
(* writes an entry to the cache has scheduled it before or will do so      *)
(* next, and a job is only removed by an actor that replaces it, or that   *)
(* knew it before the entry the job now stands for was written.            *)
(***************************************************************************)
\* The cron ids that others know than who is about to write a new entry to the cache.
Known(c) ==
    \/ \E k \in Ids : cache[k] # None /\ cache[k].cronId = c
    \/ \E s \in Syncers, k \in Ids : tasks[s][k] # None /\ tasks[s][k].entry.cronId = c
    \/ hstep \notin {"idle", "add_store"} /\ hentry.cronId = c

\* An entry that a syncer or the handler is about to write, once it has scheduled it.
Writes(s) == storing[s] # None /\ storing[s].entry # None
Written(c) ==
    \/ \E s \in Syncers : Writes(s) /\ storing[s].entry.cronId = c
    \/ hstep = "add_store" /\ hentry.cronId = c

HasJob(k, e) == \E j \in cron : j.cronId = e.cronId /\ j.id = k /\ j.interval = e.interval

\* Such an entry has its job, and nobody else can remove this job yet.
WrittenHaveJobs ==
    /\ \A s \in Syncers : Writes(s) => HasJob(storing[s].id, storing[s].entry)
    /\ hstep = "add_store" => HasJob(hid, hentry)
WrittenAreUnknown ==
    /\ \A c \in Nat : Written(c) => ~Known(c)
    /\ \A s, t \in Syncers : Writes(s) /\ Writes(t) /\ s # t =>
          storing[s].entry.cronId # storing[t].entry.cronId
    /\ \A s \in Syncers : Writes(s) /\ hstep = "add_store" =>
          storing[s].entry.cronId # hentry.cronId

\* An actor is going to remove the job c of k, without writing an entry after that.
Blind(k, c) ==
    \/ \E s \in Syncers : /\ tasks[s][k] # None
                          /\ tasks[s][k].kind = "updated"
                          /\ tasks[s][k].entry.interval \in Unparsable
                          /\ tasks[s][k].entry.cronId = c
    \/ hstep \in {"update_schedule", "delete_schedule"} /\ hid = k /\ hentry.cronId = c

\* k has a job at interval i that lasts.
Lasting(k, i) == \E j \in cron : j.id = k /\ j.interval = i /\ ~Blind(k, j.cronId)

\* An actor is going to write the entry of k, or to schedule the one that is cached.
TaskPending(k) ==
    \E s \in Syncers : /\ tasks[s][k] # None
                       /\ tasks[s][k].kind = "removed" \/ tasks[s][k].entry.interval \notin Unparsable
WritePending(k) ==
    \/ \E s \in Syncers : storing[s] # None /\ storing[s].id = k
    \/ hstep \in {"update_store", "delete_store", "add_store"} /\ hid = k
SchedulePending(k) ==
    hstep = "update_schedule" /\ hid = k /\ cache[k].interval = hentry.interval

Supported(k) ==
    cache[k] # None /\ cache[k].interval \notin Unparsable =>
        TaskPending(k) \/ WritePending(k) \/ SchedulePending(k) \/ Lasting(k, cache[k].interval)

\* The inductive invariant.
WInv == WrittenHaveJobs /\ WrittenAreUnknown
SInv == OInv /\ WInv /\ \A k \in Ids : Supported(k)
-----------------------------------------------------------------------------
(* Once nobody works on an identity, only a lasting job supports its entry. *)
LEMMA ScheduledFollows == SInv => CachedIsScheduled
<1> SUFFICES ASSUME SInv, NEW k \in Ids, cache[k] # None, ~Busy(k),
                    cache[k].interval \notin Unparsable
             PROVE  ScheduledAt(k, cache[k].interval)
  BY DEF CachedIsScheduled
<1>1. ~TaskPending(k) /\ ~WritePending(k) /\ ~SchedulePending(k)
  BY DEF Busy, TaskPending, WritePending, SchedulePending
<1> QED
  BY <1>1 DEF SInv, Supported, Lasting, ScheduledAt

(* Ids that are held were given. *)
LEMMA IdsGiven ==
  ASSUME OInv, NEW c \in Nat, Known(c) \/ Written(c)
  PROVE  c <= nextId
<1> USE NoneAssumption, NoTaskAssumption DEF OInv, TInv
<1>1. ASSUME NEW k \in Ids, NEW e \in Entry, IsHeld(k, e) PROVE e.cronId <= nextId
  BY <1>1 DEF HeldGood, GoodIn
<1>2. ASSUME NEW k \in Ids, cache[k] # None PROVE cache[k].cronId <= nextId
  <2>1. cache[k] \in Entry
    BY <1>2 DEF SyncTypeOK
  <2> QED
    BY <1>1, <2>1 DEF IsHeld
<1>3. ASSUME NEW s \in Syncers, NEW k \in Ids, tasks[s][k] # None
      PROVE  tasks[s][k].entry.cronId <= nextId
  <2>1. tasks[s][k].entry \in Entry
    BY <1>3 DEF SyncTypeOK, Task
  <2> QED
    BY <1>1, <1>3, <2>1 DEF IsHeld
<1>4. ASSUME NEW s \in Syncers, Writes(s) PROVE storing[s].entry.cronId <= nextId
  <2>1. storing[s].entry \in Entry /\ storing[s].id \in Ids
    BY <1>4 DEF SyncTypeOK, CacheWrite, Writes
  <2> QED
    BY <1>1, <1>4, <2>1 DEF IsHeld, Writes
<1>5. ASSUME hstep # "idle" PROVE hentry.cronId <= nextId
  BY <1>1, <1>5 DEF HandlerTypeOK, IsHeld
<1> QED
  BY <1>2, <1>3, <1>4, <1>5 DEF Known, Written

(* Jobs that share an id with a held entry are jobs of the same identity. *)
LEMMA OwnJobs ==
  ASSUME OInv
  PROVE  /\ \A s \in Syncers, k \in Ids : tasks[s][k] # None => Owns(k, tasks[s][k].entry)
         /\ hstep # "idle" => Owns(hid, hentry)
BY OwnsFollows DEF EntriesOwnTheirJobs

(* What is written has an id that is no zero. *)
LEMMA WrittenNotZero ==
  ASSUME OInv, WInv
  PROVE  ~Written(0)
<1>1. \A j \in cron : j.cronId # 0
  BY DEF OInv, TInv, SyncTypeOK, CronIdsGiven
<1> QED
  BY <1>1 DEF WInv, WrittenHaveJobs, Written, HasJob
-----------------------------------------------------------------------------
(* A step that schedules no entry keeps what is about to be written. *)
LEMMA WrittenKept ==
  ASSUME OInv, WInv, OInv',
         \A t \in Syncers : storing'[t] = storing[t] \/ ~Writes(t)',
         hstep' = "add_store" => hstep = "add_store" /\ hid' = hid /\ hentry' = hentry,
         \A j \in cron : j \in cron' \/ Known(j.cronId),
         \A c \in Nat : Known(c)' => Known(c) \/ c = 0 \/ ~Written(c)'
  PROVE  WInv'
<1>1. \A t \in Syncers : Writes(t)' => Writes(t) /\ storing'[t] = storing[t]
  BY DEF Writes
<1>2. \A c \in Nat : Written(c)' => Written(c)
  BY <1>1 DEF Written
<1>3. ASSUME NEW k, NEW e, HasJob(k, e), Written(e.cronId)
      PROVE  \E j \in cron' : j.cronId = e.cronId /\ j.id = k /\ j.interval = e.interval
  <2>1. PICK j \in cron : j.cronId = e.cronId /\ j.id = k /\ j.interval = e.interval
    BY <1>3 DEF HasJob
  <2>2. j.cronId \in Nat
    BY DEF OInv, TInv, SyncTypeOK, Job
  <2>3. ~Known(j.cronId)
    BY <1>3, <2>1, <2>2 DEF WInv, WrittenAreUnknown
  <2> QED
    BY <2>1, <2>3
<1>4. WrittenHaveJobs'
  <2>1. ASSUME NEW t \in Syncers, Writes(t)' PROVE HasJob(storing[t].id, storing[t].entry)'
    <3>1. Writes(t) /\ storing'[t] = storing[t]
      BY <1>1, <2>1
    <3>2. HasJob(storing[t].id, storing[t].entry) /\ Written(storing[t].entry.cronId)
      BY <3>1 DEF WInv, WrittenHaveJobs, Written
    <3> QED
      BY <1>3, <3>1, <3>2 DEF HasJob
  <2>2. ASSUME hstep' = "add_store" PROVE HasJob(hid, hentry)'
    <3>1. HasJob(hid, hentry) /\ Written(hentry.cronId) /\ hid' = hid /\ hentry' = hentry
      BY <2>2 DEF WInv, WrittenHaveJobs, Written
    <3> QED
      BY <1>3, <3>1 DEF HasJob
  <2> QED
    BY <2>1, <2>2 DEF WrittenHaveJobs
<1>5. \A c \in Nat : Written(c)' => ~Known(c)'
  <2>1. ~Written(0)
    BY WrittenNotZero
  <2> QED
    BY <1>2, <2>1 DEF WInv, WrittenAreUnknown
<1>6. WrittenAreUnknown'
  <2>1. \A t, u \in Syncers : Writes(t)' /\ Writes(u)' /\ t # u =>
            storing'[t].entry.cronId # storing'[u].entry.cronId
    BY <1>1 DEF WInv, WrittenAreUnknown
  <2>2. \A t \in Syncers : Writes(t)' /\ hstep' = "add_store" =>
            storing'[t].entry.cronId # hentry'.cronId
    BY <1>1 DEF WInv, WrittenAreUnknown
  <2> QED
    BY <1>5, <2>1, <2>2 DEF WrittenAreUnknown
<1> QED
  BY <1>4, <1>6 DEF WInv

(* So does a step that schedules one entry, and prepares to write it. *)
LEMMA WrittenGrows ==
  ASSUME OInv, WInv, OInv',
         \A j \in cron : j \in cron' \/ Known(j.cronId),
         \A c \in Nat : Known(c)' => Known(c),
         NEW k, NEW e \in Entry, e.cronId = nextId + 1,
         \E j \in cron' : j.cronId = e.cronId /\ j.id = k /\ j.interval = e.interval,
         \/ /\ \E s \in Syncers : storing' = [storing EXCEPT ![s] = [id |-> k, entry |-> e]]
            /\ UNCHANGED handlerVars
         \/ /\ storing' = storing /\ hstep = "idle"
            /\ hstep' = "add_store" /\ hid' = k /\ hentry' = e
  PROVE  WInv'
<1>t. nextId \in Nat /\ storing \in [Syncers -> CacheWrite \cup {None}]
  BY DEF OInv, TInv, SyncTypeOK
<1>1. \A t \in Syncers : Writes(t)' => (Writes(t) /\ storing'[t] = storing[t])
                                       \/ storing'[t] = [id |-> k, entry |-> e]
  BY <1>t DEF Writes
<1>2. /\ \A t, u \in Syncers : storing'[t] # storing[t] /\ storing'[u] # storing[u] => t = u
      /\ hstep' = "add_store" => \/ hstep = "add_store" /\ hid' = hid /\ hentry' = hentry
                                 \/ storing' = storing /\ hid' = k /\ hentry' = e
  BY <1>t DEF handlerVars
<1>3. \A c \in Nat : Written(c)' => Written(c) \/ c = nextId + 1
  BY <1>1, <1>2 DEF Written
<1>4. ASSUME NEW l, NEW o, HasJob(l, o), Written(o.cronId)
      PROVE  \E j \in cron' : j.cronId = o.cronId /\ j.id = l /\ j.interval = o.interval
  <2>1. PICK j \in cron : j.cronId = o.cronId /\ j.id = l /\ j.interval = o.interval
    BY <1>4 DEF HasJob
  <2>2. j.cronId \in Nat
    BY DEF OInv, TInv, SyncTypeOK, Job
  <2>3. ~Known(j.cronId)
    BY <1>4, <2>1, <2>2 DEF WInv, WrittenAreUnknown
  <2> QED
    BY <2>1, <2>3
<1>5. WrittenHaveJobs'
  <2>1. ASSUME NEW t \in Syncers, Writes(t)' PROVE HasJob(storing[t].id, storing[t].entry)'
    <3>1. CASE Writes(t) /\ storing'[t] = storing[t]
      <4>1. HasJob(storing[t].id, storing[t].entry) /\ Written(storing[t].entry.cronId)
        BY <3>1 DEF WInv, WrittenHaveJobs, Written
      <4> QED
        BY <1>4, <3>1, <4>1 DEF HasJob
    <3>2. CASE storing'[t] = [id |-> k, entry |-> e]
      BY <3>2 DEF HasJob
    <3> QED
      BY <1>1, <2>1, <3>1, <3>2
  <2>2. ASSUME hstep' = "add_store" PROVE HasJob(hid, hentry)'
    <3>1. CASE hstep = "add_store" /\ hid' = hid /\ hentry' = hentry
      <4>1. HasJob(hid, hentry) /\ Written(hentry.cronId)
        BY <3>1 DEF WInv, WrittenHaveJobs, Written
      <4> QED
        BY <1>4, <3>1, <4>1 DEF HasJob
    <3>2. CASE hid' = k /\ hentry' = e
      BY <3>2 DEF HasJob
    <3> QED
      BY <1>2, <2>2, <3>1, <3>2
  <2> QED
    BY <2>1, <2>2 DEF WrittenHaveJobs
<1>6. \A c \in Nat : Written(c) \/ Known(c) => c # nextId + 1
  BY <1>t, IdsGiven
<1>7. \A t \in Syncers : Writes(t) => storing[t].entry.cronId \in Nat /\ Written(storing[t].entry.cronId)
  BY <1>t DEF Writes, CacheWrite, Entry, Written
<1>8. hstep = "add_store" => hentry.cronId \in Nat /\ Written(hentry.cronId)
  BY DEF OInv, TInv, HandlerTypeOK, Entry, Written
<1>8n. \A t \in Syncers : Writes(t)' =>
          \/ /\ Writes(t) /\ storing'[t] = storing[t] /\ storing'[t].entry.cronId # nextId + 1
          \/ storing'[t] # storing[t] /\ storing'[t].entry.cronId = nextId + 1
  <2>1. \A t \in Syncers : Writes(t) => storing[t].entry.cronId # nextId + 1
    BY <1>6, <1>7
  <2>2. ASSUME NEW t \in Syncers, Writes(t)', storing'[t] = [id |-> k, entry |-> e]
        PROVE  storing'[t] # storing[t] /\ storing'[t].entry.cronId = nextId + 1
    <3>1. storing'[t].entry.cronId = nextId + 1
      BY <2>2
    <3>2. storing'[t] = storing[t] => Writes(t)
      BY <2>2 DEF Writes
    <3> QED
      BY <2>1, <3>1, <3>2
  <2> QED
    BY <1>1, <2>1, <2>2
<1>9. WrittenAreUnknown'
  <2>1. \A c \in Nat : Written(c)' => ~Known(c)'
    BY <1>3, <1>6 DEF WInv, WrittenAreUnknown
  <2>2. \A t, u \in Syncers : Writes(t)' /\ Writes(u)' /\ t # u =>
            storing'[t].entry.cronId # storing'[u].entry.cronId
    BY <1>2, <1>8n DEF WInv, WrittenAreUnknown
  <2>3. \A t \in Syncers : Writes(t)' /\ hstep' = "add_store" =>
            storing'[t].entry.cronId # hentry'.cronId
    BY <1>2, <1>6, <1>8, <1>8n DEF WInv, WrittenAreUnknown, handlerVars
  <2> QED
    BY <2>1, <2>2, <2>3 DEF WrittenAreUnknown
<1> QED
  BY <1>5, <1>9 DEF WInv
-----------------------------------------------------------------------------
(* What a step leaves alone of identity l. *)
LEMMA OthersSupported ==
  ASSUME NEW l \in Ids, Supported(l),
         cache'[l] = cache[l],
         \A t \in Syncers : tasks'[t][l] = tasks[t][l],
         \A t \in Syncers : storing[t] # None /\ storing[t].id = l => storing'[t] = storing[t],
         hstep # "idle" /\ hid = l => UNCHANGED handlerVars,
         hstep' # "idle" /\ hid' = l => UNCHANGED handlerVars,
         \A j \in cron : j.id = l => j \in cron'
  PROVE  Supported(l)'
<1> SUFFICES ASSUME cache'[l] # None, cache'[l].interval \notin Unparsable
             PROVE  TaskPending(l)' \/ WritePending(l)' \/ SchedulePending(l)'
                    \/ Lasting(l, cache[l].interval)'
  BY DEF Supported
<1>1. TaskPending(l) \/ WritePending(l) \/ SchedulePending(l) \/ Lasting(l, cache[l].interval)
  BY DEF Supported
<1>2. CASE TaskPending(l)
  BY <1>2 DEF TaskPending
<1>3. CASE WritePending(l)
  BY <1>3 DEF WritePending, handlerVars
<1>4. CASE SchedulePending(l)
  BY <1>4 DEF SchedulePending, handlerVars
<1>5. CASE Lasting(l, cache[l].interval)
  BY <1>5 DEF Lasting, Blind, handlerVars
<1> QED
  BY <1>1, <1>2, <1>3, <1>4, <1>5

(* A written entry is supported by its job. *)
LEMMA WrittenSupported ==
  ASSUME OInv, WInv, NEW k \in Ids, cron' = cron,
         cache'[k] \in Entry => HasJob(k, cache'[k]) /\ Written(cache'[k].cronId),
         cache'[k] \in Entry \cup {None},
         tasks' = tasks,
         hstep' \in {"update_schedule", "delete_schedule"} => UNCHANGED handlerVars
  PROVE  Supported(k)'
<1> SUFFICES ASSUME cache'[k] # None PROVE Lasting(k, cache[k].interval)'
  BY DEF Supported
<1>1. PICK j \in cron : j.cronId = cache'[k].cronId /\ j.id = k /\ j.interval = cache'[k].interval
  BY DEF HasJob
<1>2. j.cronId \in Nat /\ ~Known(j.cronId)
  BY <1>1 DEF WInv, WrittenAreUnknown, OInv, TInv, SyncTypeOK, Job
<1>3. ~Blind(k, j.cronId)'
  BY <1>2 DEF Blind, Known, handlerVars
<1> QED
  BY <1>1, <1>3 DEF Lasting

(* Nothing else than the poller's own state matters. *)
LEMMA SameScheduled ==
  ASSUME SInv, OInv', UNCHANGED <<cache, tasks, storing, handlerVars, cronVars>>
  PROVE  SInv'
<1>1. WInv'
  <2>1. \A c \in Nat : Known(c)' => Known(c)
    BY DEF Known, handlerVars
  <2> QED
    BY <2>1, WrittenKept DEF SInv, handlerVars, cronVars
<1>2. \A l \in Ids : Supported(l)'
  BY OthersSupported DEF SInv, cronVars
<1> QED
  BY <1>1, <1>2 DEF SInv
-----------------------------------------------------------------------------
(* fullSync finds identities, and forgets those that are gone. *)
LEMMA SyncReadScheduled ==
  ASSUME SInv, OInv', NEW s \in Syncers, NEW k \in Ids, SyncRead(s, k)
  PROVE  SInv'
<1> USE DEF SInv
<1>t. /\ cache \in [Ids -> Entry \cup {None}] /\ tasks \in [Syncers -> [Ids -> Task \cup {None}]]
      /\ cache' \in [Ids -> Entry \cup {None}]
      /\ tasks' \in [Syncers -> [Ids -> Task \cup {None}]]
  BY DEF OInv, TInv, SyncTypeOK
<1>1. UNCHANGED <<cron, nextId, storing, hstep, hid, hentry>>
  BY DEF SyncRead, NotSync, handlerVars, cronVars
<1>2. \/ UNCHANGED <<cache, tasks>>
      \/ \E kind \in {"added", "updated"}, e \in Entry :
            /\ e.cronId = 0 \/ (cache[k] # None /\ e.cronId = cache[k].cronId)
            /\ cache' = [cache EXCEPT ![k] = e]
            /\ tasks' = [tasks EXCEPT ![s][k] = [kind |-> kind, entry |-> e]]
  <2> DEFINE i == Effective(interval[k])
             fresh == [cronId |-> 0, interval |-> i]
             changed == [cache[k] EXCEPT !.interval = i]
  <2>1. i \in Intervals
    BY IntervalsAssumption DEF Effective, OInv, TInv, OutsideTypeOK
  <2>2. \/ UNCHANGED <<cache, tasks>>
        \/ /\ cache' = [cache EXCEPT ![k] = fresh]
           /\ tasks' = [tasks EXCEPT ![s][k] = [kind |-> "added", entry |-> fresh]]
        \/ /\ cache[k] # None
           /\ cache' = [cache EXCEPT ![k] = changed]
           /\ tasks' = [tasks EXCEPT ![s][k] = [kind |-> "updated", entry |-> changed]]
    BY DEF SyncRead
  <2> HIDE DEF i
  <2>3. fresh \in Entry /\ fresh.cronId = 0
    BY <2>1 DEF Entry
  <2>4. cache[k] # None => changed \in Entry /\ changed.cronId = cache[k].cronId
    BY <1>t, <2>1 DEF Entry
  <2> HIDE DEF fresh, changed
  <2> QED
    BY <2>2, <2>3, <2>4
<1>3. CASE UNCHANGED <<cache, tasks>>
  BY <1>1, <1>3, SameScheduled DEF handlerVars, cronVars
<1>4. ASSUME NEW kind \in {"added", "updated"}, NEW e \in Entry,
             e.cronId = 0 \/ (cache[k] # None /\ e.cronId = cache[k].cronId),
             cache' = [cache EXCEPT ![k] = e],
             tasks' = [tasks EXCEPT ![s][k] = [kind |-> kind, entry |-> e]]
      PROVE  SInv'
  <2>1. /\ cache'[k] = e /\ tasks'[s][k] = [kind |-> kind, entry |-> e]
        /\ \A l \in Ids : l # k => cache'[l] = cache[l]
        /\ \A t \in Syncers, l \in Ids : t # s \/ l # k => tasks'[t][l] = tasks[t][l]
    BY <1>4, <1>t
  <2>2. \A c \in Nat : Known(c)' => Known(c) \/ c = 0
    <3> SUFFICES ASSUME NEW c \in Nat, Known(c)', c # 0 PROVE Known(c)
      OBVIOUS
    <3>1. CASE c = e.cronId
      BY <1>4, <3>1 DEF Known
    <3>2. CASE c # e.cronId
      <4>1. CASE \E l \in Ids : cache'[l] # None /\ cache'[l].cronId = c
        BY <2>1, <3>2, <4>1 DEF Known
      <4>2. CASE \E t \in Syncers, l \in Ids : tasks'[t][l] # None /\ tasks'[t][l].entry.cronId = c
        <5>1. PICK t \in Syncers, l \in Ids : tasks'[t][l] # None /\ tasks'[t][l].entry.cronId = c
          BY <4>2
        <5>2. tasks'[t][l] = tasks[t][l]
          BY <2>1, <3>2, <5>1
        <5> QED
          BY <5>1, <5>2 DEF Known
      <4>3. CASE hstep' \notin {"idle", "add_store"} /\ hentry'.cronId = c
        BY <1>1, <4>3 DEF Known
      <4> QED
        BY <4>1, <4>2, <4>3 DEF Known
    <3> QED
      BY <3>1, <3>2
  <2>3. WInv'
    BY <1>1, <2>2, WrittenKept
  <2>4. ASSUME NEW l \in Ids, l # k PROVE Supported(l)'
    BY <1>1, <2>1, <2>4, OthersSupported DEF handlerVars
  <2>5. Supported(k)'
    <3>1. tasks'[s][k] # None
      BY <2>1, NoTaskAssumption DEF Task, Kinds
    <3> QED
      BY <2>1, <3>1 DEF Supported, TaskPending
  <2> QED
    BY <2>3, <2>4, <2>5
<1> QED
  BY <1>2, <1>3, <1>4

LEMMA SyncPruneScheduled ==
  ASSUME SInv, OInv', NEW s \in Syncers, SyncPrune(s)
  PROVE  SInv'
<1> USE DEF SInv
<1>t. /\ cache \in [Ids -> Entry \cup {None}] /\ tasks \in [Syncers -> [Ids -> Task \cup {None}]]
  BY DEF OInv, TInv, SyncTypeOK
<1>1. UNCHANGED <<cron, nextId, storing, hstep, hid, hentry>>
  BY DEF SyncPrune, NotSync, handlerVars, cronVars
<1>2. \A l \in Ids : \/ cache'[l] = None
                     \/ cache'[l] = cache[l] /\ \A t \in Syncers : tasks'[t][l] = tasks[t][l]
  BY <1>t DEF SyncPrune
<1>3. \A t \in Syncers, l \in Ids : \/ tasks'[t][l] = tasks[t][l]
                                    \/ cache[l] # None /\ tasks'[t][l].entry = cache[l]
  BY <1>t DEF SyncPrune
<1>4. \A c \in Nat : Known(c)' => Known(c)
  BY <1>1, <1>2, <1>3 DEF Known
<1>5. WInv'
  BY <1>1, <1>4, WrittenKept
<1>6. ASSUME NEW l \in Ids PROVE Supported(l)'
  <2>1. CASE cache'[l] = None
    BY <2>1 DEF Supported
  <2>2. CASE cache'[l] = cache[l] /\ \A t \in Syncers : tasks'[t][l] = tasks[t][l]
    BY <1>1, <2>2, OthersSupported DEF handlerVars
  <2> QED
    BY <1>2, <2>1, <2>2
<1> QED
  BY <1>5, <1>6
-----------------------------------------------------------------------------
(* fullSync schedules what it has found and removed. *)
LEMMA AddedJob ==
  ASSUME OInv, NEW k \in Ids, NEW e \in Entry, e.interval \notin Unparsable,
         NEW table \in SUBSET cron, AddJob(k, e.interval, table)
  PROVE  /\ ScheduledAs(e) \in Entry /\ ScheduledAs(e).cronId = nextId + 1
         /\ ScheduledAs(e).interval = e.interval
         /\ table \subseteq cron'
         /\ \E j \in cron' : j.cronId = nextId + 1 /\ j.id = k /\ j.interval = e.interval
<1>1. nextId \in Nat
  BY DEF OInv, TInv, SyncTypeOK
<1>2. ScheduledAs(e) \in Entry /\ ScheduledAs(e).cronId = nextId + 1
      /\ ScheduledAs(e).interval = e.interval
  BY <1>1 DEF ScheduledAs, Entry
<1> DEFINE new == [cronId |-> nextId + 1, id |-> k, interval |-> e.interval]
<1>3. cron' = table \cup {new} /\ new.cronId = nextId + 1 /\ new.id = k /\ new.interval = e.interval
  BY DEF AddJob
<1> HIDE DEF new
<1> QED
  BY <1>2, <1>3

LEMMA TurnScheduled ==
  ASSUME SInv, OInv', NEW s \in Syncers, NEW k \in Ids,
         SyncAdded(s, k) \/ SyncRemoved(s, k) \/ SyncUpdated(s, k)
  PROVE  SInv'
<1> DEFINE task == tasks[s][k]
           e == task.entry
<1> USE DEF SInv
<1>t. /\ cache \in [Ids -> Entry \cup {None}] /\ tasks \in [Syncers -> [Ids -> Task \cup {None}]]
      /\ storing \in [Syncers -> CacheWrite \cup {None}]
  BY DEF OInv, TInv, SyncTypeOK
<1>1. /\ UNCHANGED <<cache, hstep, hid, hentry>>
      /\ storing[s] = None /\ task # None
      /\ tasks' = [tasks EXCEPT ![s][k] = None]
  BY DEF SyncAdded, SyncRemoved, SyncUpdated, Turn, NotSync, handlerVars
<1>2. task \in Task /\ e \in Entry
  BY <1>t, <1>1 DEF Task
<1>3. \A t \in Syncers, l \in Ids : tasks'[t][l] = IF t = s /\ l = k THEN None ELSE tasks[t][l]
  BY <1>t, <1>1
<1>4. \A c \in Nat : Known(c)' => Known(c)
  BY <1>1, <1>3 DEF Known
<1>5. e.cronId \in Nat /\ Known(e.cronId) /\ Owns(k, e)
  BY <1>1, <1>2, OwnJobs DEF Known, Entry
\* What the turn does to the table, and what it prepares to write.
<1>6. \/ /\ e.interval \notin Unparsable /\ task.kind # "removed"
         /\ \E table \in {cron, Without(e.cronId)} : AddJob(k, e.interval, table)
         /\ storing' = [storing EXCEPT ![s] = [id |-> k, entry |-> ScheduledAs(e)]]
      \/ /\ task.kind = "removed"
         /\ cron' = Without(e.cronId)
         /\ storing' = [storing EXCEPT ![s] = [id |-> k, entry |-> None]]
      \/ /\ e.interval \in Unparsable /\ task.kind = "added"
         /\ cron' = cron /\ storing' = storing
      \/ /\ e.interval \in Unparsable /\ task.kind = "updated"
         /\ cron' = Without(e.cronId) /\ storing' = storing
  <2>1. CASE SyncAdded(s, k)
    BY <2>1 DEF SyncAdded, Turn, AddSyncJobFor, AddJob, StoreIf
  <2>2. CASE SyncRemoved(s, k)
    BY <2>2 DEF SyncRemoved, Turn, RemoveJobFor, StoreIf
  <2>3. CASE SyncUpdated(s, k)
    BY <2>3 DEF SyncUpdated, Turn, UpdateSyncJobFor, AddJob, StoreIf
  <2> QED
    BY <2>1, <2>2, <2>3
<1>7. \A j \in cron : j \in cron' \/ j.cronId = e.cronId
  BY <1>6 DEF AddJob, Without
<1>8. ASSUME NEW l \in Ids, l # k PROVE Supported(l)'
  <2>1. \A j \in cron : j.id = l => j \in cron'
    BY <1>5, <1>7, <1>8 DEF Owns
  <2>2. \A t \in Syncers : storing[t] # None => storing'[t] = storing[t]
    BY <1>t, <1>1, <1>6
  <2>3. \A t \in Syncers : tasks'[t][l] = tasks[t][l]
    BY <1>3, <1>8
  <2> QED
    BY <1>1, <2>1, <2>2, <2>3, OthersSupported DEF handlerVars
<1>9. ASSUME \/ storing' = [storing EXCEPT ![s] = [id |-> k, entry |-> ScheduledAs(e)]]
             \/ storing' = [storing EXCEPT ![s] = [id |-> k, entry |-> None]]
      PROVE  Supported(k)'
  <2>1. storing'[s] \in CacheWrite /\ storing'[s].id = k
    <3>1. storing'[s] # None
      <4>1. storing' \in [Syncers -> CacheWrite \cup {None}]
        BY DEF OInv, TInv, SyncTypeOK
      <4>2. ScheduledAs(e) \in Entry
        BY <1>2, ScheduledTyped DEF OInv, TInv, SyncTypeOK
      <4>3. \A x \in Entry \cup {None} : [id |-> k, entry |-> x] \in CacheWrite
        BY DEF CacheWrite
      <4> QED
        BY <1>9, <1>t, <4>2, <4>3, NoTaskAssumption
    <3> QED
      BY <1>9, <1>t, <3>1 DEF OInv, TInv, SyncTypeOK
  <2> QED
    BY <2>1, NoTaskAssumption DEF Supported, WritePending
<1>10. ASSUME storing' = storing PROVE Supported(k)'
  <2>1. e.interval \in Unparsable /\ task.kind # "removed"
        /\ (cron' = cron \/ (cron' = Without(e.cronId) /\ task.kind = "updated"))
    <3>1. ScheduledAs(e) \in Entry
      BY <1>2, ScheduledTyped DEF OInv, TInv, SyncTypeOK
    <3>2. \A x \in Entry \cup {None} : [id |-> k, entry |-> x] \in CacheWrite
      BY DEF CacheWrite
    <3>3. ~(storing' = [storing EXCEPT ![s] = [id |-> k, entry |-> ScheduledAs(e)]]
            \/ storing' = [storing EXCEPT ![s] = [id |-> k, entry |-> None]])
      BY <1>t, <1>1, <1>10, <3>1, <3>2, NoTaskAssumption
    <3> QED
      BY <1>6, <3>3
  <2>2. SUFFICES ASSUME cache'[k] # None, cache'[k].interval \notin Unparsable
                 PROVE  TaskPending(k)' \/ WritePending(k)' \/ SchedulePending(k)'
                        \/ Lasting(k, cache[k].interval)'
    BY DEF Supported
  <2>3. TaskPending(k) \/ WritePending(k) \/ SchedulePending(k) \/ Lasting(k, cache[k].interval)
    BY <1>1, <2>2 DEF Supported
  <2>4. TaskPending(k) => TaskPending(k)'
    BY <1>3, <2>1 DEF TaskPending
  <2>5. WritePending(k) => WritePending(k)'
    BY <1>1, <1>10 DEF WritePending
  <2>6. SchedulePending(k) => SchedulePending(k)'
    BY <1>1 DEF SchedulePending
  <2>7. ASSUME Lasting(k, cache[k].interval) PROVE Lasting(k, cache[k].interval)'
    <3>1. PICK j \in cron : j.id = k /\ j.interval = cache[k].interval /\ ~Blind(k, j.cronId)
      BY <2>7 DEF Lasting
    <3>2. j \in cron'
      BY <1>1, <1>7, <2>1, <3>1 DEF Blind
    <3>3. ~Blind(k, j.cronId)'
      BY <1>1, <1>3, <3>1 DEF Blind
    <3> QED
      BY <1>1, <3>1, <3>2, <3>3 DEF Lasting
  <2> QED
    BY <2>3, <2>4, <2>5, <2>6, <2>7
<1>11. Supported(k)'
  BY <1>6, <1>9, <1>10
<1>12. WInv'
  <2>1. \A j \in cron : j \in cron' \/ Known(j.cronId)
    BY <1>5, <1>7
  <2>2. ASSUME e.interval \notin Unparsable,
               NEW table \in {cron, Without(e.cronId)}, AddJob(k, e.interval, table),
               storing' = [storing EXCEPT ![s] = [id |-> k, entry |-> ScheduledAs(e)]]
        PROVE  WInv'
    <3> DEFINE new == ScheduledAs(e)
    <3>1. /\ new \in Entry /\ new.cronId = nextId + 1
          /\ \E j \in cron' : j.cronId = new.cronId /\ j.id = k /\ j.interval = new.interval
      BY <1>2, <2>2, AddedJob, WithoutSubset
    <3> HIDE DEF new
    <3>2. storing' = [storing EXCEPT ![s] = [id |-> k, entry |-> new]] /\ UNCHANGED handlerVars
      BY <1>1, <2>2 DEF new, handlerVars
    <3> QED
      BY <1>4, <2>1, <3>1, <3>2, WrittenGrows
  <2>3. CASE storing' = storing
    BY <1>1, <1>4, <2>1, <2>3, WrittenKept
  <2>4. CASE storing' = [storing EXCEPT ![s] = [id |-> k, entry |-> None]]
    <3>1. \A t \in Syncers : storing'[t] = storing[t] \/ ~Writes(t)'
      BY <1>t, <2>4 DEF Writes
    <3> QED
      BY <1>1, <1>4, <2>1, <3>1, WrittenKept
  <2> QED
    BY <1>6, <2>2, <2>3, <2>4
<1> QED
  BY <1>8, <1>11, <1>12

(* fullSync writes an entry it has scheduled, or removes one. *)
LEMMA SyncStoreScheduled ==
  ASSUME SInv, OInv', NEW s \in Syncers, SyncStore(s)
  PROVE  SInv'
<1> USE DEF SInv
<1>t. /\ cache \in [Ids -> Entry \cup {None}] /\ storing \in [Syncers -> CacheWrite \cup {None}]
  BY DEF OInv, TInv, SyncTypeOK
<1>0. storing[s] \in CacheWrite
  BY <1>t DEF SyncStore
<1>2. PICK k \in Ids, e \in Entry \cup {None} : k = storing[s].id /\ e = storing[s].entry
  BY <1>0 DEF CacheWrite
<1>1. /\ UNCHANGED <<cron, nextId, tasks, hstep, hid, hentry>> /\ storing[s] # None
      /\ cache' = [cache EXCEPT ![k] = e] /\ storing' = [storing EXCEPT ![s] = None]
  BY <1>2 DEF SyncStore, NotSync, handlerVars, cronVars
<1>3. /\ cache'[k] = e /\ \A l \in Ids : l # k => cache'[l] = cache[l]
      /\ storing'[s] = None /\ \A t \in Syncers : t # s => storing'[t] = storing[t]
  BY <1>t, <1>1, <1>2
<1>4. ASSUME NEW c \in Nat PROVE Known(c)' => Known(c) \/ ~Written(c)'
  <2>1. CASE Writes(s) /\ e.cronId = c
    <3>1. \A t \in Syncers : Writes(t)' => t # s /\ Writes(t) /\ storing'[t] = storing[t]
      BY <1>3 DEF Writes
    <3>2. \A t \in Syncers : Writes(t)' => storing'[t].entry.cronId # c
      BY <1>2, <2>1, <3>1 DEF WInv, WrittenAreUnknown
    <3>3. hstep' = "add_store" => hentry'.cronId # c
      BY <1>1, <1>2, <2>1 DEF WInv, WrittenAreUnknown
    <3> QED
      BY <3>2, <3>3 DEF Written
  <2>2. CASE ~(Writes(s) /\ e.cronId = c)
    <3>1. \A l \in Ids : cache'[l] # None /\ cache'[l].cronId = c => cache'[l] = cache[l]
      BY <1>1, <1>2, <1>3, <2>2 DEF Writes
    <3> QED
      BY <1>1, <3>1 DEF Known
  <2> QED
    BY <2>1, <2>2
<1>5. WInv'
  <2>1. \A t \in Syncers : storing'[t] = storing[t] \/ ~Writes(t)'
    BY <1>3 DEF Writes
  <2> QED
    BY <1>1, <1>4, <2>1, WrittenKept
<1>6. Supported(k)'
  <2>1. e \in Entry => HasJob(k, e) /\ Written(e.cronId)
    BY <1>1, <1>2, NoneAssumption DEF Writes, Written, WInv, WrittenHaveJobs
  <2> QED
    BY <1>1, <1>2, <1>3, <2>1, WrittenSupported DEF handlerVars
<1>7. ASSUME NEW l \in Ids, l # k PROVE Supported(l)'
  BY <1>1, <1>2, <1>3, <1>7, OthersSupported DEF handlerVars
<1> QED
  BY <1>5, <1>6, <1>7

LEMMA SyncScheduled ==
  ASSUME SInv, OInv', NEW s \in Syncers, Sync(s)
  PROVE  SInv'
<1>1. CASE SyncBegin(s) \/ \E k \in Ids : SyncMiss(s, k)
  BY <1>1, SameScheduled DEF SyncBegin, SyncMiss, NotSync
<1> QED
  BY <1>1, SyncReadScheduled, SyncPruneScheduled, TurnScheduled, SyncStoreScheduled DEF Sync
-----------------------------------------------------------------------------
(* The handler takes an order up: it works on that identity from now on. *)
LEMMA HandleScheduled ==
  ASSUME SInv, OInv', NEW m \in Orders, Handle(m)
  PROVE  SInv'
<1> USE DEF SInv
<1>1. /\ m.id \in Ids /\ hstep = "idle" /\ UNCHANGED <<cache, tasks, storing>>
  BY DEF Handle, HandleUpdateInterval, HandleDelete, HandleAdd, Receive, NotHandler, syncVars, Orders
<1>2. ASSUME \A j \in cron : j \in cron',
             hstep' \in {"update_store", "delete_store", "add_store"}, hid' = m.id
      PROVE  \A l \in Ids : Supported(l)'
  <2>1. ASSUME NEW l \in Ids, l # m.id PROVE Supported(l)'
    BY <1>1, <1>2, <2>1, OthersSupported
  <2>2. Supported(m.id)'
    BY <1>1, <1>2 DEF Supported, WritePending
  <2> QED
    BY <2>1, <2>2
<1>3. CASE HandleUpdateInterval(m) \/ HandleDelete(m)
  <2>1. /\ UNCHANGED <<cron, nextId>>
        /\ \/ UNCHANGED handlerVars
           \/ /\ cache[m.id] # None /\ hid' = m.id /\ hentry'.cronId = cache[m.id].cronId
              /\ hstep' \in {"update_store", "delete_store"}
    <3>1. cache[m.id] # None => cache[m.id] \in Entry
      BY <1>1 DEF OInv, TInv, SyncTypeOK
    <3> QED
      BY <1>3, <3>1 DEF HandleUpdateInterval, HandleDelete, Get, Then, cronVars, Entry
  <2>2. CASE UNCHANGED handlerVars
    BY <1>1, <2>1, <2>2, SameScheduled DEF cronVars
  <2>3. CASE /\ cache[m.id] # None /\ hid' = m.id /\ hentry'.cronId = cache[m.id].cronId
             /\ hstep' \in {"update_store", "delete_store"}
    <3>1. \A c \in Nat : Known(c)' => Known(c)
      BY <1>1, <2>3 DEF Known
    <3>2. WInv'
      BY <1>1, <2>1, <2>3, <3>1, WrittenKept
    <3> QED
      BY <1>2, <2>1, <2>3, <3>2
  <2> QED
    BY <2>1, <2>2, <2>3
<1>4. CASE HandleAdd(m)
  <2> DEFINE i == IF m.param \in OutOfRange \cup {Unset} THEN DefaultInterval ELSE m.param
             e == [cronId |-> 0, interval |-> i]
             new == ScheduledAs(e)
  <2>1. /\ AddJob(m.id, i, cron) /\ hstep' = "add_store" /\ hid' = m.id /\ hentry' = new
    BY <1>4 DEF HandleAdd, AddSyncJobFor, Then
  <2>2. i \in Intervals /\ i \notin Unparsable
    BY IntervalsAssumption DEF Orders
  <2>3. e \in Entry /\ e.interval = i
    BY <2>2 DEF Entry
  <2> HIDE DEF i, e
  <2>4. /\ new \in Entry /\ new.cronId = nextId + 1 /\ cron \subseteq cron'
        /\ \E j \in cron' : j.cronId = new.cronId /\ j.id = m.id /\ j.interval = new.interval
    BY <1>1, <2>1, <2>2, <2>3, AddedJob
  <2> HIDE DEF new
  <2>5. \A c \in Nat : Known(c)' => Known(c)
    BY <1>1, <2>1 DEF Known
  <2>6. WInv'
    BY <1>1, <2>1, <2>4, <2>5, WrittenGrows
  <2> QED
    BY <1>2, <2>1, <2>4, <2>6
<1> QED
  BY <1>3, <1>4 DEF Handle

(* It writes its entry and then schedules it, or the other way round. *)
LEMMA HandlerStepScheduled ==
  ASSUME SInv, OInv', HandlerStep
  PROVE  SInv'
<1> USE DEF SInv
<1>t. /\ cache \in [Ids -> Entry \cup {None}] /\ cron \subseteq Job /\ nextId \in Nat
      /\ hstep # "idle" /\ hid \in Ids /\ hentry \in Entry
  BY DEF OInv, TInv, SyncTypeOK, HandlerTypeOK, HandlerStep, UpdateStore, UpdateSchedule,
     DeleteStore, DeleteSchedule, AddStore
<1>k. PICK k \in Ids : k = hid
  BY <1>t
<1>1. /\ UNCHANGED <<tasks, storing>>
      /\ hstep' # "idle" => hid' = hid /\ hentry' = hentry
      /\ hentry.cronId \in Nat
      /\ Owns(hid, hentry)
  BY <1>t, OwnJobs DEF HandlerStep, UpdateStore, UpdateSchedule, DeleteStore, DeleteSchedule, AddStore,
     Then, Done, NotHandler, syncVars, Entry
<1>2. ASSUME NEW l \in Ids, l # k, cache'[l] = cache[l], \A j \in cron : j \in cron' \/ j.cronId = hentry.cronId
      PROVE  Supported(l)'
  <2>1. \A j \in cron : j.id = l => j \in cron'
    BY <1>1, <1>2, <1>k DEF Owns
  <2> QED
    BY <1>1, <1>2, <1>k, <2>1, OthersSupported
<1>3. CASE UpdateStore
  <2>1. /\ cache' = [cache EXCEPT ![k] = hentry] /\ UNCHANGED <<cron, nextId, hid, hentry>>
        /\ hstep = "update_store" /\ hstep' = "update_schedule"
    BY <1>3, <1>k DEF UpdateStore, Then, cronVars
  <2>2. \A c \in Nat : Known(c)' => Known(c)
    BY <1>t, <1>1, <2>1 DEF Known
  <2>3. WInv'
    BY <1>1, <2>1, <2>2, WrittenKept
  <2>4. Supported(k)'
    BY <1>t, <1>k, <2>1 DEF Supported, SchedulePending
  <2> QED
    BY <1>t, <1>2, <2>1, <2>3, <2>4
<1>4. CASE DeleteStore
  <2>1. /\ cache' = [cache EXCEPT ![k] = None] /\ UNCHANGED <<cron, nextId, hid, hentry>>
        /\ hstep = "delete_store" /\ hstep' = "delete_schedule"
    BY <1>4, <1>k DEF DeleteStore, Then, cronVars
  <2>2. \A c \in Nat : Known(c)' => Known(c)
    BY <1>t, <1>1, <2>1 DEF Known
  <2>3. WInv'
    BY <1>1, <2>1, <2>2, WrittenKept
  <2>4. Supported(k)'
    BY <1>t, <2>1 DEF Supported
  <2> QED
    BY <1>t, <1>2, <2>1, <2>3, <2>4
<1>5. CASE AddStore
  <2>1. /\ cache' = [cache EXCEPT ![k] = hentry] /\ UNCHANGED <<cron, nextId>>
        /\ hstep = "add_store" /\ hstep' = "idle"
    BY <1>5, <1>k DEF AddStore, Done, Then, cronVars
  <2>2. \A c \in Nat : Known(c)' => Known(c) \/ c = hentry.cronId
    BY <1>t, <1>1, <2>1 DEF Known
  <2>3. \A c \in Nat : c = hentry.cronId => ~Written(c)'
    BY <1>1, <2>1 DEF WInv, WrittenAreUnknown, Written, Writes
  <2>4. WInv'
    BY <1>1, <2>1, <2>2, <2>3, WrittenKept
  <2>5. HasJob(k, hentry) /\ Written(hentry.cronId)
    BY <1>k, <2>1 DEF WInv, WrittenHaveJobs, Written
  <2>6. Supported(k)'
    <3>1. cache'[k] = hentry
      BY <1>t, <2>1
    <3> QED
      BY <1>t, <1>1, <2>1, <2>5, <3>1, WrittenSupported
  <2> QED
    BY <1>t, <1>2, <2>1, <2>4, <2>6
<1>6. ASSUME UpdateSchedule \/ DeleteSchedule
      PROVE  /\ UNCHANGED cache /\ hstep' = "idle"
             /\ hstep \in {"update_schedule", "delete_schedule"}
             /\ \A j \in cron : j \in cron' \/ j.cronId = hentry.cronId
             /\ WInv'
             /\ \A l \in Ids \ {k} : Supported(l)'
  <2>1. /\ UNCHANGED cache /\ hstep' = "idle" /\ hstep \in {"update_schedule", "delete_schedule"}
    BY <1>6 DEF UpdateSchedule, DeleteSchedule, Done, Then
  <2>2. \A j \in cron : j \in cron' \/ j.cronId = hentry.cronId
    BY <1>6 DEF UpdateSchedule, DeleteSchedule, UpdateSyncJobFor, RemoveJobFor, AddJob, Without
  <2>3. Known(hentry.cronId)
    BY <2>1 DEF Known
  <2>4. \A c \in Nat : Known(c)' => Known(c)
    BY <1>1, <2>1 DEF Known
  <2>5. WInv'
    BY <1>1, <2>1, <2>2, <2>3, <2>4, WrittenKept
  <2> QED
    BY <1>2, <2>1, <2>2, <2>5
\* The job that is removed was not the one that lasts.
<1>7. ASSUME UpdateSchedule \/ DeleteSchedule,
             cache[k] # None, cache[k].interval \notin Unparsable, ~SchedulePending(k)
      PROVE  TaskPending(k) \/ (\E t \in Syncers : storing[t] # None /\ storing[t].id = k)
             \/ \E j \in cron' : /\ j.id = k /\ j.interval = cache[k].interval
                                 /\ ~Blind(k, j.cronId)
  <2>1. TaskPending(k) \/ WritePending(k) \/ Lasting(k, cache[k].interval)
    BY <1>7 DEF Supported
  <2>2. WritePending(k) => \E t \in Syncers : storing[t] # None /\ storing[t].id = k
    BY <1>6, <1>7 DEF WritePending
  <2>3. ASSUME Lasting(k, cache[k].interval)
        PROVE  \E j \in cron' : /\ j.id = k /\ j.interval = cache[k].interval
                                /\ ~Blind(k, j.cronId)
    <3>1. PICK j \in cron : j.id = k /\ j.interval = cache[k].interval /\ ~Blind(k, j.cronId)
      BY <2>3 DEF Lasting
    <3>2. j.cronId # hentry.cronId
      BY <1>k, <1>6, <1>7, <3>1 DEF Blind
    <3> QED
      BY <1>6, <1>7, <3>1, <3>2
  <2> QED
    BY <2>1, <2>2, <2>3
<1>8. \A c \in Nat : UpdateSchedule \/ DeleteSchedule => (Blind(k, c)' => Blind(k, c))
  BY <1>1, <1>6 DEF Blind
<1>9. CASE UpdateSchedule \/ DeleteSchedule
  <2>1. ASSUME cache'[k] # None, cache'[k].interval \notin Unparsable
        PROVE  TaskPending(k)' \/ WritePending(k)' \/ Lasting(k, cache[k].interval)'
    <3>1. CASE SchedulePending(k)
      <4>1. UpdateSchedule /\ hentry.interval = cache[k].interval
        BY <1>9, <3>1 DEF SchedulePending, DeleteSchedule
      <4>n. PICK n \in Nat : n = nextId + 1
        BY <1>t
      <4>2. \E j \in cron' : j.cronId = n /\ j.id = k /\ j.interval = hentry.interval
        BY <4>n, <1>t, <1>k, <1>6, <2>1, <4>1, AddedJob, WithoutSubset DEF UpdateSchedule, UpdateSyncJobFor
      <4>3. ~Blind(k, n)'
        <5>1. Blind(k, n) => Known(n)
          BY DEF Blind, Known
        <5>2. ~Known(n)
          BY <1>t, <4>n, IdsGiven
        <5> QED
          BY <1>t, <1>8, <1>9, <5>1, <5>2
      <4> QED
        BY <1>6, <4>1, <4>2, <4>3 DEF Lasting
    <3>2. CASE ~SchedulePending(k)
      <4>1. CASE TaskPending(k)
        BY <1>1, <4>1 DEF TaskPending
      <4>2. CASE \E t \in Syncers : storing[t] # None /\ storing[t].id = k
        BY <1>1, <4>2 DEF WritePending
      <4>3. CASE \E j \in cron' : /\ j.id = k /\ j.interval = cache[k].interval
                                  /\ ~Blind(k, j.cronId)
        <5>1. PICK j \in cron' : /\ j.id = k /\ j.interval = cache[k].interval
                                 /\ ~Blind(k, j.cronId)
          BY <4>3
        <5>2. j.cronId \in Nat
          BY DEF OInv, TInv, SyncTypeOK, Job
        <5>3. ~Blind(k, j.cronId)'
          BY <1>8, <1>9, <5>1, <5>2
        <5> QED
          BY <1>6, <1>9, <5>1, <5>3 DEF Lasting
      <4> QED
        BY <1>6, <1>7, <1>9, <2>1, <3>2, <4>1, <4>2, <4>3
    <3> QED
      BY <3>1, <3>2
  <2>2. Supported(k)'
    BY <2>1 DEF Supported
  <2> QED
    BY <1>6, <1>9, <2>2
<1> QED
  BY <1>3, <1>4, <1>5, <1>9 DEF HandlerStep
-----------------------------------------------------------------------------
(* Nothing is cached while the process is not running. *)
LEMMA RestartScheduled ==
  ASSUME SInv, OInv', InitPoller \/ Crash
  PROVE  SInv'
<1> USE DEF SInv
<1>1. /\ cache' = [k \in Ids |-> None] /\ tasks' = [s \in Syncers |-> NoTasks]
      /\ storing' = [s \in Syncers |-> None] /\ hstep' = "idle"
  BY DEF InitPoller, Crash, Done, Then, OInv, Quiet, Running, NotProcess, handlerVars
<1>2. \A c \in Nat : ~Written(c)'
  BY <1>1 DEF Written, Writes
<1>3. WInv'
  BY <1>1, <1>2 DEF WInv, WrittenHaveJobs, WrittenAreUnknown, Writes
<1>4. \A l \in Ids : Supported(l)'
  BY <1>1 DEF Supported
<1> QED
  BY <1>3, <1>4

LEMMA ScheduledStep == SInv /\ [Next]_vars => SInv'
<1> SUFFICES ASSUME SInv, [Next]_vars PROVE SInv'
  OBVIOUS
<1>1. OInv'
  BY NextOInv DEF SInv
<1>2. CASE Database
  BY <1>1, <1>2, SameScheduled DEF Database, CreateUserIdentity, PatchUserIdentity,
     DeleteUserIdentity, ThrottleRemoteIdentity, DisableRemoteIdentity, NotDb, syncVars
<1>3. ASSUME NEW m \in Orders, LoseOrder(m) \/ CrashOnEarlyOrder(m) PROVE SInv'
  BY <1>1, <1>3, SameScheduled DEF LoseOrder, CrashOnEarlyOrder, NotDb, NotProcess, syncVars
<1>4. ASSUME NEW m \in Orders, Handle(m) PROVE SInv'
  BY <1>1, <1>4, HandleScheduled
<1>5. ASSUME NEW s \in Syncers, Sync(s) PROVE SInv'
  BY <1>1, <1>5, SyncScheduled
<1>6. CASE HandlerStep
  BY <1>1, <1>6, HandlerStepScheduled
<1>7. CASE Subscribe \/ StartCron
  BY <1>1, <1>7, SameScheduled DEF Subscribe, StartCron, NotProcess
<1>8. CASE InitPoller \/ Crash
  BY <1>1, <1>8, RestartScheduled
<1>9. CASE UNCHANGED vars
  BY <1>1, <1>9, SameScheduled DEF vars, syncVars
<1> QED
  BY <1>2, <1>3, <1>4, <1>5, <1>6, <1>7, <1>8, <1>9 DEF Next, Process

(***************************************************************************)
(* An identity that is cached and that nobody is working on has a job at   *)
(* the cached interval, whatever fullSyncs and orders overlap, unless cron *)
(* rejects that interval (fullSync never looks at the cron table).         *)
(***************************************************************************)
THEOREM ScheduledCorrect == Spec => []CachedIsScheduled
<1>1. Init => SInv
  <2> SUFFICES ASSUME Init PROVE SInv
    OBVIOUS
  <2>1. OInv
    BY InitOInv
  <2>2. WInv
    BY DEF Init, WInv, WrittenHaveJobs, WrittenAreUnknown, Writes, Written
  <2>3. \A k \in Ids : Supported(k)
    BY DEF Init, Supported
  <2> QED
    BY <2>1, <2>2, <2>3 DEF SInv
<1> QED
  BY <1>1, ScheduledStep, ScheduledFollows, PTL DEF Spec
=============================================================================

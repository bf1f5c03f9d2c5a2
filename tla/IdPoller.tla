------------------------------ MODULE IdPoller ------------------------------
(***************************************************************************)
(* The idpoller (backend/workers/go.remoteIDs): which remote identities it *)
(* keeps polling, and how its cache and its cron table follow the database.*)
(*                                                                         *)
(* Three actors change the cache and the cron table concurrently:          *)
(*   - fullSync, run once at start and then by the cron entry 1: under the *)
(*     cache mutex it reads every identity of the database and computes    *)
(*     what was added, updated and removed; without the mutex it then      *)
(*     reschedules these identities one by one;                            *)
(*   - natsIdentitiesHandler, which handles the orders "add", "delete" and *)
(*     "update_interval" one after the other;                              *)
(*   - a crash, which empties both.                                        *)
(* The REST API and the protocol workers write the database and publish    *)
(* the orders.  Core NATS loses orders and does not order those of         *)
(* different publishers, hence the set of orders in flight.                *)
(***************************************************************************)
EXTENDS Naturals

CONSTANTS
    Ids,              \* remote identities; a deleted one never comes back
    Pollable,         \* those whose protocol is one of the poller's RemoteProtocols
    Intervals,        \* values of Infos["pollinterval"]
    Unparsable,       \* those cron.Parse rejects in "@every <interval>m"
    OutOfRange,       \* those that are no number in 1 .. 3*24*60 - 1
    DefaultInterval,  \* "15"
    RateLimited,      \* "10", the twitter worker's defaultPollInterval
    Zero,             \* "0"
    Unset,            \* Infos has no poll interval
    FullSync,         \* the job of the cron entry that runs fullSync
    Syncers,          \* the goroutines that may run fullSync
    Nobody,           \* the holder of a free mutex
    None,             \* no entry
    MaxOps,           \* bound: changes of the database
    MaxFailures       \* bound: failed reads of an identity, and crashes of the poller

ASSUME IdsAssumption == Pollable \subseteq Ids /\ None \notin Ids /\ FullSync \notin Ids
ASSUME IntervalsAssumption ==
    /\ Unparsable \subseteq OutOfRange
    /\ OutOfRange \subseteq Intervals
    /\ {DefaultInterval, RateLimited} \subseteq Intervals \ OutOfRange
    /\ Zero \in OutOfRange \ Unparsable
    /\ Unset \notin Intervals
ASSUME SyncersAssumption == Nobody \notin Syncers
ASSUME BoundsAssumption == MaxOps \in Nat /\ MaxFailures \in Nat

\* A cacheEntry; cronId is 0, Go's zero value, until a job is scheduled for it.
Entry == [cronId : Nat, interval : Intervals]
ASSUME NoneAssumption == None \notin Entry

\* A cron entry.
Job == [cronId : Nat, id : Ids \cup {FullSync}, interval : Intervals]

Orders == [order : {"add", "update_interval", "delete"}, id : Ids, param : Intervals \cup {Unset}]
Kinds == {"added", "removed", "updated"}
Task == [kind : Kinds, entry : Entry]
CacheWrite == [id : Ids, entry : Entry \cup {None}]
ASSUME NoTaskAssumption == None \notin Task \cup CacheWrite

VARIABLES
    status,    \* database: Ids -> "absent", "active", "inactive" or "deleted"
    interval,  \* database: Ids -> Infos["pollinterval"]
    orders,    \* orders in flight on the id_cache topic
    phase,     \* "down", "subscribed" (NATS only), "ready", "starting" (first fullSync), "up"
    cache,     \* dbh.cache: Ids -> entry or None
    mutex,     \* who holds dbh.cacheMux across steps: a syncer, or Nobody
    cron,      \* the entries of MainCron
    nextId,    \* the id MainCron gave last
    toRead,    \* identities the running SyncCache has still to read
    active,    \* identities it has found active
    tasks,     \* syncer -> Ids -> what fullSync has still to reschedule
    storing,   \* syncer -> the write to the cache it does next, or None
    hstep,     \* what natsIdentitiesHandler does next
    hid,       \* the identity of the order it handles
    hentry,    \* its local entry
    ops, failures  \* counters of the bounds

dbVars == <<status, interval>>
cronVars == <<cron, nextId>>
syncVars == <<mutex, toRead, active, tasks, storing>>
handlerVars == <<hstep, hid, hentry>>
bounds == <<ops, failures>>
vars == <<dbVars, orders, phase, cache, cronVars, syncVars, handlerVars, bounds>>

NoTasks == [k \in Ids |-> None]
Idle(s) == mutex # s /\ tasks[s] = NoTasks /\ storing[s] = None
Running == phase \in {"ready", "starting", "up"}
MutexFree == mutex = Nobody

\* The poller starts beside a database that is already in use.
Init ==
    /\ status \in [Ids -> {"absent", "active", "inactive"}]
    /\ interval \in [Ids -> Intervals \cup {Unset}]
    /\ \A k \in Ids : status[k] = "absent" => interval[k] = Unset
    /\ orders = {}
    /\ phase = "down"
    /\ cache = [k \in Ids |-> None]
    /\ mutex = Nobody
    /\ cron = {}
    /\ nextId = 0
    /\ toRead = {}
    /\ active = {}
    /\ tasks = [s \in Syncers |-> NoTasks]
    /\ storing = [s \in Syncers |-> None]
    /\ hstep = "idle"
    /\ hid = None
    /\ hentry = None
    /\ ops = 0
    /\ failures = 0
-----------------------------------------------------------------------------
(***************************************************************************)
(* The database and the publishers of orders.                              *)
(***************************************************************************)
Publish(o, k, p) == orders' = orders \cup {[order |-> o, id |-> k, param |-> p]}

DbStep == ops < MaxOps /\ ops' = ops + 1
NotDb == <<phase, cache, cronVars, syncVars, handlerVars, failures>>

CreateUserIdentity(k, i) ==
    /\ DbStep
    /\ status[k] = "absent"
    /\ status' = [status EXCEPT ![k] = "active"]
    /\ interval' = [interval EXCEPT ![k] = i]
    /\ Publish("add", k, i)
    /\ UNCHANGED NotDb

\* The user changes the status or the infos of an identity: no order is published.
PatchUserIdentity(k, st, i) ==
    /\ DbStep
    /\ status[k] \in {"active", "inactive"}
    /\ status' = [status EXCEPT ![k] = st]
    /\ interval' = [interval EXCEPT ![k] = i]
    /\ UNCHANGED <<orders, NotDb>>

DeleteUserIdentity(k) ==
    /\ DbStep
    /\ status[k] \in {"active", "inactive"}
    /\ status' = [status EXCEPT ![k] = "deleted"]
    /\ Publish("delete", k, Unset)
    /\ UNCHANGED <<interval, NotDb>>

\* A twitter worker that meets a rate limit: new interval in the database, then the order,
\* even if the database refuses the interval.  Where there is one already, the worker works
\* on a variable that shadows the one it writes, which stays 0.
ThrottleRemoteIdentity(k) ==
    LET new == IF interval[k] = Unset THEN RateLimited ELSE Zero IN
    /\ DbStep
    /\ status[k] \in {"active", "inactive"}
    /\ interval' \in {interval, [interval EXCEPT ![k] = new]}
    /\ Publish("update_interval", k, new)
    /\ UNCHANGED <<status, NotDb>>

\* A worker whose connections failed for too long (saveErrorState, handleFetchFailure).
DisableRemoteIdentity(k) ==
    /\ DbStep
    /\ status[k] \in {"active", "inactive"}
    /\ status' = [status EXCEPT ![k] = "inactive"]
    /\ Publish("delete", k, Unset)
    /\ UNCHANGED <<interval, NotDb>>

LoseOrder(m) ==
    /\ m \in orders
    /\ orders' = orders \ {m}
    /\ UNCHANGED <<dbVars, NotDb, ops>>
-----------------------------------------------------------------------------
(***************************************************************************)
(* The cron table: a library, whose calls are atomic.  AddJob numbers its  *)
(* entries from 1; Remove of an id that is not in the table does nothing.  *)
(***************************************************************************)
Without(c) == {j \in cron : j.cronId # c}

\* AddSyncJobFor on this table; with an interval cron rejects, nothing is added.
AddJob(k, i, table) ==
    IF i \in Unparsable
    THEN cron' = table /\ UNCHANGED nextId
    ELSE /\ nextId' = nextId + 1
         /\ cron' = table \cup {[cronId |-> nextId + 1, id |-> k, interval |-> i]}

AddSyncJobFor(k, i) == AddJob(k, i, cron)
RemoveJobFor(e) == cron' = Without(e.cronId) /\ UNCHANGED nextId

\* Mutant of UpdateSyncJobFor: the job is added only if it was in the table.
UpdateOnlyIfScheduled(k, e) ==
    IF Without(e.cronId) = cron
    THEN UNCHANGED cronVars
    ELSE AddJob(k, e.interval, Without(e.cronId))

\* Remove, then add: no other actor depends on the table between the two calls.
UpdateSyncJobFor(k, e) == AddJob(k, e.interval, Without(e.cronId))

\* Mutant of ScheduledAs: the id that was given before this one.
ScheduledAsPrevious(e) == [e EXCEPT !.cronId = nextId]

\* The entry that is returned when the job could be added.
ScheduledAs(e) == [e EXCEPT !.cronId = nextId + 1]
-----------------------------------------------------------------------------
(***************************************************************************)
(* fullSync.                                                               *)
(***************************************************************************)
NotSync == <<dbVars, orders, handlerVars, ops>>

Effective(i) == IF i = Unset THEN DefaultInterval ELSE i
StatusTypeOK(k) == status[k] = "active" /\ k \in Pollable

\* Started by Poller.Start, and from then on by the cron table.
SyncBegin(s) ==
    /\ \/ phase = "ready" /\ phase' = "starting"
       \/ phase = "up" /\ (\E j \in cron : j.id = FullSync) /\ UNCHANGED phase
    /\ Idle(s)
    /\ MutexFree
    /\ mutex' = s
    /\ toRead' = Ids
    /\ active' = {}
    /\ UNCHANGED <<NotSync, cache, cronVars, tasks, storing, failures>>

\* Mutant of SyncRead: the poll interval of an identity already cached is not compared.
SyncReadIgnoringInterval(s, k) ==
    /\ mutex = s
    /\ k \in toRead
    /\ toRead' = toRead \ {k}
    /\ IF StatusTypeOK(k)
       THEN /\ active' = active \cup {k}
            /\ IF cache[k] = None
               THEN LET e == [cronId |-> 0, interval |-> Effective(interval[k])] IN
                    /\ cache' = [cache EXCEPT ![k] = e]
                    /\ tasks' = [tasks EXCEPT ![s][k] = [kind |-> "added", entry |-> e]]
               ELSE UNCHANGED <<cache, tasks>>
       ELSE UNCHANGED <<active, cache, tasks>>
    /\ UNCHANGED <<NotSync, phase, cronVars, mutex, storing, failures>>

\* One turn of the loop over the identities of the database, each read when its turn comes.
SyncRead(s, k) ==
    /\ mutex = s
    /\ k \in toRead
    /\ toRead' = toRead \ {k}
    /\ LET found(kind, entry) ==
               /\ cache' = [cache EXCEPT ![k] = entry]
               /\ tasks' = [tasks EXCEPT ![s][k] = [kind |-> kind, entry |-> entry]]
           i == Effective(interval[k])
       IN IF StatusTypeOK(k)
          THEN /\ active' = active \cup {k}
               /\ \/ /\ cache[k] = None
                     /\ found("added", [cronId |-> 0, interval |-> i])
                  \/ /\ cache[k] # None
                     /\ cache[k].interval # i
                     /\ found("updated", [cache[k] EXCEPT !.interval = i])
                  \/ /\ cache[k] # None
                     /\ cache[k].interval = i
                     /\ UNCHANGED <<cache, tasks>>
          ELSE UNCHANGED <<active, cache, tasks>>
    /\ UNCHANGED <<NotSync, phase, cronVars, mutex, storing, failures>>

\* The read fails or times out, and RetrieveAllRemotes skips the identity.
SyncMiss(s, k) ==
    /\ failures < MaxFailures
    /\ failures' = failures + 1
    /\ mutex = s
    /\ k \in toRead
    /\ StatusTypeOK(k)
    /\ toRead' = toRead \ {k}
    /\ UNCHANGED <<NotSync, phase, cache, cronVars, mutex, active, tasks, storing>>

\* Mutant of SyncPrune: the cache is left as it is; nothing is removed.
SyncWithoutPrune(s) ==
    /\ mutex = s
    /\ toRead = {}
    /\ mutex' = Nobody
    /\ active' = {}
    /\ UNCHANGED <<NotSync, phase, cache, cronVars, toRead, tasks, storing, failures>>

\* The end of SyncCache: what is cached and was not found active is removed.
SyncPrune(s) ==
    /\ mutex = s
    /\ toRead = {}
    /\ mutex' = Nobody
    /\ active' = {}
    /\ LET gone == {k \in Ids \ active : cache[k] # None} IN
       /\ cache' = [k \in Ids |-> IF k \in gone THEN None ELSE cache[k]]
       /\ tasks' = [tasks EXCEPT ![s] =
                       [k \in Ids |-> IF k \in gone
                                      THEN [kind |-> "removed", entry |-> cache[k]]
                                      ELSE @[k]]]
    /\ UNCHANGED <<NotSync, phase, cronVars, toRead, storing, failures>>

\* fullSync reschedules all that was added, then all that was removed, then the rest.
Before(kind) == CASE kind = "added" -> {}
                  [] kind = "removed" -> {"added"}
                  [] kind = "updated" -> {"added", "removed"}

Turn(s, k, kind) ==
    /\ mutex # s
    /\ storing[s] = None
    /\ tasks[s][k] # None
    /\ tasks[s][k].kind = kind
    /\ \A j \in Ids : tasks[s][j] # None => tasks[s][j].kind \notin Before(kind)
    /\ tasks' = [tasks EXCEPT ![s][k] = None]
    /\ UNCHANGED <<NotSync, phase, cache, mutex, toRead, active, failures>>

StoreIf(b, s, k, entry) ==
    storing' = IF b THEN [storing EXCEPT ![s] = [id |-> k, entry |-> entry]] ELSE storing

SyncAdded(s, k) ==
    LET e == tasks[s][k].entry IN
    /\ Turn(s, k, "added")
    /\ AddSyncJobFor(k, e.interval)
    /\ StoreIf(e.interval \notin Unparsable, s, k, ScheduledAs(e))

SyncRemoved(s, k) ==
    /\ Turn(s, k, "removed")
    /\ RemoveJobFor(tasks[s][k].entry)
    /\ StoreIf(TRUE, s, k, None)

SyncUpdated(s, k) ==
    LET e == tasks[s][k].entry IN
    /\ Turn(s, k, "updated")
    /\ UpdateSyncJobFor(k, e)
    /\ StoreIf(e.interval \notin Unparsable, s, k, ScheduledAs(e))

\* UpdateCacheEntry or RemoveCacheEntry.
SyncStore(s) ==
    /\ storing[s] # None
    /\ MutexFree
    /\ cache' = [cache EXCEPT ![storing[s].id] = storing[s].entry]
    /\ storing' = [storing EXCEPT ![s] = None]
    /\ UNCHANGED <<NotSync, phase, cronVars, mutex, toRead, active, tasks, failures>>
-----------------------------------------------------------------------------
(***************************************************************************)
(* natsIdentitiesHandler.                                                  *)
(***************************************************************************)
NotHandler == <<dbVars, phase, syncVars, bounds>>

Receive(m, order) ==
    /\ Running
    /\ hstep = "idle"
    /\ m \in orders
    /\ m.order = order
    /\ orders' = orders \ {m}
    /\ UNCHANGED NotHandler

Then(step, k, entry) == hstep' = step /\ hid' = k /\ hentry' = entry
Done == Then("idle", None, None)

\* GetCacheEntry; the order is ignored if there is none.
Get(m, step, entry) ==
    /\ MutexFree
    /\ IF cache[m.id] = None
       THEN UNCHANGED handlerVars
       ELSE Then(step, m.id, entry)

HandleUpdateInterval(m) ==
    /\ Receive(m, "update_interval")
    /\ Get(m, "update_store", [cache[m.id] EXCEPT !.interval = m.param])
    /\ UNCHANGED <<cache, cronVars>>

UpdateStore ==
    /\ hstep = "update_store"
    /\ MutexFree
    /\ cache' = [cache EXCEPT ![hid] = hentry]
    /\ Then("update_schedule", hid, hentry)
    /\ UNCHANGED <<NotHandler, orders, cronVars>>

\* The entry UpdateSyncJobFor returns is discarded: the cache keeps the old cron id.
UpdateSchedule ==
    /\ hstep = "update_schedule"
    /\ UpdateSyncJobFor(hid, hentry)
    /\ Done
    /\ UNCHANGED <<NotHandler, orders, cache>>

HandleDelete(m) ==
    /\ Receive(m, "delete")
    /\ Get(m, "delete_store", cache[m.id])
    /\ UNCHANGED <<cache, cronVars>>

DeleteStore ==
    /\ hstep = "delete_store"
    /\ MutexFree
    /\ cache' = [cache EXCEPT ![hid] = None]
    /\ Then("delete_schedule", hid, hentry)
    /\ UNCHANGED <<NotHandler, orders, cronVars>>

DeleteSchedule ==
    /\ hstep = "delete_schedule"
    /\ RemoveJobFor(hentry)
    /\ Done
    /\ UNCHANGED <<NotHandler, orders, cache>>

\* Mutant of HandleAdd: the interval of the order is taken as it is.
HandleAddUnchecked(m) ==
    /\ Receive(m, "add")
    /\ AddSyncJobFor(m.id, m.param)
    /\ Then("add_store", m.id, ScheduledAs([cronId |-> 0, interval |-> m.param]))
    /\ UNCHANGED cache

\* The interval is brought within bounds; whether k is already scheduled is not looked up.
HandleAdd(m) ==
    LET i == IF m.param \in OutOfRange \cup {Unset} THEN DefaultInterval ELSE m.param
        e == [cronId |-> 0, interval |-> i]
    IN /\ Receive(m, "add")
       /\ AddSyncJobFor(m.id, i)
       /\ Then("add_store", m.id, ScheduledAs(e))
       /\ UNCHANGED cache

AddStore ==
    /\ hstep = "add_store"
    /\ MutexFree
    /\ cache' = [cache EXCEPT ![hid] = hentry]
    /\ Done
    /\ UNCHANGED <<NotHandler, orders, cronVars>>
-----------------------------------------------------------------------------
(***************************************************************************)
(* The process: InitPoller subscribes to NATS before the database handler, *)
(* the scheduler and the jobs exist, so an order that comes in between     *)
(* dereferences nil and ends the process; its deployment restarts it.     *)
(***************************************************************************)
NotProcess == <<dbVars, cache, mutex, toRead, active, tasks, storing, handlerVars, ops>>

Subscribe ==
    /\ phase = "down"
    /\ phase' = "subscribed"
    /\ UNCHANGED <<NotProcess, orders, cronVars, failures>>

InitPoller ==
    /\ phase = "subscribed"
    /\ phase' = "ready"
    /\ nextId' = 1
    /\ cron' = {[cronId |-> 1, id |-> FullSync, interval |-> DefaultInterval]}
    /\ UNCHANGED <<NotProcess, orders, failures>>

StartCron ==
    /\ phase = "starting"
    /\ \A s \in Syncers : Idle(s)
    /\ phase' = "up"
    /\ UNCHANGED <<NotProcess, orders, cronVars, failures>>

CrashOnEarlyOrder(m) ==
    /\ phase = "subscribed"
    /\ m \in orders
    /\ orders' = orders \ {m}
    /\ phase' = "down"
    /\ UNCHANGED <<NotProcess, cronVars, failures>>

Crash ==
    /\ Running
    /\ failures < MaxFailures
    /\ failures' = failures + 1
    /\ phase' = "down"
    /\ cache' = [k \in Ids |-> None]
    /\ cron' = {}
    /\ nextId' = 0
    /\ mutex' = Nobody
    /\ toRead' = {}
    /\ active' = {}
    /\ tasks' = [s \in Syncers |-> NoTasks]
    /\ storing' = [s \in Syncers |-> None]
    /\ Done
    /\ UNCHANGED <<dbVars, orders, ops>>
-----------------------------------------------------------------------------
Database ==
    \/ \E k \in Ids, i \in Intervals \cup {Unset} :
          \/ CreateUserIdentity(k, i)
          \/ \E st \in {"active", "inactive"} : PatchUserIdentity(k, st, i)
    \/ \E k \in Ids :
          ThrottleRemoteIdentity(k) \/ DeleteUserIdentity(k) \/ DisableRemoteIdentity(k)

Sync(s) ==
    \/ SyncBegin(s)
    \/ \E k \in Ids : SyncRead(s, k) \/ SyncMiss(s, k)
    \/ SyncPrune(s)
    \/ \E k \in Ids : SyncAdded(s, k) \/ SyncRemoved(s, k) \/ SyncUpdated(s, k)
    \/ SyncStore(s)

Handle(m) == HandleUpdateInterval(m) \/ HandleDelete(m) \/ HandleAdd(m)

HandlerStep ==
    UpdateStore \/ UpdateSchedule \/ DeleteStore \/ DeleteSchedule \/ AddStore

Process == Subscribe \/ InitPoller \/ StartCron \/ Crash

Next ==
    \/ Database
    \/ \E m \in Orders : LoseOrder(m) \/ Handle(m) \/ CrashOnEarlyOrder(m)
    \/ \E s \in Syncers : Sync(s)
    \/ HandlerStep
    \/ Process

(***************************************************************************)
(* The goroutines of the poller run, Go's mutex is starvation free, NATS   *)
(* delivers what it does not lose, cron fires fullSync, and the process is *)
(* restarted.  Nothing is assumed of the database's users and of crashes.  *)
(***************************************************************************)
Fairness ==
    /\ WF_vars(Subscribe) /\ WF_vars(InitPoller) /\ WF_vars(StartCron)
    /\ \A s \in Syncers :
        /\ SF_vars(SyncBegin(s))
        /\ WF_vars(\E k \in Ids : SyncRead(s, k))
        /\ WF_vars(SyncPrune(s))
        /\ WF_vars(\E k \in Ids : SyncAdded(s, k) \/ SyncRemoved(s, k) \/ SyncUpdated(s, k))
        /\ SF_vars(SyncStore(s))
    /\ SF_vars(\E m \in Orders : Handle(m))
    /\ SF_vars(HandlerStep)

Spec == Init /\ [][Next]_vars /\ Fairness
-----------------------------------------------------------------------------
(***************************************************************************)
(* Properties.                                                             *)
(***************************************************************************)
TypeOK ==
    /\ status \in [Ids -> {"absent", "active", "inactive", "deleted"}]
    /\ interval \in [Ids -> Intervals \cup {Unset}]
    /\ orders \subseteq Orders
    /\ phase \in {"down", "subscribed", "ready", "starting", "up"}
    /\ cache \in [Ids -> Entry \cup {None}]
    /\ mutex \in Syncers \cup {Nobody}
    /\ cron \subseteq Job
    /\ nextId \in Nat
    /\ toRead \subseteq Ids
    /\ active \subseteq Ids
    /\ tasks \in [Syncers -> [Ids -> Task \cup {None}]]
    /\ storing \in [Syncers -> CacheWrite \cup {None}]
    /\ hstep \in {"idle", "update_store", "update_schedule", "delete_store",
                  "delete_schedule", "add_store"}
    /\ IF hstep = "idle" THEN hid = None /\ hentry = None ELSE hid \in Ids /\ hentry \in Entry
    /\ ops \in 0..MaxOps /\ failures \in 0..MaxFailures

\* Entry e, held for identity k, names no cron entry but one of k's.
Owns(k, e) == \A j \in cron : j.cronId = e.cronId => j.id = k

(***************************************************************************)
(* Whatever cache entry an actor holds, and however stale it is, its cron  *)
(* id is that of a job of the same identity or of no job: RemoveJobFor and *)
(* UpdateSyncJobFor never stop the polling of another identity, nor the    *)
(* periodic fullSync.                                                      *)
(***************************************************************************)
EntriesOwnTheirJobs ==
    /\ \A k \in Ids : cache[k] # None => Owns(k, cache[k])
    /\ \A s \in Syncers, k \in Ids : tasks[s][k] # None => Owns(k, tasks[s][k].entry)
    /\ \A s \in Syncers : storing[s] # None /\ storing[s].entry # None
                            => Owns(storing[s].id, storing[s].entry)
    /\ hstep # "idle" => Owns(hid, hentry)

\* Some actor is between two of its steps for k.
Busy(k) ==
    \/ \E s \in Syncers : tasks[s][k] # None
    \/ \E s \in Syncers : storing[s] # None /\ storing[s].id = k
    \/ hstep # "idle" /\ hid = k

ScheduledAt(k, i) == \E j \in cron : j.id = k /\ j.interval = i

(***************************************************************************)
(* Once nobody works on an identity, the cache is right that it is polled: *)
(* a cached identity has a job at the cached interval, unless cron rejects *)
(* that interval.  fullSync trusts the cache: it does not look at the cron *)
(* table, so an identity cached without a job would never be polled again. *)
(***************************************************************************)
CachedIsScheduled ==
    \A k \in Ids : cache[k] # None /\ ~Busy(k) /\ cache[k].interval \notin Unparsable
                     => ScheduledAt(k, cache[k].interval)

(***************************************************************************)
(* When the database stops changing, the cache ends up being its active    *)
(* remote identities with their poll intervals, whatever orders were lost, *)
(* delayed past later ones, or handled while a fullSync was running, and   *)
(* whatever the crashes.                                                   *)
(***************************************************************************)
CacheConverges ==
    \A k \in Ids : <>[](IF StatusTypeOK(k)
                        THEN cache[k] # None /\ cache[k].interval = Effective(interval[k])
                        ELSE cache[k] = None)

(***************************************************************************)
(* And then every active remote identity is polled for ever at the         *)
(* interval the database gives, if cron accepts it.                        *)
(***************************************************************************)
ActiveIsPolled ==
    \A k \in Ids : <>[](StatusTypeOK(k) /\ Effective(interval[k]) \notin Unparsable
                          => ScheduledAt(k, Effective(interval[k])))

(***************************************************************************)
(* "prevent boundaries overflow : min = 1 min, max = 3 days": no remote    *)
(* identity is polled at an interval out of these bounds.  The code does   *)
(* not ensure it: only the order "add" is checked.                         *)
(***************************************************************************)
PollsWithinBounds == \A j \in cron : j.interval \notin OutOfRange

(***************************************************************************)
(* "send nats message to idpoller to stop polling" (REST identities.go),   *)
(* "RemoveJobFor removes remote identity's job from being run in the       *)
(* future" (scheduler.go): once the order about a deleted identity has     *)
(* been handled, no job of it is left.  The code does not ensure it.       *)
(***************************************************************************)
DeletedIsNotPolled ==
    \A k \in Ids :
        status[k] = "deleted" /\ cache[k] = None /\ ~Busy(k) /\ (\A m \in orders : m.id # k)
          => \A j \in cron : j.id # k
=============================================================================

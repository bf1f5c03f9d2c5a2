------------------------------ MODULE ImapSync ------------------------------
(***************************************************************************)
(* The synchronisation of one remote IMAP identity by the worker processes *)
(* (backend/protocols/go.imap/fetcher.go, imap.go, lda.go).                *)
(*                                                                         *)
(* A worker that is given a "sync" order reads the identity, returns if    *)
(* another sync is marked as running, writes its own mark, logs in,        *)
(* fetches the messages past the last UID it has seen, hands them to the   *)
(* LDA one by one and writes the new sync state back.  The state lives in  *)
(* the Infos map of the identity, which every worker reads once and writes *)
(* back as a whole.  Workers may crash between any two steps, and time     *)
(* passes: marks and errors are dated.                                     *)
(*                                                                         *)
(* Ages are counted in units of SyncingTimeout hours or less and stop      *)
(* growing where the code no longer tells them apart.                      *)
(***************************************************************************)
EXTENDS Naturals, Sequences

CONSTANTS
    Workers,            \* the imap worker processes
    Mails,              \* the messages that may reach the remote mailbox
    SyncingTimeout,     \* syncingTimeout
    FailuresThreshold,  \* failuresThreshold
    None,
    MaxFailures,        \* bound: failed logins, broken fetches and deliveries, crashes, slow syncs
    MaxResets           \* bound: changes of the mailbox's UIDVALIDITY

ASSUME ThresholdsAssumption == SyncingTimeout \in Nat \ {0} /\ FailuresThreshold \in Nat
ASSUME BoundsAssumption == MaxFailures \in Nat /\ MaxResets \in Nat
ASSUME NoneAssumption == None \notin Nat

\* Age of a date in Infos, None if the key is absent.
SyncingAge == 0..SyncingTimeout \cup {None}
ErrorsAge == 0..(FailuresThreshold + 1) \cup {None}

\* The keys of Infos a sync reads and writes; synced tells whether lastsync is set.
Infos == [syncing : SyncingAge, errors : ErrorsAge,
          synced : BOOLEAN, lastSeen : Nat, validity : Nat]

VARIABLES
    mailbox,    \* the remote INBOX: the message of each UID
    epoch,      \* its UIDVALIDITY
    status,     \* the identity in the database: "active" or "inactive"
    infos,      \* its Infos map
    pc,         \* worker -> what SyncRemoteWithLocal does next
    local,      \* worker -> its copy of Infos
    box,        \* worker -> imapBox: lastSeen and validity
    fetched,    \* worker -> the messages syncMails has still to send, with their UIDs
    age,        \* worker -> time since the date its time-out counts from
    delivered,  \* the messages the LDA has stored
    failed,     \* history: the messages whose delivery was reported as failed
    failures    \* counter of the bound

remoteVars == <<mailbox, epoch>>
dbVars == <<status, infos>>
workerVars == <<pc, local, box, fetched, age>>
ldaVars == <<delivered, failed>>
vars == <<remoteVars, dbVars, workerVars, ldaVars, failures>>

NoInfos == [syncing |-> None, errors |-> None, synced |-> FALSE, lastSeen |-> 0, validity |-> 0]
NoBox == [lastSeen |-> 0, validity |-> 0]
Message == [uid : Nat \ {0}, mail : Mails]

Init ==
    /\ mailbox = <<>>
    /\ epoch = 1
    /\ status = "active"
    /\ infos = NoInfos
    /\ pc = [w \in Workers |-> "idle"]
    /\ local = [w \in Workers |-> NoInfos]
    /\ box = [w \in Workers |-> NoBox]
    /\ fetched = [w \in Workers |-> <<>>]
    /\ age = [w \in Workers |-> 0]
    /\ delivered = {}
    /\ failed = {}
    /\ failures = 0
-----------------------------------------------------------------------------
(***************************************************************************)
(* The remote mailbox, the user and time.                                  *)
(***************************************************************************)
NewMail(m) ==
    /\ \A u \in DOMAIN mailbox : mailbox[u] # m
    /\ m \notin delivered \cup failed
    /\ mailbox' = Append(mailbox, m)
    /\ UNCHANGED <<epoch, dbVars, workerVars, ldaVars, failures>>

\* The mailbox is created anew: its UIDs start again from 1.
ResetMailbox ==
    /\ epoch <= MaxResets
    /\ epoch' = epoch + 1
    /\ mailbox' = <<>>
    /\ UNCHANGED <<dbVars, workerVars, ldaVars, failures>>

Older(x, limit) == IF x = None \/ x = limit THEN x ELSE x + 1

OlderErrors(i) == [i EXCEPT !.errors = Older(@, FailuresThreshold + 1)]

\* The time-out starts before the login.
Timed(w) == pc[w] \in {"login", "fetching"}

TooLong == {w \in Workers : Timed(w) /\ age[w] = SyncingTimeout}

\* Time passes for every date; a sync that outlasts its timeout is a failure of the bound.
Tick ==
    /\ infos' = [OlderErrors(infos) EXCEPT !.syncing = Older(@, SyncingTimeout)]
    /\ local' = [w \in Workers |-> OlderErrors(local[w])]
    /\ age' = [w \in Workers |->
                  IF Timed(w) THEN Older(age[w], SyncingTimeout + 1) ELSE age[w]]
    /\ IF TooLong = {} THEN UNCHANGED failures
                       ELSE failures < MaxFailures /\ failures' = failures + 1
    /\ UNCHANGED <<remoteVars, status, pc, box, fetched, ldaVars>>

\* The user switches the identity on again.
Reactivate ==
    /\ status = "inactive"
    /\ status' = "active"
    /\ UNCHANGED <<remoteVars, infos, workerVars, ldaVars, failures>>
-----------------------------------------------------------------------------
(***************************************************************************)
(* SyncRemoteWithLocal.                                                    *)
(***************************************************************************)
Fail == failures < MaxFailures /\ failures' = failures + 1

Goto(w, step) == pc' = [pc EXCEPT ![w] = step]

\* What a worker keeps of a sync that is over does not matter.
Return(w) ==
    /\ Goto(w, "idle")
    /\ local' = [local EXCEPT ![w] = NoInfos]
    /\ box' = [box EXCEPT ![w] = NoBox]
    /\ fetched' = [fetched EXCEPT ![w] = <<>>]
    /\ age' = [age EXCEPT ![w] = 0]

\* Mutant of SyncRunning: a mark never expires.
MarkedForEver(i) == i.syncing # None

\* A mark younger than syncingTimeout belongs to a sync that is still running.
SyncRunning(i) == i.syncing # None /\ i.syncing < SyncingTimeout

\* Orders come from the idpoller, for active identities.
Start(w) ==
    /\ pc[w] = "idle"
    /\ status = "active"
    /\ ~SyncRunning(infos)
    /\ Goto(w, "mark")
    /\ local' = [local EXCEPT ![w] = infos]
    /\ UNCHANGED <<remoteVars, dbVars, box, fetched, age, ldaVars, failures>>

MarkSyncing(w) ==
    /\ pc[w] = "mark"
    /\ infos' = [local[w] EXCEPT !.syncing = 0]
    /\ Goto(w, "login")
    /\ box' = [box EXCEPT ![w] = [lastSeen |-> local[w].lastSeen, validity |-> local[w].validity]]
    /\ UNCHANGED <<remoteVars, status, local, fetched, age, ldaVars, failures>>

\* Mutant of LoginFails: the failures are counted where the first one is dated.
LoginFailsCounting(w) ==
    LET count == IF local[w].errors = None THEN 1 ELSE local[w].errors + 1
        new == [local[w] EXCEPT !.errors = count, !.syncing = None]
    IN /\ pc[w] = "login"
       /\ Fail
       /\ status' = IF count > FailuresThreshold THEN "inactive" ELSE status
       /\ infos' = new
       /\ local' = [local EXCEPT ![w] = new]
       /\ Goto(w, "save")
       /\ UNCHANGED <<remoteVars, box, fetched, age, ldaVars>>

\* handleFetchFailure: dates the error, disables an identity that has failed for too
\* long and writes Infos; the main goroutine then finds the channel closed.
LoginFails(w) ==
    LET first == IF local[w].errors = None THEN 0 ELSE local[w].errors
        new == [local[w] EXCEPT !.errors = first, !.syncing = None]
    IN /\ pc[w] = "login"
       /\ Fail
       /\ status' = IF first > FailuresThreshold THEN "inactive" ELSE status
       /\ infos' = new
       /\ local' = [local EXCEPT ![w] = new]
       /\ Goto(w, "save")
       /\ UNCHANGED <<remoteVars, box, fetched, age, ldaVars>>

\* The first UID syncMailbox asks for.
From(w) ==
    IF ~local[w].synced \/ box[w].validity # epoch \/ box[w].lastSeen = 0
    THEN 1 ELSE box[w].lastSeen + 1

\* The answer to UID FETCH from:*, which holds the last message even if from is past it.
FetchFrom(from) ==
    LET n == Len(mailbox)
        first == IF from > n THEN n ELSE from
    IN IF n = 0 THEN <<>>
       ELSE [i \in 1..(n - first + 1) |->
                [uid |-> first + i - 1, mail |-> mailbox[first + i - 1]]]

LoginSucceeds(w) ==
    /\ pc[w] = "login"
    /\ local' = [local EXCEPT ![w].errors = None]
    /\ box' = [box EXCEPT ![w].validity = epoch]
    /\ fetched' = [fetched EXCEPT ![w] = FetchFrom(From(w))]
    /\ Goto(w, "fetching")
    /\ UNCHANGED <<remoteVars, dbVars, age, ldaVars, failures>>

\* The mailbox cannot be selected: no message comes, and the sync passes for a success.
SelectFails(w) ==
    /\ pc[w] = "login"
    /\ Fail
    /\ local' = [local EXCEPT ![w].errors = None]
    /\ Goto(w, "fetching")
    /\ UNCHANGED <<remoteVars, dbVars, box, fetched, age, ldaVars>>

\* The connection breaks: syncMails closes the channel early.
FetchBreaks(w) ==
    /\ pc[w] = "fetching"
    /\ fetched[w] # <<>>
    /\ Fail
    /\ fetched' = [fetched EXCEPT ![w] = <<>>]
    /\ UNCHANGED <<remoteVars, dbVars, pc, local, box, age, ldaVars>>

Next1(w) == Head(fetched[w])
Seen(w) == Next1(w).uid <= box[w].lastSeen

\* The loop goes on, or gives up because the sync has lasted too long.
CanForward(w) ==
    /\ pc[w] = "fetching"
    /\ fetched[w] # <<>>
    /\ fetched' = [fetched EXCEPT ![w] = Tail(@)]

SkipSeen(w) ==
    /\ CanForward(w)
    /\ Seen(w)
    /\ UNCHANGED <<remoteVars, dbVars, pc, local, box, age, ldaVars, failures>>

\* After a delivery the loop checks how long it has lasted and may abort.
LoopOrAbort(w) ==
    IF age[w] > SyncingTimeout THEN Goto(w, "abort") ELSE UNCHANGED pc

DeliverMail(w) ==
    /\ CanForward(w)
    /\ ~Seen(w)
    /\ delivered' = delivered \cup {Next1(w).mail}
    /\ box' = [box EXCEPT ![w].lastSeen = Next1(w).uid]
    /\ LoopOrAbort(w)
    /\ UNCHANGED <<remoteVars, dbVars, local, age, failed, failures>>

\* The LDA answers an error or not at all, whether or not it has stored the message.
DeliverMailFails(w) ==
    /\ CanForward(w)
    /\ ~Seen(w)
    /\ Fail
    /\ delivered' \in {delivered, delivered \cup {Next1(w).mail}}
    /\ failed' = failed \cup {Next1(w).mail}
    /\ LoopOrAbort(w)
    /\ UNCHANGED <<remoteVars, dbVars, local, box, age>>

\* The aborted loop has closed the channel syncMails still uses, which ends the
\* process: before or after the sync state is saved.
AbortBeforeSave(w) ==
    /\ pc[w] = "abort"
    /\ Return(w)
    /\ UNCHANGED <<remoteVars, dbVars, ldaVars, failures>>

\* Mutant of SaveState: the last UID of the mailbox is saved, not the last one forwarded.
SaveLastUid(w) ==
    /\ \/ pc[w] \in {"save", "abort"}
       \/ pc[w] = "fetching" /\ fetched[w] = <<>>
    /\ infos' = IF local[w].errors = None
                THEN [local[w] EXCEPT !.syncing = None, !.synced = TRUE,
                          !.lastSeen = Len(mailbox), !.validity = box[w].validity]
                ELSE [local[w] EXCEPT !.syncing = None]
    /\ Return(w)
    /\ UNCHANGED <<remoteVars, status, ldaVars, failures>>

\* Step 4: Infos is written back as a whole.
SaveState(w) ==
    /\ \/ pc[w] \in {"save", "abort"}
       \/ pc[w] = "fetching" /\ fetched[w] = <<>>
    /\ infos' = IF local[w].errors = None
                THEN [local[w] EXCEPT !.syncing = None, !.synced = TRUE,
                          !.lastSeen = box[w].lastSeen, !.validity = box[w].validity]
                ELSE [local[w] EXCEPT !.syncing = None]
    /\ Return(w)
    /\ UNCHANGED <<remoteVars, status, ldaVars, failures>>

Crash(w) ==
    /\ pc[w] # "idle"
    /\ Fail
    /\ Return(w)
    /\ UNCHANGED <<remoteVars, dbVars, ldaVars>>
-----------------------------------------------------------------------------
Step(w) ==
    \/ Start(w)
    \/ MarkSyncing(w)
    \/ LoginSucceeds(w)
    \/ SkipSeen(w)
    \/ DeliverMail(w)
    \/ AbortBeforeSave(w)
    \/ SaveState(w)

Failure(w) ==
    \/ LoginFails(w)
    \/ SelectFails(w)
    \/ FetchBreaks(w)
    \/ DeliverMailFails(w)
    \/ Crash(w)

Next ==
    \/ \E m \in Mails : NewMail(m)
    \/ ResetMailbox
    \/ Tick
    \/ Reactivate
    \/ \E w \in Workers : Step(w) \/ Failure(w)

(***************************************************************************)
(* Time passes, and a worker that has begun a sync goes on with it.  The   *)
(* idpoller orders syncs of an active identity again and again.            *)
(***************************************************************************)
Fairness ==
    /\ WF_vars(Tick)
    /\ \A w \in Workers : WF_vars(Step(w))

Spec == Init /\ [][Next]_vars /\ Fairness
-----------------------------------------------------------------------------
(***************************************************************************)
(* Properties.                                                             *)
(***************************************************************************)
TypeOK ==
    /\ mailbox \in Seq(Mails)
    /\ epoch \in 1..(MaxResets + 1)
    /\ status \in {"active", "inactive"}
    /\ infos \in Infos
    /\ pc \in [Workers -> {"idle", "mark", "login", "fetching", "abort", "save"}]
    /\ local \in [Workers -> Infos]
    /\ box \in [Workers -> [lastSeen : Nat, validity : Nat]]
    /\ fetched \in [Workers -> Seq(Message)]
    /\ age \in [Workers -> 0..(SyncingTimeout + 1)]
    /\ delivered \subseteq Mails
    /\ failed \subseteq Mails
    /\ failures \in 0..MaxFailures

\* Every message of the mailbox up to this UID is stored or was reported as failed.
SettledUpTo(u) ==
    \A v \in DOMAIN mailbox : v <= u => mailbox[v] \in delivered \cup failed

(***************************************************************************)
(* As long as the mailbox keeps its UIDVALIDITY, the sync state never runs *)
(* ahead of what was handed to the LDA: whatever syncs overlap, crash or   *)
(* write stale state back, only a message whose delivery failed can be     *)
(* skipped by the next sync.                                               *)
(***************************************************************************)
NothingSkippedUnseen ==
    epoch = 1 =>
        /\ SettledUpTo(infos.lastSeen)
        /\ \A w \in Workers : SettledUpTo(box[w].lastSeen)

(***************************************************************************)
(* Every message that arrives is eventually handed to the LDA, unless the  *)
(* identity is disabled or the mailbox reset: no crash, no mark left by a  *)
(* dead worker and no overlap of syncs blocks an identity for ever.        *)
(***************************************************************************)
EveryMailIsForwarded ==
    \A m \in Mails :
        (\E u \in DOMAIN mailbox : mailbox[u] = m)
            ~> (m \in delivered \cup failed \/ status = "inactive" \/ epoch > 1)

(***************************************************************************)
(* "do not forward seen message, we already have it": a message the loop   *)
(* skips as seen is one the LDA has stored.  The code does not ensure it   *)
(* when UIDVALIDITY changes: lastSeenUid keeps its old value.              *)
(***************************************************************************)
SkippedIsDelivered ==
    \A w \in Workers :
        pc[w] = "fetching" /\ fetched[w] # <<>> /\ Seen(w) => Next1(w).mail \in delivered

(***************************************************************************)
(* "save syncing state in db to prevent concurrent sync": no two workers   *)
(* sync the identity while the mark of one of them is fresh.  The code     *)
(* does not ensure it: the mark is checked in one step, set in another.    *)
(***************************************************************************)
NoConcurrentSync ==
    \A v, w \in Workers :
        v # w /\ pc[v] \in {"login", "fetching"} /\ pc[w] \in {"login", "fetching"}
            => ~SyncRunning(infos)
=============================================================================

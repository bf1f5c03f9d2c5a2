# Caliopen: models, checks and proofs

TLA+ specifications of the backend of Caliopen and of the parts of its web
application that keep state, the TLC configurations that check them on small
instances, and proofs checked by TLAPS. Paths below are relative to the
repository's `src/backend`; those that end in `.js` or `.jsx` are relative to
`src/frontend/web_application/src`, those that start with `doc/` to its root.

Check a run with `tlc -config JobsHandler.cfg MCJobsHandler.tla`, the proofs with
`tlapm JobsHandler_proofs.tla` and so on for the other modules whose names end
in `_proofs`. `PROJECT.json` lists the components, the runs, the source lines
each definition stands for, the hazards, the findings and, for each property, a
mutation of the model that the property catches.

## 1. The system

Caliopen gathers a user's messages of several protocols (e-mail, Twitter,
Mastodon) in one place. The backend is a set of processes, written in Go and
Python, that share a Cassandra database, an Elasticsearch index, an object store
and a Redis cache, and call each other through NATS. The web application is a
React program with a redux store, which talks to the REST API.

| Component | State it keeps | Operations | Interactions |
|---|---|---|---|
| idpoller (`workers/go.remoteIDs`) | cache of remote identities, cron table, queue of pending jobs per worker | `fullSync`, the orders `add`, `update_interval`, `delete`, `AddPendingJob`, `ConsumePendingJobFor` | reads all identities from Cassandra; receives orders and job requests by NATS |
| imap worker (`protocols/go.imap`) | the loop of `Worker.Start`; in the database, the sync state of an identity (`Infos`) | `SyncRemoteWithLocal`, `FetchRemoteToLocal`, `SendDraft` | asks the idpoller for jobs; remote IMAP server; its own e-mail broker (the LDA) |
| twitter and mastodon workers (`protocols/go.twitter`, `go.mastodon`) | one goroutine and three channels per account; the register of accounts; `Infos` | `PollDM`, `SendDM`, `Halt`, the orders of `WorkerDesk` | idpoller, remote API, their broker; they publish `update_interval` and `delete` |
| smtp (`protocols/go.smtp`) | lmtpd sessions, submitter pools | receive, submit | the MTA, the e-mail broker |
| brokers (`brokers/go.*`) | ack channels of deliveries in progress | `ProcessInbound`, `ProcessOutbound` | store, index, the Python parser by NATS request, notifications |
| REST facility (`main/go.main/facilities/REST`) | none of its own | create, patch, delete of identities, contacts, tags, devices, drafts, users | store then index; patches (`helpers/patch.go`); orders to the idpoller |
| cache (`main/go.backends/cache`) | sessions of password reset, device validation, OAuth, under one or two Redis keys with a TTL | set, get, delete | REST facility |
| notifications (`facilities/Notifications`, `facilities/Messaging`) | batches, a queue | `Add`, `Save`, `ByNotifQueue`, `ByEmail` | store, NATS |
| storage (`main/go.backends/store`, `index`) | the rows and documents | one query per call, no transactions | everybody |
| Python backend (`interfaces/NATS/py.client`, `main/py.main`, `components/py.*`, `interfaces/REST/py.server`) | the same rows and documents | parsing of inbound messages, users, devices, first REST API | NATS, Cassandra, Elasticsearch |
| REST server, tools | none that matters here | routing, command lines | REST facility |
| draft editor (`modules/draftMessage`, `scenes/NewDraft`, `store/modules/draft-message.js`) | the text of the component, the entry of the store, one throttled save per draft, saves in flight | request, edit, autosave, send, delete | REST API for messages, the e-mail broker |
| encryption (`store/modules/encryption.js`, `store/middlewares/decryption-middleware.js`) | state of each message's body, passphrases, their timers | decrypt, ask for a passphrase, forget it | the message store, openpgp, the keys of the device |
| timeline and notifications (`store/modules/discussion.js`, `scenes/Timeline`, `modules/notification`) | the list of discussions with two flags, requests in flight, the poller's filter | load, load more, invalidate, delete a message, poll | REST API for discussions and notifications, a web worker |
| web application, the rest | contacts, messages, tags, settings, tabs in the same store | lists, forms, presentation | REST API |

What makes the system hard:

- **Lost, late and reordered messages.** Core NATS delivers at most once and
  orders only the messages of one publisher. A write to the database and the
  order that announces it are two steps, and nothing retries the second one.
- **Interleavings.** `fullSync` and the order handler of the idpoller run in
  goroutines of their own, and only the cache map is under a mutex, not the
  cron table nor the sequence "change the cache, then change the cron table".
  Several worker processes may hold a job for the same identity. The register of
  the twitter worker's accounts is looked up and changed in two critical
  sections, and the channels of a handler may be closed by anybody who has it.
- **Promises in flight.** The web application runs in one thread, but every
  `await` lets the rest of it run. Nothing orders two requests, or a save and a
  deletion; the store has one `isFetching` and one `didInvalidate` flag for all
  requests of a collection; timers outlive the component that set them.
- **State read, used and written back.** `Infos` is a map that a sync reads at
  its start and writes back as a whole at its end, up to a day later. A save
  carries the message the browser knew when the user typed.
- **Crashes.** The idpoller keeps everything in memory; a worker leaves its
  `syncing` mark in the database.
- **Time-outs.** A job request gives up after a minute, a delivery after 30
  seconds, a sync after a day, each while the other side may still be working.

What makes the components correct:

- idpoller: in the end it polls exactly the active remote identities at their
  intervals; it never stops polling one identity because of another; what it
  caches is scheduled; pending jobs are FIFO, never duplicated, never stuck.
- imap worker: a message that arrives is handed to the LDA in the end, none is
  skipped unseen, and syncs of one identity do not run together.
- twitter and mastodon workers: one handler per account, no goroutine blocked for
  ever, no direct message lost or sent twice.
- brokers: one answer per delivery, no delivery acknowledged that failed, no mail
  stored twice, who gets a message is notified.
- cache: the two keys of a session agree. REST: store and index agree.
- notifications: nothing is counted twice or lost.
- draft editor: what is mailed is what the user saw when he clicked, once; what
  he typed reaches the server; what he deleted stays deleted.
- encryption: a passphrase is forgotten in time; a message waits for a
  passphrase only if the user is being asked for it.
- timeline: the list is the one the server would give, and new mail shows up.

## 2. The modules

| Module | Models | Checked by |
|---|---|---|
| `PendingJobs` | what the idpoller promises of pending jobs (abstract) | refined by `JobsHandler` |
| `JobsHandler` | `jobs.go`, the three job request handlers of `messaging.go`, the request loop of the workers | `jobs` |
| `JobsHandler_proofs` | theorems about `JobsHandler` | TLAPS |
| `IdPoller` | `idpoller.go`, `identities.go`, `scheduler.go`, `natsIdentitiesHandler`, and who publishes its orders | `converges`, `deleted`, `bounds` |
| `IdPoller_proofs` | theorems about `IdPoller` | TLAPS |
| `ImapSync` | `SyncRemoteWithLocal` and what it calls | `imap_progress`, `imap_reset`, `imap_mark` |
| `ImapSync_proofs` | theorems about `ImapSync` | TLAPS |
| `TwitterWorker` | the register of accounts, the goroutines and channels of handlers, `DMmsgHandler`, `ProcessOutDM` | `twitter` |
| `TwitterWorker_proofs` | theorems about `TwitterWorker` | TLAPS |
| `InboundDelivery` | the LDA, `processInbound` of the e-mail broker, its goroutines and batches, the parsers | `delivery` |
| `InboundDelivery_proofs` | theorems about `InboundDelivery` | TLAPS |
| `DraftMessage` | the draft editor, its actions and reducer, the checks of the REST API, the delivery | `draft` |
| `DraftMessage_proofs` | theorems about `DraftMessage` | TLAPS |
| `Encryption` | the reducer, middlewares and thunks of encrypted messages | `encryption` |
| `Encryption_proofs` | theorems about `Encryption` | TLAPS |
| `Timeline` | the reducer of discussions, the scene, the poller of notifications, `deleteMessage`, the server's list | `timeline` |
| `Timeline_proofs` | theorems about `Timeline` | TLAPS |
| `MC*` | the finite instances of the eight specifications | |

Operators named as mutants ("Mutant of ...") are wrong variants of the operator
that follows them. No specification uses them: each shows that a property would
notice that mistake.

### JobsHandler

`pendingJobs` and `jobsSequence` are the two structures of the Go type, per kind
of worker. The payload of a job is its hash: two jobs of the same identity are
the same job. A process asks (`Ask`), the idpoller answers with the oldest job
(`ReplyJob`) or with an error (`ReplyNoPendingJob`); the request may be lost
(`LoseRequest`), the answer may be lost or come too late (`ReplyJobInVain`: the
job has left the queue all the same), and the process gives up
(`GiveUpInFlight`, `GiveUpLost`). The look-up and the change of the queue are
one step, since both functions hold `jobsMux` throughout. The handler consumes
and then publishes; between the two nothing of its state is visible to others,
so these are one step too.

### IdPoller

The identities in the database, the orders in flight, the cache with its mutex,
the cron table, and the program counters of three concurrent actors: `fullSync`
(in as many goroutines as `Syncers`: the cron library starts a new one at each
tick, whether or not the last has ended), `natsIdentitiesHandler` (NATS runs
one callback of a subscription at a time) and the process itself.

- `SyncBegin` ... `SyncPrune` is `SyncCache`: the mutex is held from the first to
  the last, and each identity is read when its turn comes, since
  `RetrieveAllRemotes` streams them. `SyncMiss` is an identity that it skips
  because a query failed or timed out.
- `SyncAdded`, `SyncRemoved`, `SyncUpdated` are the turns of the three loops of
  `fullSync`, in the order of the loops and, in a loop, in any order, as Go
  iterates over maps. The write to the cache that follows is a step of its own
  (`SyncStore`): it takes the mutex, the call to cron does not.
- `HandleUpdateInterval`, `HandleDelete`, `HandleAdd` read the cache and
  `UpdateStore`, `UpdateSchedule`, `DeleteStore`, `DeleteSchedule`, `AddStore`
  are what follows, one step per critical section or call to cron.
- `CreateUserIdentity`, `PatchUserIdentity`, `DeleteUserIdentity` are those of
  the REST facility, `ThrottleRemoteIdentity` and `DisableRemoteIdentity` what
  the workers do to an identity; each is a write to the database and, except for
  `PatchUserIdentity`, an order.
- `Subscribe`, `InitPoller`, `StartCron`, `CrashOnEarlyOrder`, `Crash` are the
  life of the process. NATS is subscribed first, so an order that arrives before
  the cache exists ends the process.

Poll intervals are values of `Infos["pollinterval"]`: one in range (two with
the twitter worker's default), the number 0, and a text that is no number. A
user may set any of them, by a creation or by a patch.

### ImapSync

One identity, its remote mailbox, and workers that synchronise it. UIDs are the
positions in the mailbox; a change of UIDVALIDITY empties it and the UIDs start
again. `Infos` has the keys a sync uses: the `syncing` mark and the date of the
first error as ages, whether `lastsync` is set, `lastseenuid`, `uidvalidity`.
Each worker holds its copy (`local`), its `imapBox` and the messages still to
forward. The goroutine that logs in and the one that forwards exchange messages
over a channel; what the first can do to the second is to hand it messages, to
close the channel early (`FetchBreaks`) or to have failed before
(`LoginFails`). A sync that outlasts its time-out closes the channel its own
fetcher uses: the panic that follows ends the process before or after the state
is saved (`AbortBeforeSave`, or `SaveState` from the same place). A query that
fails ends a sync like a crash at that point (`Crash`).

### TwitterWorker

One remote identity and one process of the worker. Two actors look for the
account's handler and create it when there is none: the `loop` of
`Worker.Start`, for the poll orders of the idpoller, and `dms`, the NATS
callback `DMmsgHandler`, for deliveries. Their program counters follow
`getOrCreateHandler`: the look-up under `WorkersGuard` (`LookupForSync`,
`LookupForDelivery`), the creation outside it (`Create`, `CreateFails`), the
second critical section, which finds a registered handler again
(`FindRegistered`) and stops it (`BeginRemove`, `FinishRemove`), and
`StoreHandler`. The third actor, `desk`, takes closed handlers off the register.
`Stop` holds the guard but closes two channels one after the other, and the
sender of the handler may close the second in between: these are two steps.
`OfferPoll` and `OfferDelivery` are what a caller does with the handler it has
found, which may be closed by then: sending to a closed channel, like closing it
twice, is a panic that ends the process (`Panic`). A handler's two goroutines are
`SenderOf` (`TakeOrder` ... `Acknowledge`, with `ProcessOutDM` in between: check
`Is_draft`, send, save) and `PollerOf`. A number of a handler nobody refers to is
used again for the next one.

### InboundDelivery

One mail, which is handed to an LDA several times: by SMTP, for several
recipients, or by the imap worker, for the owner of a remote mailbox. For each
delivery the module has the LDA that waits (`Arrive`, `LdaTimesOut`), the
goroutine of the broker that works for it (`Lookup`, `Reject`, `StoreRaw`,
`Finish`, `Answer`), one goroutine per recipient (`Succeeds`, `Errs`, `Appends`),
its batch of notifications (`SaveBatch`) and the orders to the parsers (`LookUp`,
`Save`, `Register`, `Dies`: `InboundEmail.process_raw`). An LDA that leaves closes
the channel of the answer; an answer that comes later is a panic, which ends all
deliveries of the same process (`Panic`, `Siblings`: lmtpd and the imap worker are
two processes, each with a broker of its own). The append to the list of errors is a read
(`Errs`) and a write (`Appends`), since no lock protects it.

There are three clocks. Those of the LDA (30 seconds) and of the broker (29) are
counted, in ticks. The broker's starts with `processInbound`: after the look-up of
the recipients for a mail received by SMTP, at once for one of a remote mailbox.
A request to a parser may time out whenever it is unanswered, and its order stays
where it is. Each parser process handles one order at a time (`Processes`).

### DraftMessage

One draft from its first opening: the texts the user may type, the entry of the
store and the message the store knows, the one throttled save (`saveDraft` keeps
one timer per draft), the calls of `createOrUpdateDraft` in flight with the step
each has reached, and the message on the server. A call is checked and written
by the API in two queries (`Check`, `Write`), read back (`ReadBack`) and put in
the store (`Saved`); that of a send goes on with the delivery (`Deliver`, `Mark`,
`Sent`). The component's life is part of the model (`Open`, `Close`, `mount`),
because closing the scene neither cancels the throttled save nor the calls.

### Encryption

Each thunk is a record with what it awaits; whatever it does between two awaits
is one step, since the program has one thread. The keyring may have changed
whenever a thunk loads it, so that it finds any subset of the message's keys
(`found`). A timer forgets a passphrase; each entry of a passphrase starts one
more and cancels none (`Arm`). `age`, a history variable, is the time since the
passphrase was given.

### Timeline

The requests of the store of discussions in flight, each with the answer of the
server once it has one, are received in any order. What `loadDiscussions` does
at each change of the store is part of every action that changes the store
(`Refresh`). Messages are numbers in the order of arrival; a discussion's date
is its last message. A notification stands for a batch; `Notices` lists those that may
be written, in the order of their time-based ids, which are taken before the batch is
put in the queue. So `ByNotifQueue` may put them there in any order, and nothing says
that it ever does: `aggregate` refuses a batch for several users (`batch.go:74`), `Save`
ignores an error of the queue (`batch.go:50`), and the process may end in between. The
poller is a web worker: it polls on an interval for what is after the last id it knows
(`from`), so that it skips a notification that comes late; its answers may overlap too,
and it stops after an error until `NotificationProvider` starts it again.
`stale`, a history variable, tells that requests overlapped, failed or raced a deletion since the last refresh that
nothing disturbed: the single `isFetching` flag promises nothing then. It also
tells that the first poll, which invalidates nothing, has brought what the list may
lack (`Missed`): because the list was asked for before, or because the scene was opened
again before that poll was answered, when a second first page is merged into the
old list and a discussion of a later page keeps its old date.

## 3. What the runs check

| Run | Instance | States | Question |
|---|---|---|---|
| `jobs` | 3 jobs, 2 kinds of worker, 3 processes (two compete), 2 failures | 8 thousand | Is the queue sound, FIFO, live, and an implementation of `PendingJobs`? |
| `converges` | 1 identity, 4 intervals, 1 syncer, 2 changes of the database, 1 failed read or crash | 190 thousand | Can stale copies of cache entries do harm, and does the idpoller end up agreeing with the database? |
| `deleted` | 1 identity, 2 changes | violation | Does polling stop when an identity is deleted? |
| `bounds` | 1 identity, 1 change | violation | Are polls within their bounds? |
| `imap_progress` | 2 workers, 1 message, 2 failures, 1 new UIDVALIDITY | 643 thousand | Is every message forwarded in the end, and none skipped unseen? |
| `imap_reset` | 2 messages, 1 new UIDVALIDITY | violation | Is what is skipped as seen stored? |
| `imap_mark` | 2 workers | violation | Does the mark prevent concurrent syncs? |
| `twitter` | 1 message asked twice, queues of one, 2 handlers at once, 1 failure | 444 thousand | Can handlers of one account harm each other, or block? |
| `delivery` | 1 mail for 1 user, by SMTP and from his mailbox, 1 parser, 1 failure, clocks of 2 and 1 | 92 thousand | Is what is acknowledged stored, once, and notified, and does every delivery end? |
| `draft` | 2 texts, 2 edits, 2 calls, 2 openings, 1 lost request | 285 thousand | Is what is mailed what was shown, and once? |
| `encryption` | 2 messages, one for a protected key, one for this and an open key, 4 thunks | 207 thousand | Are passphrases forgotten, and does decryption end? |
| `timeline` | 2 discussions (one empty), pages of one, 3 messages, the notifications of the 2 new ones in any order, 1 poll in flight, 2 openings, 1 click or leaving, 1 failure | 229 thousand | Does the list become that of the server, and does new mail show up? |

- `QueueMatchesMap`, `FirstInFirstOut`, `WorksOnOwnJobs`: the two structures of the
  queue agree, jobs leave in order, and a process never takes a late answer for
  the answer to its next request.
- `ImplementsPendingJobs`, `EverySyncHappens`: a pending job leaves the queue and
  every identity is synchronised again and again, whatever is lost. A job that is
  answered in vain is not lost for good, because cron posts it again.
- `CachedIsScheduled`: `fullSync` compares the database with the cache and never
  looks at the cron table, so an identity that is cached without a job would not
  be polled any more and nothing would repair it. It holds in all interleavings
  of `fullSync` and the order handler.
- `EntriesOwnTheirJobs`: cron ids in the cache and in local copies become stale
  (see `deleted`), but never name the job of another identity or the periodic
  `fullSync`.
- `CacheConverges`, `ActiveIsPolled`: once the database stops changing, `fullSync`
  repairs every lost or reordered order, failed read and crash.
- `NothingSkippedUnseen`: the saved `lastseenuid` never passes a message that was
  neither stored nor refused by the LDA, whatever syncs overlap. A message whose
  delivery failed **is** passed by the next success (`fetcher.go:122`), so the
  property counts it as settled.
- `EveryMailIsForwarded`: no mark, crash or overlap blocks an identity for ever.
- `RegisteredIsOpen`: the look-up never returns a handler whose channels are
  closed, so only a caller that looked it up before can panic.
- `SentOnce`: a message that is asked to be sent again is sent once, because one
  goroutine checks, sends and saves. The two exceptions are real: a second handler
  at work (see the notes below) and a save that fails after Twitter has the message.
- `DeliveriesAreAnswered`, `PollsGoOn`: the guard, the bounded queues and the
  unbuffered channels block neither deliveries nor polls for good. `PollsGoOn`
  excuses a handler that was created before `Worker.Desk` was made: it keeps a
  nil desk and waits on it for ever once it wants to be closed.
- `AckedIsStored`: the goroutines of the recipients overwrite each other's errors,
  but one of them remains, so no failed delivery is acknowledged or marked as
  delivered. What an answer says of the errors may be incomplete.
- `StoredOnce`: a mail comes again because it was refused, timed out or is also in
  a remote mailbox, while a parser may still be at work on it. It is stored again
  only by parsers that had looked it up before it was registered, one per
  process, and after a failure. With one process and no failure, once.
- `PanicIsSmtp`: one second between the limits of the two clocks is enough if they
  start together, as they do for the imap worker.
- `DeliveryEnds`: the LDA never waits longer than its time-out,
  no goroutine of the broker stays behind, and who is the only recipient of an
  acknowledged mail is notified, unless a query fails or the process ends.
- `SentIsClicked`: what the broker mails is what the user saw when he clicked on
  Send, whatever autosaves were scheduled or in flight. It rests on `handleSend`
  cancelling the throttled save and on the API comparing each patch with the body
  it was computed from.
- `MailedOnce`: one click is one mail. A lost answer, or leaving the scene while
  the message is being sent, gives the user a button for a second one.
- `ShownIsStored`: once nothing is in flight the text shown, the two copies in
  the store and the server's body are the same.
- `DeletedStaysDeleted`: a message is not created again by a save from before its
  deletion; the one exception is a creation the API had already checked.
- `EditIsSaved`, `SendSettles`: the last edit reaches the server, and whatever
  becomes of a send, the button comes back.
- `PassphraseForgotten`: each timer forgets the passphrase whoever entered it, so
  that a passphrase entered again is forgotten too early rather than too late.
- `WaitsForAsked`: a thunk that looked for a passphrase just before the user gave
  one does not leave its message waiting for a passphrase the store has.
- `DecryptionSettles`: no message stays "decrypting", although several thunks
  write its entry. A wrong passphrase is excepted: its thunk leaves the entry as
  it is (`WrongPassphrase`).
- `ListedIsKnown`: what is in the list has a date, whatever removes and adds it.
- `ShownIsServed`: once all is quiet the open timeline is the top of the server's
  list, dates and count included.
- `InvalidatedIsFetched`, `NewMailIsShown`: an invalidated list is fetched again,
  whatever fails; and a new message appears in an open timeline once a notification that
  was taken after it is in the queue, whether that comes before, during or after a
  refresh, and even if the poller never reads it because one with a later id came first:
  that one has made the list load both messages. Nothing is promised for a message whose
  notification is never written (see the notes below).

**Why these bounds are enough.** In `jobs`, two jobs and two processes of one kind
compete for the queue and a third checks that kinds do not mix; two failures let
a request be late while its sender's next one is lost. In `converges`,
two changes of the database are what it takes for an order to be overtaken by a
second one, and convergence is about each identity by itself; the job that a stale
entry must not remove is there the periodic `fullSync` or a later job of the
identity. Two identities and two syncers at once (two generations of stale entries,
1.3 million states) were checked for the three invariants too, which are proved for
any number of both. In
`imap_progress` the failures may be a crash, a failed login, a failed selection,
a broken connection, a failed delivery or a sync that takes too long. That one
sync is ahead of the other by a message needs two messages; that instance (1.4
million states with one failure, safety only) was checked too, and the theorem
about `NothingSkippedUnseen` is for any number. In `twitter`, two handlers at
once are the old one and its successor, queues of one are full after one order,
and the second request of the message is what sends it twice if anything does;
with three handlers (8 million states) the invariants held too. In `draft`, two
edits make one save overtake another, two calls are an autosave and a send or two
sends, two openings leave calls of the first behind; with three edits and three
calls the invariants held too. In `encryption`, two messages share a key and one
has another way to be decrypted; four thunks are two for each. In `timeline`,
pages of one make two discussions need two requests and move a discussion
from one page to the other while it is being loaded, and two notifications can come in the
order the poller does not expect; with three discussions and two polls in flight (0.75
million states) or two clicks (14 million) the invariants held too. In `delivery`, two
deliveries are what it takes for a mail to come again while it is being parsed, and the difference of one between the clocks is that of the code.
Two recipients, whose errors and notifications meet (1.1 million states), were
checked for the invariants too, which are proved for any number of recipients,
deliveries and parsers. No run uses symmetry.

### Findings

1. `deleted` (`messaging.go:95`): a job may outlive its identity. The handler of
   `delete` removes the job named by the cache entry it read, and that entry may
   not name it: `SyncCache` caches a new identity before `fullSync` has scheduled
   it, so that the order finds the cron id 0 and the job is added afterwards. Two
   sequences need no overlap at all: `update_interval` followed by `delete`,
   because the entry with the new cron id is discarded (`messaging.go:85`), and
   `add` for an identity `fullSync` has found first, which schedules it twice
   (`messaging.go:113`).
2. `bounds` (`identities.go:98`): the bounds on poll intervals are checked for
   `add` only. The twitter worker itself publishes 0 when it is rate limited and
   has a numeric interval, because the doubled interval is assigned to a variable
   that shadows the one it writes (`account.go:250`); cron then polls every second.
3. `imap_reset` (`fetcher.go:116`): after a change of UIDVALIDITY all messages are
   fetched again, but those whose UID is not past the old `lastseenuid` are
   skipped as seen.
4. `imap_mark` (`fetcher.go:70`): the mark that should prevent concurrent syncs is
   tested and set by two queries.

### Remarks

Met while modelling, without a run of their own:

- `decryption-middleware.js:59` says "discard passphrase after 20 minutes" and
  waits 12000000 ms, which is 200 minutes. `TTL` is the delay, whatever its value.
- `go.twitter/worker.go:21` wants one worker per active account. Two callers may
  create a handler each (the look-up and the registration are two critical
  sections); the second stops the first, whose sender then sends another order
  to be closed, and the desk, which deletes the key of the account whatever
  handler it has, removes the successor's registration. `overlapped` in
  `SentOnce` stands for this.
- `go.twitter/worker.go:48`: the threshold of failures that disables an account is
  never reached by the errors of `PollDM` it is meant for, because the deferred
  clean-up deletes the error dates that were just saved.
- `inbound.go:149` says that the LDA will "close the chan if timeout reached", and
  answers in the first 29 seconds of `processInbound` only. With the SMTP server
  this clock starts after the look-up of the recipients, the LDA's before it: an
  answer 28 seconds after a look-up of 3 goes to a closed channel, and the panic
  ends lmtpd. The two refusals of `processInboundSMTP` test no clock at all.
  `PanicIsSmtp` is what remains true.
- `emails.go:17`: a shadowed `err` hides a failed look-up, so the mail is
  acknowledged without this recipient, although `inbound.go:243` says "we discard the
  whole delivery if there is at least one error". `AckedIsStored` is therefore about
  the recipients found.
- `inbound.go:235`: the notifications of all the local recipients of a mail share a
  batch, which `aggregate` refuses ("inconsistent user ids within notifications
  slice", `batch.go:74`), so none of them is notified. `DeliveryEnds`
  therefore promises a notification to a single recipient only, and an open timeline does
  not show such a mail until something else invalidates the list (`NewMailIsShown`).
- `errors.go:88` has `DuplicateMessage` as an "error message sent by delivery.py via
  nats", but `subscribers.py:51` answers a duplicate as a success: the user is
  notified of the raw mail under its id.

## 4. Fairness

- `JobsHandler`: cron fires (`AddPendingJob`), the loop of `Worker.Start` asks
  again after `pollThrottling`, a request times out, the idpoller handles what
  it received, a job ends. All of them are weak. Losses and late answers are
  bounded by `MaxLosses`, not by fairness: if all answers were lost, nothing
  would be synchronised. An answer to a request whose sender has given up is
  not bounded.
- `IdPoller`: goroutines that are ready run (weak fairness); waiting for the cache
  mutex is strong fairness, because Go's mutex hands over to a goroutine that
  has waited for a millisecond and so starves nobody. Cron fires `fullSync`
  again and again (strong, since a crash or a running one disables it); a
  process that is down is started again by its deployment
  (`doc/release/deploy_kubernetes.md`). Nothing is assumed of users, of crashes
  or of lost orders; the first two are bounded by `MaxOps` and `MaxFailures`.
- `ImapSync`: time passes, and a worker goes on with what it can do. A worker that
  is idle is given the identity again, which is what `jobs` and `converges` show
  of the idpoller.
- `TwitterWorker`: weak fairness of every goroutine, of the time-out of a delivery
  and of the start-up; the idpoller gives the identity to the loop again. Neither
  failures nor crashes nor users are owed.
- `InboundDelivery`: goroutines and parsers go on, requests are answered or time
  out, time passes while a clock runs (weak, per delivery and recipient). A mail
  need not arrive, and a parser process that dies is replaced.
- `DraftMessage`: the timer of the throttled save fires, requests end one way or
  the other (weak, per call). The user owes nothing: he may never click, or close
  the scene for good, which is why the run does not check deadlock.
- `Encryption`: promises that are awaited settle, in any order. Timers are exact:
  time does not pass while one is due.
- `Timeline`: requests are answered, the worker polls and is started again after it
  has stopped. No message needs to arrive, no notification needs to be written (the code
  drops some) and the user owes nothing.

## 5. What is proved

`JobsHandler_proofs` holds for every set of workers, jobs and processes and
every bound, from the assumptions that `WorkerOf` and `Serves` are functions into
`Workers`, that `NoJob` is no job and that `MaxLosses` is a natural number:

- `TypeCorrect`: `Spec => []TypeOK`.
- `QueueCorrect`: `Spec => []QueueMatchesMap`.
- `WorkersCorrect`: `Spec => []WorksOnOwnJobs`.
- `FifoCorrect`: `Spec => FirstInFirstOut`.
- `Implements`: initial states map to initial states of `PendingJobs` and every
  step to one of its steps or to a stutter.

The inductive invariant is `IInv == TypeOK /\ QueueMatchesMap /\ RequestsOpen /\
WorksOnOwnJobs`. `WorksOnOwnJobs` alone is not inductive: a process that works
must not have a live request, and that follows from `RequestsOpen` (who has a
live request waits, who waits does not work), which no property states.
`QueueMatchesMap` rests on two lemmas on sequences, `AppendFresh` and
`TailWithoutDuplicates`: appending what a list does not contain and removing its
head keep it free of duplicates. The list having no duplicates is why removing a
job from the map when the head of the list is removed keeps the two equal.

`IdPoller_proofs` holds for every set of identities, intervals and syncers (so
for any number of concurrent `fullSync`) and every bound, from the assumptions
stated in `IdPoller` about the constants: the default and the rate-limited
interval are in range, what cron rejects is out of range, `None` and `Nobody`
are no entry and no syncer.

- `TypeCorrect`: `Spec => []TypeOK`. It needs `OrdersOK`, that an order
  `update_interval` carries an interval, since the handler does not check it.
- `EntriesCorrect`: `Spec => []EntriesOwnTheirJobs`. The property is not inductive:
  an entry with an id that cron has yet to give would later name a stranger's
  job. The invariant `OInv` adds that a held entry's id was already given
  (`HeldGood`), that ids in the table were given (`CronIdsGiven`), and that
  nothing is held while the process is down (`Quiet`), because a restart makes
  cron number its jobs from 1 again. The proof rests on one lemma, `HeldStep`: a
  step whose new jobs have new ids keeps all good entries good, so each action
  only has to account for the entries it adds.

- `ScheduledCorrect`: `Spec => []CachedIsScheduled`. The property says that a cached
  entry which cron accepts has a job or an actor about to give it one; to keep it,
  the invariant `SInv` must tell which actor. Its parts: whoever is about to write
  an entry has scheduled it before or does so next (`WrittenHaveJobs`); the job of
  an entry about to be written is known to nobody else (`WrittenAreUnknown`), so no
  blind `Remove` aims at it; and a cached entry has a pending step or a job that
  no such removal aims at (`Supported`).

`ImapSync_proofs` holds for any number of workers, any mailbox and all
thresholds, from the assumptions stated in `ImapSync`:

- `TypeCorrect`: `Spec => []TypeOK`.
- `SkippedCorrect`: `Spec => []NothingSkippedUnseen`. The saved mark is written from a
  worker's copy, so the invariant is about the copies (`CopiesSettled`): until the
  first change of UIDVALIDITY, every copy of `lastseenuid` is within the mailbox
  and everything up to it is delivered or failed; what a worker has fetched is
  consecutive and starts behind what is settled.

`TwitterWorker_proofs` holds for every sequence of orders, all capacities and any
number of handlers:

- `TypeCorrect`: `Spec => []TypeOK`.
- `OpenCorrect`: `Spec => []RegisteredIsOpen`. It needs `FreshIsPrivate`: a handler that
  was created and is not registered yet is known to its creator only, so that
  nobody closes it before `StoreHandler`; and `OrdersInHand`, that what is queued
  and sent are orders that wait.
- `SentOnceCorrect`: `Spec => []SentOnce`. While no two handlers were at work and
  nothing failed (`Calm`), at most one handler is alive and nobody closes it
  (`Alone`), and what it has sent it saves before it takes the next order (`Once`).

`InboundDelivery_proofs` holds for all sets of users and deliveries, any number of
parser processes and of failures, and any limits of the two clocks of which the
broker's is the shorter one:

- `TypeCorrect`: `Spec => []TypeOK`.
- `ImapNeverPanics`: `Spec => []PanicIsSmtp`, from `ClocksAgree`: while the broker's clock
  is below its limit, an LDA of the imap worker has waited no longer than the broker
  has worked, so that it still waits.
- `AckedCorrect`: `Spec => []AckedIsStored`. A goroutine that is over has left an error or a
  message (`Answered`), because whatever `Appends` overwrites, at least one error
  remains; and what the parsers answer is backed by a message (`Backed`).
- `NotifiedCorrect`: the safety half of `DeliveryEnds`. Whoever is the only recipient of
  an acknowledged mail has a notification once the batch is saved, unless a query fails
  or the process ends. A goroutine that is over has left an error or an entry of the
  batch (`Entered`), a mail is acknowledged when there is no error, and nothing is saved
  before the answer (`SavedLast`).
- `StoredOnceCorrect`: `Spec => []StoredOnce`, by counting (`Counted`): until the mail is
  known, each of its messages is that of a parser that has still to register it, or a
  failure; afterwards only those parsers add one that looked it up before. The
  cardinalities change by one with each step of a parser (`Moves`, `Counts`).

`Encryption_proofs` holds for all sets of messages and keys and every delay:

- `TypeCorrect`: `Spec => []TypeOK`.
- `ForgottenCorrect`: `Spec => []PassphraseForgotten`, from `PassphrasesTimed`: a
  passphrase of age `a` has a timer with at most `TTL - a` left, which no other
  timer cancels.
- `WaitsCorrect`: `Spec => []WaitsForAsked`.
- `InHandCorrect`: the safety half of `DecryptionSettles`. Unless a wrong passphrase was
  entered, a message that is shown as being decrypted or encrypted has a thunk at work
  on it. It needs `NoMistake`: until then the passphrases in the store and in the hands
  of the thunks are right, so that no thunk ends in the branch that writes nothing.

`Timeline_proofs` holds for every finite set of discussions, all page sizes, any
notifications written in any order (`NoticesAssumption`: later ids are of later messages)
and any number of messages, requests and failures:

- `TypeCorrect`: `Spec => []TypeOK`.
- `KnownCorrect`: `Spec => []ListedIsKnown`. What enters the list brings its date, and what
  loses its date leaves the list. Two things depend on each other: the types need that
  the poller only learns of notifications that are in the queue (`KnownHaveArrived`), so
  that its filter never passes the last of them, and `MaxOfBounded`, that a
  bounded non-empty set of numbers has a maximum.
- `FetchesCorrect`: the safety half of `InvalidatedIsFetched`. An open timeline that is
  invalidated or was never loaded is marked as being fetched (`isFetching`), and the mark
  always has a request in flight that ends it, although one flag stands for all of them.
- `ServedCorrect`: `Spec => []ShownIsServed`. Some things hold always (`UInv`): no date is
  later than the last message, and nothing is loaded before the scene is opened. The rest
  holds while `stale` is not set (`Steady`): at most one request is in flight (`Alone`); it
  fits the list (`Fits`: a page is asked for at the end of the list, or at its beginning
  when it replaces the list); and a list that is not invalidated is `Faithful`, the
  topmost part of the server's order with its dates and its count, but for a discussion
  that is being deleted (`Gone`). Both the list and a page on its way only have to agree
  with the server when the poller has heard of the last message (`Heard`), or before the
  first poll when the list shows it (`Newest`): otherwise a notification that is still to
  come invalidates them. That the next page extends a topmost part to a
  topmost part is `PageExtends`, from the ranks of the discussions (`TopmostRanks`). The
  attempt showed that the property was false, outside the bounds of the run, when the
  scene is opened again before the first poll (section 2): the escape clause `Missed`
  covers that case now. The invariant was also checked by TLC
  on instances with three discussions, one and two polls and up to 0.75 million states. `DiscussionsAssumption` says
  that the discussions are finitely many and that the model value `None` is none of them.

`DraftMessage_proofs` holds for every set of texts and any number of edits, calls,
openings and failures:

- `TypeCorrect`: `Spec => []TypeOK`. An editor that is shown has a body, which needs that
  whatever ends a request, a save or a deletion leaves an entry or closes the editor.
- `OnceCorrect`: `Spec => []MailedOnce`. That a mail was sent twice involves every part of
  the system, so the invariant `OInv` tells, for a user who waits and as long as
  nothing is lost (`Calm`): a save that waits is alone (`ThrottledAlone`); one send at a
  time is underway, and the editor waits for it or is closed (`OneSend`); a send that
  has mailed and is over has closed the editor for good or was refused because the
  message was deleted (`MailsAreSends`); and a message that was deleted is not created
  again, because the calls that remain are updates (`Doomed`, `Buried`), so that the
  broker has nothing to mail. What was written exists until then (`Exists`). `CalmStep`
  shows that the escape clauses of `MailedOnce` never become false again.
- `ClickedCorrect`: `Spec => []SentIsClicked`, and `DeletedCorrect`: `Spec =>
  DeletedStaysDeleted`, both from `CInv`, which holds however often the scene is opened
  and whatever is lost, as long as the user waits. The calls in flight carry one text
  (`OneText`), which is stored as soon as one of them relies on it (`StoredIsText`): a
  patch without a body relies on a message it has not read, so the invariant also says
  when what the browser knows is what is stored (`KnownIsStored`). A message is only
  created by a call asked for after the last deletion (`CreatesAreRecent`).
- `ShownCorrect`: `Spec => []ShownIsStored`, from `DInv`, which adds to `CInv` what holds
  while no two saves have overlapped and nothing has failed (`ShownParts`): the editor
  shows the entry of the store (`ShownIsEntry`), what is in flight or waits carries it
  (`FlightIsEntry`), what is stored is the base of the save or already its text
  (`BaseOrText`), so that the entry is stored once all saves are over (`EntryIsStored`),
  and the browser learns of each message it has created (`LearntSoon`). It assumes that the model value `None` is not a save (`NoneAssumption`).
- `SendCorrect`: the safety half of `SendSettles`. Whenever the button is disabled, a
  send of the component that is shown is underway, whose end or failure enables it
  again: `SendInHand` is inductive with the types, because a send remembers the
  component it belongs to and every promise that is rejected looks at it.

The safety halves (`FetchesCorrect`, `SendCorrect`, `InHandCorrect`, `NotifiedCorrect`)
say that nothing waits without somebody who will end the wait; that he does, and that
the waiting ends, are the liveness properties. Their invariants were also checked by
TLC on the instances of the runs before they were proved.

Every invariant of the passing runs is stated by a theorem, and so is every property of
them that is not liveness. Only model-checked: the liveness properties and the fairness
of the refinement, which are out of the prover's reach.

## 6. What the models leave out

- `IdPoller`: the cron library is external and its calls are atomic. Its counter
  of ids is in fact not synchronised (the repository's own `scheduler_test.go:125`
  notes that "cron pkg fails to handle concurrent remove"). `Remove` and `AddJob`
  of `UpdateSyncJobFor` are one step: no other actor looks at the table between
  the two, cron itself apart. `SyncBegin` takes the mutex
  before the first identity is read; in the code `RetrieveAllRemotes` is started just before
  (`identities.go:77`) and may have read one identity by then, which the model reads a
  little later. An identity that was deleted does not come back
  under its id, which is a fresh UUID. `Poller.Stop` is not modelled, nor are the
  jobs themselves (that is `JobsHandler`) or changes of protocol.
- `ImapSync`: messages are not removed from the remote mailbox, so UIDs are
  contiguous. `FetchRemoteToLocal` keeps no state. The content of messages, the
  headers and OAuth are not modelled (a failed validation is a failed login).
  `NothingSkippedUnseen` is about the time before a new UIDVALIDITY only: what
  happens after is finding 3.
- `TwitterWorker`: what `PollDM` does with the infos of the identity (last message
  seen, error dates, rate limits), `Stop`, and the orders `reload`, `add` and
  `remove_worker` (stubs or the same look-up). The mastodon worker has much of the
  same code but was not compared line by line.
- `InboundDelivery`: a mail has a Message-ID; without one nothing detects duplicates.
  The identities a message came to are not modelled, nor is the order in which
  a message and its index are written. No time passes between the test of the
  broker's clock and the answer, although the code does not exclude it. A process that has
  panicked is not started again. The imap worker saves its batch at the end of a
  sync, here of this one mail. The raw mail is always found by the parser.
- `DraftMessage`: a new message only (`hasDiscussion` is false). The early returns
  of `saveDraft` for an unchanged and an empty draft do not happen in the editor's
  own calls, and a blank message has no recipient, so it cannot be sent. Reading a
  message is one step. Attachments, tags and the choice of identities are not
  modelled, nor are encrypted drafts, whose text the decryption middleware puts in the entry
  later (`decryption-middleware.js:65`). `Deleted` is one step, whereas the code waits for
  the discussion between the removal of the message and `CLEAR_DRAFT`
  (`deleteMessage.js:24`): neither an edit nor a failure in between is modelled. A `PATCH`
  that is written after the deletion leaves a part of a row (`base.py:416`), which the
  model takes for no message. `overlapped` tells that the user typed or deleted while a save was
  unanswered, when the properties promise little: the order of the saves is then
  that of the network.
- `Encryption`: the bodies, and what the middleware does with the text of a decrypted
  draft; the form of a message that waits for two keys, whose
  address is the two fingerprints joined and which the form of one key does not
  find; `RESET_ENCRYPTION`, which nobody dispatches.
- `Timeline`: one clock gives all notifications their ids, and none expires.
  Left out are the delay with which Elasticsearch shows what it has indexed, the deletion of messages by other clients, the filter by importance, aliases of
  discussions, and the second listener each restart of the worker adds. The
  settings are assumed to be loaded. Overlapping polls are in the larger instances
  only. The collections of messages (`store/modules/message.js`) have a reducer of
  their own, which ignores `REQUEST_MESSAGES_FAIL`.
- The components of section 1 that no module covers. Much of the repository's code
  has no state a model would add anything to: forms, presentation and styles of
  the web application, the vendored Swagger interface, serialisation, generated
  types. The map therefore stays well below a third of all lines.

## 7. Plan

Next, the most important behaviour first. Each module comes with one or two runs.

1. `TwitterPoll`: `PollDM` with its rate limits, error dates and `lastDMseen`, and the
   orders it publishes. Properties: a faulty account is disabled in the end, no
   direct message is skipped unseen. The mastodon worker as a second instance.
2. The inbound delivery of direct messages (`brokers/go.twitter/inbound.go`), as the
   other side of `TwitterPoll`.
3. `MessageCollections`: the messages of a discussion in the store, their pages and
   invalidations, composed with `Timeline`.
4. `Sessions`: password reset and device validation under two Redis keys with
   concurrent requests, expiry and partial failures.
5. `StoreAndIndex`: patches checked against a state read before, store then
   index, uniqueness looked up before creation, upserts after deletion.
6. A composition of `JobsHandler` and `ImapSync`: a job taken by two processes.
7. Proofs of the safety halves of the other liveness properties: who holds
   `WorkersGuard`, and which order or database change the cache still waits for.

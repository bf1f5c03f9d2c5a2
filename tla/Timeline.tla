------------------------------ MODULE Timeline ------------------------------
(***************************************************************************)
(* The timeline of the web application: the list of discussions in the     *)
(* redux store (store/modules/discussion.js), the scene that shows it and  *)
(* asks for it (scenes/Timeline), the poller of notifications that         *)
(* invalidates it (modules/notification) and the deletion of a message     *)
(* (modules/message/actions/deleteMessage.js), against the mailbox on the  *)
(* server (go.main discussions and notifications).                         *)
(*                                                                         *)
(* The store has one flag isFetching and one flag didInvalidate for all    *)
(* the requests in flight, whose answers come in any order.                *)
(*                                                                         *)
(* A message is its number, in the order of arrival; a discussion is dated *)
(* by its last message, 0 when there is none.                              *)
(***************************************************************************)
EXTENDS Integers, Sequences, SequencesExt, FiniteSets, FiniteSetsExt

CONSTANTS
    Discussions,
    Mailbox,        \* discussion -> its messages before anything else happens
    PageSize,       \* limit of requestDiscussions
    None,
    Notices,        \* the notifications that may be written, in the order of their time-based
                    \* ids, each the number of the last message when its id was taken
    MaxMessages,    \* bound: messages in all
    MaxPolls,       \* bound: requests of notifications in flight
    MaxOpenings,    \* bound: times the scene is opened
    MaxClicks,      \* bound: load more, a discussion that is opened, a message that is deleted,
                    \* the scene that is left
    MaxFailures     \* bound: requests that fail

ASSUME DiscussionsAssumption == IsFiniteSet(Discussions) /\ None \notin Discussions
ASSUME MailboxAssumption == Mailbox \in [Discussions -> SUBSET (1..MaxMessages)]
ASSUME PageAssumption == PageSize \in Nat \ {0}
ASSUME TimelineBoundsAssumption ==
    MaxMessages \in Nat /\ MaxPolls \in Nat /\ MaxOpenings \in Nat /\ MaxClicks \in Nat
    /\ MaxFailures \in Nat

\* The messages that are in the mailbox to begin with: their notifications have expired.
Old == UNION {Mailbox[d] : d \in Discussions}
LastOld == Max({0} \cup Old)

ASSUME NoticesAssumption ==
    /\ Notices \in Seq((LastOld + 1)..MaxMessages)
    /\ \A j, k \in DOMAIN Notices : j <= k => Notices[j] <= Notices[k]

Numbers == 1..MaxMessages
Dates == [Discussions -> 0..MaxMessages]

\* A request of the store: a page of discussions, or one of them ("one"), maybe for
\* deleteMessage ("deleted"). dates is the answer of the server, total its count.
Request == [kind : {"list", "one", "deleted"}, offset : Nat, discussion : Discussions \cup {None},
            stage : {"sent", "answered", "refused"}, dates : Dates, total : Nat]

VARIABLES
    messages,       \* server: discussion -> its messages
    arrived,        \* server: number of the last message
    notified,       \* server: the ids of the notifications that are in the queue
    isFetching,     \* store: the fields of the reducer discussion
    didInvalidate,
    listed,         \* discussions, a set: the scene sorts it by date
    byId,           \* discussionsById: the date of each discussion, 0 if undefined
    total,
    requests,       \* the requests in flight
    deletion,       \* the discussion of a message that is being deleted
    open,           \* the scene is mounted
    initialized,    \* its state: initialized
    polling,        \* the interval of the worker runs
    from,           \* its filter: the last notification it knows
    polls,          \* the answers of the poller on their way, each a set of notifications
    notifications,  \* store: notification.notifications
    firstPollDone,  \* store: notification.initialized
    stale,          \* history: since the last undisturbed refresh, requests have overlapped,
                    \* with each other, an invalidation or a deletion, or one has failed
    openings, clicks, failures      \* counters of the bounds

server == <<messages, arrived, notified>>
store == <<isFetching, didInvalidate, listed, byId, total>>
scene == <<open, initialized>>
poller == <<polling, from, polls, notifications, firstPollDone>>
bounds == <<openings, clicks, failures>>
vars == <<server, store, requests, deletion, scene, poller, stale, bounds>>

Latest(d) == IF messages[d] = {} THEN 0 ELSE Max(messages[d])
Existing == {d \in Discussions : messages[d] # {}}

Init ==
    /\ messages = Mailbox
    /\ arrived = LastOld
    /\ notified = {}
    /\ isFetching = FALSE
    /\ didInvalidate = FALSE
    /\ listed = {}
    /\ byId = [d \in Discussions |-> 0]
    /\ total = 0
    /\ requests = <<>>
    /\ deletion = None
    /\ open = FALSE
    /\ initialized = FALSE
    /\ polling = TRUE
    /\ from = 0
    /\ polls = <<>>
    /\ notifications = {}
    /\ firstPollDone = FALSE
    /\ stale = FALSE
    /\ openings = 0
    /\ clicks = 0
    /\ failures = 0
-----------------------------------------------------------------------------
(***************************************************************************)
(* The server.                                                             *)
(***************************************************************************)
\* A message is stored in its discussion.
Arrive(d) ==
    /\ arrived < MaxMessages
    /\ arrived' = arrived + 1
    /\ messages' = [messages EXCEPT ![d] = @ \cup {arrived + 1}]
    /\ UNCHANGED <<notified, store, requests, deletion, scene, poller, stale, bounds>>

\* A batch of notifications, at least of one new message that no other batch tells of, is put
\* in the queue as one, in any order with other batches: its id was taken before, at a moment
\* when no later message than Notices[k] was stored. Nothing forces it: aggregate refuses
\* several users, an error is ignored, the process may end.
ByNotifQueue(k) ==
    /\ k \in DOMAIN Notices \ notified
    /\ Notices[k] <= arrived
    /\ Cardinality(notified) < arrived - LastOld
    /\ notified' = notified \cup {k}
    /\ UNCHANGED <<messages, arrived, store, requests, deletion, scene, poller, stale, bounds>>

\* GetDiscussionsList: the latest first, from the offset on.
Rank(d) == Cardinality({e \in Existing : Latest(e) > Latest(d)})
Page(offset) == {d \in Existing : offset <= Rank(d) /\ Rank(d) < offset + PageSize}

DatesOf(ds) == [d \in Discussions |-> IF d \in ds THEN Latest(d) ELSE 0]

\* The server answers: a page, unless the offset is past the end, or a discussion, unless
\* there is none.
Answer(r) ==
    LET found == IF r.kind = "list" THEN Page(r.offset) ELSE Existing \cap {r.discussion}
        refused == IF r.kind = "list"
                   THEN Existing # {} /\ r.offset > Cardinality(Existing)
                   ELSE found = {}
    IN  [r EXCEPT !.stage = IF refused THEN "refused" ELSE "answered",
                  !.dates = DatesOf(found), !.total = Cardinality(Existing)]

Serve(i) ==
    /\ requests[i].stage = "sent"
    /\ requests' = [requests EXCEPT ![i] = Answer(@)]
    /\ UNCHANGED <<server, store, deletion, scene, poller, stale, bounds>>
-----------------------------------------------------------------------------
(***************************************************************************)
(* The scene: loadDiscussions runs when it is mounted and each time the    *)
(* store changes.                                                          *)
(***************************************************************************)
NewRequest(kind, offset, d) ==
    [kind |-> kind, offset |-> offset, discussion |-> d, stage |-> "sent",
     dates |-> [e \in Discussions |-> 0], total |-> 0]

\* Mutant of LoadDiscussions: the list is only loaded when the scene is mounted.
LoadDiscussionsOnce(mounted, started, fetching, invalid, reqs, st) ==
    LET load == mounted /\ ~started /\ ~fetching
    IN  /\ requests' = IF load THEN Append(reqs, NewRequest("list", 0, None)) ELSE reqs
        /\ isFetching' = (fetching \/ load)
        /\ initialized' = (started \/ load)
        /\ didInvalidate' = invalid
        /\ stale' = (st \/ (load /\ reqs # <<>>))

\* What follows a change that leaves reqs in flight; st tells that it made the list stale.
LoadDiscussions(mounted, started, fetching, invalid, reqs, st) ==
    LET load == mounted /\ (~started \/ invalid) /\ ~fetching
    IN  /\ requests' = IF load THEN Append(reqs, NewRequest("list", 0, None)) ELSE reqs
        /\ isFetching' = (fetching \/ load)
        /\ initialized' = (started \/ load)
        /\ didInvalidate' = invalid
        /\ stale' = (st \/ (load /\ reqs # <<>>))

Refresh(fetching, invalid, reqs, st) ==
    LoadDiscussions(open, initialized, fetching, invalid, reqs, st)

Deleting(reqs) == deletion # None \/ \E i \in DOMAIN reqs : reqs[i].kind = "deleted"

\* INVALIDATE_DISCUSSIONS: a refresh that nothing disturbs makes the list right again.
Invalidate(fetching, reqs) ==
    Refresh(fetching, TRUE, reqs, reqs # <<>> \/ Deleting(reqs))

Open ==
    /\ ~open
    /\ openings < MaxOpenings
    /\ openings' = openings + 1
    /\ open' = TRUE
    /\ LoadDiscussions(TRUE, FALSE, isFetching, didInvalidate, requests, stale)
    /\ UNCHANGED <<server, listed, byId, total, deletion, poller, clicks, failures>>

Click == clicks < MaxClicks /\ clicks' = clicks + 1

Close ==
    /\ open
    /\ Click
    /\ open' = FALSE
    /\ initialized' = FALSE
    /\ UNCHANGED <<server, store, requests, deletion, poller, stale, openings, failures>>

\* getNextOffset
NextOffset == Cardinality(listed)

\* hasMore and LOAD_MORE_DISCUSSIONS, whether or not a request is in flight.
LoadMore ==
    /\ open
    /\ total > Cardinality(listed)
    /\ Click
    /\ LoadDiscussions(TRUE, initialized, TRUE, didInvalidate,
           Append(requests, NewRequest("list", NextOffset, None)),
           stale \/ requests # <<>>)
    /\ UNCHANGED <<server, listed, byId, total, deletion, open, poller, openings, failures>>

\* The scene of a discussion requests it if the store does not know it.
OpenDiscussion(d) ==
    /\ byId[d] = 0
    /\ Click
    /\ Refresh(TRUE, didInvalidate, Append(requests, NewRequest("one", 0, d)),
           stale \/ requests # <<>>)
    /\ UNCHANGED <<server, listed, byId, total, deletion, open, poller, openings, failures>>
-----------------------------------------------------------------------------
(***************************************************************************)
(* The answers, in any order.                                              *)
(***************************************************************************)
Dated(dates) == {d \in Discussions : dates[d] # 0}
Merge(old, dates) == [d \in Discussions |-> IF dates[d] # 0 THEN dates[d] ELSE old[d]]

\* Mutant of Kept: the page is added to an invalidated list too.
KeptAlways == listed

\* What stays of the list when a page comes.
Kept == IF didInvalidate THEN {} ELSE listed

\* REQUEST_DISCUSSIONS_SUCCESS: the page replaces an invalidated list or is added to it.
ReceiveList(i) ==
    LET r == requests[i] IN
    /\ r.kind = "list"
    /\ r.stage = "answered"
    /\ listed' = Kept \cup Dated(r.dates)
    /\ byId' = Merge(IF didInvalidate THEN [d \in Discussions |-> 0] ELSE byId, r.dates)
    /\ total' = r.total
    /\ Refresh(FALSE, FALSE, RemoveAt(requests, i), stale \/ Deleting(requests))
    /\ UNCHANGED <<server, deletion, open, poller, bounds>>

\* REQUEST_DISCUSSION_SUCCESS
ReceiveOne(i) ==
    LET r == requests[i] IN
    /\ r.kind = "one"
    /\ r.stage = "answered"
    /\ byId' = Merge(byId, r.dates)
    /\ Refresh(FALSE, didInvalidate, RemoveAt(requests, i), stale)
    /\ UNCHANGED <<server, listed, total, deletion, open, poller, bounds>>

\* Mutant of Without: the discussion is removed from discussionsById only.
WithoutForgetting(d) == listed

\* discussionIdsReducer
Without(d) == listed \ {d}

\* deleteMessage goes on with REMOVE_DISCUSSION_FROM_COLLECTION, whether the discussion
\* is found or not.
ReceiveDeleted(i) ==
    LET r == requests[i] IN
    /\ r.kind = "deleted"
    /\ r.stage # "sent"
    /\ listed' = Without(r.discussion)
    /\ byId' = [byId EXCEPT ![r.discussion] = 0]
    /\ total' = total - 1
    /\ Refresh(FALSE, didInvalidate, RemoveAt(requests, i),
           stale \/ r.stage = "answered" \/ r.discussion \notin listed)
    /\ UNCHANGED <<server, deletion, open, poller, bounds>>

\* Mutant of Failed: the store does not handle the failure.
FailedUnhandled(i) == Refresh(isFetching, didInvalidate, RemoveAt(requests, i), TRUE)

\* REQUEST_DISCUSSIONS_FAIL and REQUEST_DISCUSSION_FAIL
Failed(i) ==
    LET rest == RemoveAt(requests, i)
    IN  IF requests[i].kind = "deleted"
        THEN Invalidate(FALSE, rest)
        ELSE Refresh(FALSE, didInvalidate, rest, stale \/ ~didInvalidate)

\* The server refuses the offset or does not know the discussion.
Refused(i) ==
    /\ requests[i].stage = "refused"
    /\ requests[i].kind # "deleted"
    /\ Failed(i)
    /\ UNCHANGED <<server, listed, byId, total, deletion, open, poller, bounds>>

\* The request or its answer is lost, or the server fails.
Fail(i) ==
    /\ failures < MaxFailures
    /\ failures' = failures + 1
    /\ Failed(i)
    /\ UNCHANGED <<server, listed, byId, total, deletion, open, poller, openings, clicks>>
-----------------------------------------------------------------------------
(***************************************************************************)
(* deleteMessage.                                                          *)
(***************************************************************************)
\* The message is deleted on the server.
Delete(d, n) ==
    /\ deletion = None
    /\ byId[d] # 0
    /\ n \in messages[d]
    /\ Click
    /\ messages' = [messages EXCEPT ![d] = @ \ {n}]
    /\ deletion' = d
    /\ stale' = (stale \/ requests # <<>>)
    /\ UNCHANGED <<arrived, notified, store, requests, scene, poller, openings, failures>>

\* The answer has come: its discussion is requested.
DeleteAnswered ==
    /\ deletion # None
    /\ deletion' = None
    /\ Refresh(TRUE, didInvalidate, Append(requests, NewRequest("deleted", 0, deletion)),
           stale \/ requests # <<>>)
    /\ UNCHANGED <<server, listed, byId, total, open, poller, bounds>>

DeleteFails ==
    /\ deletion # None
    /\ failures < MaxFailures
    /\ failures' = failures + 1
    /\ deletion' = None
    /\ Refresh(isFetching, TRUE, requests, requests # <<>>)
    /\ UNCHANGED <<server, listed, byId, total, open, poller, openings, clicks>>
-----------------------------------------------------------------------------
(***************************************************************************)
(* The poller of notifications.                                            *)
(***************************************************************************)
\* Each 40 seconds, the notifications after the last one that is known.
Poll ==
    /\ polling
    /\ Len(polls) < MaxPolls
    /\ polls' = Append(polls, {n \in notified : n > from})
    /\ UNCHANGED <<server, store, requests, deletion, scene, polling, from, notifications,
                   firstPollDone, stale, bounds>>

\* What the first poll brings may be newer than a list that was asked for before, or than
\* what is left of it since the scene was opened again, and the first poll does not
\* invalidate it.
Missed(ns) ==
    /\ ~firstPollDone
    /\ openings > 0
    /\ ns # {}
    /\ \/ requests # <<>>
       \/ openings > 1
       \/ \E n \in ns : \A d \in listed : byId[d] < Notices[n]

\* Mutant of LastNotification: off by one.
AfterLastNotification(ns) == IF ns # notifications /\ ns # {} THEN Max(ns) + 1 ELSE from

\* updateLastNotifId, unless the notifications are those the store has.
LastNotification(ns) == IF ns # notifications /\ ns # {} THEN Max(ns) ELSE from

\* handleWorkerResults, MessageNotificationHandler, SET_INITIALIZED.
ReceivePoll(i) ==
    LET ns == polls[i] IN
    /\ polls' = RemoveAt(polls, i)
    /\ notifications' = ns
    /\ from' = LastNotification(ns)
    /\ firstPollDone' = TRUE
    /\ IF ns # notifications /\ ns # {} /\ firstPollDone
       THEN Invalidate(isFetching, requests)
       ELSE /\ stale' = (stale \/ Missed(ns))
            /\ UNCHANGED <<requests, isFetching, initialized, didInvalidate>>
    /\ UNCHANGED <<server, listed, byId, total, deletion, open, polling, bounds>>

\* No answer, or an error: then the worker stops.
PollFails(i) ==
    /\ failures < MaxFailures
    /\ failures' = failures + 1
    /\ polls' = RemoveAt(polls, i)
    /\ polling' \in {polling, FALSE}
    /\ UNCHANGED <<server, store, requests, deletion, scene, from, notifications,
                   firstPollDone, stale, openings, clicks>>

\* NotificationProvider tries again after a minute.
Restart ==
    /\ ~polling
    /\ polling' = TRUE
    /\ UNCHANGED <<server, store, requests, deletion, scene, from, polls, notifications,
                   firstPollDone, stale, bounds>>
-----------------------------------------------------------------------------
Reply(i) == Serve(i) \/ ReceiveList(i) \/ ReceiveOne(i) \/ ReceiveDeleted(i) \/ Refused(i)
Replies == DeleteAnswered \/ \E i \in DOMAIN requests : Reply(i)
Polling == Poll \/ Restart \/ \E i \in DOMAIN polls : ReceivePoll(i)
Notifying == \E k \in DOMAIN Notices : ByNotifQueue(k)

Next ==
    \/ \E d \in Discussions : Arrive(d) \/ OpenDiscussion(d)
    \/ \E d \in Discussions, n \in Numbers : Delete(d, n)
    \/ Notifying
    \/ Open \/ Close \/ LoadMore
    \/ Replies
    \/ \E i \in DOMAIN requests : Fail(i)
    \/ DeleteFails
    \/ Polling
    \/ \E i \in DOMAIN polls : PollFails(i)

\* Requests are answered and the worker polls; the user owes nothing, no message needs to
\* arrive and none needs to be notified.
Fairness == WF_vars(Replies) /\ WF_vars(Polling)

Spec == Init /\ [][Next]_vars /\ Fairness
-----------------------------------------------------------------------------
\* The types; the poller never asks past the last notification (updateLastNotifId), and
\* total may be negative (REMOVE_DISCUSSION_FROM_COLLECTION).
TypeOK ==
    /\ messages \in [Discussions -> SUBSET Numbers]
    /\ arrived \in 0..MaxMessages
    /\ notified \subseteq DOMAIN Notices
    /\ isFetching \in BOOLEAN /\ didInvalidate \in BOOLEAN
    /\ listed \subseteq Discussions
    /\ byId \in Dates
    /\ total \in Int
    /\ requests \in Seq(Request)
    /\ deletion \in Discussions \cup {None}
    /\ open \in BOOLEAN /\ initialized \in BOOLEAN
    /\ polling \in BOOLEAN
    /\ from \in {0} \cup notified
    /\ polls \in Seq(SUBSET DOMAIN Notices)
    /\ notifications \subseteq DOMAIN Notices
    /\ firstPollDone \in BOOLEAN /\ stale \in BOOLEAN
    /\ openings \in Nat /\ clicks \in Nat /\ failures \in Nat

\* Every discussion of the list is known: the scene reads its date and its importance
\* (mapStateToProps of scenes/Timeline).
ListedIsKnown == \A d \in listed : byId[d] # 0

\* The last message is told of, the poller knows all there is, and nothing more will happen
\* unless a message arrives or the user does something.
Quiet ==
    /\ requests = <<>> /\ deletion = None /\ ~didInvalidate
    /\ arrived = LastOld \/ \E k \in notified : Notices[k] = arrived
    /\ firstPollDone /\ polls = <<>> /\ \A k \in notified : k <= from

\* Once everything is quiet, the timeline shows the latest discussions as the server has
\* them and knows how many there are, so that the others can be loaded.
ShownIsServed ==
    Quiet /\ open /\ ~stale =>
        /\ listed = {d \in Existing : Rank(d) < Cardinality(listed)}
        /\ \A d \in listed : byId[d] = Latest(d)
        /\ total = Cardinality(Existing)

\* An invalidated list is fetched again, whatever fails (loadDiscussions).
InvalidatedIsFetched == (didInvalidate /\ open) ~> (~didInvalidate \/ ~open)

\* A new message with a notification in the queue is shown in an open timeline: also when
\* the poller never asks for that notification, because one with a later id was put in the
\* queue and read before it (the filter from of notification.worker).
NewMailIsShown ==
    \A n \in Numbers \ Old :
        ((\E k \in notified : Notices[k] >= n) /\ firstPollDone /\ open) ~>
            \/ ~open \/ stale
            \/ \E d \in listed : byId[d] >= n
            \/ \E m \in n..arrived : \A d \in Discussions : m \notin messages[d]
=============================================================================

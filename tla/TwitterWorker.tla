--------------------------- MODULE TwitterWorker ---------------------------
(***************************************************************************)
(* A process of the twitter worker and the handlers it has of one remote   *)
(* identity (backend/protocols/go.twitter, backend/brokers/go.twitter).    *)
(*                                                                         *)
(* Two goroutines look the handler of the account up and create it: the    *)
(* loop of Worker.Start, for the sync orders of the idpoller, and the NATS *)
(* callback DMmsgHandler, for the deliveries the API requests.  A handler  *)
(* has a goroutine that polls the direct messages and one that sends them; *)
(* a third goroutine of the worker takes closed handlers off the map.      *)
(* They share the map under WorkersGuard, and the channels Egress, Halt    *)
(* and AccountDesk of each handler, that anybody may close.                *)
(*                                                                         *)
(* Sending to a closed channel and closing it again end the process, which *)
(* is started again; the handlers, their queues and their goroutines go.   *)
(*                                                                         *)
(* What PollDM does with the infos of the identity is left out: a poll     *)
(* lasts, and may end with an order to close its own handler.              *)
(***************************************************************************)
EXTENDS Naturals, Sequences, SequencesExt

CONSTANTS
    Messages,
    MessageOf,      \* the messages that are asked to be delivered, one after the other
    Nobody,
    EgressSize,     \* capacity of Egress
    DeskSize,       \* capacity of Desk
    MaxHandlers,    \* bound: handlers the process has at once
    MaxFailures     \* bound: queries and requests that fail or time out, crashes

ASSUME OrdersAssumption == MessageOf \in Seq(Messages)
ASSUME SizesAssumption == EgressSize \in Nat /\ DeskSize \in Nat \ {0}
ASSUME TwitterBoundsAssumption == MaxFailures \in Nat /\ MaxHandlers \in Nat

Callers == {"loop", "dms"}
Actors == Callers \cup {"desk"}
Orders == DOMAIN MessageOf
ASSUME NobodyAssumption == Nobody \notin Nat \cup Actors

\* 0 is no handler.
HandlerIds == 1..MaxHandlers
MaybeHandler == 0..MaxHandlers

\* What a handler is made of. closed stands for Halt and AccountDesk, closed together.
\* sender is what the sending goroutine does next, sending its order; poller tells whether
\* the other goroutine runs PollDM or, its token being invalid, asks to be closed. A mute
\* handler was created before the desk: its MasterDesk is nil.
Handler == [egress : Seq(Orders), egressClosed : BOOLEAN, closed : BOOLEAN,
            sender : {"select", "build", "create", "save", "ack", "hung", "closing", "ended"},
            sending : Orders \cup {Nobody},
            poller : {"idle", "polling", "suicide"}, mute : BOOLEAN]

VARIABLES
    draft,          \* database: message -> Is_draft
    created,        \* Twitter: message -> number of times it was sent
    orders,         \* order -> "new", "asked", "waiting" for its ack, "answered" or "lost"
    registered,     \* AccountHandlers[userId+remoteId]
    guard,          \* who holds WorkersGuard
    handlers,       \* the handlers of this process
    ready,          \* InitWorker is over: the desk exists and the loop runs
    desk,           \* Worker.Desk
    pc,             \* actor -> what it does next
    target,         \* actor -> the handler it has looked up, created or was told to remove
    old,            \* caller -> the handler RegisterAccountHandler has found
    order,          \* the order DMmsgHandler is handling
    saves,          \* the messages that ProcessOutDM saves after SendDM has given up
    overlapped,     \* history: a handler was created while another one was at work
    failures        \* counter of the bound

messages == <<draft, created>>
registry == <<registered, guard>>
goroutines == <<pc, target, old, order>>
process == <<registry, handlers, ready, desk, goroutines, saves>>
vars == <<messages, orders, process, overlapped, failures>>

NewHandler ==
    [egress |-> <<>>, egressClosed |-> FALSE, closed |-> FALSE, sender |-> "select",
     sending |-> Nobody, poller |-> "idle", mute |-> FALSE]
\* Its channels are closed and its goroutines have ended, or there is none.
Gone == [NewHandler EXCEPT !.egressClosed = TRUE, !.closed = TRUE, !.sender = "ended"]

NoMemory ==
    /\ registered' = 0
    /\ guard' = Nobody
    /\ handlers' = [h \in HandlerIds |-> Gone]
    /\ ready' = FALSE
    /\ desk' = <<>>
    /\ pc' = [a \in Actors |-> "idle"]
    /\ target' = [a \in Actors |-> 0]
    /\ old' = [c \in Callers |-> 0]
    /\ order' = Nobody
    /\ saves' = {}

Init ==
    /\ draft = [m \in Messages |-> TRUE]
    /\ created = [m \in Messages |-> 0]
    /\ orders = [o \in Orders |-> "new"]
    /\ registered = 0
    /\ guard = Nobody
    /\ handlers = [h \in HandlerIds |-> Gone]
    /\ ready = FALSE
    /\ desk = <<>>
    /\ pc = [a \in Actors |-> "idle"]
    /\ target = [a \in Actors |-> 0]
    /\ old = [c \in Callers |-> 0]
    /\ order = Nobody
    /\ saves = {}
    /\ overlapped = FALSE
    /\ failures = 0
-----------------------------------------------------------------------------
(***************************************************************************)
(* The surroundings.                                                       *)
(***************************************************************************)
Fail == failures < MaxFailures /\ failures' = failures + 1

\* The user sends a message, or sends it again.
AskDelivery(o) ==
    /\ orders[o] = "new"
    /\ \A p \in 1..(o - 1) : orders[p] # "new"
    /\ orders' = [orders EXCEPT ![o] = "asked"]
    /\ UNCHANGED <<messages, process, overlapped, failures>>

\* The process ends and is started again. Its unanswered deliveries time out.
EndProcess ==
    /\ NoMemory
    /\ orders' = [o \in Orders |->
          IF orders[o] \in {"asked", "waiting"} THEN "lost" ELSE orders[o]]
    /\ UNCHANGED <<messages, overlapped>>

\* NATS is subscribed before the desk is made.
InitWorker ==
    /\ ~ready
    /\ ready' = TRUE
    /\ UNCHANGED <<messages, orders, registry, handlers, desk, goroutines, saves,
                   overlapped, failures>>

Crash == Fail /\ EndProcess

Panic == EndProcess /\ UNCHANGED failures
-----------------------------------------------------------------------------
(***************************************************************************)
(* getOrCreateHandler and RegisterAccountHandler, run by two goroutines.   *)
(***************************************************************************)
Goto(a, step) == pc' = [pc EXCEPT ![a] = step]
Unlocked == guard = Nobody

\* The first critical section: the map is read.
Lookup(c) ==
    /\ pc[c] = "idle"
    /\ Unlocked
    /\ IF registered # 0 THEN Goto(c, "offer") ELSE Goto(c, "create")
    /\ target' = [target EXCEPT ![c] = registered]
    /\ UNCHANGED <<messages, registry, handlers, ready, desk, old, saves, overlapped,
                   failures>>

\* WorkerMsgHandler has been given a sync order, DMmsgHandler a delivery.
LookupForSync == ready /\ Lookup("loop") /\ UNCHANGED <<orders, order>>
LookupForDelivery(o) ==
    /\ orders[o] = "asked"
    /\ Lookup("dms")
    /\ order' = o
    /\ UNCHANGED orders

\* A handler that nobody refers to any more: the next one may have its number.
Free(h) ==
    /\ handlers[h] = Gone
    /\ h # registered
    /\ \A a \in Actors : target[a] # h
    /\ \A c \in Callers : old[c] # h
    /\ \A i \in DOMAIN desk : desk[i] # h

Full == \A h \in HandlerIds : ~Free(h)

\* NewAccountHandler reads the identity.
Create(c) ==
    /\ pc[c] = "create"
    /\ ~Full
    /\ LET h == CHOOSE x \in HandlerIds : Free(x) IN
           /\ handlers' = [handlers EXCEPT ![h] = [NewHandler EXCEPT !.mute = ~ready]]
           /\ target' = [target EXCEPT ![c] = h]
    /\ Goto(c, "register")
    /\ overlapped' = (overlapped \/ \E h \in HandlerIds : handlers[h] # Gone)
    /\ UNCHANGED <<messages, orders, registry, ready, desk, old, order, saves, failures>>

\* Back to the loop, or to the next NATS message.
Return(c) ==
    /\ Goto(c, "idle")
    /\ target' = [target EXCEPT ![c] = 0]
    /\ order' = IF c = "dms" THEN Nobody ELSE order

\* DMmsgHandler answers the API with an error.
AnswerError(c) ==
    orders' = IF c = "dms" THEN [orders EXCEPT ![order] = "answered"] ELSE orders

CreateFails(c) ==
    /\ pc[c] = "create"
    /\ IF Full THEN UNCHANGED failures ELSE Fail
    /\ AnswerError(c)
    /\ Return(c)
    /\ UNCHANGED <<messages, registry, handlers, ready, desk, old, saves, overlapped>>

\* The second critical section: is there a handler to stop first?
FindRegistered(c) ==
    /\ pc[c] = "register"
    /\ Unlocked
    /\ old' = [old EXCEPT ![c] = registered]
    /\ Goto(c, IF registered # 0 THEN "remove" ELSE "store")
    /\ UNCHANGED <<messages, orders, registry, handlers, ready, desk, target, order,
                   saves, overlapped, failures>>

\* The last one.
StoreHandler(c) ==
    /\ pc[c] = "store"
    /\ Unlocked
    /\ registered' = target[c]
    /\ Goto(c, "offer")
    /\ UNCHANGED <<messages, orders, guard, handlers, ready, desk, target, old, order,
                   saves, overlapped, failures>>

\* The desk of the worker hands a closed handler over.
TakeClosed ==
    /\ pc["desk"] = "idle"
    /\ desk # <<>>
    /\ target' = [target EXCEPT !["desk"] = Head(desk)]
    /\ desk' = Tail(desk)
    /\ Goto("desk", "remove")
    /\ UNCHANGED <<messages, orders, registry, handlers, ready, old, order, saves,
                   overlapped, failures>>

Victim(a) == IF a = "desk" THEN target[a] ELSE old[a]

\* Mutant of Removed: the key stays.
RemovedLater(a) ==
    /\ Goto(a, IF a = "desk" THEN "idle" ELSE "store")
    /\ target' = [target EXCEPT !["desk"] = IF a = "desk" THEN 0 ELSE @]
    /\ old' = [c \in Callers |-> IF c = a THEN 0 ELSE old[c]]
    /\ UNCHANGED registered

\* RemoveAccountHandler deletes the key of the account, whichever handler it has.
Removed(a) ==
    /\ registered' = 0
    /\ Goto(a, IF a = "desk" THEN "idle" ELSE "store")
    /\ target' = [target EXCEPT !["desk"] = IF a = "desk" THEN 0 ELSE @]
    /\ old' = [c \in Callers |-> IF c = a THEN 0 ELSE old[c]]

\* Mutant of NothingToStop: an early return without unlocking.
NothingToUnlock(a) == Removed(a) /\ guard' = a /\ UNCHANGED handlers

\* The handler has been closed already.
NothingToStop(a) == Removed(a) /\ UNCHANGED <<guard, handlers>>

\* AccountHandler.Stop, under WorkersGuard, closes Egress first.
BeginRemove(a) ==
    /\ pc[a] = "remove"
    /\ Unlocked
    /\ IF handlers[Victim(a)].closed
       THEN NothingToStop(a)
       ELSE /\ handlers' = [handlers EXCEPT ![Victim(a)].egressClosed = TRUE]
            /\ guard' = a
            /\ Goto(a, "removing")
            /\ UNCHANGED <<registered, target, old>>
    /\ UNCHANGED <<messages, orders, ready, desk, order, saves, overlapped, failures>>

\* Then Halt and AccountDesk, which the handler's sender may have closed in between.
FinishRemove(a) ==
    /\ pc[a] = "removing"
    /\ IF handlers[Victim(a)].closed
       THEN Panic
       ELSE /\ handlers' = [handlers EXCEPT ![Victim(a)].closed = TRUE]
            /\ guard' = Nobody
            /\ Removed(a)
            /\ UNCHANGED <<messages, orders, ready, desk, order, saves, overlapped,
                           failures>>
-----------------------------------------------------------------------------
(***************************************************************************)
(* What a caller does with the handler it holds, closed or not by now.     *)
(***************************************************************************)
OfferPoll ==
    /\ pc["loop"] = "offer"
    /\ LET h == handlers[target["loop"]] IN
       IF h.closed
       THEN Panic
       ELSE \* a poller that is busy lets the order time out
            /\ handlers' = IF h.poller = "idle"
                           THEN [handlers EXCEPT ![target["loop"]].poller = "polling"]
                           ELSE handlers
            /\ Return("loop")
            /\ UNCHANGED <<messages, orders, registry, ready, desk, old, saves,
                           overlapped, failures>>

OfferDelivery ==
    /\ pc["dms"] = "offer"
    /\ LET h == handlers[target["dms"]] IN
       IF h.egressClosed
       THEN Panic
       ELSE /\ IF Len(h.egress) < EgressSize
               THEN /\ handlers' = [handlers EXCEPT ![target["dms"]].egress = Append(@, order)]
                    /\ orders' = [orders EXCEPT ![order] = "waiting"]
               ELSE AnswerError("dms") /\ UNCHANGED handlers
            /\ Return("dms")
            /\ UNCHANGED <<messages, registry, ready, desk, old, saves, overlapped,
                           failures>>
-----------------------------------------------------------------------------
(***************************************************************************)
(* The goroutine of a handler that sends, and ProcessOutDM.                *)
(***************************************************************************)
SenderGoes(h, from, to) ==
    /\ handlers[h].sender = from
    /\ handlers' = [handlers EXCEPT ![h].sender = to]

Sending(h) == handlers[h].sending
Sent(h) == MessageOf[Sending(h)]

\* select: an order, even from a closed Egress.
TakeOrder(h) ==
    /\ handlers[h].sender = "select"
    /\ handlers[h].egress # <<>>
    /\ handlers' = [handlers EXCEPT ![h].sender = "build", ![h].egress = Tail(@),
                                    ![h].sending = Head(handlers[h].egress)]
    /\ UNCHANGED <<messages, orders, registry, ready, desk, goroutines, saves,
                   overlapped, failures>>

\* select: Egress is closed and empty, or Halt is closed.
NoticeClosed(h) ==
    /\ handlers[h].sender = "select"
    /\ handlers[h].closed \/ (handlers[h].egressClosed /\ handlers[h].egress = <<>>)
    /\ handlers' = [handlers EXCEPT ![h].sender = "closing", ![h].closed = TRUE]
    /\ UNCHANGED <<messages, orders, registry, ready, desk, goroutines, saves,
                   overlapped, failures>>

\* Mutant of Post: the desk is not bounded.
PostAnyway(h) == desk' = Append(desk, h)

\* A close order for the worker's desk. Sending to nil waits for ever.
Post(h) == Len(desk) < DeskSize /\ ~handlers[h].mute /\ desk' = Append(desk, h)

SenderEnds(h) ==
    /\ handlers[h].sender = "closing"
    /\ handlers' = [handlers EXCEPT ![h].sender = "ended", ![h].egress = <<>>]
    /\ Post(h)
    /\ UNCHANGED <<messages, orders, registry, ready, goroutines, saves, overlapped,
                   failures>>

\* Mutant of Sendable: the draft is not read again.
AlwaysSendable(m) == TRUE

\* ProcessOutDM only sends drafts.
Sendable(m) == draft[m]

Build(h) ==
    /\ SenderGoes(h, "build", IF Sendable(Sent(h)) THEN "create" ELSE "ack")
    /\ UNCHANGED <<messages, orders, registry, ready, desk, goroutines, saves,
                   overlapped, failures>>

\* EventsCreate
CreateDM(h) ==
    /\ SenderGoes(h, "create", "save")
    /\ created' = [created EXCEPT ![Sent(h)] = @ + 1]
    /\ UNCHANGED <<draft, orders, registry, ready, desk, goroutines, saves, overlapped,
                   failures>>

\* SaveIndexSentDM
SaveSent(h) ==
    /\ SenderGoes(h, "save", "ack")
    /\ draft' = [draft EXCEPT ![Sent(h)] = FALSE]
    /\ UNCHANGED <<created, orders, registry, ready, desk, goroutines, saves, overlapped,
                   failures>>

\* A query fails, ProcessOutDM is too slow for SendDM or Twitter answers an error, whether
\* or not it has sent the message. If Twitter is too slow for ProcessOutDM, nobody reads
\* Response any more and the sender stays there for ever.
SendFails(h) ==
    /\ Fail
    /\ \/ SenderGoes(h, "build", "ack") /\ UNCHANGED <<created, saves>>
       \/ /\ SenderGoes(h, "create", "ack") \/ SenderGoes(h, "create", "hung")
          /\ created' \in {created, [created EXCEPT ![Sent(h)] = @ + 1]}
          /\ UNCHANGED saves
       \/ /\ SenderGoes(h, "save", "ack")
          /\ saves' \in {saves, saves \cup {Sent(h)}}
          /\ UNCHANGED created
    /\ UNCHANGED <<draft, orders, registry, ready, desk, goroutines, overlapped>>

\* ProcessOutDM ends after SendDM has given up.
SaveLate(m) ==
    /\ m \in saves
    /\ saves' = saves \ {m}
    /\ draft' = [draft EXCEPT ![m] = FALSE]
    /\ UNCHANGED <<created, orders, registry, handlers, ready, desk, goroutines,
                   overlapped, failures>>

\* The goroutine that waits for the ack of an order takes it. Ack has no buffer: if nobody
\* waits any more, the sender stays here for ever.
Acknowledge(h) ==
    /\ handlers[h].sender = "ack"
    /\ orders[Sending(h)] = "waiting"
    /\ handlers' = [handlers EXCEPT ![h].sender = "select", ![h].sending = Nobody]
    /\ orders' = [orders EXCEPT ![Sending(h)] = "answered"]
    /\ UNCHANGED <<messages, registry, ready, desk, goroutines, saves, overlapped,
                   failures>>

\* A goroutine that waits for ever.
Hung(h) ==
    \/ handlers[h].sender = "hung"
    \/ handlers[h].sender = "ack" /\ orders[Sending(h)] # "waiting"

\* The sender has the order in hand or will take it.
InProgress(o) ==
    \E h \in HandlerIds :
        /\ ~Hung(h)
        /\ Sending(h) = o \/ (~handlers[h].closed /\ Contains(handlers[h].egress, o))

\* Nobody has acknowledged the delivery for 30 seconds: a failure if somebody was about to.
GiveUp(o) ==
    /\ orders[o] = "waiting"
    /\ orders' = [orders EXCEPT ![o] = "answered"]
    /\ IF InProgress(o) THEN Fail ELSE UNCHANGED failures
    /\ UNCHANGED <<messages, process, overlapped>>
-----------------------------------------------------------------------------
(***************************************************************************)
(* The goroutine of a handler that polls. What PollDM does with the infos  *)
(* of the identity is left out.                                            *)
(***************************************************************************)
PollerGoes(h, from, to) ==
    /\ handlers[h].poller = from
    /\ handlers' = [handlers EXCEPT ![h].poller = to]

FinishPoll(h) ==
    /\ PollerGoes(h, "polling", "idle")
    /\ UNCHANGED <<messages, orders, registry, ready, desk, goroutines, saves,
                   overlapped, failures>>

\* The token is invalid or has expired.
TokenExpired(h) ==
    /\ PollerGoes(h, "polling", "suicide")
    /\ Fail
    /\ UNCHANGED <<messages, orders, registry, ready, desk, goroutines, saves, overlapped>>

Suicide(h) ==
    /\ PollerGoes(h, "suicide", "idle")
    /\ Post(h)
    /\ UNCHANGED <<messages, orders, registry, ready, goroutines, saves, overlapped,
                   failures>>
-----------------------------------------------------------------------------
Calling(c) ==
    \/ Create(c) \/ (Full /\ CreateFails(c)) \/ FindRegistered(c) \/ StoreHandler(c)
    \/ BeginRemove(c) \/ FinishRemove(c)

Looping == LookupForSync \/ Calling("loop") \/ OfferPoll
Delivering == (\E o \in Orders : LookupForDelivery(o)) \/ Calling("dms") \/ OfferDelivery
AtDesk == TakeClosed \/ BeginRemove("desk") \/ FinishRemove("desk")

SenderOf(h) ==
    \/ TakeOrder(h) \/ NoticeClosed(h) \/ SenderEnds(h)
    \/ Build(h) \/ CreateDM(h) \/ SaveSent(h) \/ Acknowledge(h)
PollerOf(h) == FinishPoll(h) \/ Suicide(h)

Next ==
    \/ InitWorker \/ Crash
    \/ Looping \/ Delivering \/ AtDesk
    \/ \E c \in Callers : CreateFails(c)
    \/ \E h \in HandlerIds :
          SenderOf(h) \/ SendFails(h) \/ PollerOf(h) \/ TokenExpired(h)
    \/ \E m \in Messages : SaveLate(m)
    \/ \E o \in Orders : AskDelivery(o) \/ GiveUp(o)

\* Goroutines that are ready run, whoever holds WorkersGuard; timers fire; the idpoller
\* gives the identity to the loop again and again.
Fairness ==
    /\ WF_vars(InitWorker)
    /\ WF_vars(Looping) /\ WF_vars(Delivering) /\ WF_vars(AtDesk)
    /\ \A h \in HandlerIds :
          /\ WF_vars(SenderOf(h))
          /\ WF_vars(PollerOf(h))
    /\ WF_vars(\E o \in Orders : GiveUp(o))

Spec == Init /\ [][Next]_vars /\ Fairness
-----------------------------------------------------------------------------
\* The types; the channels keep to their capacities.
TypeOK ==
    /\ draft \in [Messages -> BOOLEAN]
    /\ created \in [Messages -> Nat]
    /\ orders \in [Orders -> {"new", "asked", "waiting", "answered", "lost"}]
    /\ registered \in MaybeHandler
    /\ guard \in Actors \cup {Nobody}
    /\ handlers \in [HandlerIds -> Handler]
    /\ \A h \in HandlerIds : Len(handlers[h].egress) <= EgressSize
    /\ ready \in BOOLEAN
    /\ desk \in Seq(HandlerIds) /\ Len(desk) <= DeskSize
    /\ pc \in [Actors -> {"idle", "create", "register", "remove", "removing", "store", "offer"}]
    /\ target \in [Actors -> MaybeHandler]
    /\ old \in [Callers -> MaybeHandler]
    /\ order \in Orders \cup {Nobody}
    /\ saves \subseteq Messages
    /\ overlapped \in BOOLEAN
    /\ failures \in 0..MaxFailures

\* A handler found in AccountHandlers is open: whoever closes one takes it off the map
\* before WorkersGuard is released, so that only a caller that looked it up before can
\* send to its closed channels (RemoveAccountHandler).
RegisteredIsOpen ==
    Unlocked /\ registered # 0 =>
        ~handlers[registered].egressClosed /\ ~handlers[registered].closed

\* A message that is asked to be delivered again and again is sent once, because one
\* goroutine reads Is_draft, sends and saves: unless a query failed or two handlers of the
\* account were at work (ProcessOutDM).
SentOnce == \A m \in Messages : created[m] <= 1 \/ overlapped \/ failures > 0

\* Every delivery is answered or ends with its process: neither WorkersGuard nor a full
\* Egress, nor a handler that is closed or waits for ever, blocks DMmsgHandler.
DeliveriesAreAnswered == []<>(\A o \in Orders : orders[o] \notin {"asked", "waiting"})

\* The account is polled again and again, whatever handlers are closed, replaced or killed,
\* and although the desk they send their orders to is bounded: unless the bound of handlers
\* is reached or the handler has no desk.
PollsGoOn ==
    []<>(\/ \E h \in HandlerIds : handlers[h].poller = "polling"
         \/ \E h \in HandlerIds : handlers[h].poller = "suicide" /\ handlers[h].mute
         \/ Full /\ pc["loop"] = "create")
=============================================================================

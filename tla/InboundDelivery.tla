-------------------------- MODULE InboundDelivery --------------------------
(***************************************************************************)
(* The delivery of one mail to local users: the LDA of the SMTP server or  *)
(* of the imap worker (protocols/go.smtp/receiver.go, go.imap/lda.go), the *)
(* broker that works for it (brokers/go.emails/inbound.go), one goroutine  *)
(* per recipient, and the Python parser each of them asks over NATS        *)
(* (caliopen_nats/subscribers.py, delivery.py).                            *)
(*                                                                         *)
(* Three clocks run: the LDA waits LdaTimeout for an answer, the broker    *)
(* answers as long as it has worked for less than AckLimit, and a request  *)
(* to the parser times out.  The last one is not counted: a request may    *)
(* time out whenever it is unanswered, and the parser goes on with it.     *)
(*                                                                         *)
(* The same mail comes several times: by SMTP for several recipients, from *)
(* a remote mailbox the imap worker reads, or because a delivery failed.   *)
(* It has an external id (Message-ID), which the parser looks up.          *)
(***************************************************************************)
EXTENDS Naturals, Sequences, FiniteSets

CONSTANTS
    Users,
    Deliveries,     \* the times the mail is handed to an LDA
    Smtp,           \* those of the SMTP server, the others are the imap worker's
    Rcpts,          \* delivery -> the local users it is for
    LdaTimeout,     \* 30 seconds (receiver.go, lda.go)
    AckLimit,       \* 29 seconds (processInbound)
    Threshold,      \* notificationsThreshold
    Processes,      \* number of parser processes, each at work on one order at a time
    MaxFailures     \* bound: queries of a store that fail, parsers that die

ASSUME RcptsAssumption ==
    /\ Smtp \subseteq Deliveries
    /\ Rcpts \in [Deliveries -> SUBSET Users]
    /\ \A d \in Deliveries : Rcpts[d] # {}
ASSUME ClocksAssumption == LdaTimeout \in Nat /\ AckLimit \in Nat /\ AckLimit < LdaTimeout
ASSUME InboundBoundsAssumption == 
    Threshold \in Nat \ {0} /\ Processes \in Nat \ {0} /\ MaxFailures \in Nat

\* A notification names a message, or what the parser calls one: the raw mail.
Notif == [user : Users, names : {"message", "raw"}]

VARIABLES
    lda,        \* delivery -> what the LDA waits for or has returned
    waited,     \* delivery -> how long it has waited
    broker,     \* delivery -> what processInbound does next
    lasted,     \* delivery -> how long it has worked
    found,      \* delivery -> the recipients the broker has found
    failed,     \* delivery -> resp.Err
    delivered,  \* delivery -> the raw mail is marked as delivered
    task,       \* delivery, recipient -> its goroutine
    seen,       \* delivery, recipient -> the errors it has read before it appends its own
    errors,     \* delivery -> number of errors in errs
    batch,      \* delivery -> in.Batch
    saved,      \* delivery -> the batch has been saved, or is lost with its process
    request,    \* delivery, recipient -> the order process_raw and its reply
    stored,     \* user -> number of messages made of the mail
    known,      \* users of whom MessageExternalRefLookup has the external id
    notified,   \* delivery -> the notifications queued for it
    panicked,   \* the deliveries whose broker has sent on a closed channel
    failures    \* counter of the bound

ldaVars == <<lda, waited>>
brokerVars == <<broker, lasted, found, failed, delivered>>
taskVars == <<task, seen, errors>>
notifVars == <<batch, saved, notified>>
parserVars == <<request, stored, known>>
vars == <<ldaVars, brokerVars, taskVars, notifVars, parserVars, panicked, failures>>

Init ==
    /\ lda = [d \in Deliveries |-> "none"]
    /\ waited = [d \in Deliveries |-> 0]
    /\ broker = [d \in Deliveries |-> "none"]
    /\ lasted = [d \in Deliveries |-> 0]
    /\ found = [d \in Deliveries |-> {}]
    /\ failed = [d \in Deliveries |-> FALSE]
    /\ delivered = [d \in Deliveries |-> FALSE]
    /\ task = [d \in Deliveries |-> [u \in Users |-> "none"]]
    /\ seen = [d \in Deliveries |-> [u \in Users |-> 0]]
    /\ errors = [d \in Deliveries |-> 0]
    /\ batch = [d \in Deliveries |-> <<>>]
    /\ saved = [d \in Deliveries |-> FALSE]
    /\ request = [d \in Deliveries |-> [u \in Users |-> "none"]]
    /\ stored = [u \in Users |-> 0]
    /\ known = {}
    /\ notified = [d \in Deliveries |-> {}]
    /\ panicked = {}
    /\ failures = 0

Fail == failures < MaxFailures /\ failures' = failures + 1
-----------------------------------------------------------------------------
(***************************************************************************)
(* The LDA and the clocks.                                                 *)
(***************************************************************************)
\* handler, deliverMail: a worker of the broker takes the mail at once and starts a
\* goroutine for it. One of the imap worker knows its recipient.
Arrive(d) ==
    /\ lda[d] = "none"
    /\ lda' = [lda EXCEPT ![d] = "waiting"]
    /\ broker' = [broker EXCEPT ![d] = IF d \in Smtp THEN "lookup" ELSE "raw"]
    /\ found' = [found EXCEPT ![d] = IF d \in Smtp THEN {} ELSE Rcpts[d]]
    /\ UNCHANGED <<waited, lasted, failed, delivered, taskVars, notifVars, parserVars, panicked,
                   failures>>

\* Mutant of Closed: the channel stays open, with nobody to read it.
NeverClosed(d) == FALSE

\* The LDA has left, and has closed the channel it waited on.
Closed(d) == lda[d] \in {"ok", "refused", "timeout"}

LdaTimesOut(d) ==
    /\ lda[d] = "waiting"
    /\ waited[d] = LdaTimeout
    /\ lda' = [lda EXCEPT ![d] = "timeout"]
    /\ UNCHANGED <<waited, brokerVars, taskVars, notifVars, parserVars, panicked, failures>>

\* The deferred answer counts from the start of processInbound.
Working(d) == broker[d] \in {"raw", "requests", "answer"}
Waits(d) == lda[d] = "waiting" /\ waited[d] < LdaTimeout
Lasts(d) == Working(d) /\ lasted[d] < AckLimit

Tick ==
    /\ \E d \in Deliveries : Waits(d) \/ Lasts(d)
    /\ waited' = [d \in Deliveries |-> IF Waits(d) THEN waited[d] + 1 ELSE waited[d]]
    /\ lasted' = [d \in Deliveries |-> IF Lasts(d) THEN lasted[d] + 1 ELSE lasted[d]]
    /\ UNCHANGED <<lda, broker, found, failed, delivered, taskVars, notifVars, parserVars, panicked,
                   failures>>
-----------------------------------------------------------------------------
(***************************************************************************)
(* The broker.                                                             *)
(***************************************************************************)
\* The deliveries of the same process, which a panic ends with it.
Siblings(d) == IF d \in Smtp THEN Smtp ELSE Deliveries \ Smtp

\* in.Response <- r on a channel that is closed.
Panic(d) ==
    /\ panicked' = panicked \cup {d}
    /\ lda' = [e \in Deliveries |->
                  IF e \in Siblings(d) /\ lda[e] = "waiting" THEN "lost" ELSE lda[e]]
    /\ broker' = [e \in Deliveries |->
                  IF e \in Siblings(d) /\ broker[e] # "none" THEN "over" ELSE broker[e]]
    /\ task' = [e \in Deliveries |->
                  [u \in Users |->
                      IF e \in Siblings(d) /\ task[e][u] # "none" THEN "over" ELSE task[e][u]]]
    /\ saved' = [e \in Deliveries |-> saved[e] \/ (e \in Siblings(d) /\ broker[e] # "none")]

\* The channel has no buffer: the answer is handed over.
Respond(d, err, next) ==
    \/ /\ lda[d] = "waiting"
       /\ lda' = [lda EXCEPT ![d] = IF err THEN "refused" ELSE "ok"]
       /\ broker' = [broker EXCEPT ![d] = next]
       /\ UNCHANGED <<panicked, task, saved>>
    \/ Closed(d) /\ Panic(d)

\* GetUsersForLocalMailRecipients skips a recipient whose lookup fails, and reports nothing.
Lookup(d) ==
    /\ broker[d] = "lookup"
    /\ \/ found' = [found EXCEPT ![d] = Rcpts[d]] /\ UNCHANGED failures
       \/ \E u \in Rcpts[d] : found' = [found EXCEPT ![d] = Rcpts[d] \ {u}] /\ Fail
    /\ broker' = [broker EXCEPT ![d] = IF found'[d] = {} THEN "reject" ELSE "raw"]
    /\ UNCHANGED <<ldaVars, lasted, failed, delivered, taskVars, notifVars, parserVars, panicked>>

\* processInboundSMTP has found no recipient.
Reject(d) ==
    /\ broker[d] = "reject"
    /\ Respond(d, TRUE, "over")
    /\ UNCHANGED <<waited, lasted, found, failed, delivered, seen, errors, batch, notified,
                   parserVars, failures>>

\* processInbound stores the raw mail and sends an order for each recipient.
StoreRaw(d) ==
    /\ broker[d] = "raw"
    /\ \/ /\ broker' = [broker EXCEPT ![d] = "requests"]
          /\ task' = [task EXCEPT ![d] = [u \in Users |-> IF u \in found[d] THEN "asked" ELSE @[u]]]
          /\ request' = [request EXCEPT ![d] =
                            [u \in Users |-> IF u \in found[d] THEN "queued" ELSE @[u]]]
          /\ UNCHANGED <<failed, failures>>
       \/ /\ Fail
          /\ broker' = [broker EXCEPT ![d] = "answer"]
          /\ failed' = [failed EXCEPT ![d] = TRUE]
          /\ UNCHANGED <<task, request>>
    /\ UNCHANGED <<ldaVars, lasted, found, delivered, seen, errors, notifVars, stored, known, panicked>>

\* Mutant of Failing: the errors of the goroutines are not looked at.
NeverFailing(d) == FALSE

Failing(d) == errors[d] > 0

\* wg.Wait, then the whole delivery fails if there is an error. That of SetDeliveredStatus
\* is dropped.
Finish(d) ==
    /\ broker[d] = "requests"
    /\ \A u \in found[d] : task[d][u] = "over"
    /\ broker' = [broker EXCEPT ![d] = "answer"]
    /\ failed' = [failed EXCEPT ![d] = Failing(d)]
    /\ \/ delivered' = [delivered EXCEPT ![d] = ~Failing(d)] /\ UNCHANGED failures
       \/ ~Failing(d) /\ Fail /\ UNCHANGED delivered
    /\ UNCHANGED <<ldaVars, lasted, found, taskVars, notifVars, parserVars, panicked>>

\* Mutant of InTime: the broker always answers.
Always(d) == TRUE

\* "lda will not wait for more than 30 sec."
InTime(d) == lasted[d] < AckLimit

\* The deferred answer of processInbound. No time passes between the test and the answer.
\* The batch of a mail received by SMTP is saved next.
Answer(d) ==
    /\ broker[d] = "answer"
    /\ LET next == IF d \in Smtp THEN "batch" ELSE "over"
       IN  \/ InTime(d) /\ Respond(d, failed[d], next)
           \/ /\ ~InTime(d)
              /\ broker' = [broker EXCEPT ![d] = next]
              /\ UNCHANGED <<lda, panicked, task, saved>>
    /\ UNCHANGED <<waited, lasted, found, failed, delivered, seen, errors, batch, notified,
                   parserVars, failures>>
-----------------------------------------------------------------------------
(***************************************************************************)
(* The goroutine of a recipient.                                           *)
(***************************************************************************)
SetTask(d, u, st) == task' = [task EXCEPT ![d][u] = st]

\* The reply carries no error: a notification of the message it names is added to the batch.
\* The parser reports a mail that was imported before as a success that names the raw mail.
Succeeds(d, u) ==
    /\ task[d][u] = "asked"
    /\ \E r \in {"success", "duplicate"} :
          /\ request[d][u] = r
          /\ batch' = [batch EXCEPT ![d] =
                Append(@, [user |-> u, names |-> IF r = "success" THEN "message" ELSE "raw"])]
    /\ SetTask(d, u, "over")
    /\ UNCHANGED <<ldaVars, brokerVars, seen, errors, saved, notified, parserVars, panicked, failures>>

\* The reply is an error, or there is none in time: the goroutine reads the errors to append
\* its own to them, without a lock.
Errs(d, u) ==
    /\ task[d][u] = "asked"
    /\ request[d][u] \notin {"success", "duplicate"}
    /\ seen' = [seen EXCEPT ![d][u] = errors[d]]
    /\ SetTask(d, u, "appending")
    /\ UNCHANGED <<ldaVars, brokerVars, errors, notifVars, parserVars, panicked, failures>>

Appends(d, u) ==
    /\ task[d][u] = "appending"
    /\ errors' = [errors EXCEPT ![d] = seen[d][u] + 1]
    /\ seen' = [seen EXCEPT ![d][u] = 0]
    /\ SetTask(d, u, "over")
    /\ UNCHANGED <<ldaVars, brokerVars, notifVars, parserVars, panicked, failures>>
-----------------------------------------------------------------------------
(***************************************************************************)
(* Batch.Save: by the broker after its answer to the SMTP server, or by    *)
(* the imap worker after its sync, here of this one mail.                  *)
(***************************************************************************)
\* Mutant of Aggregated: the notifications are only counted.
AggregatedNever(b) == {}

\* Mutant of Aggregated: the first notification stands for the batch.
AggregatedFirst(b) == {b[k] : k \in DOMAIN b \cap {1}}

\* aggregate: an error, which Save drops, if a short batch is for several users.
Aggregated(b) ==
    IF b = <<>> \/ (Len(b) <= Threshold /\ \E k \in DOMAIN b : b[k].user # b[1].user)
    THEN {}
    ELSE {[user |-> b[1].user,
           children |-> IF Len(b) <= Threshold THEN {b[k] : k \in DOMAIN b} ELSE {}]}

SaveBatch(d) ==
    /\ ~saved[d]
    /\ \/ /\ d \in Smtp
          /\ broker[d] = "batch"
          /\ broker' = [broker EXCEPT ![d] = "over"]
       \/ d \notin Smtp /\ Closed(d) /\ UNCHANGED broker
    /\ saved' = [saved EXCEPT ![d] = TRUE]
    /\ \/ notified' = [notified EXCEPT ![d] = Aggregated(batch[d])] /\ UNCHANGED failures
       \/ Fail /\ UNCHANGED notified
    /\ UNCHANGED <<ldaVars, lasted, found, failed, delivered, taskVars, batch, parserVars, panicked>>
-----------------------------------------------------------------------------
(***************************************************************************)
(* The parsers: InboundEmail.process_raw. Each takes an order and replies  *)
(* to it before it takes another one.                                      *)
(***************************************************************************)
Reached(d, u, st) == request' = [request EXCEPT ![d][u] = st]
parserKeeps == <<ldaVars, brokerVars, taskVars, notifVars, panicked>>

AtWork == {t \in Deliveries \X Users : request[t[1]][t[2]] \in {"new", "saved"}}

\* A process that is free reads the mail, parses it and looks it up. A mail that is known
\* only adds an identity to its message, if it came to another one.
LookUp(d, u) ==
    /\ request[d][u] = "queued"
    /\ Cardinality(AtWork) < Processes
    /\ \/ Reached(d, u, IF u \in known THEN "duplicate" ELSE "new") /\ UNCHANGED failures
       \/ Reached(d, u, "error") /\ Fail
    /\ UNCHANGED <<parserKeeps, stored, known>>

\* save_db, then save_index.
Save(d, u) ==
    /\ request[d][u] = "new"
    /\ \/ /\ stored' = [stored EXCEPT ![u] = @ + 1]
          /\ \/ Reached(d, u, "saved") /\ UNCHANGED failures
             \/ Reached(d, u, "error") /\ Fail
       \/ Reached(d, u, "error") /\ Fail /\ UNCHANGED stored
    /\ UNCHANGED <<parserKeeps, known>>

\* Mutant of Learns: the message is not registered.
Forgets(u) == UNCHANGED known

Learns(u) == known' = known \cup {u}

\* MessageExternalRefLookup.create, whose failure is logged only, then the reply.
Register(d, u) ==
    /\ request[d][u] = "saved"
    /\ Reached(d, u, "success")
    /\ \/ Learns(u) /\ UNCHANGED failures
       \/ Fail /\ UNCHANGED known
    /\ UNCHANGED <<parserKeeps, stored>>

\* The order is lost with the process that has it.
Dies(d, u) ==
    /\ request[d][u] \in {"queued", "new", "saved"}
    /\ Reached(d, u, "lost")
    /\ Fail
    /\ UNCHANGED <<parserKeeps, stored, known>>
-----------------------------------------------------------------------------
Broker(d) == Lookup(d) \/ Reject(d) \/ StoreRaw(d) \/ Finish(d) \/ Answer(d)
Task(d, u) == Succeeds(d, u) \/ Errs(d, u) \/ Appends(d, u)
Parser(d, u) == LookUp(d, u) \/ Save(d, u) \/ Register(d, u)

Next ==
    \/ Tick
    \/ \E d \in Deliveries :
          \/ Arrive(d) \/ LdaTimesOut(d) \/ Broker(d) \/ SaveBatch(d)
          \/ \E u \in Users : Task(d, u) \/ Parser(d, u) \/ Dies(d, u)

\* Goroutines go on, requests are answered or time out, clocks run; mails may not come.
Fairness ==
    /\ WF_vars(Tick)
    /\ \A d \in Deliveries :
          /\ WF_vars(LdaTimesOut(d))
          /\ WF_vars(Broker(d))
          /\ WF_vars(SaveBatch(d))
          /\ \A u \in Users : WF_vars(Task(d, u)) /\ WF_vars(Parser(d, u))

Spec == Init /\ [][Next]_vars /\ Fairness
-----------------------------------------------------------------------------
TypeOK ==
    /\ lda \in [Deliveries -> {"none", "waiting", "ok", "refused", "timeout", "lost"}]
    /\ waited \in [Deliveries -> 0..LdaTimeout]
    /\ broker \in [Deliveries -> {"none", "lookup", "reject", "raw", "requests", "answer", "batch",
                                  "over"}]
    /\ lasted \in [Deliveries -> 0..AckLimit]
    /\ found \in [Deliveries -> SUBSET Users]
    /\ failed \in [Deliveries -> BOOLEAN]
    /\ delivered \in [Deliveries -> BOOLEAN]
    /\ task \in [Deliveries -> [Users -> {"none", "asked", "appending", "over"}]]
    /\ seen \in [Deliveries -> [Users -> Nat]]
    /\ errors \in [Deliveries -> Nat]
    /\ batch \in [Deliveries -> Seq(Notif)]
    /\ saved \in [Deliveries -> BOOLEAN]
    /\ request \in [Deliveries -> [Users -> {"none", "queued", "new", "saved", "success", "duplicate",
                                             "error", "lost"}]]
    /\ stored \in [Users -> Nat]
    /\ known \in SUBSET Users
    /\ notified \in [Deliveries -> SUBSET [user : Users, children : SUBSET Notif]]
    /\ panicked \in SUBSET Deliveries
    /\ failures \in 0..MaxFailures

\* A delivery that is acknowledged, or marked so, is stored for each recipient the broker
\* has found, whatever errors the goroutines have overwritten (processInbound).
AckedIsStored ==
    \A d \in Deliveries : lda[d] = "ok" \/ delivered[d] => \A u \in found[d] : stored[u] > 0

\* A user gets the mail once, however often it comes and whatever deliveries are refused or
\* time out while the parser goes on, but for parsers that look it up before one of them
\* has registered it, and messages whose registration fails (process_raw).
StoredOnce == \A u \in Users : stored[u] <= Processes + failures

\* The broker never answers on a channel that is closed if its clock has started with the
\* LDA's: with the imap worker.
PanicIsSmtp == panicked \subseteq Smtp

\* A mail that is taken gets an answer, no goroutine of the broker stays behind, and who is
\* the only recipient of an acknowledged mail is notified unless a query fails or the
\* process ends (handler, processInbound, Save).
DeliveryEnds ==
    \A d \in Deliveries :
        lda[d] = "waiting" ~>
            /\ lda[d] # "waiting"
            /\ broker[d] = "over"
            /\ lda[d] = "ok" /\ Cardinality(found[d]) = 1 =>
                  notified[d] # {} \/ failures > 0 \/ panicked # {}
=============================================================================

----------------------- MODULE InboundDelivery_proofs -----------------------
(***************************************************************************)
(* Proofs about the delivery of a mail, for every set of users and of      *)
(* deliveries, every limit of the clocks, any number of parsers and of     *)
(* failures.                                                               *)
(***************************************************************************)
EXTENDS InboundDelivery, FiniteSetTheorems, TLAPS

LEMMA InitTypeOK == Init => TypeOK
BY RcptsAssumption, ClocksAssumption, InboundBoundsAssumption DEF Init, TypeOK

(* The bound on the failures holds. *)
LEMMA FailuresTyped ==
    ASSUME TypeOK, UNCHANGED failures \/ Fail PROVE failures' \in 0..MaxFailures
BY InboundBoundsAssumption DEF TypeOK, Fail

(* The LDA and the clocks keep the types. *)
LEMMA LdaTypeOK ==
    ASSUME TypeOK, NEW d \in Deliveries, Arrive(d) \/ LdaTimesOut(d) \/ Tick
    PROVE  TypeOK'
<1> USE RcptsAssumption, ClocksAssumption, InboundBoundsAssumption
    DEF TypeOK, ldaVars, brokerVars, taskVars, notifVars, parserVars
<1>1. CASE Arrive(d)
  BY <1>1 DEF Arrive
<1>2. CASE LdaTimesOut(d)
  BY <1>2 DEF LdaTimesOut
<1>3. CASE Tick
  <2>1. waited' \in [Deliveries -> 0..LdaTimeout]
    <3>1. \A e \in Deliveries :
             (IF Waits(e) THEN waited[e] + 1 ELSE waited[e]) \in 0..LdaTimeout
      BY DEF Waits
    <3>2. QED
      BY <1>3, <3>1 DEF Tick
  <2>2. lasted' \in [Deliveries -> 0..AckLimit]
    <3>1. \A e \in Deliveries :
             (IF Lasts(e) THEN lasted[e] + 1 ELSE lasted[e]) \in 0..AckLimit
      BY DEF Lasts
    <3>2. QED
      BY <1>3, <3>1 DEF Tick
  <2>3. QED
    BY <1>3, <2>1, <2>2 DEF Tick
<1>4. QED
  BY <1>1, <1>2, <1>3

(* An answer, and the panic it may end in, keep the types. *)
LEMMA RespondTyped ==
    ASSUME TypeOK, NEW d \in Deliveries, NEW err \in BOOLEAN, NEW next \in {"batch", "over"},
           Respond(d, err, next)
    PROVE  /\ lda' \in [Deliveries -> {"none", "waiting", "ok", "refused", "timeout", "lost"}]
           /\ broker' \in [Deliveries -> {"none", "lookup", "reject", "raw", "requests", "answer",
                                          "batch", "over"}]
           /\ panicked' \in SUBSET Deliveries
           /\ task' \in [Deliveries -> [Users -> {"none", "asked", "appending", "over"}]]
           /\ saved' \in [Deliveries -> BOOLEAN]
<1>1. CASE Panic(d)
  <2>1. \A e \in Deliveries, u \in Users :
           task'[e][u] \in {"none", "asked", "appending", "over"}
    BY <1>1 DEF Panic, TypeOK
  <2>2. QED
    BY <1>1, <2>1 DEF Panic, TypeOK
<1>2. CASE ~Panic(d)
  BY <1>2 DEF Respond, TypeOK
<1>3. QED
  BY <1>1, <1>2

(* The broker keeps the types. *)
LEMMA BrokerTypeOK ==
    ASSUME TypeOK, NEW d \in Deliveries, Broker(d)
    PROVE  TypeOK'
<1> USE DEF ldaVars, brokerVars, taskVars, notifVars, parserVars
<1>1. CASE Lookup(d)
  <2>1. found' \in [Deliveries -> SUBSET Users]
    <3>1. Rcpts[d] \in SUBSET Users /\ found \in [Deliveries -> SUBSET Users]
      BY RcptsAssumption DEF TypeOK
    <3>2. \E U \in SUBSET Users : found' = [found EXCEPT ![d] = U]
      BY <1>1, <3>1 DEF Lookup
    <3>3. QED
      BY <3>1, <3>2
  <2>2. broker' \in [Deliveries -> {"none", "lookup", "reject", "raw", "requests", "answer", "batch",
                                     "over"}]
    BY <1>1 DEF Lookup, TypeOK
  <2>3. failures' \in 0..MaxFailures
    <3>1. UNCHANGED failures \/ Fail
      BY <1>1 DEF Lookup
    <3>2. QED
      BY <3>1, FailuresTyped
  <2>4. QED
    BY <1>1, <2>1, <2>2, <2>3 DEF Lookup, TypeOK
<1>2. CASE Reject(d)
  BY <1>2, RespondTyped DEF Reject, TypeOK
<1>3. CASE StoreRaw(d)
  <2>1. CASE UNCHANGED failures
    <3>1. task' \in [Deliveries -> [Users -> {"none", "asked", "appending", "over"}]]
      <4>1. task \in [Deliveries -> [Users -> {"none", "asked", "appending", "over"}]]
        BY DEF TypeOK
      <4>2. QED
        BY <1>3, <4>1 DEF StoreRaw
    <3>2. request' \in [Deliveries -> [Users -> {"none", "queued", "new", "saved", "success",
                                                 "duplicate", "error", "lost"}]]
      <4>1. request \in [Deliveries -> [Users -> {"none", "queued", "new", "saved", "success",
                                                  "duplicate", "error", "lost"}]]
        BY DEF TypeOK
      <4>2. QED
        BY <1>3, <4>1 DEF StoreRaw
    <3>3. failed' \in [Deliveries -> BOOLEAN]
      BY <1>3 DEF StoreRaw, TypeOK
    <3>4. broker' \in [Deliveries -> {"none", "lookup", "reject", "raw", "requests", "answer",
                                      "batch", "over"}]
      BY <1>3 DEF StoreRaw, TypeOK
    <3>5. QED
      BY <1>3, <2>1, <3>1, <3>2, <3>3, <3>4 DEF StoreRaw, TypeOK
  <2>2. CASE Fail
    <3>1. failures' # failures
      BY <2>2 DEF Fail, TypeOK
    <3>2. failures' \in 0..MaxFailures
      BY <2>2, FailuresTyped
    <3>3. QED
      BY <1>3, <3>1, <3>2 DEF StoreRaw, TypeOK
  <2>3. QED
    BY <1>3, <2>1, <2>2 DEF StoreRaw
<1>4. CASE Finish(d)
  <2>1. failures' \in 0..MaxFailures
    <3>1. UNCHANGED failures \/ Fail
      BY <1>4 DEF Finish
    <3>2. QED
      BY <3>1, FailuresTyped
  <2>2. failed' \in [Deliveries -> BOOLEAN]
    BY <1>4 DEF Finish, Failing, TypeOK
  <2>3. delivered' \in [Deliveries -> BOOLEAN]
    BY <1>4 DEF Finish, TypeOK
  <2>4. broker' \in [Deliveries -> {"none", "lookup", "reject", "raw", "requests", "answer", "batch",
                                     "over"}]
    BY <1>4 DEF Finish, TypeOK
  <2>5. QED
    BY <1>4, <2>1, <2>2, <2>3, <2>4 DEF Finish, TypeOK
<1>5. CASE Answer(d)
  <2> DEFINE next == IF d \in Smtp THEN "batch" ELSE "over"
  <2>1. failed[d] \in BOOLEAN /\ next \in {"batch", "over"}
    BY DEF TypeOK
  <2>2. CASE InTime(d) /\ Respond(d, failed[d], next)
    BY <1>5, <2>1, <2>2, RespondTyped DEF Answer, TypeOK
  <2>3. CASE ~(InTime(d) /\ Respond(d, failed[d], next))
    BY <1>5, <2>1, <2>3 DEF Answer, TypeOK
  <2>4. QED
    BY <2>2, <2>3
<1>6. QED
  BY <1>1, <1>2, <1>3, <1>4, <1>5 DEF Broker

(* The goroutines of the recipients and the batch keep the types. *)
LEMMA TaskTypeOK ==
    ASSUME TypeOK, NEW d \in Deliveries, NEW u \in Users, Task(d, u)
    PROVE  TypeOK'
<1> USE DEF ldaVars, brokerVars, taskVars, notifVars, parserVars, SetTask
<1>1. CASE Succeeds(d, u)
  <2>1. PICK r \in {"success", "duplicate"} :
           batch' = [batch EXCEPT ![d] =
             Append(@, [user |-> u, names |-> IF r = "success" THEN "message" ELSE "raw"])]
    BY <1>1 DEF Succeeds
  <2>2. [user |-> u, names |-> IF r = "success" THEN "message" ELSE "raw"] \in Notif
    BY DEF Notif
  <2>3. batch' \in [Deliveries -> Seq(Notif)]
    BY <2>1, <2>2 DEF TypeOK
  <2>4. QED
    BY <1>1, <2>3 DEF Succeeds, TypeOK
<1>2. CASE Errs(d, u)
  BY <1>2 DEF Errs, TypeOK
<1>3. CASE Appends(d, u)
  BY <1>3 DEF Appends, TypeOK
<1>4. QED
  BY <1>1, <1>2, <1>3 DEF Task

LEMMA BatchTypeOK ==
    ASSUME TypeOK, NEW d \in Deliveries, SaveBatch(d)
    PROVE  TypeOK'
<1>1. Aggregated(batch[d]) \subseteq [user : Users, children : SUBSET Notif]
  <2>1. batch[d] \in Seq(Notif)
    BY DEF TypeOK
  <2>2. CASE batch[d] = <<>>
    BY <2>2 DEF Aggregated
  <2>3. CASE batch[d] # <<>>
    <3>1. batch[d][1] \in Notif /\ \A k \in DOMAIN batch[d] : batch[d][k] \in Notif
      BY <2>1, <2>3
    <3>2. batch[d][1].user \in Users
      BY <3>1 DEF Notif
    <3>3. QED
      BY <3>1, <3>2 DEF Aggregated
  <2>4. QED
    BY <2>2, <2>3
<1>2. notified' \in [Deliveries -> SUBSET [user : Users, children : SUBSET Notif]]
  BY <1>1 DEF SaveBatch, TypeOK
<1>3. failures' \in 0..MaxFailures
  <2>1. UNCHANGED failures \/ Fail
    BY DEF SaveBatch
  <2>2. QED
    BY <2>1, FailuresTyped
<1>4. saved' \in [Deliveries -> BOOLEAN]
  BY DEF SaveBatch, TypeOK
<1>5. broker' \in [Deliveries -> {"none", "lookup", "reject", "raw", "requests", "answer", "batch",
                                  "over"}]
  BY DEF SaveBatch, TypeOK
<1>6. QED
  BY <1>2, <1>3, <1>4, <1>5 DEF SaveBatch, TypeOK, ldaVars, taskVars, parserVars

(* The parsers keep the types. *)
LEMMA ParserTypeOK ==
    ASSUME TypeOK, NEW d \in Deliveries, NEW u \in Users, Parser(d, u) \/ Dies(d, u)
    PROVE  TypeOK'
<1>1. request' \in [Deliveries -> [Users -> {"none", "queued", "new", "saved", "success",
                                            "duplicate", "error", "lost"}]]
  <2> DEFINE St == {"none", "queued", "new", "saved", "success", "duplicate", "error", "lost"}
  <2>1. request \in [Deliveries -> [Users -> St]]
    BY DEF TypeOK
  <2>2. \E st \in St : Reached(d, u, st)
    BY DEF Parser, LookUp, Save, Register, Dies
  <2>3. QED
    BY <2>1, <2>2 DEF Reached
<1>2. failures' \in 0..MaxFailures
  <2>1. UNCHANGED failures \/ Fail
    BY DEF Parser, LookUp, Save, Register, Dies
  <2>2. QED
    BY <2>1, FailuresTyped
<1>3. stored' \in [Users -> Nat]
  BY DEF Parser, LookUp, Save, Register, Dies, TypeOK
<1>4. known' \in SUBSET Users
  BY DEF Parser, LookUp, Save, Register, Dies, Learns, TypeOK
<1>5. UNCHANGED <<parserKeeps>>
  BY DEF Parser, LookUp, Save, Register, Dies
<1>6. QED
  BY <1>1, <1>2, <1>3, <1>4, <1>5
  DEF TypeOK, parserKeeps, ldaVars, brokerVars, taskVars, notifVars

LEMMA StutterTypeOK == TypeOK /\ UNCHANGED vars => TypeOK'
BY DEF TypeOK, vars, ldaVars, brokerVars, taskVars, notifVars, parserVars

(* Every step is one of a delivery, or of the clocks, or none. *)
LEMMA Steps ==
    ASSUME [Next]_vars
    PROVE  \/ Tick
           \/ \E d \in Deliveries :
                 \/ Arrive(d) \/ LdaTimesOut(d) \/ Broker(d) \/ SaveBatch(d)
                 \/ \E u \in Users : Task(d, u) \/ Parser(d, u) \/ Dies(d, u)
           \/ UNCHANGED vars
BY DEF Next

LEMMA NextTypeOK == TypeOK /\ [Next]_vars => TypeOK'
<1> SUFFICES ASSUME TypeOK, [Next]_vars PROVE TypeOK'
  OBVIOUS
<1>1. CASE Tick
  BY <1>1, LdaTypeOK DEF Tick
<1>2. CASE UNCHANGED vars
  BY <1>2, StutterTypeOK
<1>3. ASSUME NEW d \in Deliveries,
             \/ Arrive(d) \/ LdaTimesOut(d) \/ Broker(d) \/ SaveBatch(d)
             \/ \E u \in Users : Task(d, u) \/ Parser(d, u) \/ Dies(d, u)
      PROVE  TypeOK'
  BY <1>3, LdaTypeOK, BrokerTypeOK, BatchTypeOK, TaskTypeOK, ParserTypeOK
<1>4. QED
  BY <1>1, <1>2, <1>3, Steps

(***************************************************************************)
(* The state of the LDA, the broker, the goroutines, the parsers and the   *)
(* batches stays within its types.                                         *)
(***************************************************************************)
THEOREM TypeCorrect == Spec => []TypeOK
BY InitTypeOK, NextTypeOK, PTL DEF Spec
-----------------------------------------------------------------------------
(***************************************************************************)
(* The clocks of the broker and of an LDA of the imap worker start         *)
(* together.  As long as the broker's has not reached its limit, the LDA   *)
(* has waited no longer than the broker has worked, so it still waits.     *)
(***************************************************************************)
ClocksAgree(d) ==
    /\ broker[d] \notin {"lookup", "reject"}
    /\ broker[d] = "none" => waited[d] = 0 /\ lasted[d] = 0
    /\ Working(d) /\ lasted[d] < AckLimit => lda[d] = "waiting" /\ waited[d] <= lasted[d]

PInv ==
    /\ TypeOK
    /\ PanicIsSmtp
    /\ \A d \in Deliveries : lda[d] = "none" <=> broker[d] = "none"
    /\ \A d \in Deliveries \ Smtp : ClocksAgree(d)

LEMMA InitPInv == Init => PInv
BY InitTypeOK DEF Init, PInv, PanicIsSmtp, ClocksAgree, Working

(* What a step that leaves the LDA, the broker and their clocks alone keeps. *)
LEMMA SameClocks ==
    ASSUME PInv, TypeOK', UNCHANGED <<lda, waited, broker, lasted, panicked>>
    PROVE  PInv'
BY DEF PInv, PanicIsSmtp, ClocksAgree, Working

LEMMA TickPInv == ASSUME PInv, TypeOK', Tick PROVE PInv'
<1>1. ASSUME NEW d \in Deliveries \ Smtp PROVE ClocksAgree(d)'
  <2>1. /\ waited[d] \in Nat /\ lasted[d] \in Nat
        /\ waited'[d] = IF Waits(d) THEN waited[d] + 1 ELSE waited[d]
        /\ lasted'[d] = IF Lasts(d) THEN lasted[d] + 1 ELSE lasted[d]
        /\ UNCHANGED <<lda, broker>>
    BY ClocksAssumption DEF PInv, TypeOK, Tick
  <2>2. ClocksAgree(d) /\ (lda[d] = "none" <=> broker[d] = "none")
    BY DEF PInv
  <2>3. QED
    BY <2>1, <2>2, ClocksAssumption DEF ClocksAgree, Waits, Lasts, Working
<1>2. QED
  BY <1>1 DEF PInv, Tick, PanicIsSmtp

LEMMA ArrivePInv == ASSUME PInv, TypeOK', NEW d \in Deliveries, Arrive(d) PROVE PInv'
<1>1. ASSUME NEW e \in Deliveries \ Smtp PROVE ClocksAgree(e)'
  <2>1. ClocksAgree(e) /\ (lda[e] = "none" <=> broker[e] = "none")
    BY DEF PInv
  <2>2. CASE e = d
    <3>1. /\ lda'[e] = "waiting" /\ broker'[e] = "raw"
          /\ waited'[e] = 0 /\ lasted'[e] = 0
      BY <2>1, <2>2 DEF Arrive, ClocksAgree, PInv, TypeOK
    <3>2. QED
      BY <3>1 DEF ClocksAgree, Working
  <2>3. CASE e # d
    BY <2>1, <2>3 DEF Arrive, ClocksAgree, Working, PInv, TypeOK
  <2>4. QED
    BY <2>2, <2>3
<1>2. \A e \in Deliveries : (lda[e] = "none" <=> broker[e] = "none")'
  BY DEF Arrive, PInv, TypeOK
<1>3. QED
  BY <1>1, <1>2 DEF PInv, Arrive, PanicIsSmtp

(* An LDA of the imap worker only times out once the broker's clock is at its limit. *)
LEMMA TimeoutPInv == ASSUME PInv, TypeOK', NEW d \in Deliveries, LdaTimesOut(d) PROVE PInv'
<1>1. ASSUME NEW e \in Deliveries \ Smtp PROVE ClocksAgree(e)'
  <2>1. ClocksAgree(e) /\ waited[e] \in Nat /\ lasted[e] \in Nat
    BY ClocksAssumption DEF PInv, TypeOK
  <2>2. CASE e = d
    <3>1. waited[e] = LdaTimeout /\ UNCHANGED <<broker, waited, lasted>>
      BY <2>2 DEF LdaTimesOut, brokerVars
    <3>2. ~(Working(e) /\ lasted[e] < AckLimit)
      BY <2>1, <3>1, ClocksAssumption DEF ClocksAgree
    <3>3. QED
      BY <2>1, <3>1, <3>2 DEF ClocksAgree, Working
  <2>3. CASE e # d
    BY <2>1, <2>3 DEF LdaTimesOut, brokerVars, ClocksAgree, Working, PInv, TypeOK
  <2>4. QED
    BY <2>2, <2>3
<1>2. \A e \in Deliveries : (lda[e] = "none" <=> broker[e] = "none")'
  BY DEF LdaTimesOut, brokerVars, PInv, TypeOK
<1>3. QED
  BY <1>1, <1>2 DEF PInv, LdaTimesOut, PanicIsSmtp

(* The broker goes on without an answer: it starts, waits or has none to give. *)
LEMMA StepPInv ==
    ASSUME PInv, TypeOK', NEW d \in Deliveries, broker[d] # "none",
           NEW next \in {"reject", "raw", "requests", "answer", "batch", "over"},
           d \notin Smtp => next # "reject" /\ (Working(d) \/ next \in {"batch", "over"}),
           broker' = [broker EXCEPT ![d] = next],
           UNCHANGED <<lda, waited, lasted, panicked>>
    PROVE  PInv'
<1>1. ASSUME NEW e \in Deliveries \ Smtp PROVE ClocksAgree(e)'
  <2>1. ClocksAgree(e)
    BY DEF PInv
  <2>2. broker \in [Deliveries -> {"none", "lookup", "reject", "raw", "requests", "answer", "batch",
                                   "over"}]
    BY DEF PInv, TypeOK
  <2>3. QED
    BY <2>1, <2>2 DEF ClocksAgree, Working
<1>2. \A e \in Deliveries : (lda[e] = "none" <=> broker[e] = "none")'
  BY DEF PInv, TypeOK
<1>3. QED
  BY <1>1, <1>2 DEF PInv, PanicIsSmtp

(* An answer is taken by an LDA that waits; only that of an SMTP server may have left. *)
LEMMA RespondPInv ==
    ASSUME PInv, TypeOK', NEW d \in Deliveries, NEW err, NEW next \in {"batch", "over"},
           d \notin Smtp => Working(d) /\ InTime(d),
           broker[d] # "none", Respond(d, err, next), UNCHANGED <<waited, lasted>>
    PROVE  PInv'
<1>1. CASE Closed(d) /\ Panic(d)
  <2>1. d \in Smtp
    BY <1>1 DEF PInv, ClocksAgree, Closed, InTime
  <2>2. Siblings(d) = Smtp
    BY <2>1 DEF Siblings
  <2>3. ASSUME NEW e \in Deliveries \ Smtp PROVE ClocksAgree(e)'
    <3>1. lda'[e] = lda[e] /\ broker'[e] = broker[e]
      BY <1>1, <2>2 DEF Panic
    <3>2. ClocksAgree(e)
      BY DEF PInv
    <3>3. QED
      BY <3>1, <3>2 DEF ClocksAgree, Working
  <2>4. \A e \in Deliveries : (lda[e] = "none" <=> broker[e] = "none")'
    BY <1>1 DEF Panic, PInv, TypeOK
  <2>5. PanicIsSmtp'
    BY <1>1, <2>1 DEF Panic, PInv, PanicIsSmtp
  <2>6. QED
    BY <2>3, <2>4, <2>5 DEF PInv
<1>2. CASE ~(Closed(d) /\ Panic(d))
  <2>1. /\ lda' = [lda EXCEPT ![d] = IF err THEN "refused" ELSE "ok"]
        /\ broker' = [broker EXCEPT ![d] = next]
        /\ UNCHANGED panicked
    BY <1>2 DEF Respond
  <2>2. /\ lda \in [Deliveries -> {"none", "waiting", "ok", "refused", "timeout", "lost"}]
        /\ broker \in [Deliveries -> {"none", "lookup", "reject", "raw", "requests", "answer", "batch",
                                      "over"}]
    BY DEF PInv, TypeOK
  <2>3. ASSUME NEW e \in Deliveries \ Smtp PROVE ClocksAgree(e)'
    <3>1. ClocksAgree(e)
      BY DEF PInv
    <3>2. QED
      BY <2>1, <2>2, <3>1 DEF ClocksAgree, Working
  <2>4. \A e \in Deliveries : (lda[e] = "none" <=> broker[e] = "none")'
    BY <2>1, <2>2 DEF PInv
  <2>5. QED
    BY <2>1, <2>3, <2>4 DEF PInv, PanicIsSmtp
<1>3. QED
  BY <1>1, <1>2

LEMMA BrokerPInv == ASSUME PInv, TypeOK', NEW d \in Deliveries, Broker(d) PROVE PInv'
<1> USE DEF ldaVars
<1>1. d \notin Smtp => ClocksAgree(d)
  BY DEF PInv
<1>2. CASE Lookup(d)
  BY <1>1, <1>2, StepPInv DEF Lookup, ClocksAgree
<1>3. CASE Reject(d)
  BY <1>1, <1>3, RespondPInv DEF Reject, ClocksAgree
<1>4. CASE StoreRaw(d)
  BY <1>4, StepPInv DEF StoreRaw, Working
<1>5. CASE Finish(d)
  BY <1>5, StepPInv DEF Finish, Working
<1>6. CASE Answer(d)
  <2> DEFINE next == IF d \in Smtp THEN "batch" ELSE "over"
  <2>1. CASE InTime(d) /\ Respond(d, failed[d], next)
    BY <1>6, <2>1, RespondPInv DEF Answer, Working
  <2>2. CASE ~(InTime(d) /\ Respond(d, failed[d], next))
    BY <1>6, <2>2, StepPInv DEF Answer
  <2>3. QED
    BY <2>1, <2>2
<1>7. QED
  BY <1>2, <1>3, <1>4, <1>5, <1>6 DEF Broker

LEMMA BatchPInv == ASSUME PInv, TypeOK', NEW d \in Deliveries, SaveBatch(d) PROVE PInv'
<1>1. CASE UNCHANGED broker
  BY <1>1, SameClocks DEF SaveBatch, ldaVars
<1>2. CASE ~UNCHANGED broker
  BY <1>2, StepPInv DEF SaveBatch, ldaVars
<1>3. QED
  BY <1>1, <1>2

LEMMA NextPInv == PInv /\ [Next]_vars => PInv'
<1> SUFFICES ASSUME PInv, [Next]_vars PROVE PInv'
  OBVIOUS
<1>1. TypeOK'
  BY NextTypeOK DEF PInv
<1>2. CASE UNCHANGED vars
  BY <1>1, <1>2, SameClocks DEF vars, ldaVars, brokerVars
<1>3. ASSUME NEW d \in Deliveries, NEW u \in Users, Task(d, u) \/ Parser(d, u) \/ Dies(d, u)
      PROVE  PInv'
  <2>1. UNCHANGED <<lda, waited, broker, lasted, panicked>>
    BY <1>3 DEF Task, Succeeds, Errs, Appends, Parser, LookUp, Save, Register, Dies, parserKeeps,
                ldaVars, brokerVars
  <2>2. QED
    BY <1>1, <2>1, SameClocks
<1>4. QED
  BY <1>1, <1>2, <1>3, Steps, TickPInv, ArrivePInv, TimeoutPInv, BrokerPInv, BatchPInv

(***************************************************************************)
(* The broker that works for the imap worker never answers on a channel    *)
(* that is closed, whatever the limits of the two clocks, as long as the   *)
(* broker's is the shorter one.                                            *)
(***************************************************************************)
THEOREM ImapNeverPanics == Spec => []PanicIsSmtp
<1>1. PInv => PanicIsSmtp
  BY DEF PInv
<1>2. QED
  BY <1>1, InitPInv, NextPInv, PTL DEF Spec
-----------------------------------------------------------------------------
(***************************************************************************)
(* A goroutine that is over has left an error or has a message to show:    *)
(* the write of another goroutine may lose its error, but never leaves     *)
(* none.  What the parsers say of a user is backed by a message.           *)
(***************************************************************************)
Backed ==
    /\ \A u \in known : stored[u] > 0
    /\ \A d \in Deliveries, u \in Users :
          request[d][u] \in {"saved", "success", "duplicate"} => stored[u] > 0

\* What the broker knows of the recipients of a delivery.
Answered(d) ==
    /\ broker[d] \in {"none", "lookup"} => lda[d] # "ok" /\ ~delivered[d]
    /\ lda[d] = "none" => broker[d] = "none"
    /\ broker[d] = "requests" =>
          \A u \in found[d] : task[d][u] = "over" => errors[d] > 0 \/ stored[u] > 0
    /\ broker[d] = "answer" /\ ~failed[d] => \A u \in found[d] : stored[u] > 0
    /\ lda[d] = "ok" \/ delivered[d] => \A u \in found[d] : stored[u] > 0

AInv == TypeOK /\ Backed /\ \A d \in Deliveries : Answered(d)

LEMMA InitAInv == Init => AInv
BY InitTypeOK DEF Init, AInv, Backed, Answered

(* Messages are only added. *)
LEMMA SameStored ==
    ASSUME AInv, UNCHANGED <<request, stored, known>> PROVE Backed'
BY DEF AInv, Backed

(* What a delivery knows is kept by a step that leaves it alone and loses no message. *)
LEMMA SameAnswered ==
    ASSUME NEW d \in Deliveries, Answered(d), TypeOK, TypeOK',
           lda'[d] = lda[d], broker'[d] = broker[d], found'[d] = found[d],
           failed'[d] = failed[d], delivered'[d] = delivered[d],
           task'[d] = task[d], errors'[d] = errors[d],
           \A u \in Users : stored'[u] >= stored[u]
    PROVE  Answered(d)'
<1>1. found[d] \subseteq Users /\ \A u \in Users : stored[u] \in Nat /\ stored'[u] \in Nat
  BY DEF TypeOK
<1>2. QED
  BY <1>1 DEF Answered

(* The clocks, the LDA and the batches. *)
LEMMA LdaAInv ==
    ASSUME AInv, TypeOK', NEW d \in Deliveries, Arrive(d) \/ LdaTimesOut(d) \/ SaveBatch(d)
    PROVE  AInv'
<1>1. Backed'
  BY SameStored DEF Arrive, LdaTimesOut, SaveBatch, parserVars
<1>2. ASSUME NEW e \in Deliveries PROVE Answered(e)'
  <2>1. Answered(e) /\ UNCHANGED <<failed, delivered, task, errors, stored>>
    BY DEF AInv, Arrive, LdaTimesOut, SaveBatch, brokerVars, taskVars, parserVars
  <2>2. /\ lda \in [Deliveries -> {"none", "waiting", "ok", "refused", "timeout", "lost"}]
        /\ broker \in [Deliveries -> {"none", "lookup", "reject", "raw", "requests", "answer", "batch",
                                      "over"}]
        /\ found \in [Deliveries -> SUBSET Users]
    BY DEF AInv, TypeOK
  <2>3. CASE Arrive(d)
    BY <2>1, <2>2, <2>3 DEF Arrive, Answered
  <2>4. CASE LdaTimesOut(d)
    BY <2>1, <2>2, <2>4 DEF LdaTimesOut, brokerVars, Answered
  <2>5. CASE SaveBatch(d)
    BY <2>1, <2>2, <2>5 DEF SaveBatch, ldaVars, Answered
  <2>6. QED
    BY <2>3, <2>4, <2>5
<1>3. QED
  BY <1>1, <1>2 DEF AInv

LEMMA TickAInv == ASSUME AInv, TypeOK', Tick PROVE AInv'
BY SameStored DEF Tick, AInv, Answered, taskVars, parserVars

(* The answer is good if it is what the broker has found out. *)
LEMMA RespondAInv ==
    ASSUME AInv, TypeOK', NEW d \in Deliveries, NEW err \in BOOLEAN, NEW next \in {"batch", "over"},
           broker[d] # "none", ~err => broker[d] = "answer" /\ ~failed[d],
           Respond(d, err, next), UNCHANGED <<found, failed, delivered, errors, stored>>
    PROVE  \A e \in Deliveries : Answered(e)'
<1> SUFFICES ASSUME NEW e \in Deliveries PROVE Answered(e)'
  OBVIOUS
<1>1. Answered(e) /\ Answered(d)
  BY DEF AInv
<1>2. /\ lda \in [Deliveries -> {"none", "waiting", "ok", "refused", "timeout", "lost"}]
      /\ broker \in [Deliveries -> {"none", "lookup", "reject", "raw", "requests", "answer", "batch",
                                    "over"}]
  BY DEF AInv, TypeOK
<1>3. CASE Closed(d) /\ Panic(d)
  <2>1. \/ lda'[e] = lda[e]
        \/ lda[e] = "waiting" /\ lda'[e] = "lost"
    BY <1>3 DEF Panic
  <2>2. \/ broker'[e] = broker[e] /\ task'[e] = task[e]
        \/ broker[e] # "none" /\ broker'[e] = "over"
        \/ broker[e] = "none" /\ broker'[e] = "none"
    <3>1. CASE e \in Siblings(d)
      BY <1>3, <3>1 DEF Panic
    <3>2. CASE e \notin Siblings(d)
      <4>1. task'[e] = [u \in Users |-> task[e][u]] /\ broker'[e] = broker[e]
        BY <1>3, <3>2 DEF Panic
      <4>2. task[e] \in [Users -> {"none", "asked", "appending", "over"}]
        BY DEF AInv, TypeOK
      <4>3. QED
        BY <4>1, <4>2
    <3>3. QED
      BY <3>1, <3>2
  <2>3. QED
    BY <1>1, <2>1, <2>2 DEF Answered
<1>4. CASE ~(Closed(d) /\ Panic(d))
  <2>1. /\ lda' = [lda EXCEPT ![d] = IF err THEN "refused" ELSE "ok"]
        /\ broker' = [broker EXCEPT ![d] = next]
        /\ UNCHANGED task
    BY <1>4 DEF Respond
  <2>2. QED
    BY <1>1, <1>2, <2>1 DEF Answered
<1>5. QED
  BY <1>3, <1>4

LEMMA BrokerAInv == ASSUME AInv, TypeOK', NEW d \in Deliveries, Broker(d) PROVE AInv'
<1> USE DEF ldaVars, brokerVars, taskVars, notifVars, parserVars
<1>1. ASSUME NEW e \in Deliveries
      PROVE  Answered(e) /\ found[e] \subseteq Users /\ errors[e] \in Nat
  BY DEF AInv, TypeOK
<1>2. /\ broker \in [Deliveries -> {"none", "lookup", "reject", "raw", "requests", "answer", "batch",
                                    "over"}]
      /\ found \in [Deliveries -> SUBSET Users] /\ failed \in [Deliveries -> BOOLEAN]
      /\ delivered \in [Deliveries -> BOOLEAN]
      /\ task \in [Deliveries -> [Users -> {"none", "asked", "appending", "over"}]]
  BY DEF AInv, TypeOK
<1>3. CASE Lookup(d)
  <2>1. Backed'
    BY <1>3, SameStored DEF Lookup
  <2>2. ASSUME NEW e \in Deliveries PROVE Answered(e)'
    <3>1. CASE e = d
      <4>1. broker'[e] \in {"reject", "raw"} /\ broker[e] = "lookup"
        BY <1>2, <1>3, <3>1 DEF Lookup
      <4>2. QED
        BY <1>1, <1>3, <4>1 DEF Lookup, Answered
    <3>2. CASE e # d
      <4>1. found'[e] = found[e] /\ broker'[e] = broker[e]
        BY <1>2, <1>3, <3>2 DEF Lookup
      <4>2. QED
        BY <1>1, <1>3, <4>1 DEF Lookup, Answered
    <3>3. QED
      BY <3>1, <3>2
  <2>3. QED
    BY <2>1, <2>2 DEF AInv
<1>4. CASE Reject(d)
  BY <1>4, SameStored, RespondAInv DEF Reject, AInv
<1>5. CASE StoreRaw(d)
  <2>1. Backed'
    <3>1. UNCHANGED <<stored, known>>
      BY <1>5 DEF StoreRaw
    <3>2. \A e \in Deliveries, u \in Users :
             request'[e][u] = request[e][u] \/ request'[e][u] = "queued"
      <4>1. request \in [Deliveries -> [Users -> {"none", "queued", "new", "saved", "success",
                                                  "duplicate", "error", "lost"}]]
        BY DEF AInv, TypeOK
      <4>2. QED
        BY <1>5, <4>1 DEF StoreRaw
    <3>3. QED
      BY <3>1, <3>2 DEF AInv, Backed
  <2>2. ASSUME NEW e \in Deliveries PROVE Answered(e)'
    <3>1. CASE e # d
      <4>1. /\ broker'[e] = broker[e] /\ failed'[e] = failed[e] /\ task'[e] = task[e]
        BY <1>2, <1>5, <3>1 DEF StoreRaw
      <4>2. QED
        BY <1>1, <1>5, <4>1 DEF StoreRaw, Answered
    <3>2. CASE e = d /\ broker'[d] = "requests"
      <4>1. \A u \in found[d] : task'[d][u] = "asked"
        BY <1>1, <1>2, <1>5, <3>2 DEF StoreRaw
      <4>2. QED
        BY <1>1, <1>5, <3>2, <4>1 DEF StoreRaw, Answered
    <3>3. CASE e = d /\ broker'[d] # "requests"
      <4>1. broker'[d] = "answer" /\ failed'[d] = TRUE
        BY <1>2, <1>5, <3>3 DEF StoreRaw
      <4>2. QED
        BY <1>1, <1>5, <3>3, <4>1 DEF StoreRaw, Answered
    <3>4. QED
      BY <3>1, <3>2, <3>3
  <2>3. QED
    BY <2>1, <2>2 DEF AInv
<1>6. CASE Finish(d)
  <2>1. Backed'
    BY <1>6, SameStored DEF Finish
  <2>2. ~Failing(d) => \A u \in found[d] : stored[u] > 0
    BY <1>1, <1>6 DEF Finish, Failing, Answered
  <2>3. ASSUME NEW e \in Deliveries PROVE Answered(e)'
    <3>1. CASE e # d
      <4>1. broker'[e] = broker[e] /\ failed'[e] = failed[e] /\ delivered'[e] = delivered[e]
        BY <1>2, <1>6, <3>1 DEF Finish
      <4>2. QED
        BY <1>1, <1>6, <4>1 DEF Finish, Answered
    <3>2. CASE e = d
      <4>1. /\ broker'[d] = "answer" /\ failed'[d] = Failing(d)
            /\ delivered'[d] => delivered[d] \/ ~Failing(d)
        BY <1>2, <1>6 DEF Finish
      <4>2. QED
        BY <1>1, <1>6, <2>2, <3>2, <4>1 DEF Finish, Answered
    <3>3. QED
      BY <3>1, <3>2
  <2>4. QED
    BY <2>1, <2>3 DEF AInv
<1>7. CASE Answer(d)
  <2> DEFINE next == IF d \in Smtp THEN "batch" ELSE "over"
  <2>1. Backed' /\ broker[d] = "answer" /\ failed[d] \in BOOLEAN
    BY <1>2, <1>7, SameStored DEF Answer
  <2>2. CASE InTime(d) /\ Respond(d, failed[d], next)
    BY <1>7, <2>1, <2>2, RespondAInv DEF Answer, AInv
  <2>3. CASE ~(InTime(d) /\ Respond(d, failed[d], next))
    <3>1. PICK b \in {"batch", "over"} : broker' = [broker EXCEPT ![d] = b]
      BY <1>7, <2>3 DEF Answer
    <3>2. UNCHANGED <<lda, task, found, failed, delivered, errors, stored>>
      BY <1>7, <2>3 DEF Answer
    <3>3. ASSUME NEW e \in Deliveries PROVE Answered(e)'
      <4>1. broker'[e] = broker[e] \/ (broker'[e] \in {"batch", "over"} /\ broker[e] = "answer")
        <5>1. CASE e = d
          BY <1>2, <2>1, <3>1, <5>1
        <5>2. CASE e # d
          BY <1>2, <3>1, <5>2
        <5>3. QED
          BY <5>1, <5>2
      <4>2. QED
        BY <1>1, <3>2, <4>1 DEF Answered
    <3>4. QED
      BY <2>1, <3>3 DEF AInv
  <2>4. QED
    BY <2>2, <2>3
<1>8. QED
  BY <1>3, <1>4, <1>5, <1>6, <1>7 DEF Broker

(* A goroutine ends with an error of its own, or with a reply that is backed. *)
LEMMA TaskAInv ==
    ASSUME AInv, TypeOK', NEW d \in Deliveries, NEW u \in Users, Task(d, u)
    PROVE  AInv'
<1> USE DEF ldaVars, brokerVars, taskVars, notifVars, parserVars
<1>1. Backed'
  BY SameStored DEF Task, Succeeds, Errs, Appends
<1>2. /\ task \in [Deliveries -> [Users -> {"none", "asked", "appending", "over"}]]
      /\ errors \in [Deliveries -> Nat] /\ seen \in [Deliveries -> [Users -> Nat]]
  BY DEF AInv, TypeOK
<1>3. UNCHANGED <<lda, broker, found, failed, delivered, stored>>
  BY DEF Task, Succeeds, Errs, Appends
<1>4. ASSUME NEW e \in Deliveries
      PROVE  /\ errors[e] > 0 => errors'[e] > 0
             /\ \A v \in Users : task'[e][v] = "over" =>
                   task[e][v] = "over" \/ errors'[e] > 0 \/ stored[v] > 0
  <2>1. CASE Succeeds(d, u)
    <3>1. stored[u] > 0
      BY <2>1 DEF Succeeds, AInv, Backed
    <3>2. QED
      BY <1>2, <2>1, <3>1 DEF Succeeds, SetTask
  <2>2. CASE Errs(d, u)
    BY <1>2, <2>2 DEF Errs, SetTask
  <2>3. CASE Appends(d, u)
    <3>1. errors'[d] > 0 /\ (e # d => errors'[e] = errors[e])
      BY <1>2, <2>3 DEF Appends
    <3>2. \A v \in Users : task'[e][v] = "over" => task[e][v] = "over" \/ e = d
      BY <1>2, <2>3 DEF Appends, SetTask
    <3>3. QED
      BY <3>1, <3>2
  <2>4. QED
    BY <2>1, <2>2, <2>3 DEF Task
<1>5. ASSUME NEW e \in Deliveries PROVE Answered(e)'
  <2>1. Answered(e) /\ found[e] \subseteq Users
    BY DEF AInv, TypeOK
  <2>2. QED
    BY <1>3, <1>4, <2>1 DEF Answered
<1>6. QED
  BY <1>1, <1>5 DEF AInv

(* A parser only adds messages, and answers for those it has added or knows. *)
LEMMA ParserAInv ==
    ASSUME AInv, TypeOK', NEW d \in Deliveries, NEW u \in Users, Parser(d, u) \/ Dies(d, u)
    PROVE  AInv'
<1>1. /\ request \in [Deliveries -> [Users -> {"none", "queued", "new", "saved", "success",
                                               "duplicate", "error", "lost"}]]
      /\ stored \in [Users -> Nat] /\ known \subseteq Users
  BY DEF AInv, TypeOK
<1>2. \A v \in Users : stored'[v] >= stored[v]
  BY <1>1 DEF Parser, LookUp, Save, Register, Dies
<1>3. stored' \in [Users -> Nat]
  BY DEF TypeOK
<1>4. Backed'
  <2>1. CASE LookUp(d, u)
    <3>1. UNCHANGED <<stored, known>>
      BY <2>1 DEF LookUp
    <3>2. ASSUME NEW e \in Deliveries, NEW v \in Users,
                 request'[e][v] \in {"saved", "success", "duplicate"}
          PROVE  stored[v] > 0
      <4>1. request'[e][v] = request[e][v] \/ (v = u /\ u \in known)
        <5>1. PICK st \in {"duplicate", "new", "error"} :
                 /\ request' = [request EXCEPT ![d][u] = st]
                 /\ st = "duplicate" => u \in known
          BY <2>1 DEF LookUp, Reached
        <5>2. QED
          BY <1>1, <3>2, <5>1
      <4>2. QED
        BY <3>2, <4>1 DEF AInv, Backed
    <3>3. QED
      BY <3>1, <3>2 DEF AInv, Backed
  <2>2. CASE Save(d, u)
    <3>1. known' = known
      BY <2>2 DEF Save
    <3>2. ASSUME NEW e \in Deliveries, NEW v \in Users,
                 request'[e][v] \in {"saved", "success", "duplicate"}
          PROVE  stored'[v] > 0
      <4>1. CASE e = d /\ v = u
        BY <1>1, <2>2, <3>2, <4>1 DEF Save, Reached
      <4>2. CASE ~(e = d /\ v = u)
        <5>1. request'[e][v] = request[e][v]
          BY <1>1, <2>2, <4>2 DEF Save, Reached
        <5>2. stored[v] > 0
          BY <3>2, <5>1 DEF AInv, Backed
        <5>3. QED
          BY <1>1, <1>2, <1>3, <5>2
      <4>3. QED
        BY <4>1, <4>2
    <3>3. \A v \in known' : stored'[v] > 0
      BY <1>1, <1>2, <1>3, <3>1 DEF AInv, Backed
    <3>4. QED
      BY <3>2, <3>3 DEF Backed
  <2>3. CASE Register(d, u)
    BY <1>1, <2>3 DEF Register, Learns, Reached, AInv, Backed
  <2>4. CASE Dies(d, u)
    BY <1>1, <2>4 DEF Dies, Reached, AInv, Backed
  <2>5. QED
    BY <2>1, <2>2, <2>3, <2>4 DEF Parser
<1>5. ASSUME NEW e \in Deliveries PROVE Answered(e)'
  <2>1. UNCHANGED <<lda, broker, found, failed, delivered, task, errors>>
    BY DEF Parser, LookUp, Save, Register, Dies, parserKeeps, ldaVars, brokerVars, taskVars
  <2>2. QED
    BY <1>2, <2>1, SameAnswered DEF AInv
<1>6. QED
  BY <1>4, <1>5 DEF AInv

LEMMA NextAInv == AInv /\ [Next]_vars => AInv'
<1> SUFFICES ASSUME AInv, [Next]_vars PROVE AInv'
  OBVIOUS
<1>1. TypeOK'
  BY NextTypeOK DEF AInv
<1>2. CASE UNCHANGED vars
  BY <1>1, <1>2, SameStored
  DEF vars, ldaVars, brokerVars, taskVars, parserVars, AInv, Answered
<1>3. QED
  BY <1>1, <1>2, Steps, TickAInv, LdaAInv, BrokerAInv, TaskAInv, ParserAInv

(***************************************************************************)
(* A mail that is acknowledged, or marked as delivered, is a message of    *)
(* each recipient the broker has found, whatever errors the goroutines     *)
(* overwrite and whatever fails.                                           *)
(***************************************************************************)
THEOREM AckedCorrect == Spec => []AckedIsStored
<1>1. AInv => AckedIsStored
  BY DEF AInv, Answered, AckedIsStored
<1>2. QED
  BY <1>1, InitAInv, NextAInv, PTL DEF Spec
-----------------------------------------------------------------------------
(***************************************************************************)
(* The messages made of a mail are counted by who made them.  As long as   *)
(* the mail is not known, each is that of a parser which has still to      *)
(* register it, or a failure.  Afterwards only those parsers add to them   *)
(* that looked it up before, and there is one for each process at most.    *)
(***************************************************************************)
At(u, st) == {t \in AtWork : t[2] = u /\ request[t[1]][u] = st}

Counted(u) ==
    IF u \in known
    THEN stored[u] + Cardinality(At(u, "new")) <= Processes + failures
    ELSE stored[u] <= Cardinality(At(u, "saved")) + failures

\* No order is given before the raw mail is stored, and the broker takes a mail once.
Unasked(d) ==
    /\ lda[d] = "none" => broker[d] = "none"
    /\ broker[d] \in {"none", "lookup", "raw"} => \A u \in Users : request[d][u] = "none"

CInv ==
    /\ TypeOK
    /\ IsFiniteSet(AtWork) /\ Cardinality(AtWork) <= Processes
    /\ \A u \in Users : Counted(u)
    /\ \A d \in Deliveries : Unasked(d)

LEMMA InitCInv == Init => CInv
<1> SUFFICES ASSUME Init PROVE CInv
  OBVIOUS
<1>1. TypeOK
  BY InitTypeOK
<1>2. AtWork = {}
  BY DEF Init, AtWork
<1>3. IsFiniteSet(AtWork) /\ Cardinality(AtWork) <= Processes
  BY <1>2, FS_EmptySet, InboundBoundsAssumption
<1>4. \A u \in Users : Cardinality(At(u, "saved")) = 0
  BY <1>2, FS_EmptySet DEF At
<1>5. \A u \in Users : Counted(u)
  BY <1>4 DEF Counted, Init
<1>6. QED
  BY <1>1, <1>3, <1>5 DEF CInv, Unasked, Init

(* The parsers at work on the mail for a user are finitely many, and each is at one stage. *)
LEMMA AtFinite ==
    ASSUME CInv, NEW u \in Users
    PROVE  /\ IsFiniteSet(At(u, "new")) /\ Cardinality(At(u, "new")) \in Nat
           /\ IsFiniteSet(At(u, "saved")) /\ Cardinality(At(u, "saved")) \in Nat
           /\ Cardinality(AtWork) \in Nat
           /\ Cardinality(At(u, "new")) + Cardinality(At(u, "saved")) <= Processes
<1> DEFINE n == At(u, "new")
           s == At(u, "saved")
<1>1. IsFiniteSet(AtWork) /\ Cardinality(AtWork) <= Processes /\ Processes \in Nat
  BY InboundBoundsAssumption DEF CInv
<1>2. n \in SUBSET AtWork /\ s \in SUBSET AtWork /\ n \cup s \in SUBSET AtWork /\ n \cap s = {}
  BY DEF At
<1>3. IsFiniteSet(n) /\ IsFiniteSet(s)
  BY <1>1, <1>2, FS_Subset
<1>4. /\ Cardinality(n) \in Nat /\ Cardinality(s) \in Nat /\ Cardinality(AtWork) \in Nat
  BY <1>1, <1>3, FS_CardinalityType
<1>5. Cardinality(n \cup s) = Cardinality(n) + Cardinality(s) - Cardinality(n \cap s)
  BY <1>3, FS_Union
<1>6. Cardinality(n \cap s) = 0
  BY <1>2, FS_EmptySet
<1>7. Cardinality(n \cup s) <= Cardinality(AtWork)
  BY <1>1, <1>2, FS_Subset
<1>8. QED
  <2> HIDE DEF n, s
  <2>1. Cardinality(n) + Cardinality(s) <= Processes
    BY <1>1, <1>4, <1>5, <1>6, <1>7
  <2>2. QED
    BY <1>3, <1>4, <2>1 DEF n, s

(* A step after which the same parsers are at work, on the same mails. *)
LEMMA SameWork ==
    ASSUME CInv, TypeOK',
           \A d \in Deliveries, u \in Users :
              \A st \in {"new", "saved"} : (request[d][u] = st) <=> (request'[d][u] = st),
           UNCHANGED <<stored, known>>, failures' >= failures
    PROVE  /\ IsFiniteSet(AtWork)' /\ Cardinality(AtWork)' <= Processes
           /\ \A u \in Users : Counted(u)'
<1>1. AtWork' = AtWork
  BY DEF AtWork
<1>2. ASSUME NEW u \in Users PROVE Counted(u)'
  <2>1. At(u, "new")' = At(u, "new") /\ At(u, "saved")' = At(u, "saved")
    BY <1>1 DEF At, AtWork
  <2>2. /\ Cardinality(At(u, "new"))' = Cardinality(At(u, "new"))
        /\ Cardinality(At(u, "saved"))' = Cardinality(At(u, "saved"))
    BY <2>1
  <2>3. /\ Cardinality(At(u, "new")) \in Nat /\ Cardinality(At(u, "saved")) \in Nat
        /\ stored[u] \in Nat /\ failures \in Nat /\ failures' \in Nat /\ Counted(u)
        /\ Processes \in Nat
    BY AtFinite, InboundBoundsAssumption DEF CInv, TypeOK
  <2>4. QED
    BY <2>2, <2>3 DEF Counted
<1>3. QED
  BY <1>1, <1>2 DEF CInv

(* A parser goes to the stage st of its work on a mail, or ends it. *)
LEMMA Moves ==
    ASSUME CInv, NEW d \in Deliveries, NEW u \in Users,
           NEW st \in {"new", "saved", "success", "duplicate", "error", "lost"}, Reached(d, u, st)
    PROVE  /\ AtWork' = IF st \in {"new", "saved"} THEN AtWork \cup {<<d, u>>}
                                                   ELSE AtWork \ {<<d, u>>}
           /\ \A v \in Users \ {u}, s \in {"new", "saved"} : At(v, s)' = At(v, s)
           /\ \A s \in {"new", "saved"} :
                 At(u, s)' = IF st = s THEN At(u, s) \cup {<<d, u>>} ELSE At(u, s) \ {<<d, u>>}
<1>1. /\ request'[d][u] = st
      /\ \A e \in Deliveries, v \in Users : ~(e = d /\ v = u) => request'[e][v] = request[e][v]
  BY DEF CInv, TypeOK, Reached
<1>2. ASSUME NEW e \in Deliveries, NEW v \in Users
      PROVE  /\ <<e, v>> \in AtWork <=> request[e][v] \in {"new", "saved"}
             /\ <<e, v>> \in AtWork' <=> request'[e][v] \in {"new", "saved"}
  BY DEF AtWork
<1>3. AtWork \subseteq Deliveries \X Users /\ AtWork' \subseteq Deliveries \X Users
  BY DEF AtWork
<1>4. ASSUME NEW v \in Users, NEW s \in {"new", "saved"}
      PROVE  /\ At(v, s) \subseteq Deliveries \X Users /\ At(v, s)' \subseteq Deliveries \X Users
             /\ \A e \in Deliveries, w \in Users :
                   /\ <<e, w>> \in At(v, s) <=> w = v /\ request[e][w] = s
                   /\ <<e, w>> \in At(v, s)' <=> w = v /\ request'[e][w] = s
  BY <1>2, <1>3 DEF At
<1>5. AtWork' = IF st \in {"new", "saved"} THEN AtWork \cup {<<d, u>>} ELSE AtWork \ {<<d, u>>}
  <2>1. \A e \in Deliveries, v \in Users :
           <<e, v>> \in AtWork' <=>
             IF st \in {"new", "saved"} THEN <<e, v>> \in AtWork \cup {<<d, u>>}
                                       ELSE <<e, v>> \in AtWork \ {<<d, u>>}
    BY <1>1, <1>2
  <2>2. QED
    BY <1>3, <2>1
<1>6. ASSUME NEW v \in Users \ {u}, NEW s \in {"new", "saved"} PROVE At(v, s)' = At(v, s)
  <2>1. ASSUME NEW e \in Deliveries, NEW w \in Users
        PROVE  <<e, w>> \in At(v, s)' <=> <<e, w>> \in At(v, s)
    <3>1. w = v => request'[e][w] = request[e][w]
      BY <1>1
    <3>2. /\ <<e, w>> \in At(v, s) <=> w = v /\ request[e][w] = s
          /\ <<e, w>> \in At(v, s)' <=> w = v /\ request'[e][w] = s
      BY <1>4
    <3>3. QED
      BY <3>1, <3>2
  <2>2. At(v, s) \subseteq Deliveries \X Users /\ At(v, s)' \subseteq Deliveries \X Users
    BY <1>4
  <2>3. QED
    BY <2>1, <2>2
<1>7. ASSUME NEW s \in {"new", "saved"}
      PROVE  At(u, s)' = IF st = s THEN At(u, s) \cup {<<d, u>>} ELSE At(u, s) \ {<<d, u>>}
  <2>1. ASSUME NEW e \in Deliveries, NEW w \in Users
        PROVE  <<e, w>> \in At(u, s)' <=>
                 IF st = s THEN <<e, w>> \in At(u, s) \cup {<<d, u>>}
                           ELSE <<e, w>> \in At(u, s) \ {<<d, u>>}
    <3>1. /\ <<e, w>> \in At(u, s) <=> w = u /\ request[e][w] = s
          /\ <<e, w>> \in At(u, s)' <=> w = u /\ request'[e][w] = s
      BY <1>4
    <3>2. IF e = d /\ w = u THEN request'[e][w] = st ELSE request'[e][w] = request[e][w]
      BY <1>1
    <3>3. QED
      BY <3>1, <3>2
  <2>2. At(u, s) \subseteq Deliveries \X Users /\ At(u, s)' \subseteq Deliveries \X Users
    BY <1>4
  <2>3. QED
    BY <2>1, <2>2
<1>8. QED
  BY <1>5, <1>6, <1>7

(* How the counts change when a parser goes from one stage to another. *)
LEMMA Counts ==
    ASSUME CInv, NEW d \in Deliveries, NEW u \in Users,
           NEW st \in {"new", "saved", "success", "duplicate", "error", "lost"}, Reached(d, u, st)
    PROVE  /\ \A s \in {"new", "saved"} :
                 Cardinality(At(u, s))' = Cardinality(At(u, s))
                                          + (IF st = s /\ request[d][u] # s THEN 1 ELSE 0)
                                          - (IF st # s /\ request[d][u] = s THEN 1 ELSE 0)
           /\ \A v \in Users \ {u}, s \in {"new", "saved"} :
                 Cardinality(At(v, s))' = Cardinality(At(v, s))
           /\ IsFiniteSet(AtWork)'
           /\ Cardinality(AtWork)' <= Cardinality(AtWork) + 1
           /\ request[d][u] \in {"new", "saved"} \/ st \notin {"new", "saved"} =>
                 Cardinality(AtWork)' <= Cardinality(AtWork)
<1> DEFINE t == <<d, u>>
<1>1. /\ AtWork' = IF st \in {"new", "saved"} THEN AtWork \cup {t} ELSE AtWork \ {t}
      /\ \A v \in Users \ {u}, s \in {"new", "saved"} : At(v, s)' = At(v, s)
      /\ \A s \in {"new", "saved"} :
            At(u, s)' = IF st = s THEN At(u, s) \cup {t} ELSE At(u, s) \ {t}
  BY Moves
<1>2. /\ t \in AtWork <=> request[d][u] \in {"new", "saved"}
      /\ \A s \in {"new", "saved"} : t \in At(u, s) <=> request[d][u] = s
  BY DEF AtWork, At
<1>3. IsFiniteSet(AtWork) /\ Cardinality(AtWork) \in Nat
  BY FS_CardinalityType DEF CInv
<1>4. \A s \in {"new", "saved"} : IsFiniteSet(At(u, s)) /\ Cardinality(At(u, s)) \in Nat
  BY AtFinite
<1>5. ASSUME NEW s \in {"new", "saved"}
      PROVE  Cardinality(At(u, s))' = Cardinality(At(u, s))
                                      + (IF st = s /\ request[d][u] # s THEN 1 ELSE 0)
                                      - (IF st # s /\ request[d][u] = s THEN 1 ELSE 0)
  <2>1. /\ Cardinality(At(u, s) \cup {t}) =
              IF t \in At(u, s) THEN Cardinality(At(u, s)) ELSE Cardinality(At(u, s)) + 1
        /\ Cardinality(At(u, s) \ {t}) =
              IF t \in At(u, s) THEN Cardinality(At(u, s)) - 1 ELSE Cardinality(At(u, s))
    BY <1>4, FS_AddElement, FS_RemoveElement
  <2>2. t \in At(u, s) <=> request[d][u] = s
    BY <1>2
  <2>3. At(u, s)' = IF st = s THEN At(u, s) \cup {t} ELSE At(u, s) \ {t}
    BY <1>1
  <2>4. Cardinality(At(u, s)) \in Nat
    BY <1>4
  <2> HIDE DEF t
  <2>5. CASE st = s
    BY <2>1, <2>2, <2>3, <2>4, <2>5
  <2>6. CASE st # s
    BY <2>1, <2>2, <2>3, <2>4, <2>6
  <2>7. QED
    BY <2>5, <2>6
<1>6. \A v \in Users \ {u}, s \in {"new", "saved"} :
         Cardinality(At(v, s))' = Cardinality(At(v, s))
  BY <1>1
<1>7. /\ IsFiniteSet(AtWork \cup {t}) /\ IsFiniteSet(AtWork \ {t})
      /\ Cardinality(AtWork \cup {t}) =
            IF t \in AtWork THEN Cardinality(AtWork) ELSE Cardinality(AtWork) + 1
      /\ Cardinality(AtWork \ {t}) <= Cardinality(AtWork)
      /\ Cardinality(AtWork \ {t}) \in Nat
  <2>1. /\ IsFiniteSet(AtWork \cup {t})
        /\ Cardinality(AtWork \cup {t}) =
              IF t \in AtWork THEN Cardinality(AtWork) ELSE Cardinality(AtWork) + 1
    BY <1>3, FS_AddElement
  <2>2. /\ IsFiniteSet(AtWork \ {t})
        /\ Cardinality(AtWork \ {t}) =
              IF t \in AtWork THEN Cardinality(AtWork) - 1 ELSE Cardinality(AtWork)
    BY <1>3, FS_RemoveElement
  <2>3. Cardinality(AtWork \ {t}) \in Nat
    BY <2>2, FS_CardinalityType
  <2>4. QED
    <3> HIDE DEF t
    <3>1. QED
      BY <1>3, <2>1, <2>2, <2>3
<1>8. IsFiniteSet(AtWork)'
  BY <1>1, <1>7
<1>9. /\ Cardinality(AtWork)' <= Cardinality(AtWork) + 1
      /\ request[d][u] \in {"new", "saved"} \/ st \notin {"new", "saved"} =>
            Cardinality(AtWork)' <= Cardinality(AtWork)
  <2> HIDE DEF t
  <2>1. CASE st \in {"new", "saved"}
    BY <1>1, <1>2, <1>3, <1>7, <2>1
  <2>2. CASE st \notin {"new", "saved"}
    BY <1>1, <1>3, <1>7, <2>2
  <2>3. QED
    BY <2>1, <2>2
<1>10. QED
  BY <1>5, <1>6, <1>8, <1>9

(* A parser's step keeps the counts. *)
LEMMA ParserCounted ==
    ASSUME CInv, TypeOK', NEW d \in Deliveries, NEW u \in Users, Parser(d, u) \/ Dies(d, u)
    PROVE  /\ IsFiniteSet(AtWork)' /\ Cardinality(AtWork)' <= Processes
           /\ \A v \in Users : Counted(v)'
<1> DEFINE n == Cardinality(At(u, "new"))
           s == Cardinality(At(u, "saved"))
           np == Cardinality(At(u, "new"))'
           sp == Cardinality(At(u, "saved"))'
           w == Cardinality(AtWork)
           wp == Cardinality(AtWork)'
<1>1. PICK st \in {"new", "saved", "success", "duplicate", "error", "lost"} : Reached(d, u, st)
  BY DEF Parser, LookUp, Save, Register, Dies
<1>2. /\ np = n + (IF st = "new" /\ request[d][u] # "new" THEN 1 ELSE 0)
                - (IF st # "new" /\ request[d][u] = "new" THEN 1 ELSE 0)
      /\ sp = s + (IF st = "saved" /\ request[d][u] # "saved" THEN 1 ELSE 0)
                - (IF st # "saved" /\ request[d][u] = "saved" THEN 1 ELSE 0)
  BY <1>1, Counts
<1>3. /\ IsFiniteSet(AtWork)' /\ wp <= w + 1
      /\ request[d][u] \in {"new", "saved"} \/ st \notin {"new", "saved"} => wp <= w
  BY <1>1, Counts
<1>4. wp \in Nat
  BY <1>3, FS_CardinalityType
<1>5. n \in Nat /\ s \in Nat /\ w \in Nat /\ n + s <= Processes /\ w <= Processes
  BY AtFinite DEF CInv
<1>6. request'[d][u] = st
  BY <1>1 DEF Reached, CInv, TypeOK
<1>7. /\ stored[u] \in Nat /\ stored'[u] \in Nat /\ Processes \in Nat
      /\ failures \in Nat /\ failures' \in Nat
  BY InboundBoundsAssumption DEF CInv, TypeOK
<1>8. Counted(u)
  BY DEF CInv
<1>9. /\ Counted(u) <=> IF u \in known THEN stored[u] + n <= Processes + failures
                                      ELSE stored[u] <= s + failures
      /\ Counted(u)' <=> IF u \in known' THEN stored'[u] + np <= Processes + failures'
                                        ELSE stored'[u] <= sp + failures'
  BY DEF Counted
<1>10. failures' >= failures
  BY <1>7 DEF Parser, LookUp, Save, Register, Dies, Fail
<1>11. ASSUME NEW v \in Users \ {u} PROVE Counted(v)'
  <2>1. /\ Cardinality(At(v, "new"))' = Cardinality(At(v, "new"))
        /\ Cardinality(At(v, "saved"))' = Cardinality(At(v, "saved"))
    BY <1>1, Counts
  <2>2. stored'[v] = stored[v] /\ (v \in known' <=> v \in known)
    BY DEF Parser, LookUp, Save, Register, Dies, Learns, CInv, TypeOK
  <2>3. /\ Cardinality(At(v, "new")) \in Nat /\ Cardinality(At(v, "saved")) \in Nat
    BY AtFinite
  <2>4. stored[v] \in Nat /\ Counted(v)
    BY DEF CInv, TypeOK
  <2>5. QED
    BY <1>7, <1>10, <2>1, <2>2, <2>3, <2>4 DEF Counted
<1>12. wp <= Processes /\ Counted(u)'
  <2> HIDE DEF n, s, np, sp, w, wp
  <2>1. CASE LookUp(d, u)
    <3>1. /\ request[d][u] = "queued" /\ w < Processes /\ UNCHANGED <<stored, known>>
          /\ st \in {"new", "duplicate", "error"} /\ (st = "new" => u \notin known)
      BY <1>1, <1>6, <2>1 DEF LookUp, Reached, CInv, TypeOK, w
    <3>2. QED
      BY <1>2, <1>3, <1>4, <1>5, <1>7, <1>8, <1>9, <1>10, <3>1
  <2>2. CASE Save(d, u)
    <3>1. /\ request[d][u] = "new" /\ known' = known
          /\ \/ st = "saved" /\ stored'[u] = stored[u] + 1 /\ failures' = failures
             \/ st = "error" /\ stored'[u] = stored[u] + 1 /\ failures' = failures + 1
             \/ st = "error" /\ stored'[u] = stored[u] /\ failures' = failures + 1
      BY <1>6, <2>2 DEF Save, Reached, Fail, CInv, TypeOK
    <3>2. QED
      BY <1>2, <1>3, <1>4, <1>5, <1>7, <1>8, <1>9, <3>1
  <2>3. CASE Register(d, u)
    <3>1. /\ request[d][u] = "saved" /\ stored' = stored /\ st = "success"
          /\ \/ u \in known' /\ failures' = failures
             \/ known' = known /\ failures' = failures + 1
      BY <1>6, <2>3 DEF Register, Learns, Reached, Fail, CInv, TypeOK
    <3>2. QED
      BY <1>2, <1>3, <1>4, <1>5, <1>7, <1>8, <1>9, <3>1
  <2>4. CASE Dies(d, u)
    <3>1. /\ request[d][u] \in {"queued", "new", "saved"} /\ st = "lost"
          /\ UNCHANGED <<stored, known>> /\ failures' = failures + 1
      BY <1>6, <2>4 DEF Dies, Reached, Fail, CInv, TypeOK
    <3>2. QED
      BY <1>2, <1>3, <1>4, <1>5, <1>7, <1>8, <1>9, <3>1
  <2>5. QED
    BY <2>1, <2>2, <2>3, <2>4 DEF Parser
<1>13. \A v \in Users : Counted(v)'
  BY <1>11, <1>12
<1>14. QED
  BY <1>3, <1>12, <1>13

(* No step takes an order back, or has the broker store a mail again. *)
LEMMA ElseCInv ==
    ASSUME CInv, TypeOK', NEW d \in Deliveries,
           \/ Arrive(d) \/ LdaTimesOut(d) \/ Broker(d) \/ SaveBatch(d) \/ Tick
           \/ \E u \in Users : Task(d, u)
    PROVE  CInv'
<1> USE DEF ldaVars, brokerVars, taskVars, notifVars, parserVars
<1>1. /\ lda \in [Deliveries -> {"none", "waiting", "ok", "refused", "timeout", "lost"}]
      /\ broker \in [Deliveries -> {"none", "lookup", "reject", "raw", "requests", "answer", "batch",
                                    "over"}]
      /\ request \in [Deliveries -> [Users -> {"none", "queued", "new", "saved", "success",
                                              "duplicate", "error", "lost"}]]
      /\ \A e \in Deliveries : Unasked(e)
  BY DEF CInv, TypeOK
<1>2. CASE StoreRaw(d)
  <2>1. \A u \in Users : request[d][u] = "none"
    BY <1>1, <1>2 DEF StoreRaw, Unasked
  <2>2. ASSUME NEW e \in Deliveries, NEW u \in Users
        PROVE  \/ request'[e][u] = request[e][u]
               \/ e = d /\ request[e][u] = "none" /\ request'[e][u] = "queued"
    BY <1>1, <1>2, <2>1 DEF StoreRaw
  <2>3. \A e \in Deliveries, u \in Users :
           \A st \in {"new", "saved"} : (request[e][u] = st) <=> (request'[e][u] = st)
    BY <2>2
  <2>4. UNCHANGED <<stored, known>> /\ failures' >= failures
    BY <1>2, InboundBoundsAssumption DEF StoreRaw, Fail, CInv, TypeOK
  <2>5. ASSUME NEW e \in Deliveries PROVE Unasked(e)'
    <3>1. lda' = lda /\ (e # d => broker'[e] = broker[e] /\ request'[e] = request[e])
      BY <1>1, <1>2 DEF StoreRaw
    <3>2. broker[d] = "raw" /\ broker'[d] \in {"requests", "answer"}
      BY <1>1, <1>2 DEF StoreRaw
    <3>3. QED
      BY <1>1, <3>1, <3>2 DEF Unasked
  <2>6. QED
    BY <2>3, <2>4, <2>5, SameWork DEF CInv
<1>3. CASE ~StoreRaw(d)
  <2>1. UNCHANGED <<request, stored, known>>
    BY <1>3 DEF Arrive, LdaTimesOut, Broker, SaveBatch, Tick, Task, Succeeds, Errs, Appends,
                Lookup, Reject, Finish, Answer
  <2>2. failures' >= failures
    <3>1. UNCHANGED failures \/ Fail
      BY <1>3 DEF Arrive, LdaTimesOut, Broker, SaveBatch, Tick, Task, Succeeds, Errs, Appends,
                  Lookup, Reject, Finish, Answer
    <3>2. QED
      BY <3>1 DEF Fail, CInv, TypeOK
  <2>3. ASSUME NEW e \in Deliveries PROVE Unasked(e)'
    <3>1. CASE UNCHANGED <<lda, broker>>
      BY <1>1, <2>1, <3>1 DEF Unasked
    <3>2. CASE Arrive(d)
      BY <1>1, <2>1, <3>2 DEF Arrive, Unasked
    <3>3. CASE LdaTimesOut(d)
      BY <1>1, <2>1, <3>3 DEF LdaTimesOut, Unasked
    <3>4. CASE SaveBatch(d)
      BY <1>1, <2>1, <3>4 DEF SaveBatch, Unasked
    <3>5. CASE Lookup(d)
      BY <1>1, <2>1, <3>5 DEF Lookup, Unasked
    <3>6. CASE Finish(d)
      BY <1>1, <2>1, <3>6 DEF Finish, Unasked
    <3>7. CASE Reject(d) \/ Answer(d)
      <4>1. broker[d] \in {"reject", "answer"}
        BY <3>7 DEF Reject, Answer
      <4>2. \/ lda' = lda /\ \E b \in {"batch", "over"} : broker' = [broker EXCEPT ![d] = b]
            \/ \E a \in {"ok", "refused"}, b \in {"batch", "over"} :
                  lda' = [lda EXCEPT ![d] = a] /\ broker' = [broker EXCEPT ![d] = b]
            \/ Panic(d)
        BY <3>7 DEF Reject, Answer, Respond
      <4>3. CASE Panic(d)
        <5>1. \/ broker'[e] = broker[e]
              \/ broker[e] # "none" /\ broker'[e] = "over"
          BY <4>3 DEF Panic
        <5>2. lda'[e] = lda[e] \/ lda'[e] = "lost"
          BY <4>3 DEF Panic
        <5>3. QED
          BY <1>1, <2>1, <5>1, <5>2 DEF Unasked
      <4>4. CASE ~Panic(d)
        BY <1>1, <2>1, <4>1, <4>2, <4>4 DEF Unasked
      <4>5. QED
        BY <4>3, <4>4
    <3>8. QED
      <4>1. CASE Tick
        BY <3>1, <4>1 DEF Tick
      <4>2. CASE \E u \in Users : Task(d, u)
        BY <3>1, <4>2 DEF Task, Succeeds, Errs, Appends
      <4>3. QED
        BY <1>3, <3>2, <3>3, <3>4, <3>5, <3>6, <3>7, <4>1, <4>2 DEF Broker
  <2>4. QED
    BY <2>1, <2>2, <2>3, SameWork DEF CInv
<1>4. QED
  BY <1>2, <1>3

LEMMA NextCInv == CInv /\ [Next]_vars => CInv'
<1> SUFFICES ASSUME CInv, [Next]_vars PROVE CInv'
  OBVIOUS
<1>1. TypeOK'
  BY NextTypeOK DEF CInv
<1>2. CASE UNCHANGED vars
  <2>1. UNCHANGED <<lda, broker, request, stored, known, failures>>
    BY <1>2 DEF vars, ldaVars, brokerVars, parserVars
  <2>2. failures' >= failures
    BY <2>1 DEF CInv, TypeOK
  <2>3. QED
    BY <1>1, <2>1, <2>2, SameWork DEF CInv, Unasked
<1>3. ASSUME NEW d \in Deliveries, NEW u \in Users, Parser(d, u) \/ Dies(d, u) PROVE CInv'
  <2>1. UNCHANGED <<lda, broker>>
    BY <1>3 DEF Parser, LookUp, Save, Register, Dies, parserKeeps, ldaVars, brokerVars
  <2>2. \A e \in Deliveries, v \in Users : request[e][v] = "none" => request'[e][v] = "none"
    <3>1. request[d][u] # "none" /\ \E st : Reached(d, u, st)
      BY <1>3 DEF Parser, LookUp, Save, Register, Dies
    <3>2. QED
      BY <3>1 DEF Reached, CInv, TypeOK
  <2>3. \A e \in Deliveries : Unasked(e)'
    BY <2>1, <2>2 DEF CInv, Unasked
  <2>4. QED
    BY <1>1, <1>3, <2>3, ParserCounted DEF CInv
<1>4. CASE Tick /\ Deliveries # {}
  BY <1>1, <1>4, ElseCInv
<1>5. QED
  <2>1. Tick => Deliveries # {}
    BY DEF Tick
  <2>2. QED
    BY <1>1, <1>2, <1>3, <1>4, <2>1, Steps, ElseCInv

(***************************************************************************)
(* However often a mail comes, by SMTP and from remote mailboxes, and      *)
(* however its deliveries overlap, a user has no more messages of it than  *)
(* there are parser processes and failures.                                *)
(***************************************************************************)
THEOREM StoredOnceCorrect == Spec => []StoredOnce
<1>1. CInv => StoredOnce
  <2> SUFFICES ASSUME CInv, NEW u \in Users PROVE stored[u] <= Processes + failures
    BY DEF StoredOnce
  <2>1. /\ Counted(u) /\ stored[u] \in Nat /\ failures \in Nat /\ Processes \in Nat
    BY InboundBoundsAssumption DEF CInv, TypeOK
  <2>2. /\ Cardinality(At(u, "new")) \in Nat /\ Cardinality(At(u, "saved")) \in Nat
        /\ Cardinality(At(u, "new")) + Cardinality(At(u, "saved")) <= Processes
    BY AtFinite
  <2>3. QED
    BY <2>1, <2>2 DEF Counted
<1>2. QED
  BY <1>1, InitCInv, NextCInv, PTL DEF Spec
-----------------------------------------------------------------------------
(***************************************************************************)
(* Notifications.  The batch of a delivery has an entry of each goroutine  *)
(* that has ended well, and it is saved when all of them have.             *)
(***************************************************************************)
\* Recipient u has an entry in the batch of delivery d.
Named(d, u) == \E k \in DOMAIN batch[d] : batch[d][k].user = u

\* The goroutines of delivery d have all ended well.
Over(d) == errors[d] = 0 /\ \A u \in found[d] : task[d][u] = "over"

\* Goroutines are those of the recipients found, and only they add to the batch.
ForRecipients(d) ==
    /\ lda[d] = "none" <=> broker[d] = "none"
    /\ broker[d] \in {"none", "lookup", "reject", "raw"} =>
          batch[d] = <<>> /\ \A u \in Users : task[d][u] = "none"
    /\ \A u \in Users : task[d][u] # "none" => u \in found[d]
    /\ \A k \in DOMAIN batch[d] : batch[d][k].user \in found[d]

\* A goroutine that is over has left an error or an entry of the batch, and a mail is
\* acknowledged when all of them have left entries.
Entered(d) ==
    /\ \A u \in Users : task[d][u] = "over" => errors[d] > 0 \/ Named(d, u)
    /\ broker[d] = "answer" /\ ~failed[d] => Over(d)
    /\ lda[d] = "ok" => broker[d] \in {"batch", "over"} /\ Over(d)

\* The batch is saved once it is complete: after the answer.
SavedLast(d) ==
    /\ saved[d] => lda[d] # "none" /\ (lda[d] = "waiting" => broker[d] = "over")
    /\ saved[d] /\ lda[d] = "ok" /\ failures = 0 => notified[d] = Aggregated(batch[d])

\* The only recipient of a mail that is acknowledged is notified once the batch is saved,
\* unless a query fails or the process ends.
AckedIsNotified ==
    \A d \in Deliveries :
        lda[d] = "ok" /\ saved[d] /\ (\E u \in Users : found[d] = {u}) =>
            notified[d] # {} \/ failures > 0 \/ panicked # {}

\* As long as no process has panicked.
NParts(d) == ForRecipients(d) /\ Entered(d) /\ SavedLast(d)
NInv == TypeOK /\ (panicked = {} => \A d \in Deliveries : NParts(d))

LEMMA InitNInv == Init => NInv
BY InitTypeOK DEF Init, NInv, NParts, ForRecipients, Entered, Over, SavedLast, Named

(* What the notifications of delivery e depend on stays as it is. *)
Same(e) ==
    /\ lda'[e] = lda[e] /\ broker'[e] = broker[e] /\ found'[e] = found[e]
    /\ failed'[e] = failed[e] /\ task'[e] = task[e] /\ errors'[e] = errors[e]
    /\ batch'[e] = batch[e] /\ saved'[e] = saved[e] /\ notified'[e] = notified[e]

(* A failure is counted for good. *)
FailuresGrow == failures' = failures \/ failures' # 0

LEMMA FailCounts == ASSUME TypeOK, UNCHANGED failures \/ Fail PROVE FailuresGrow
BY InboundBoundsAssumption DEF TypeOK, Fail, FailuresGrow

LEMMA SameParts ==
    ASSUME NEW e \in Deliveries, NParts(e), Same(e), FailuresGrow
    PROVE  NParts(e)'
<1>1. ForRecipients(e)'
  BY DEF NParts, Same, ForRecipients
<1>2. Entered(e)'
  BY DEF NParts, Same, Entered, Over, Named
<1>3. SavedLast(e)'
  BY DEF NParts, Same, SavedLast, FailuresGrow
<1>4. QED
  BY <1>1, <1>2, <1>3 DEF NParts

(* The parsers and the clocks. *)
LEMMA ElseNInv ==
    ASSUME NInv, TypeOK', FailuresGrow, panicked' = panicked, \A e \in Deliveries : Same(e)
    PROVE  NInv'
BY SameParts DEF NInv

LEMMA ParserNInv ==
    ASSUME NInv, TypeOK', NEW d \in Deliveries, NEW u \in Users, Parser(d, u) \/ Dies(d, u)
    PROVE  NInv'
<1>1. UNCHANGED failures \/ Fail
  BY DEF Parser, LookUp, Save, Register, Dies
<1>2. UNCHANGED <<lda, broker, found, failed, task, errors, batch, saved, notified, panicked>>
  BY DEF Parser, LookUp, Save, Register, Dies, parserKeeps, ldaVars, brokerVars, taskVars, notifVars
<1>3. QED
  BY <1>1, <1>2, FailCounts, ElseNInv DEF NInv, Same

(* A step of delivery d in whose process nobody has panicked. *)
LEMMA StepNInv ==
    ASSUME NInv, TypeOK', NEW d \in Deliveries, FailuresGrow, panicked \subseteq panicked',
           panicked' = {} => /\ \A e \in Deliveries \ {d} : Same(e)
                             /\ NParts(d) => NParts(d)'
    PROVE  NInv'
<1>1. ASSUME panicked' = {}, NEW e \in Deliveries PROVE NParts(e)'
  <2>1. NParts(e) /\ NParts(d)
    BY <1>1 DEF NInv
  <2>2. CASE e = d
    BY <1>1, <2>1, <2>2
  <2>3. CASE e # d
    BY <1>1, <2>1, <2>3, SameParts
  <2>4. QED
    BY <2>2, <2>3
<1>2. QED
  BY <1>1 DEF NInv

(* The functions of deliveries, all of them at once. *)
LEMMA DeliveryTypes ==
    ASSUME TypeOK
    PROVE  /\ lda \in [Deliveries -> {"none", "waiting", "ok", "refused", "timeout", "lost"}]
           /\ broker \in [Deliveries -> {"none", "lookup", "reject", "raw", "requests", "answer",
                                         "batch", "over"}]
           /\ found \in [Deliveries -> SUBSET Users] /\ failed \in [Deliveries -> BOOLEAN]
           /\ task \in [Deliveries -> [Users -> {"none", "asked", "appending", "over"}]]
           /\ errors \in [Deliveries -> Nat] /\ seen \in [Deliveries -> [Users -> Nat]]
           /\ batch \in [Deliveries -> Seq(Notif)] /\ saved \in [Deliveries -> BOOLEAN]
           /\ notified \in [Deliveries -> SUBSET [user : Users, children : SUBSET Notif]]
           /\ failures \in Nat
BY InboundBoundsAssumption DEF TypeOK

LEMMA LdaNInv ==
    ASSUME NInv, TypeOK', NEW d \in Deliveries, Arrive(d) \/ LdaTimesOut(d) PROVE NInv'
<1> USE DEF brokerVars, taskVars, notifVars
<1>1. TypeOK
  BY DEF NInv
<1>2. CASE Arrive(d)
  <2>1. UNCHANGED <<failed, task, errors, batch, saved, notified, panicked, failures>>
    BY <1>2 DEF Arrive
  <2>2. \A e \in Deliveries \ {d} : Same(e)
    BY <1>1, <1>2, <2>1, DeliveryTypes DEF Arrive, Same
  <2>3. ASSUME NParts(d) PROVE NParts(d)'
    <3>1. /\ lda[d] = "none" /\ broker[d] = "none" /\ ~saved[d]
          /\ batch[d] = <<>> /\ \A u \in Users : task[d][u] = "none"
      BY <1>2, <2>3 DEF Arrive, NParts, ForRecipients, SavedLast
    <3>2. lda'[d] = "waiting" /\ broker'[d] \in {"lookup", "raw"}
      BY <1>1, <1>2, DeliveryTypes DEF Arrive
    <3>3. QED
      BY <2>1, <3>1, <3>2 DEF NParts, ForRecipients, Entered, SavedLast
  <2>4. QED
    BY <2>1, <2>2, <2>3, StepNInv DEF FailuresGrow
<1>3. CASE LdaTimesOut(d)
  <2>1. UNCHANGED <<broker, found, failed, task, errors, batch, saved, notified, panicked, failures>>
    BY <1>3 DEF LdaTimesOut
  <2>2. /\ \A e \in Deliveries \ {d} : Same(e)
        /\ lda[d] = "waiting" /\ lda'[d] = "timeout"
    BY <1>1, <1>3, <2>1, DeliveryTypes DEF LdaTimesOut, Same
  <2>3. ASSUME NParts(d) PROVE NParts(d)'
    BY <2>1, <2>2, <2>3 DEF NParts, ForRecipients, Entered, Over, Named, SavedLast
  <2>4. QED
    BY <2>1, <2>2, <2>3, StepNInv DEF FailuresGrow
<1>4. QED
  BY <1>2, <1>3

(* An answer that ends no process is that of a delivery which was not saved yet. *)
LEMMA RespondNInv ==
    ASSUME NInv, TypeOK', NEW d \in Deliveries, NEW err \in BOOLEAN, NEW next \in {"batch", "over"},
           broker[d] \in {"reject", "answer"}, ~err => broker[d] = "answer" /\ ~failed[d],
           Respond(d, err, next), UNCHANGED <<found, failed, errors, batch, notified, failures>>
    PROVE  NInv'
<1>1. TypeOK /\ panicked \subseteq panicked'
  BY DEF NInv, Respond, Panic
<1>2. ASSUME panicked' = {}
      PROVE  /\ lda[d] = "waiting" /\ lda' = [lda EXCEPT ![d] = IF err THEN "refused" ELSE "ok"]
             /\ broker' = [broker EXCEPT ![d] = next]
             /\ UNCHANGED <<task, saved>>
  BY <1>2 DEF Respond, Panic
<1>3. ASSUME panicked' = {} PROVE \A e \in Deliveries \ {d} : Same(e)
  BY <1>1, <1>2, <1>3, DeliveryTypes DEF Same
<1>4. ASSUME panicked' = {}, NParts(d) PROVE NParts(d)'
  <2>1. /\ lda[d] = "waiting" /\ lda'[d] = IF err THEN "refused" ELSE "ok"
        /\ broker'[d] = next /\ UNCHANGED <<task, saved>>
    BY <1>1, <1>2, <1>4, DeliveryTypes
  <2>2. ~saved[d]
    BY <1>4, <2>1 DEF NParts, SavedLast
  <2>3. ForRecipients(d)'
    BY <1>4, <2>1 DEF NParts, ForRecipients
  <2>4. Entered(d)'
    BY <1>4, <2>1 DEF NParts, Entered, Over, Named
  <2>5. QED
    BY <2>1, <2>2, <2>3, <2>4 DEF NParts, SavedLast
<1>5. QED
  BY <1>1, <1>3, <1>4, StepNInv DEF FailuresGrow

LEMMA BrokerNInv == ASSUME NInv, TypeOK', NEW d \in Deliveries, Broker(d) PROVE NInv'
<1> USE DEF ldaVars, brokerVars, taskVars, notifVars
<1>1. TypeOK
  BY DEF NInv
<1>2. CASE Lookup(d)
  <2>1. UNCHANGED <<lda, failed, task, errors, batch, saved, notified, panicked>> /\ FailuresGrow
    BY <1>1, <1>2, FailCounts DEF Lookup
  <2>2. /\ \A e \in Deliveries \ {d} : Same(e)
        /\ broker[d] = "lookup" /\ broker'[d] \in {"reject", "raw"}
    BY <1>1, <1>2, <2>1, DeliveryTypes DEF Lookup, Same
  <2>3. ASSUME NParts(d) PROVE NParts(d)'
    <3>1. ForRecipients(d)'
      BY <2>1, <2>2, <2>3 DEF NParts, ForRecipients
    <3>2. Entered(d)'
      BY <2>1, <2>2, <2>3 DEF NParts, ForRecipients, Entered
    <3>3. SavedLast(d)'
      BY <2>1, <2>2, <2>3 DEF NParts, Entered, SavedLast
    <3>4. QED
      BY <3>1, <3>2, <3>3 DEF NParts
  <2>4. QED
    BY <2>1, <2>2, <2>3, StepNInv
<1>3. CASE Reject(d)
  BY <1>3, RespondNInv DEF Reject
<1>4. CASE StoreRaw(d)
  <2>1. UNCHANGED <<lda, found, errors, batch, saved, notified, panicked>> /\ FailuresGrow
    BY <1>1, <1>4, FailCounts DEF StoreRaw
  <2>2. /\ broker[d] = "raw"
        /\ \/ /\ broker'[d] = "requests" /\ failed' = failed
              /\ task'[d] = [u \in Users |-> IF u \in found[d] THEN "asked" ELSE task[d][u]]
           \/ broker'[d] = "answer" /\ failed'[d] = TRUE /\ task' = task
        /\ \A e \in Deliveries \ {d} : task'[e] = task[e] /\ failed'[e] = failed[e]
                                       /\ broker'[e] = broker[e]
    BY <1>1, <1>4, DeliveryTypes DEF StoreRaw
  <2>3. \A e \in Deliveries \ {d} : Same(e)
    BY <2>1, <2>2 DEF Same
  <2>4. ASSUME NParts(d) PROVE NParts(d)'
    <3>1. batch[d] = <<>> /\ \A u \in Users : task[d][u] = "none"
      BY <2>2, <2>4 DEF NParts, ForRecipients
    <3>2. ForRecipients(d)'
      BY <2>1, <2>2, <2>4, <3>1 DEF NParts, ForRecipients
    <3>3. Entered(d)'
      BY <2>1, <2>2, <2>4, <3>1 DEF NParts, Entered
    <3>4. SavedLast(d)'
      BY <2>1, <2>2, <2>4 DEF NParts, Entered, SavedLast
    <3>5. QED
      BY <3>2, <3>3, <3>4 DEF NParts
  <2>5. QED
    BY <2>1, <2>3, <2>4, StepNInv
<1>5. CASE Finish(d)
  <2>1. UNCHANGED <<lda, found, task, errors, batch, saved, notified, panicked>> /\ FailuresGrow
    BY <1>1, <1>5, FailCounts DEF Finish
  <2>2. /\ \A e \in Deliveries \ {d} : Same(e)
        /\ broker[d] = "requests" /\ broker'[d] = "answer"
        /\ failed'[d] = (errors[d] > 0) /\ \A u \in found[d] : task[d][u] = "over"
    BY <1>1, <1>5, <2>1, DeliveryTypes DEF Finish, Failing, Same
  <2>3. errors[d] \in Nat
    BY <1>1, DeliveryTypes
  <2>4. ASSUME NParts(d) PROVE NParts(d)'
    <3>1. ForRecipients(d)'
      BY <2>1, <2>2, <2>4 DEF NParts, ForRecipients
    <3>2. Entered(d)'
      <4>1. /\ \A u \in Users : task[d][u] = "over" => errors[d] > 0 \/ Named(d, u)
            /\ lda[d] # "ok"
        BY <2>2, <2>4 DEF NParts, Entered
      <4>2. \A u \in Users : task'[d][u] = "over" => errors'[d] > 0 \/ Named(d, u)'
        BY <2>1, <4>1 DEF Named
      <4>3. ~failed'[d] => Over(d)'
        <5>1. ~failed'[d] => ~(errors[d] > 0)
          BY <2>2, Zenon
        <5>2. ~(errors[d] > 0) => errors[d] = 0
          BY <2>3
        <5>3. errors'[d] = errors[d] /\ \A u \in found'[d] : task'[d][u] = "over"
          BY <2>1, <2>2
        <5>4. QED
          BY <5>1, <5>2, <5>3 DEF Over
      <4>4. QED
        BY <2>1, <4>1, <4>2, <4>3 DEF Entered
    <3>3. SavedLast(d)'
      BY <2>1, <2>2, <2>4 DEF NParts, Entered, SavedLast
    <3>4. QED
      BY <3>1, <3>2, <3>3 DEF NParts
  <2>5. QED
    BY <2>1, <2>2, <2>4, StepNInv
<1>6. CASE Answer(d)
  <2> DEFINE next == IF d \in Smtp THEN "batch" ELSE "over"
  <2>1. CASE InTime(d) /\ Respond(d, failed[d], next)
    <3>1. failed[d] \in BOOLEAN /\ next \in {"batch", "over"}
      BY <1>1, DeliveryTypes
    <3>2. QED
      BY <1>6, <2>1, <3>1, RespondNInv DEF Answer
  <2>2. CASE broker' = [broker EXCEPT ![d] = next] /\ UNCHANGED <<lda, panicked, task, saved>>
    <3>1. UNCHANGED <<found, failed, errors, batch, notified, failures>> /\ broker[d] = "answer"
      BY <1>6 DEF Answer
    <3>2. (\A e \in Deliveries \ {d} : Same(e)) /\ broker'[d] \in {"batch", "over"}
      BY <1>1, <2>2, <3>1, DeliveryTypes DEF Same
    <3>3. ASSUME NParts(d) PROVE NParts(d)'
      <4>1. ForRecipients(d)'
        BY <2>2, <3>1, <3>2, <3>3 DEF NParts, ForRecipients
      <4>2. Entered(d)'
        BY <2>2, <3>1, <3>2, <3>3 DEF NParts, Entered, Over, Named
      <4>3. SavedLast(d)'
        BY <2>2, <3>1, <3>2, <3>3 DEF NParts, SavedLast
      <4>4. QED
        BY <4>1, <4>2, <4>3 DEF NParts
    <3>4. QED
      BY <2>2, <3>1, <3>2, <3>3, StepNInv DEF FailuresGrow
  <2>3. QED
    BY <1>6, <2>1, <2>2 DEF Answer
<1>7. QED
  BY <1>2, <1>3, <1>4, <1>5, <1>6 DEF Broker

(* A goroutine ends with an entry or with an error. *)
LEMMA TaskNInv ==
    ASSUME NInv, TypeOK', NEW d \in Deliveries, NEW u \in Users, Task(d, u) PROVE NInv'
<1> USE DEF ldaVars, brokerVars, notifVars
<1>1. TypeOK
  BY DEF NInv
<1>2. UNCHANGED <<lda, broker, found, failed, saved, notified, panicked, failures>>
  BY DEF Task, Succeeds, Errs, Appends
<1>3. \A e \in Deliveries \ {d} :
         task'[e] = task[e] /\ errors'[e] = errors[e] /\ batch'[e] = batch[e]
  BY <1>1, DeliveryTypes DEF Task, Succeeds, Errs, Appends, SetTask
<1>4. /\ task[d][u] \in {"asked", "appending"}
      /\ \A v \in Users \ {u} : task'[d][v] = task[d][v]
      /\ task'[d][u] \in {"appending", "over"}
  BY <1>1, DeliveryTypes DEF Task, Succeeds, Errs, Appends, SetTask
<1>5. batch[d] \in Seq(Notif) /\ errors[d] \in Nat
  BY <1>1, DeliveryTypes
<1>6. \/ batch'[d] = batch[d] /\ task'[d][u] = "appending" /\ errors'[d] = errors[d]
      \/ batch'[d] = batch[d] /\ errors'[d] \in Nat \ {0}
      \/ /\ errors'[d] = errors[d]
         /\ \E n \in Notif : batch'[d] = Append(batch[d], n) /\ n.user = u
  <2>1. CASE Succeeds(d, u)
    <3>1. PICK r \in {"success", "duplicate"} :
              batch' = [batch EXCEPT ![d] =
                  Append(@, [user |-> u, names |-> IF r = "success" THEN "message" ELSE "raw"])]
      BY <2>1 DEF Succeeds
    <3>2. [user |-> u, names |-> IF r = "success" THEN "message" ELSE "raw"] \in Notif
      BY DEF Notif
    <3>3. errors' = errors
      BY <2>1 DEF Succeeds
    <3>4. QED
      BY <1>1, <3>1, <3>2, <3>3, DeliveryTypes
  <2>2. CASE Errs(d, u)
    BY <1>1, <2>2, DeliveryTypes DEF Errs, SetTask
  <2>3. CASE Appends(d, u)
    <3>1. batch' = batch /\ errors'[d] = seen[d][u] + 1 /\ seen[d][u] \in Nat
      BY <1>1, <2>3, DeliveryTypes DEF Appends
    <3>2. QED
      BY <3>1
  <2>4. QED
    BY <2>1, <2>2, <2>3 DEF Task
<1>7. /\ \A k \in DOMAIN batch[d] : k \in DOMAIN batch'[d] /\ batch'[d][k] = batch[d][k]
      /\ \A k \in DOMAIN batch'[d] :
            (k \in DOMAIN batch[d] /\ batch'[d][k] = batch[d][k]) \/ batch'[d][k].user = u
      /\ errors'[d] = 0 => errors[d] = 0
      /\ task'[d][u] = "over" => errors'[d] > 0 \/ Named(d, u)'
  <2>1. CASE \E n \in Notif : batch'[d] = Append(batch[d], n) /\ n.user = u
    <3>1. PICK n \in Notif : batch'[d] = Append(batch[d], n) /\ n.user = u
      BY <2>1
    <3>2. /\ \A k \in DOMAIN batch[d] : k \in DOMAIN batch'[d] /\ batch'[d][k] = batch[d][k]
          /\ \A k \in DOMAIN batch'[d] :
                (k \in DOMAIN batch[d] /\ batch'[d][k] = batch[d][k]) \/ batch'[d][k] = n
          /\ Len(batch[d]) + 1 \in DOMAIN batch'[d] /\ batch'[d][Len(batch[d]) + 1] = n
      BY <1>5, <3>1
    <3>3. Named(d, u)'
      BY <3>1, <3>2 DEF Named
    <3>4. errors'[d] = 0 => errors[d] = 0
      BY <1>6
    <3>5. QED
      BY <3>1, <3>2, <3>3, <3>4
  <2>2. CASE batch'[d] = batch[d]
    <3>1. errors'[d] = 0 => errors[d] = 0
      BY <1>6
    <3>2. Append(batch[d], u) # batch[d]
      BY <1>5
    <3>3. \A n \in Notif : Append(batch[d], n) # batch[d]
      BY <1>5
    <3>4. task'[d][u] = "over" => errors'[d] > 0
      BY <1>6, <2>2, <3>3
    <3>5. QED
      BY <2>2, <3>1, <3>4
  <2>3. QED
    BY <1>6, <2>1, <2>2
<1>8. ASSUME NParts(d) PROVE NParts(d)'
  <2>1. u \in found[d]
    BY <1>4, <1>8 DEF NParts, ForRecipients
  <2>2. ~Over(d)
    BY <1>4, <2>1 DEF Over
  <2>3. broker[d] \notin {"none", "lookup", "reject", "raw"}
    BY <1>4, <1>8 DEF NParts, ForRecipients
  <2>4. ForRecipients(d)'
    BY <1>2, <1>4, <1>7, <1>8, <2>1, <2>3 DEF NParts, ForRecipients
  <2>5. Entered(d)'
    <3>1. ASSUME NEW v \in Users, task'[d][v] = "over" PROVE errors'[d] > 0 \/ Named(d, v)'
      <4>1. CASE v = u
        BY <1>7, <3>1, <4>1
      <4>2. CASE v # u
        <5>1. errors[d] > 0 \/ Named(d, v)
          BY <1>4, <1>8, <3>1, <4>2 DEF NParts, Entered
        <5>2. Named(d, v) => Named(d, v)'
          BY <1>7 DEF Named
        <5>3. errors[d] > 0 => errors'[d] > 0
          BY <1>5, <1>6
        <5>4. QED
          BY <5>1, <5>2, <5>3
      <4>3. QED
        BY <4>1, <4>2
    <3>2. QED
      BY <1>2, <1>8, <2>2, <3>1 DEF NParts, Entered
  <2>6. SavedLast(d)'
    BY <1>2, <1>8, <2>2 DEF NParts, Entered, SavedLast
  <2>7. QED
    BY <2>4, <2>5, <2>6 DEF NParts
<1>9. \A e \in Deliveries \ {d} : Same(e)
  BY <1>2, <1>3 DEF Same
<1>10. QED
  BY <1>2, <1>8, <1>9, StepNInv DEF FailuresGrow

LEMMA BatchNInv == ASSUME NInv, TypeOK', NEW d \in Deliveries, SaveBatch(d) PROVE NInv'
<1> USE DEF ldaVars, taskVars
<1>1. TypeOK
  BY DEF NInv
<1>2. UNCHANGED <<lda, found, failed, task, errors, batch, panicked>> /\ FailuresGrow
  BY <1>1, FailCounts DEF SaveBatch
<1>3. /\ \A e \in Deliveries \ {d} : Same(e)
      /\ saved'[d]
      /\ \/ broker[d] = "batch" /\ broker'[d] = "over"
         \/ Closed(d) /\ broker'[d] = broker[d]
      /\ notified'[d] = Aggregated(batch[d]) \/ failures' # 0
  BY <1>1, <1>2, DeliveryTypes DEF SaveBatch, Same, Fail
<1>4. ASSUME NParts(d) PROVE NParts(d)'
  <2>1. ForRecipients(d)'
    BY <1>2, <1>3, <1>4 DEF NParts, ForRecipients
  <2>2. Entered(d)'
    BY <1>2, <1>3, <1>4 DEF NParts, Entered, Over, Named
  <2>3. SavedLast(d)'
    BY <1>2, <1>3, <1>4 DEF NParts, ForRecipients, SavedLast, Closed, Aggregated
  <2>4. QED
    BY <2>1, <2>2, <2>3 DEF NParts
<1>5. QED
  BY <1>2, <1>3, <1>4, StepNInv

LEMMA NextNInv == NInv /\ [Next]_vars => NInv'
<1> SUFFICES ASSUME NInv, [Next]_vars PROVE NInv'
  OBVIOUS
<1>1. TypeOK'
  BY NextTypeOK DEF NInv
<1>2. CASE Tick \/ UNCHANGED vars
  BY <1>1, <1>2, ElseNInv
  DEF Tick, vars, ldaVars, brokerVars, taskVars, notifVars, Same, FailuresGrow
<1>3. QED
  BY <1>1, <1>2, Steps, LdaNInv, BrokerNInv, BatchNInv, TaskNInv, ParserNInv

(***************************************************************************)
(* The part of DeliveryEnds that is no liveness: whoever is the only       *)
(* recipient of an acknowledged mail has a notification in the batch that  *)
(* is saved, whatever the goroutines of other mails do; unless a query     *)
(* fails or the process ends (processInbound, Batch.Save).                 *)
(***************************************************************************)
THEOREM NotifiedCorrect == Spec => []AckedIsNotified
<1>1. ASSUME NInv PROVE AckedIsNotified
  <2> SUFFICES ASSUME NEW d \in Deliveries, NEW u \in Users, lda[d] = "ok", saved[d],
                      found[d] = {u}, failures = 0, panicked = {}
               PROVE  notified[d] # {}
    <3>1. failures \in Nat
      BY <1>1, DeliveryTypes DEF NInv
    <3>2. QED
      BY <3>1 DEF AckedIsNotified
  <2>1. NParts(d) /\ batch[d] \in Seq(Notif)
    BY <1>1, DeliveryTypes DEF NInv
  <2>2. Over(d) /\ notified[d] = Aggregated(batch[d])
    BY <2>1 DEF NParts, Entered, SavedLast
  <2>3. u \in found[d]
    OBVIOUS
  <2>4. Named(d, u)
    BY <2>1, <2>2, <2>3 DEF NParts, Entered, Over
  <2>5. batch[d] # <<>> /\ 1 \in DOMAIN batch[d]
    BY <2>1, <2>4 DEF Named
  <2>6. \A k \in DOMAIN batch[d] : batch[d][k].user = batch[d][1].user
    BY <2>1, <2>3, <2>5 DEF NParts, ForRecipients
  <2>7. QED
    BY <2>2, <2>5, <2>6 DEF Aggregated
<1>2. QED
  BY <1>1, InitNInv, NextNInv, PTL DEF Spec
=============================================================================

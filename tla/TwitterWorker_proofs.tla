------------------------ MODULE TwitterWorker_proofs ------------------------
(***************************************************************************)
(* Theorems about TwitterWorker, for any messages, orders, capacities and  *)
(* bounds.                                                                 *)
(***************************************************************************)
EXTENDS TwitterWorker, SequenceTheorems, TLAPS

\* Who is about to need an order has one.
OrdersInHand ==
    /\ pc["dms"] # "idle" => order \in Orders
    /\ \A h \in HandlerIds :
          handlers[h].sender \in {"build", "create", "save", "ack", "hung"} =>
              handlers[h].sending \in Orders

\* Between NewAccountHandler and its registration, a handler is only known to its caller.
Registering == {"register", "remove", "removing", "store"}
Open(h) == ~handlers[h].egressClosed /\ ~handlers[h].closed
Untouched(h) ==
    Open(h) /\ handlers[h].sender = "select" /\ handlers[h].egress = <<>>
    /\ handlers[h].poller = "idle"
Unreferenced(h) ==
    /\ h # registered
    /\ \A d \in Callers : old[d] # h
    /\ \A i \in DOMAIN desk : desk[i] # h
Private(c) ==
    /\ target[c] \in HandlerIds
    /\ Untouched(target[c])
    /\ Unreferenced(target[c])
    /\ \A a \in Actors \ {c} : target[a] # target[c]
FreshIsPrivate == \A c \in Callers : pc[c] \in Registering => Private(c)

\* The inductive invariant.
IInv == TypeOK /\ OrdersInHand /\ FreshIsPrivate /\ RegisteredIsOpen
-----------------------------------------------------------------------------
LEMMA Constants ==
    /\ MessageOf \in Seq(Messages) /\ Orders = DOMAIN MessageOf /\ Orders \subseteq Nat
    /\ \A o \in Orders : MessageOf[o] \in Messages
    /\ EgressSize \in Nat /\ DeskSize \in Nat /\ MaxFailures \in Nat /\ MaxHandlers \in Nat
    /\ HandlerIds \subseteq Nat /\ 0 \notin HandlerIds /\ MaybeHandler = HandlerIds \cup {0}
    /\ Nobody \notin Orders /\ Nobody \notin Actors
BY OrdersAssumption, SizesAssumption, TwitterBoundsAssumption, NobodyAssumption
   DEF Orders, HandlerIds, MaybeHandler

LEMMA HandlerTypes ==
    /\ NewHandler \in Handler
    /\ Gone \in Handler
    /\ \A b \in BOOLEAN : [NewHandler EXCEPT !.mute = b] \in Handler
<1>1. <<>> \in Seq(Orders)
  OBVIOUS
<1>2. NewHandler \in Handler
  BY <1>1 DEF NewHandler, Handler
<1>3. Gone \in Handler
  <2> DEFINE one == [NewHandler EXCEPT !.egressClosed = TRUE]
             two == [one EXCEPT !.closed = TRUE]
  <2>1. one \in Handler
    BY <1>2 DEF Handler
  <2>2. two \in Handler
    BY <2>1 DEF Handler
  <2>3. [two EXCEPT !.sender = "ended"] \in Handler
    BY <2>2 DEF Handler
  <2> QED
    BY <2>3 DEF Gone
<1>4. \A b \in BOOLEAN : [NewHandler EXCEPT !.mute = b] \in Handler
  BY <1>2 DEF Handler
<1> QED
  BY <1>2, <1>3, <1>4

LEMMA HandlerValues ==
    /\ NewHandler.egress = <<>> /\ NewHandler.sender = "select" /\ NewHandler.poller = "idle"
    /\ ~NewHandler.egressClosed /\ ~NewHandler.closed
    /\ Gone.egress = <<>> /\ Gone.sender = "ended" /\ Gone.poller = "idle"
    /\ Gone.egressClosed /\ Gone.closed /\ Len(<<>>) = 0
BY DEF NewHandler, Gone

\* The fields of a handler.
LEMMA HandlerFields ==
    ASSUME NEW h \in Handler
    PROVE  /\ h.egress \in Seq(Orders) /\ h.egressClosed \in BOOLEAN /\ h.closed \in BOOLEAN
           /\ h.sender \in {"select", "build", "create", "save", "ack", "hung", "closing", "ended"}
           /\ h.sending \in Orders \cup {Nobody}
           /\ h.poller \in {"idle", "polling", "suicide"} /\ h.mute \in BOOLEAN
BY DEF Handler

\* One field of a handler is changed.
Senders == {"select", "build", "create", "save", "ack", "hung", "closing", "ended"}
LEMMA HandlerUpdates ==
    ASSUME NEW r \in Handler
    PROVE  /\ [r EXCEPT !.egressClosed = TRUE] \in Handler
           /\ [r EXCEPT !.closed = TRUE] \in Handler
           /\ \A s \in Senders : [r EXCEPT !.sender = s] \in Handler
           /\ \A e \in Seq(Orders) : [r EXCEPT !.egress = e] \in Handler
           /\ \A o \in Orders \cup {Nobody} : [r EXCEPT !.sending = o] \in Handler
           /\ \A p \in {"idle", "polling", "suicide"} : [r EXCEPT !.poller = p] \in Handler
BY DEF Handler, Senders
-----------------------------------------------------------------------------
(***************************************************************************)
(* Types.                                                                  *)
(***************************************************************************)
Typed == TypeOK /\ OrdersInHand

\* The memory of a process that starts.
Clean ==
    /\ registered = 0 /\ guard = Nobody
    /\ handlers = [h \in HandlerIds |-> Gone]
    /\ ready = FALSE /\ desk = <<>>
    /\ pc = [a \in Actors |-> "idle"]
    /\ target = [a \in Actors |-> 0]
    /\ old = [c \in Callers |-> 0]
    /\ order = Nobody /\ saves = {}

\* What survives it.
KeptType ==
    /\ draft \in [Messages -> BOOLEAN]
    /\ created \in [Messages -> Nat]
    /\ orders \in [Orders -> {"new", "asked", "waiting", "answered", "lost"}]
    /\ overlapped \in BOOLEAN
    /\ failures \in 0..MaxFailures

LEMMA CleanType == Clean /\ KeptType => Typed
<1> SUFFICES ASSUME Clean, KeptType PROVE Typed
  OBVIOUS
<1>1. handlers \in [HandlerIds -> Handler] /\ \A h \in HandlerIds : Len(handlers[h].egress) <= EgressSize
  BY Constants, HandlerTypes, HandlerValues DEF Clean
<1>2. desk \in Seq(HandlerIds) /\ Len(desk) <= DeskSize
  BY Constants DEF Clean
<1>3. pc \in [Actors -> {"idle", "create", "register", "remove", "removing", "store", "offer"}]
  BY DEF Clean
<1>4. target \in [Actors -> MaybeHandler] /\ old \in [Callers -> MaybeHandler] /\ registered \in MaybeHandler
  BY Constants DEF Clean
<1>5. order \in Orders \cup {Nobody} /\ saves \subseteq Messages /\ guard \in Actors \cup {Nobody} /\ ready \in BOOLEAN
  BY DEF Clean
<1>6. OrdersInHand
  BY HandlerValues DEF Clean, OrdersInHand, Actors, Callers
<1> QED
  BY <1>1, <1>2, <1>3, <1>4, <1>5, <1>6 DEF Typed, TypeOK, KeptType

LEMMA InitType == Init => Typed
<1> SUFFICES ASSUME Init PROVE Typed
  OBVIOUS
<1>1. KeptType
  <2>1. draft \in [Messages -> BOOLEAN] /\ overlapped \in BOOLEAN
    BY Zenon DEF Init
  <2>2. created \in [Messages -> Nat] /\ failures \in 0..MaxFailures
    BY Constants DEF Init
  <2>3. orders \in [Orders -> {"new", "asked", "waiting", "answered", "lost"}]
    BY DEF Init
  <2> QED
    BY <2>1, <2>2, <2>3 DEF KeptType
<1>2. Clean
  BY DEF Init, Clean
<1> QED
  BY <1>1, <1>2, CleanType

LEMMA EndProcessClean ==
    ASSUME NoMemory
    PROVE  Clean'
BY DEF NoMemory, Clean

LEMMA EndProcessType ==
    ASSUME Typed, EndProcess, failures' \in 0..MaxFailures
    PROVE  Typed'
<1>1. orders' \in [Orders -> {"new", "asked", "waiting", "answered", "lost"}]
  BY DEF EndProcess, Typed, TypeOK
<1>2. KeptType'
  BY <1>1 DEF EndProcess, Typed, TypeOK, KeptType, messages
<1>3. Clean'
  BY EndProcessClean DEF EndProcess
<1> QED
  BY <1>2, <1>3, CleanType, PTL

\* The surroundings.
LEMMA SurroundingsType ==
    ASSUME Typed,
           InitWorker \/ Crash \/ (\E o \in Orders : AskDelivery(o) \/ GiveUp(o))
           \/ (\E m \in Messages : SaveLate(m))
    PROVE  Typed'
<1> USE DEF Typed
<1>1. CASE InitWorker
  BY <1>1 DEF InitWorker, TypeOK, OrdersInHand, messages, registry, goroutines
<1>2. CASE Crash
  <2>1. failures' \in 0..MaxFailures
    BY <1>2, Constants DEF Crash, Fail, TypeOK
  <2> QED
    BY <1>2, <2>1, EndProcessType DEF Crash
<1>3. ASSUME NEW o \in Orders, AskDelivery(o) PROVE Typed'
  BY <1>3 DEF AskDelivery, TypeOK, OrdersInHand, messages, process, registry, goroutines
<1>4. ASSUME NEW o \in Orders, GiveUp(o) PROVE Typed'
  <2>1. failures' \in 0..MaxFailures
    <3>1. UNCHANGED failures \/ (failures < MaxFailures /\ failures' = failures + 1)
      <4>1. CASE InProgress(o)
        BY <1>4, <4>1 DEF GiveUp, Fail
      <4>2. CASE ~InProgress(o)
        BY <1>4, <4>2 DEF GiveUp
      <4> QED
        BY <4>1, <4>2
    <3>2. failures \in 0..MaxFailures /\ MaxFailures \in Nat
      BY Constants DEF TypeOK
    <3> QED
      BY ONLY <3>1, <3>2
  <2>2. orders' = [orders EXCEPT ![o] = "answered"] /\ UNCHANGED <<messages, process, overlapped>>
    BY <1>4 DEF GiveUp
  <2> QED
    BY <2>1, <2>2 DEF TypeOK, OrdersInHand, messages, process, registry, goroutines
<1>5. ASSUME NEW m \in Messages, SaveLate(m) PROVE Typed'
  BY <1>5 DEF SaveLate, TypeOK, OrdersInHand, registry, goroutines
<1> QED
  BY <1>1, <1>2, <1>3, <1>4, <1>5

\* getOrCreateHandler and RegisterAccountHandler.
LEMMA CallerType ==
    ASSUME Typed, NEW c \in Callers,
           \/ LookupForSync \/ (\E o \in Orders : LookupForDelivery(o))
           \/ Create(c) \/ CreateFails(c) \/ FindRegistered(c) \/ StoreHandler(c)
    PROVE  Typed'
<1> USE DEF Typed, messages, registry
<1>0. c \in Actors /\ "loop" \in Actors /\ "dms" \in Actors
  BY DEF Callers, Actors
<1>1. CASE LookupForSync
  BY <1>1, <1>0, Constants DEF LookupForSync, Lookup, Goto, TypeOK, OrdersInHand
<1>2. ASSUME NEW o \in Orders, LookupForDelivery(o) PROVE Typed'
  BY <1>2, <1>0, Constants DEF LookupForDelivery, Lookup, Goto, TypeOK, OrdersInHand
<1>3. CASE Create(c)
  <2> DEFINE h == CHOOSE x \in HandlerIds : Free(x)
             n == [NewHandler EXCEPT !.mute = ~ready]
  <2>1. h \in HandlerIds
    BY <1>3 DEF Create, Full
  <2>2. n \in Handler /\ n.egress = <<>> /\ n.sender = "select"
    BY HandlerTypes, HandlerValues DEF TypeOK, NewHandler
  <2>3. handlers' = [handlers EXCEPT ![h] = n] /\ target' = [target EXCEPT ![c] = h]
    BY <1>3 DEF Create
  <2> HIDE DEF h, n
  <2>4. pc' = [pc EXCEPT ![c] = "register"]
    BY <1>3 DEF Create, Goto
  <2>5. TypeOK'
    <3>1. handlers' \in [HandlerIds -> Handler] /\ \A x \in HandlerIds : Len(handlers'[x].egress) <= EgressSize
      <4>1. /\ handlers \in [HandlerIds -> Handler] /\ EgressSize \in Nat
            /\ \A x \in HandlerIds : Len(handlers[x].egress) <= EgressSize
        BY Constants DEF TypeOK
      <4>2. Len(n.egress) = 0
        BY <2>2
      <4>3. handlers' = [handlers EXCEPT ![h] = n] /\ h \in HandlerIds /\ n \in Handler
        BY <2>1, <2>2, <2>3
      <4> QED
        BY ONLY <4>1, <4>2, <4>3
    <3>2. target' \in [Actors -> MaybeHandler]
      BY <1>0, <2>1, <2>3, Constants DEF TypeOK
    <3>3. overlapped' \in BOOLEAN
      BY <1>3, Zenon DEF Create, TypeOK
    <3> QED
      BY <1>3, <2>4, <3>1, <3>2, <3>3 DEF Create, TypeOK
  <2>6. OrdersInHand'
    BY <1>3, <1>0, <2>1, <2>2, <2>3, <2>4 DEF Create, OrdersInHand, TypeOK
  <2> QED
    BY <2>5, <2>6
<1>4. CASE CreateFails(c)
  <2>1. failures' \in 0..MaxFailures
    BY <1>4, Constants DEF CreateFails, Fail, TypeOK
  <2> QED
    BY <1>4, <2>1, <1>0, Constants DEF CreateFails, Return, AnswerError, Goto, TypeOK, OrdersInHand
<1>5. CASE FindRegistered(c)
  BY <1>5, <1>0, Constants DEF FindRegistered, Goto, TypeOK, OrdersInHand
<1>6. CASE StoreHandler(c)
  BY <1>6, <1>0, Constants DEF StoreHandler, Goto, TypeOK, OrdersInHand
<1> QED
  BY <1>1, <1>2, <1>3, <1>4, <1>5, <1>6

LEMMA RemovedType ==
    ASSUME Typed, NEW a \in Actors, Removed(a), pc[a] # "idle"
    PROVE  /\ registered' \in MaybeHandler
           /\ target' \in [Actors -> MaybeHandler] /\ old' \in [Callers -> MaybeHandler]
           /\ pc' \in [Actors -> {"idle", "create", "register", "remove", "removing", "store", "offer"}]
           /\ pc'["dms"] # "idle" => pc["dms"] # "idle"
<1>1. registered' \in MaybeHandler /\ 0 \in MaybeHandler
  BY Constants DEF Removed
<1>2. target' \in [Actors -> MaybeHandler]
  BY <1>1 DEF Removed, Typed, TypeOK
<1>3. old' \in [Callers -> MaybeHandler]
  BY <1>1 DEF Removed, Typed, TypeOK
<1>4. pc' \in [Actors -> {"idle", "create", "register", "remove", "removing", "store", "offer"}]
  BY DEF Removed, Goto, Typed, TypeOK
<1>5. pc'["dms"] # "idle" => pc["dms"] # "idle"
  BY DEF Removed, Goto, Typed, TypeOK, Actors, Callers
<1> QED
  BY <1>1, <1>2, <1>3, <1>4, <1>5

\* RemoveAccountHandler, run by a caller or by the desk.
LEMMA RemoveType ==
    ASSUME Typed, TakeClosed \/ \E a \in Actors : BeginRemove(a) \/ FinishRemove(a)
    PROVE  Typed'
<1> USE DEF Typed, messages, registry
<1>0. "desk" \in Actors /\ "dms" \in Actors
  BY DEF Actors, Callers
<1>1. CASE TakeClosed
  BY <1>1, <1>0, Constants DEF TakeClosed, Goto, TypeOK, OrdersInHand
<1>2. ASSUME NEW a \in Actors, BeginRemove(a) PROVE Typed'
  <2>1. CASE handlers[Victim(a)].closed
    <3>1. Removed(a) /\ pc[a] # "idle" /\ UNCHANGED <<guard, handlers>>
      BY <1>2, <2>1 DEF BeginRemove, NothingToStop
    <3> QED
      BY <1>2, <3>1, RemovedType DEF BeginRemove, TypeOK, OrdersInHand
  <2>2. CASE ~handlers[Victim(a)].closed
    <3> DEFINE v == Victim(a)
    <3>1. handlers' = [handlers EXCEPT ![v].egressClosed = TRUE] /\ guard' = a
          /\ pc' = [pc EXCEPT ![a] = "removing"]
      BY <1>2, <2>2 DEF BeginRemove, Goto
    <3> HIDE DEF v
    <3>2. handlers' \in [HandlerIds -> Handler]
      BY <3>1, HandlerUpdates DEF TypeOK
    <3>3. \A h \in HandlerIds : /\ handlers'[h].egress = handlers[h].egress
                                 /\ handlers'[h].sender = handlers[h].sender
                                 /\ handlers'[h].sending = handlers[h].sending
      BY <3>1 DEF TypeOK, Handler
    <3>4. TypeOK'
      BY <1>2, <2>2, <3>1, <3>2, <3>3 DEF BeginRemove, TypeOK
    <3>5. OrdersInHand'
      BY <1>2, <2>2, <1>0, <3>1, <3>3 DEF BeginRemove, OrdersInHand, TypeOK
    <3> QED
      BY <3>4, <3>5
  <2> QED
    BY <2>1, <2>2
<1>3. ASSUME NEW a \in Actors, FinishRemove(a) PROVE Typed'
  <2>1. CASE handlers[Victim(a)].closed
    BY <1>3, <2>1, EndProcessType DEF FinishRemove, Panic, TypeOK
  <2>2. CASE ~handlers[Victim(a)].closed
    <3> DEFINE v == Victim(a)
    <3>1. handlers' = [handlers EXCEPT ![v].closed = TRUE] /\ guard' = Nobody
      BY <1>3, <2>2 DEF FinishRemove
    <3> HIDE DEF v
    <3>2. handlers' \in [HandlerIds -> Handler]
      BY <3>1, HandlerUpdates DEF TypeOK
    <3>3. \A h \in HandlerIds : /\ handlers'[h].egress = handlers[h].egress
                                 /\ handlers'[h].sender = handlers[h].sender
                                 /\ handlers'[h].sending = handlers[h].sending
      BY <3>1 DEF TypeOK, Handler
    <3>4. Removed(a) /\ pc[a] # "idle"
      BY <1>3, <2>2 DEF FinishRemove
    <3>5. TypeOK'
      BY <1>3, <2>2, <3>1, <3>2, <3>3, <3>4, RemovedType DEF FinishRemove, TypeOK
    <3>6. OrdersInHand'
      BY <1>3, <2>2, <3>1, <3>3, <3>4, RemovedType DEF FinishRemove, OrdersInHand
    <3> QED
      BY <3>5, <3>6
  <2> QED
    BY <2>1, <2>2
<1> QED
  BY <1>1, <1>2, <1>3

\* A step that gives a handler another value.
LEMMA HandlerType ==
    ASSUME Typed, NEW h \in HandlerIds, NEW n \in Handler,
           handlers' = [handlers EXCEPT ![h] = n],
           Len(n.egress) <= EgressSize,
           n.sender \in {"build", "create", "save", "ack", "hung"} => n.sending \in Orders
    PROVE  /\ handlers' \in [HandlerIds -> Handler]
           /\ \A x \in HandlerIds :
                 /\ Len(handlers'[x].egress) <= EgressSize
                 /\ handlers'[x].sender \in {"build", "create", "save", "ack", "hung"} =>
                        handlers'[x].sending \in Orders
BY DEF Typed, TypeOK, OrdersInHand

LEMMA OfferType ==
    ASSUME Typed, OfferPoll \/ OfferDelivery
    PROVE  Typed'
<1> USE DEF Typed, messages, registry
<1>0. "loop" \in Actors /\ "dms" \in Actors /\ "loop" # "dms"
  BY DEF Actors, Callers
<1>1. CASE OfferPoll
  <2> DEFINE v == target["loop"]
  <2>1. CASE handlers[v].closed
    BY <1>1, <2>1, EndProcessType DEF OfferPoll, Panic, TypeOK
  <2>2. CASE ~handlers[v].closed
    <3>1. \/ handlers' = [handlers EXCEPT ![v].poller = "polling"]
          \/ handlers' = handlers
      BY <1>1, <2>2 DEF OfferPoll
    <3>2. Return("loop") /\ UNCHANGED <<draft, created, orders, registered, guard, ready, desk, old,
                                       saves, overlapped, failures>>
      BY <1>1, <2>2 DEF OfferPoll
    <3> HIDE DEF v
    <3>3. \A h \in HandlerIds : handlers'[h] \in {handlers[h], [handlers[h] EXCEPT !.poller = "polling"]}
      BY <3>1 DEF TypeOK
    <3>4. /\ handlers' \in [HandlerIds -> Handler]
          /\ \A h \in HandlerIds : /\ handlers'[h].egress = handlers[h].egress
                                   /\ handlers'[h].sender = handlers[h].sender
                                   /\ handlers'[h].sending = handlers[h].sending
      <4>1. \A h \in HandlerIds : handlers[h] \in Handler
        BY DEF TypeOK
      <4>2. \A h \in HandlerIds : handlers'[h] \in Handler
        <5>1. \A r \in Handler : [r EXCEPT !.poller = "polling"] \in Handler
          BY DEF Handler
        <5> QED
          BY <3>3, <4>1, <5>1
      <4>3. \A h \in HandlerIds : /\ handlers'[h].egress = handlers[h].egress
                                   /\ handlers'[h].sender = handlers[h].sender
                                   /\ handlers'[h].sending = handlers[h].sending
        BY <3>3, <4>1 DEF Handler
      <4>4. handlers' = [h \in HandlerIds |-> handlers'[h]]
        BY <3>1 DEF TypeOK
      <4> QED
        BY <4>2, <4>3, <4>4
    <3>5. TypeOK'
      BY <3>2, <3>4, <1>0, Constants DEF Return, Goto, TypeOK
    <3>6. OrdersInHand'
      BY <3>2, <3>4, <1>0 DEF Return, Goto, TypeOK, OrdersInHand
    <3> QED
      BY <3>5, <3>6
  <2> QED
    BY <2>1, <2>2
<1>2. CASE OfferDelivery
  <2> DEFINE v == target["dms"]
  <2>1. CASE handlers[v].egressClosed
    BY <1>2, <2>1, EndProcessType DEF OfferDelivery, Panic, TypeOK
  <2>2. CASE ~handlers[v].egressClosed
    <3>1. IF Len(handlers[v].egress) < EgressSize
          THEN /\ handlers' = [handlers EXCEPT ![v].egress = Append(@, order)]
               /\ orders' = [orders EXCEPT ![order] = "waiting"]
          ELSE AnswerError("dms") /\ UNCHANGED handlers
      BY <1>2, <2>2, Zenon DEF OfferDelivery
    <3>2. /\ Return("dms")
          /\ UNCHANGED <<draft, created, registered, guard, ready, desk, old, saves, overlapped,
                         failures>>
          /\ orders' = [orders EXCEPT ![order] = "waiting"]
             \/ orders' = [orders EXCEPT ![order] = "answered"]
      <4>1. orders' = [orders EXCEPT ![order] = "waiting"]
             \/ orders' = [orders EXCEPT ![order] = "answered"]
        BY <3>1 DEF AnswerError
      <4>2. UNCHANGED <<messages, registry, ready, desk, old, saves, overlapped, failures>>
            /\ Return("dms")
        BY <1>2, <2>2, Zenon DEF OfferDelivery
      <4> QED
        BY <4>1, <4>2
    <3>3. order \in Orders
      BY <1>2 DEF OfferDelivery, OrdersInHand
    <3> HIDE DEF v
    <3>4. /\ handlers' \in [HandlerIds -> Handler]
          /\ \A h \in HandlerIds : /\ Len(handlers'[h].egress) <= EgressSize
                                    /\ handlers'[h].sender = handlers[h].sender
                                    /\ handlers'[h].sending = handlers[h].sending
      <4>1. CASE handlers' = handlers \/ v \notin HandlerIds
        BY <3>1, <4>1 DEF TypeOK
      <4>2. CASE /\ Len(handlers[v].egress) < EgressSize /\ v \in HandlerIds
                 /\ handlers' = [handlers EXCEPT ![v].egress = Append(@, order)]
        <5> DEFINE e == Append(handlers[v].egress, order)
                   n == [handlers[v] EXCEPT !.egress = e]
        <5>1. handlers[v] \in Handler /\ handlers[v].egress \in Seq(Orders)
          BY <4>2, HandlerFields DEF TypeOK
        <5>2. e \in Seq(Orders) /\ Len(e) <= EgressSize
          BY <3>3, <4>2, <5>1, Constants
        <5>3. handlers' = [handlers EXCEPT ![v] = n]
          BY <4>2
        <5>4. n \in Handler
          BY <5>1, <5>2, HandlerUpdates
        <5>5. n.egress = e /\ n.sender = handlers[v].sender /\ n.sending = handlers[v].sending
          BY <5>1 DEF Handler
        <5> HIDE DEF e, n
        <5> QED
          BY <4>2, <5>2, <5>3, <5>4, <5>5 DEF TypeOK
      <4> QED
        BY <3>1, <4>1, <4>2
    <3>5. TypeOK'
      BY <3>2, <3>3, <3>4, <1>0, Constants DEF Return, Goto, TypeOK
    <3>6. OrdersInHand'
      BY <3>2, <3>4, <1>0 DEF Return, Goto, TypeOK, OrdersInHand
    <3> QED
      BY <3>5, <3>6
  <2> QED
    BY <2>1, <2>2
<1> QED
  BY <1>1, <1>2

\* The goroutines of a handler.
Holding == {"build", "create", "save", "ack", "hung"}
SenderMoves(h) ==
    \E from, to \in Senders : SenderGoes(h, from, to) /\ (to \in Holding => from \in Holding)

LEMMA SenderMovesType ==
    ASSUME Typed, NEW h \in HandlerIds, SenderMoves(h)
    PROVE  /\ handlers' \in [HandlerIds -> Handler]
           /\ \A x \in HandlerIds :
                 /\ Len(handlers'[x].egress) <= EgressSize
                 /\ handlers'[x].sender \in Holding => handlers'[x].sending \in Orders
<1>1. PICK from \in Senders, to \in Senders :
         SenderGoes(h, from, to) /\ (to \in Holding => from \in Holding)
  BY DEF SenderMoves
<1> DEFINE n == [handlers[h] EXCEPT !.sender = to]
<1>2. handlers[h] \in Handler
  BY DEF Typed, TypeOK
<1>3. n \in Handler
  BY <1>2, HandlerUpdates
<1>4. n.egress = handlers[h].egress /\ n.sender = to /\ n.sending = handlers[h].sending
  BY <1>2 DEF Handler
<1>5. handlers' = [handlers EXCEPT ![h] = n] /\ handlers[h].sender = from
  BY <1>1 DEF SenderGoes
<1> HIDE DEF n
<1>6. Len(n.egress) <= EgressSize /\ (n.sender \in Holding => n.sending \in Orders)
  BY <1>1, <1>4, <1>5 DEF Typed, TypeOK, OrdersInHand, Holding
<1> QED
  BY <1>3, <1>5, <1>6, HandlerType DEF Holding

LEMMA PostType ==
    ASSUME Typed, NEW h \in HandlerIds, Post(h)
    PROVE  desk' \in Seq(HandlerIds) /\ Len(desk') <= DeskSize
<1>1. desk \in Seq(HandlerIds) /\ DeskSize \in Nat
  BY Constants DEF Typed, TypeOK
<1> QED
  BY <1>1 DEF Post

LEMMA TakeOrderType ==
    ASSUME Typed, NEW h \in HandlerIds, TakeOrder(h)
    PROVE  Typed'
<1> DEFINE e == handlers[h].egress
           one == [handlers[h] EXCEPT !.sender = "build"]
           two == [one EXCEPT !.egress = Tail(e)]
           n == [two EXCEPT !.sending = Head(e)]
<1>1. handlers[h] \in Handler /\ e \in Seq(Orders) /\ Len(e) <= EgressSize
  BY HandlerFields DEF Typed, TypeOK
<1>2. e # <<>>
  BY DEF TakeOrder
<1>3. Head(e) \in Orders /\ Tail(e) \in Seq(Orders) /\ Len(Tail(e)) <= EgressSize
  <2>1. Head(e) \in Orders /\ Tail(e) \in Seq(Orders) /\ Len(Tail(e)) = Len(e) - 1
    BY <1>1, <1>2, HeadTailProperties
  <2>2. Len(e) \in Nat
    BY <1>1
  <2> QED
    BY <1>1, <2>1, <2>2, Constants
<1>4. handlers' = [handlers EXCEPT ![h] = n]
  BY <1>1 DEF TakeOrder, Handler
<1> HIDE DEF e
<1>5. one \in Handler
  BY <1>1, HandlerUpdates DEF Senders
<1>6. two \in Handler
  BY <1>3, <1>5, HandlerUpdates
<1>7. n \in Handler
  BY <1>3, <1>6, HandlerUpdates
<1>8. n.egress = Tail(e) /\ n.sending = Head(e)
  BY <1>1 DEF Handler
<1> HIDE DEF n
<1>9. handlers' \in [HandlerIds -> Handler]
       /\ \A x \in HandlerIds : /\ Len(handlers'[x].egress) <= EgressSize
                                /\ handlers'[x].sender \in Holding => handlers'[x].sending \in Orders
  BY <1>3, <1>4, <1>7, <1>8, HandlerType DEF Holding
<1> QED
  BY <1>9 DEF TakeOrder, Typed, TypeOK, OrdersInHand, messages, registry, goroutines, Holding

LEMMA ClosingType ==
    ASSUME Typed, NEW h \in HandlerIds, NoticeClosed(h) \/ SenderEnds(h)
    PROVE  Typed'
<1>0. handlers[h] \in Handler /\ <<>> \in Seq(Orders) /\ Len(<<>>) <= EgressSize
      /\ Len(handlers[h].egress) <= EgressSize
  BY Constants DEF Typed, TypeOK
<1>1. CASE NoticeClosed(h)
  <2> DEFINE one == [handlers[h] EXCEPT !.sender = "closing"]
             n == [one EXCEPT !.closed = TRUE]
  <2>1. handlers' = [handlers EXCEPT ![h] = n]
    BY <1>0, <1>1 DEF NoticeClosed, Handler
  <2>2. one \in Handler
    BY <1>0, HandlerUpdates DEF Senders
  <2>3. n \in Handler
    BY <2>2, HandlerUpdates
  <2>4. n.egress = handlers[h].egress /\ n.sender = "closing"
    BY <1>0 DEF Handler
  <2> HIDE DEF n
  <2>5. handlers' \in [HandlerIds -> Handler]
        /\ \A x \in HandlerIds : /\ Len(handlers'[x].egress) <= EgressSize
                                 /\ handlers'[x].sender \in Holding => handlers'[x].sending \in Orders
    BY <1>0, <2>1, <2>3, <2>4, HandlerType DEF Holding
  <2> QED
    BY <1>1, <2>5 DEF NoticeClosed, Typed, TypeOK, OrdersInHand, messages, registry, goroutines, Holding
<1>2. CASE SenderEnds(h)
  <2> DEFINE one == [handlers[h] EXCEPT !.sender = "ended"]
             n == [one EXCEPT !.egress = <<>>]
  <2>1. handlers' = [handlers EXCEPT ![h] = n]
    BY <1>0, <1>2 DEF SenderEnds, Handler
  <2>2. one \in Handler
    BY <1>0, HandlerUpdates DEF Senders
  <2>3. n \in Handler
    BY <1>0, <2>2, HandlerUpdates
  <2>4. n.egress = <<>> /\ n.sender = "ended"
    BY <1>0 DEF Handler
  <2> HIDE DEF n
  <2>5. handlers' \in [HandlerIds -> Handler]
        /\ \A x \in HandlerIds : /\ Len(handlers'[x].egress) <= EgressSize
                                 /\ handlers'[x].sender \in Holding => handlers'[x].sending \in Orders
    BY <1>0, <2>1, <2>3, <2>4, HandlerType DEF Holding
  <2>6. desk' \in Seq(HandlerIds) /\ Len(desk') <= DeskSize
    BY <1>2, PostType DEF SenderEnds
  <2> QED
    BY <1>2, <2>5, <2>6 DEF SenderEnds, Typed, TypeOK, OrdersInHand, messages, registry, goroutines, Holding
<1> QED
  BY <1>1, <1>2

\* SendDM and ProcessOutDM.
LEMMA SendingType ==
    ASSUME Typed, NEW h \in HandlerIds,
           Build(h) \/ CreateDM(h) \/ SaveSent(h) \/ SendFails(h)
    PROVE  Typed'
<1>1. SenderMoves(h) /\ handlers[h].sender \in Holding
  <2>1. \E from \in {"build", "create", "save"} : \E to \in {"create", "save", "ack", "hung"} :
           SenderGoes(h, from, to)
    BY DEF Build, CreateDM, SaveSent, SendFails
  <2>2. PICK from \in {"build", "create", "save"}, to \in {"create", "save", "ack", "hung"} :
           SenderGoes(h, from, to)
    BY <2>1
  <2>3. from \in Senders /\ to \in Senders /\ from \in Holding /\ handlers[h].sender = from
    BY <2>2 DEF Senders, Holding, SenderGoes
  <2> QED
    BY <2>2, <2>3 DEF SenderMoves
<1>2. handlers' \in [HandlerIds -> Handler]
       /\ \A x \in HandlerIds : /\ Len(handlers'[x].egress) <= EgressSize
                                /\ handlers'[x].sender \in Holding => handlers'[x].sending \in Orders
  BY <1>1, SenderMovesType
<1>3. Sending(h) \in Orders /\ Sent(h) \in Messages
  BY <1>1, Constants DEF Typed, OrdersInHand, Holding, Sending, Sent
<1>4. created' \in [Messages -> Nat]
  BY <1>3 DEF Build, CreateDM, SaveSent, SendFails, messages, Typed, TypeOK
<1>5. draft' \in [Messages -> BOOLEAN]
  BY <1>3 DEF Build, CreateDM, SaveSent, SendFails, messages, Typed, TypeOK
<1>6. saves' \subseteq Messages
  BY <1>3 DEF Build, CreateDM, SaveSent, SendFails, Typed, TypeOK
<1>7. failures' \in 0..MaxFailures
  BY Constants DEF Build, CreateDM, SaveSent, SendFails, Fail, Typed, TypeOK
<1>8. UNCHANGED <<orders, registry, ready, desk, goroutines, overlapped>>
  BY DEF Build, CreateDM, SaveSent, SendFails
<1> QED
  BY <1>2, <1>4, <1>5, <1>6, <1>7, <1>8 DEF Typed, TypeOK, OrdersInHand, registry, goroutines, Holding

LEMMA AcknowledgeType ==
    ASSUME Typed, NEW h \in HandlerIds, Acknowledge(h)
    PROVE  Typed'
<1> DEFINE one == [handlers[h] EXCEPT !.sender = "select"]
           n == [one EXCEPT !.sending = Nobody]
<1>1. handlers[h] \in Handler /\ Len(handlers[h].egress) <= EgressSize
  BY DEF Typed, TypeOK
<1>2. handlers' = [handlers EXCEPT ![h] = n]
  BY <1>1 DEF Acknowledge, Handler
<1>3. one \in Handler
  BY <1>1, HandlerUpdates DEF Senders
<1>4. n \in Handler
  BY <1>3, HandlerUpdates
<1>5. n.egress = handlers[h].egress /\ n.sender = "select"
  BY <1>1 DEF Handler
<1> HIDE DEF n
<1>6. handlers' \in [HandlerIds -> Handler]
       /\ \A x \in HandlerIds : /\ Len(handlers'[x].egress) <= EgressSize
                                /\ handlers'[x].sender \in Holding => handlers'[x].sending \in Orders
  BY <1>1, <1>2, <1>4, <1>5, HandlerType DEF Holding
<1> QED
  BY <1>6 DEF Acknowledge, Typed, TypeOK, OrdersInHand, messages, registry, goroutines, Holding

LEMMA PollerType ==
    ASSUME Typed, NEW h \in HandlerIds, FinishPoll(h) \/ TokenExpired(h) \/ Suicide(h)
    PROVE  Typed'
<1>1. PICK p \in {"idle", "suicide"} : handlers' = [handlers EXCEPT ![h].poller = p]
  BY Zenon DEF FinishPoll, TokenExpired, Suicide, PollerGoes
<1> DEFINE n == [handlers[h] EXCEPT !.poller = p]
<1>2. handlers[h] \in Handler /\ Len(handlers[h].egress) <= EgressSize
      /\ (handlers[h].sender \in Holding => handlers[h].sending \in Orders)
  BY DEF Typed, TypeOK, OrdersInHand, Holding
<1>3. n \in Handler
  BY <1>2, HandlerUpdates
<1>4. /\ n.egress = handlers[h].egress /\ n.sender = handlers[h].sender
      /\ n.sending = handlers[h].sending
  BY <1>2 DEF Handler
<1>5. handlers' = [handlers EXCEPT ![h] = n]
  BY <1>1
<1> HIDE DEF n
<1>6. handlers' \in [HandlerIds -> Handler]
       /\ \A x \in HandlerIds : /\ Len(handlers'[x].egress) <= EgressSize
                                /\ handlers'[x].sender \in Holding => handlers'[x].sending \in Orders
  BY <1>2, <1>3, <1>4, <1>5, HandlerType DEF Holding
<1>7. desk' \in Seq(HandlerIds) /\ Len(desk') <= DeskSize
  BY PostType DEF FinishPoll, TokenExpired, Suicide, Typed, TypeOK
<1>8. failures' \in 0..MaxFailures
  BY Constants DEF FinishPoll, TokenExpired, Suicide, Fail, Typed, TypeOK
<1>9. UNCHANGED <<messages, orders, registry, ready, goroutines, saves, overlapped>>
  BY DEF FinishPoll, TokenExpired, Suicide
<1> QED
  BY <1>6, <1>7, <1>8, <1>9 DEF Typed, TypeOK, OrdersInHand, messages, registry, goroutines, Holding

LEMMA TypeStep == Typed /\ [Next]_vars => Typed'
<1> SUFFICES ASSUME Typed, [Next]_vars PROVE Typed'
  OBVIOUS
<1>1. CASE InitWorker \/ Crash \/ (\E o \in Orders : AskDelivery(o) \/ GiveUp(o))
           \/ (\E m \in Messages : SaveLate(m))
  BY <1>1, SurroundingsType
<1>2. ASSUME NEW c \in Callers,
             \/ LookupForSync \/ (\E o \in Orders : LookupForDelivery(o))
             \/ Create(c) \/ CreateFails(c) \/ FindRegistered(c) \/ StoreHandler(c)
      PROVE  Typed'
  BY <1>2, CallerType
<1>3. CASE TakeClosed \/ \E a \in Actors : BeginRemove(a) \/ FinishRemove(a)
  BY <1>3, RemoveType
<1>4. CASE OfferPoll \/ OfferDelivery
  BY <1>4, OfferType
<1>5. ASSUME NEW h \in HandlerIds, SenderOf(h) \/ SendFails(h) \/ PollerOf(h) \/ TokenExpired(h)
      PROVE  Typed'
  BY <1>5, TakeOrderType, ClosingType, SendingType, AcknowledgeType, PollerType DEF SenderOf, PollerOf
<1>6. CASE UNCHANGED vars
  BY <1>6 DEF vars, messages, process, registry, goroutines, Typed, TypeOK, OrdersInHand
<1>7. "loop" \in Callers /\ "dms" \in Callers /\ Callers \subseteq Actors /\ "desk" \in Actors
  BY DEF Callers, Actors
<1>8. CASE Looping \/ Delivering \/ AtDesk \/ \E c \in Callers : CreateFails(c)
  BY <1>2, <1>3, <1>4, <1>7, <1>8 DEF Looping, Delivering, AtDesk, Calling
<1> QED
  BY <1>1, <1>5, <1>6, <1>8 DEF Next
-----------------------------------------------------------------------------
(***************************************************************************)
(* Handlers that are not registered yet are private, and those that are    *)
(* registered are open.                                                    *)
(***************************************************************************)
Sound == FreshIsPrivate /\ RegisteredIsOpen

\* Nobody but its caller refers to the handler of c in the next state.
LEMMA StaysPrivate ==
    ASSUME NEW c \in Callers, Private(c),
           target'[c] = target[c], handlers'[target[c]] = handlers[target[c]],
           registered' # target[c],
           \A d \in Callers : old'[d] # target[c],
           \A i \in DOMAIN desk' : desk'[i] # target[c],
           \A a \in Actors \ {c} : target'[a] # target[c]
    PROVE  Private(c)'
BY DEF Private, Untouched, Unreferenced, Open

LEMMA CleanSound == Clean => Sound
BY DEF Clean, Sound, FreshIsPrivate, RegisteredIsOpen, Registering, Actors, Callers

LEMMA EndProcessSound == EndProcess => Sound'
<1>1. EndProcess => Clean'
  BY EndProcessClean DEF EndProcess
<1> QED
  BY <1>1, CleanSound, PTL

\* What a step leaves of the registry, the desk and the goroutines.
LEMMA UntouchedSound ==
    ASSUME Sound, UNCHANGED <<registry, handlers, desk, goroutines>>
    PROVE  Sound'
BY DEF Sound, FreshIsPrivate, RegisteredIsOpen, Private, Untouched, Unreferenced, Open,
       Unlocked, registry, goroutines

LEMMA SurroundingsSound ==
    ASSUME Sound,
           InitWorker \/ Crash \/ (\E o \in Orders : AskDelivery(o) \/ GiveUp(o))
           \/ (\E m \in Messages : SaveLate(m))
    PROVE  Sound'
<1>1. CASE InitWorker
  BY <1>1, UntouchedSound DEF InitWorker
<1>2. CASE Crash
  BY <1>2, EndProcessSound DEF Crash
<1>3. CASE (\E o \in Orders : AskDelivery(o) \/ GiveUp(o)) \/ (\E m \in Messages : SaveLate(m))
  BY <1>3, UntouchedSound DEF AskDelivery, GiveUp, SaveLate, process
<1> QED
  BY <1>1, <1>2, <1>3

LEMMA CallerSound ==
    ASSUME Typed, Sound, NEW c \in Callers,
           \/ LookupForSync \/ (\E o \in Orders : LookupForDelivery(o))
           \/ Create(c) \/ CreateFails(c) \/ FindRegistered(c) \/ StoreHandler(c)
    PROVE  Sound'
<1> USE DEF Typed, TypeOK
<1>0. "loop" \in Callers /\ "dms" \in Callers /\ Callers \subseteq Actors
  BY DEF Callers, Actors
<1>1. ASSUME NEW l \in Callers, Lookup(l) PROVE Sound'
  <2>1. ASSUME NEW d \in Callers, pc'[d] \in Registering PROVE Private(d)'
    <3>1. d # l /\ pc'[d] = pc[d] /\ target'[d] = target[d] /\ target'[l] = registered
      BY <1>0, <1>1, <2>1 DEF Lookup, Goto, Registering
    <3>2. Private(d)
      BY <2>1, <3>1 DEF Sound, FreshIsPrivate
    <3>3. \A a \in Actors \ {d} : target'[a] # target[d]
      BY <1>0, <1>1, <3>1, <3>2 DEF Lookup, Private, Unreferenced
    <3> QED
      BY <1>1, <3>1, <3>2, <3>3, StaysPrivate DEF Lookup, registry, Private, Unreferenced
  <2>2. RegisteredIsOpen'
    BY <1>1 DEF Lookup, registry, Sound, RegisteredIsOpen, Unlocked
  <2> QED
    BY <2>1, <2>2 DEF Sound, FreshIsPrivate
<1>2. CASE LookupForSync \/ \E o \in Orders : LookupForDelivery(o)
  BY <1>0, <1>1, <1>2 DEF LookupForSync, LookupForDelivery
<1>3. CASE Create(c)
  <2> DEFINE h == CHOOSE x \in HandlerIds : Free(x)
             n == [NewHandler EXCEPT !.mute = ~ready]
  <2>1. h \in HandlerIds /\ Free(h)
    BY <1>3 DEF Create, Full
  <2>2. n.egress = <<>> /\ n.sender = "select" /\ ~n.egressClosed /\ ~n.closed /\ n.poller = "idle"
    BY DEF NewHandler
  <2>3. handlers' = [handlers EXCEPT ![h] = n] /\ target' = [target EXCEPT ![c] = h]
    BY <1>3 DEF Create
  <2> HIDE DEF h, n
  <2>4. pc' = [pc EXCEPT ![c] = "register"] /\ UNCHANGED <<registered, guard, desk, old>>
    BY <1>3 DEF Create, Goto, registry
  <2>5. ASSUME NEW d \in Callers, pc'[d] \in Registering PROVE Private(d)'
    <3>1. CASE d = c
      <4>1. target'[d] = h /\ handlers'[h] = n
        BY <1>0, <2>1, <2>3, <3>1
      <4>2. \A a \in Actors \ {d} : target'[a] # h
        BY <2>1, <2>3, <3>1 DEF Free
      <4> QED
        BY <2>1, <2>2, <2>4, <4>1, <4>2 DEF Private, Untouched, Unreferenced, Open, Free
    <3>2. CASE d # c
      <4>1. pc'[d] = pc[d] /\ target'[d] = target[d]
        BY <1>0, <2>3, <2>4, <3>2
      <4>2. Private(d) /\ target[d] # h
        BY <1>0, <2>1, <2>5, <4>1 DEF Sound, FreshIsPrivate, Free
      <4>3. handlers'[target[d]] = handlers[target[d]]
        BY <2>3, <4>2
      <4>4. \A a \in Actors \ {d} : target'[a] # target[d]
        BY <2>3, <4>2 DEF Private
      <4> QED
        BY <2>4, <4>1, <4>2, <4>3, <4>4, StaysPrivate DEF Private, Unreferenced
    <3> QED
      BY <3>1, <3>2
  <2>6. RegisteredIsOpen'
    BY <2>1, <2>3, <2>4 DEF Free, Sound, RegisteredIsOpen, Unlocked
  <2> QED
    BY <2>5, <2>6 DEF Sound, FreshIsPrivate
<1>4. CASE CreateFails(c)
  <2>1. /\ UNCHANGED <<registered, guard, handlers, desk, old>>
        /\ target' = [target EXCEPT ![c] = 0] /\ pc' = [pc EXCEPT ![c] = "idle"]
    BY <1>4 DEF CreateFails, Return, Goto, registry
  <2>2. ASSUME NEW d \in Callers, pc'[d] \in Registering PROVE Private(d)'
    <3>1. d # c /\ pc'[d] = pc[d] /\ target'[d] = target[d]
      BY <1>0, <2>1, <2>2 DEF Registering
    <3>2. Private(d)
      BY <2>2, <3>1 DEF Sound, FreshIsPrivate
    <3>3. \A a \in Actors \ {d} : target'[a] # target[d]
      BY <2>1, <3>2, Constants DEF Private
    <3> QED
      BY <2>1, <3>1, <3>2, <3>3, StaysPrivate DEF Private, Unreferenced
  <2>3. RegisteredIsOpen'
    BY <2>1 DEF Sound, RegisteredIsOpen, Unlocked
  <2> QED
    BY <2>2, <2>3 DEF Sound, FreshIsPrivate
<1>5. CASE FindRegistered(c)
  <2>1. /\ pc[c] = "register" /\ old' = [old EXCEPT ![c] = registered]
        /\ UNCHANGED <<registered, guard, handlers, desk, target>>
        /\ \A d \in Callers : d # c => pc'[d] = pc[d]
    BY <1>0, <1>5 DEF FindRegistered, Goto, registry
  <2>2. ASSUME NEW d \in Callers, pc'[d] \in Registering PROVE Private(d)'
    <3>1. Private(d)
      BY <2>1, <2>2 DEF Sound, FreshIsPrivate, Registering
    <3>2. \A e \in Callers : old'[e] # target[d]
      BY <2>1, <3>1 DEF Private, Unreferenced
    <3> QED
      BY <2>1, <3>1, <3>2, StaysPrivate DEF Private, Unreferenced
  <2>3. RegisteredIsOpen'
    BY <2>1 DEF Sound, RegisteredIsOpen, Unlocked
  <2> QED
    BY <2>2, <2>3 DEF Sound, FreshIsPrivate
<1>6. CASE StoreHandler(c)
  <2>1. /\ pc[c] = "store" /\ registered' = target[c] /\ pc' = [pc EXCEPT ![c] = "offer"]
        /\ UNCHANGED <<guard, handlers, desk, target, old>>
    BY <1>6 DEF StoreHandler, Goto
  <2>2. Private(c)
    BY <2>1 DEF Sound, FreshIsPrivate, Registering
  <2>3. ASSUME NEW d \in Callers, pc'[d] \in Registering PROVE Private(d)'
    <3>1. d # c /\ pc'[d] = pc[d]
      BY <1>0, <2>1, <2>3 DEF Registering
    <3>2. Private(d)
      BY <2>3, <3>1 DEF Sound, FreshIsPrivate
    <3>3. target[c] # target[d]
      BY <1>0, <3>1, <3>2 DEF Private
    <3> QED
      BY <2>1, <3>2, <3>3, StaysPrivate DEF Private, Unreferenced
  <2>4. RegisteredIsOpen'
    BY <2>1, <2>2 DEF RegisteredIsOpen, Private, Untouched, Open
  <2> QED
    BY <2>3, <2>4 DEF Sound, FreshIsPrivate
<1> QED
  BY <1>2, <1>3, <1>4, <1>5, <1>6

LEMMA RemoveSound ==
    ASSUME Typed, Sound, TakeClosed \/ \E a \in Actors : BeginRemove(a) \/ FinishRemove(a)
    PROVE  Sound'
<1> USE DEF Typed, TypeOK
<1>0. "desk" \in Actors /\ "desk" \notin Callers /\ Callers \subseteq Actors /\ Actors = Callers \cup {"desk"}
  BY DEF Callers, Actors
<1>1. CASE TakeClosed
  <2>1. /\ target' = [target EXCEPT !["desk"] = Head(desk)] /\ desk' = Tail(desk) /\ desk # <<>>
        /\ pc' = [pc EXCEPT !["desk"] = "remove"]
        /\ UNCHANGED <<registered, guard, handlers, old>>
    BY <1>1 DEF TakeClosed, Goto, registry
  <2>2. ASSUME NEW d \in Callers, pc'[d] \in Registering PROVE Private(d)'
    <3>1. d # "desk" /\ pc'[d] = pc[d] /\ target'[d] = target[d]
      BY <1>0, <2>1
    <3>2. Private(d)
      BY <2>2, <3>1 DEF Sound, FreshIsPrivate
    <3>3. Head(desk) = desk[1] /\ 1 \in DOMAIN desk
      BY <2>1
    <3>4. \A i \in DOMAIN desk' : desk'[i] # target[d]
      <4>1. \A i \in DOMAIN Tail(desk) : i + 1 \in DOMAIN desk /\ Tail(desk)[i] = desk[i + 1]
        BY <2>1
      <4> QED
        BY <2>1, <3>2, <4>1 DEF Private, Unreferenced
    <3>5. \A a \in Actors \ {d} : target'[a] # target[d]
      BY <2>1, <3>2, <3>3 DEF Private, Unreferenced
    <3> QED
      BY <2>1, <3>1, <3>2, <3>4, <3>5, StaysPrivate DEF Private, Unreferenced
  <2>3. RegisteredIsOpen'
    BY <2>1 DEF Sound, RegisteredIsOpen, Unlocked
  <2> QED
    BY <2>2, <2>3 DEF Sound, FreshIsPrivate
<1>2. ASSUME NEW a \in Actors, NEW v, v = Victim(a), pc[a] \in {"remove", "removing"},
             UNCHANGED desk,
             \A h \in HandlerIds : h # v => handlers'[h] = handlers[h],
             \/ Removed(a)
             \/ pc'[a] = "removing" /\ guard' # Nobody /\ UNCHANGED <<registered, target, old>>
                /\ \A d \in Actors : d # a => pc'[d] = pc[d]
      PROVE  Sound'
  <2>1. \/ UNCHANGED <<registered, target, old>>
        \/ /\ registered' = 0
           /\ target' = [target EXCEPT !["desk"] = IF a = "desk" THEN 0 ELSE @]
           /\ old' = [c \in Callers |-> IF c = a THEN 0 ELSE old[c]]
    BY <1>2 DEF Removed
  <2>2. ASSUME NEW d \in Callers, pc'[d] \in Registering PROVE Private(d)'
    <3>1. pc[d] \in Registering
      BY <1>0, <1>2, <2>2 DEF Removed, Goto, Registering
    <3>2. Private(d)
      BY <3>1 DEF Sound, FreshIsPrivate
    <3>3. target[d] # v
      BY <1>0, <1>2, <3>2 DEF Victim, Private, Unreferenced
    <3>4. target[d] # 0 /\ target'[d] = target[d]
      BY <1>0, <2>1, <3>2, Constants DEF Private
    <3>5. registered' # target[d] /\ \A e \in Callers : old'[e] # target[d]
      BY <2>1, <3>2, <3>4 DEF Private, Unreferenced
    <3>6. \A e \in Actors \ {d} : target'[e] # target[d]
      BY <2>1, <3>2, <3>4 DEF Private
    <3>7. handlers'[target[d]] = handlers[target[d]]
      BY <1>2, <3>2, <3>3 DEF Private
    <3>8. \A i \in DOMAIN desk' : desk'[i] # target[d]
      BY <1>2, <3>2 DEF Private, Unreferenced
    <3> QED
      BY <3>2, <3>4, <3>5, <3>6, <3>7, <3>8, StaysPrivate
  <2>3. RegisteredIsOpen'
    BY <1>2 DEF Removed, RegisteredIsOpen, Unlocked
  <2> QED
    BY <2>2, <2>3 DEF Sound, FreshIsPrivate
<1>3. ASSUME NEW a \in Actors, BeginRemove(a) PROVE Sound'
  <2> DEFINE v == Victim(a)
  <2>1. CASE handlers[v].closed
    <3>1. pc[a] = "remove" /\ Removed(a) /\ UNCHANGED <<desk, handlers>>
      BY <1>3, <2>1 DEF BeginRemove, NothingToStop
    <3> QED
      BY <1>2, <3>1
  <2>2. CASE ~handlers[v].closed
    <3>1. /\ pc[a] = "remove" /\ handlers' = [handlers EXCEPT ![v].egressClosed = TRUE]
          /\ guard' = a /\ pc' = [pc EXCEPT ![a] = "removing"]
          /\ UNCHANGED <<registered, target, old, desk>>
      BY <1>3, <2>2 DEF BeginRemove, Goto
    <3>2. \A h \in HandlerIds : h # v => handlers'[h] = handlers[h]
      BY <3>1
    <3>3. guard' # Nobody /\ pc'[a] = "removing" /\ \A d \in Actors : d # a => pc'[d] = pc[d]
      BY <3>1, Constants
    <3> QED
      BY <1>2, <3>1, <3>2, <3>3
  <2> QED
    BY <2>1, <2>2
<1>4. ASSUME NEW a \in Actors, FinishRemove(a) PROVE Sound'
  <2> DEFINE v == Victim(a)
  <2>1. CASE handlers[v].closed
    BY <1>4, <2>1, EndProcessSound DEF FinishRemove, Panic
  <2>2. CASE ~handlers[v].closed
    <3>1. /\ pc[a] = "removing" /\ handlers' = [handlers EXCEPT ![v].closed = TRUE]
          /\ Removed(a) /\ UNCHANGED desk
      BY <1>4, <2>2 DEF FinishRemove
    <3>2. \A h \in HandlerIds : h # v => handlers'[h] = handlers[h]
      BY <3>1
    <3> QED
      BY <1>2, <3>1, <3>2
  <2> QED
    BY <2>1, <2>2
<1> QED
  BY <1>1, <1>3, <1>4

LEMMA EgressOnly ==
    ASSUME NEW r \in Handler, NEW e
    PROVE  /\ [r EXCEPT !.egress = e].egressClosed = r.egressClosed
           /\ [r EXCEPT !.egress = e].closed = r.closed
BY DEF Handler

LEMMA OfferSound ==
    ASSUME Typed, Sound, OfferPoll \/ OfferDelivery
    PROVE  Sound'
<1> USE DEF Typed, TypeOK
<1>0. "loop" \in Callers /\ "dms" \in Callers /\ Callers \subseteq Actors
  BY DEF Callers, Actors
<1>1. ASSUME NEW c \in Callers, pc[c] = "offer", Return(c), UNCHANGED <<registered, guard, old, desk>>,
             \A h \in HandlerIds : /\ h # target[c] => handlers'[h] = handlers[h]
                                   /\ handlers'[h].egressClosed = handlers[h].egressClosed
                                   /\ handlers'[h].closed = handlers[h].closed
      PROVE  Sound'
  <2>1. target' = [target EXCEPT ![c] = 0] /\ pc' = [pc EXCEPT ![c] = "idle"]
    BY <1>1 DEF Return, Goto
  <2>2. ASSUME NEW d \in Callers, pc'[d] \in Registering PROVE Private(d)'
    <3>1. d # c /\ pc'[d] = pc[d] /\ target'[d] = target[d]
      BY <1>0, <2>1, <2>2 DEF Registering
    <3>2. Private(d)
      BY <2>2, <3>1 DEF Sound, FreshIsPrivate
    <3>3. handlers'[target[d]] = handlers[target[d]]
      BY <1>0, <1>1, <3>1, <3>2 DEF Private
    <3>4. \A a \in Actors \ {d} : target'[a] # target[d]
      BY <2>1, <3>2, Constants DEF Private
    <3> QED
      BY <1>1, <3>1, <3>2, <3>3, <3>4, StaysPrivate DEF Private, Unreferenced
  <2>3. registered # 0 => registered \in HandlerIds
    BY Constants
  <2>4. RegisteredIsOpen'
    BY <1>1, <2>3 DEF Sound, RegisteredIsOpen, Unlocked
  <2> QED
    BY <2>2, <2>4 DEF Sound, FreshIsPrivate
<1>2. CASE OfferPoll
  <2> DEFINE v == target["loop"]
  <2>1. CASE handlers[v].closed
    BY <1>2, <2>1, EndProcessSound DEF OfferPoll, Panic
  <2>2. CASE ~handlers[v].closed
    <3>1. /\ handlers' = [handlers EXCEPT ![v].poller = "polling"] \/ handlers' = handlers
          /\ pc["loop"] = "offer" /\ Return("loop") /\ UNCHANGED <<registered, guard, old, desk>>
      BY <1>2, <2>2 DEF OfferPoll, registry
    <3>2. \A h \in HandlerIds : /\ h # v => handlers'[h] = handlers[h]
                                /\ handlers'[h].egressClosed = handlers[h].egressClosed
                                /\ handlers'[h].closed = handlers[h].closed
      BY <3>1 DEF Handler
    <3> QED
      BY <1>0, <1>1, <3>1, <3>2
  <2> QED
    BY <2>1, <2>2
<1>3. CASE OfferDelivery
  <2> DEFINE v == target["dms"]
  <2>1. CASE handlers[v].egressClosed
    BY <1>3, <2>1, EndProcessSound DEF OfferDelivery, Panic
  <2>2. CASE ~handlers[v].egressClosed
    <3>1. handlers' = [handlers EXCEPT ![v].egress = Append(@, order)] \/ handlers' = handlers
      BY <1>3, <2>2, Zenon DEF OfferDelivery
    <3>2. pc["dms"] = "offer" /\ Return("dms") /\ UNCHANGED <<registered, guard, old, desk>>
      BY <1>3, <2>2 DEF OfferDelivery, registry
    <3>3. \A h \in HandlerIds : /\ h # v => handlers'[h] = handlers[h]
                                /\ handlers'[h].egressClosed = handlers[h].egressClosed
                                /\ handlers'[h].closed = handlers[h].closed
      <4>1. \A h \in HandlerIds : handlers[h] \in Handler
        OBVIOUS
      <4> DEFINE e == Append(handlers[v].egress, order)
      <4>2. \A h \in HandlerIds : \/ handlers'[h] = handlers[h]
                                  \/ h = v /\ handlers'[h] = [handlers[h] EXCEPT !.egress = e]
        BY <3>1
      <4> HIDE DEF e
      <4>3. ASSUME NEW h \in HandlerIds
            PROVE  /\ h # v => handlers'[h] = handlers[h]
                   /\ handlers'[h].egressClosed = handlers[h].egressClosed
                   /\ handlers'[h].closed = handlers[h].closed
        <5>1. handlers[h] \in Handler
          BY <4>1
        <5>2. handlers'[h] = handlers[h] \/ (h = v /\ handlers'[h] = [handlers[h] EXCEPT !.egress = e])
          BY <4>2
        <5> DEFINE n == [handlers[h] EXCEPT !.egress = e]
        <5>3. n.egressClosed = handlers[h].egressClosed /\ n.closed = handlers[h].closed
          BY <5>1, EgressOnly
        <5>4. handlers'[h] = handlers[h] \/ (h = v /\ handlers'[h] = n)
          BY <5>2
        <5> HIDE DEF n, v
        <5> QED
          BY <5>3, <5>4
      <4> QED
        BY <4>3
    <3> QED
      BY <1>0, <1>1, <3>2, <3>3
  <2> QED
    BY <2>1, <2>2
<1> QED
  BY <1>2, <1>3

\* The goroutines of a handler: they have nothing to do while it is private, and only close
\* its channels when somebody else has begun to.
LEMMA HandlerSound ==
    ASSUME Typed, Sound, NEW h \in HandlerIds,
           SenderOf(h) \/ SendFails(h) \/ PollerOf(h) \/ TokenExpired(h)
    PROVE  Sound'
<1> USE DEF Typed, TypeOK
<1>1. /\ UNCHANGED <<registered, guard, pc, target, old>>
      /\ UNCHANGED desk \/ desk' = Append(desk, h)
      /\ \A x \in HandlerIds : x # h => handlers'[x] = handlers[x]
  BY DEF SenderOf, PollerOf, TakeOrder, NoticeClosed, SenderEnds, Build, CreateDM, SaveSent,
         Acknowledge, SendFails, FinishPoll, Suicide, TokenExpired, SenderGoes, PollerGoes,
         Post, registry, goroutines
<1>2. ~Untouched(h)
  BY DEF SenderOf, PollerOf, TakeOrder, NoticeClosed, SenderEnds, Build, CreateDM, SaveSent,
         Acknowledge, SendFails, FinishPoll, Suicide, TokenExpired, SenderGoes, PollerGoes,
         Untouched, Open
<1>3. Open(h) => ~handlers'[h].egressClosed /\ ~handlers'[h].closed
  <2>1. CASE TakeOrder(h)
    BY <2>1 DEF TakeOrder, Open, Handler
  <2>2. CASE NoticeClosed(h)
    BY <2>2 DEF NoticeClosed, Open, Handler
  <2>3. CASE SenderEnds(h)
    BY <2>3 DEF SenderEnds, Open, Handler
  <2>4. ASSUME NEW from, NEW to, SenderGoes(h, from, to)
        PROVE  Open(h) => ~handlers'[h].egressClosed /\ ~handlers'[h].closed
    BY <2>4 DEF SenderGoes, Open, Handler
  <2>5. ASSUME NEW from, NEW to, PollerGoes(h, from, to)
        PROVE  Open(h) => ~handlers'[h].egressClosed /\ ~handlers'[h].closed
    BY <2>5 DEF PollerGoes, Open, Handler
  <2>6. CASE Build(h) \/ CreateDM(h) \/ SaveSent(h) \/ SendFails(h)
    BY <2>4, <2>6 DEF Build, CreateDM, SaveSent, SendFails
  <2>7. CASE FinishPoll(h) \/ Suicide(h) \/ TokenExpired(h)
    BY <2>5, <2>7 DEF FinishPoll, Suicide, TokenExpired
  <2>8. CASE Acknowledge(h)
    BY <2>8 DEF Acknowledge, Open, Handler
  <2> QED
    BY <2>1, <2>2, <2>3, <2>6, <2>7, <2>8 DEF SenderOf, PollerOf
<1>4. ASSUME NEW d \in Callers, pc'[d] \in Registering PROVE Private(d)'
  <2>1. Private(d)
    BY <1>1, <1>4 DEF Sound, FreshIsPrivate
  <2>2. target[d] # h
    BY <1>2, <2>1 DEF Private
  <2>3. \A i \in DOMAIN desk' : desk'[i] # target[d]
    <3>1. CASE UNCHANGED desk
      BY <2>1, <3>1 DEF Private, Unreferenced
    <3>2. CASE desk' = Append(desk, h)
      <4>1. \A i \in DOMAIN desk' : desk'[i] = h \/ (i \in DOMAIN desk /\ desk'[i] = desk[i])
        BY <3>2, AppendProperties
      <4> QED
        BY <2>1, <2>2, <4>1 DEF Private, Unreferenced
    <3> QED
      BY <1>1, <3>1, <3>2
  <2> QED
    BY <1>1, <2>1, <2>2, <2>3, StaysPrivate DEF Private, Unreferenced
<1>5. RegisteredIsOpen'
  BY <1>1, <1>3, Constants DEF Sound, RegisteredIsOpen, Unlocked, Open
<1> QED
  BY <1>4, <1>5 DEF Sound, FreshIsPrivate
-----------------------------------------------------------------------------
LEMMA SoundStep == Typed /\ Sound /\ [Next]_vars => Sound'
<1> SUFFICES ASSUME Typed, Sound, [Next]_vars PROVE Sound'
  OBVIOUS
<1>1. CASE InitWorker \/ Crash \/ (\E o \in Orders : AskDelivery(o) \/ GiveUp(o))
           \/ (\E m \in Messages : SaveLate(m))
  BY <1>1, SurroundingsSound
<1>2. ASSUME NEW c \in Callers,
             \/ LookupForSync \/ (\E o \in Orders : LookupForDelivery(o))
             \/ Create(c) \/ CreateFails(c) \/ FindRegistered(c) \/ StoreHandler(c)
      PROVE  Sound'
  BY <1>2, CallerSound
<1>3. CASE TakeClosed \/ \E a \in Actors : BeginRemove(a) \/ FinishRemove(a)
  BY <1>3, RemoveSound
<1>4. CASE OfferPoll \/ OfferDelivery
  BY <1>4, OfferSound
<1>5. ASSUME NEW h \in HandlerIds, SenderOf(h) \/ SendFails(h) \/ PollerOf(h) \/ TokenExpired(h)
      PROVE  Sound'
  BY <1>5, HandlerSound
<1>6. CASE UNCHANGED vars
  BY <1>6, UntouchedSound DEF vars, process
<1>7. "loop" \in Callers /\ "dms" \in Callers /\ Callers \subseteq Actors /\ "desk" \in Actors
  BY DEF Callers, Actors
<1>8. CASE Looping \/ Delivering \/ AtDesk \/ \E c \in Callers : CreateFails(c)
  BY <1>2, <1>3, <1>4, <1>7, <1>8 DEF Looping, Delivering, AtDesk, Calling
<1> QED
  BY <1>1, <1>5, <1>6, <1>8 DEF Next

LEMMA IInvStep == IInv /\ [Next]_vars => IInv'
<1>1. IInv <=> Typed /\ Sound
  BY DEF IInv, Typed, Sound
<1> QED
  BY <1>1, TypeStep, SoundStep, PTL

LEMMA Inductive == Spec => []IInv
<1>1. Init => Clean
  BY DEF Init, Clean
<1>2. Init => IInv
  BY <1>1, InitType, CleanSound DEF IInv, Typed, Sound
<1> QED
  BY <1>2, IInvStep, PTL DEF Spec

\* The types; Egress and the desk keep to their capacities.
THEOREM TypeCorrect == Spec => []TypeOK
BY Inductive, PTL DEF IInv

\* A handler found in AccountHandlers is open, whatever goroutines create, replace and
\* close handlers (RegisterAccountHandler, RemoveAccountHandler).
THEOREM OpenCorrect == Spec => []RegisteredIsOpen
BY Inductive, PTL DEF IInv
-----------------------------------------------------------------------------
(***************************************************************************)
(* Messages are sent once as long as nothing has failed and handlers have  *)
(* not overlapped: then one handler at most is at work, nobody closes it,  *)
(* and what it has sent it saves before it reads the next order.           *)
(***************************************************************************)
Calm == ~overlapped /\ failures = 0

AtWork(h) == handlers[h] # Gone
Alone ==
    /\ desk = <<>> /\ pc["desk"] = "idle" /\ saves = {}
    /\ \A c \in Callers : /\ old[c] = 0 /\ pc[c] \notin {"remove", "removing"}
                          /\ pc[c] = "offer" => target[c] \in HandlerIds /\ AtWork(target[c])
    /\ \A h \in HandlerIds : AtWork(h) =>
          Open(h) /\ handlers[h].sender \notin {"closing", "ended", "hung"}
          /\ handlers[h].poller # "suicide"
    /\ \A h, g \in HandlerIds : AtWork(h) /\ AtWork(g) => h = g

Saving(m) == \E h \in HandlerIds : handlers[h].sender = "save" /\ Sent(h) = m
Once ==
    /\ \A m \in Messages : created[m] = 0 \/ (created[m] = 1 /\ (~draft[m] \/ Saving(m)))
    /\ \A h \in HandlerIds : handlers[h].sender = "create" => created[Sent(h)] = 0

SentInv == Calm => Alone /\ Once

LEMMA CalmBefore ==
    ASSUME Typed, [Next]_vars, Calm'
    PROVE  Calm
<1>1. failures \in Nat /\ overlapped \in BOOLEAN
  BY Constants DEF Typed, TypeOK
<1>2. UNCHANGED failures \/ failures' = failures + 1
  BY DEF Next, vars, InitWorker, Crash, Looping, Delivering, AtDesk, Calling, LookupForSync,
         LookupForDelivery, Lookup, Create, CreateFails, FindRegistered, StoreHandler, TakeClosed,
         BeginRemove, FinishRemove, Panic, OfferPoll, OfferDelivery, SenderOf, SendFails, PollerOf,
         TokenExpired, TakeOrder, NoticeClosed, SenderEnds, Build, CreateDM, SaveSent, Acknowledge,
         FinishPoll, Suicide, SaveLate, AskDelivery, GiveUp, Fail
<1>3. overlapped => overlapped'
  BY DEF Next, vars, process, InitWorker, Crash, EndProcess, Looping, Delivering, AtDesk, Calling, LookupForSync,
         LookupForDelivery, Lookup, Create, CreateFails, FindRegistered, StoreHandler, TakeClosed,
         BeginRemove, FinishRemove, Panic, OfferPoll, OfferDelivery, SenderOf, SendFails, PollerOf,
         TokenExpired, TakeOrder, NoticeClosed, SenderEnds, Build, CreateDM, SaveSent, Acknowledge,
         FinishPoll, Suicide, SaveLate, AskDelivery, GiveUp
<1> QED
  BY <1>1, <1>2, <1>3 DEF Calm

\* What a step leaves of the handlers, the messages and those who close handlers.
LEMMA OnceFrame ==
    ASSUME Once, UNCHANGED messages,
           \A h \in HandlerIds : /\ handlers'[h].sender = handlers[h].sender
                                 /\ handlers'[h].sending = handlers[h].sending
    PROVE  Once'
<1>1. \A h \in HandlerIds : Sent(h)' = Sent(h)
  BY DEF Sent, Sending
<1> QED
  BY <1>1 DEF Once, Saving, messages

LEMMA CalmFrame ==
    ASSUME Alone, Once, UNCHANGED <<messages, handlers, desk, pc, target, old, saves>>
    PROVE  Alone' /\ Once'
<1>1. Alone'
  BY DEF Alone, AtWork, Open
<1> QED
  BY <1>1, OnceFrame

\* A handler that is registered or private is at work.
LEMMA OpenAtWork == \A h \in HandlerIds : Open(h) => AtWork(h)
BY HandlerValues DEF Open, AtWork

LEMMA SavingAtWork == \A h \in HandlerIds : handlers[h].sender # "ended" => AtWork(h)
BY HandlerValues DEF AtWork

LEMMA SurroundingsOnce ==
    ASSUME Typed, Calm, Calm', Alone, Once,
           InitWorker \/ Crash \/ (\E o \in Orders : AskDelivery(o) \/ GiveUp(o))
           \/ (\E m \in Messages : SaveLate(m))
    PROVE  Alone' /\ Once'
<1>1. CASE InitWorker
  BY <1>1, CalmFrame DEF InitWorker, goroutines
<1>2. CASE Crash
  BY <1>2 DEF Crash, Fail, Calm
<1>3. CASE \E o \in Orders : AskDelivery(o) \/ GiveUp(o)
  BY <1>3, CalmFrame DEF AskDelivery, GiveUp, process, goroutines
<1>4. CASE \E m \in Messages : SaveLate(m)
  BY <1>4 DEF SaveLate, Alone
<1> QED
  BY <1>1, <1>2, <1>3, <1>4

LEMMA CallerOnce ==
    ASSUME Typed, Sound, Calm, Calm', Alone, Once, NEW c \in Callers,
           \/ LookupForSync \/ (\E o \in Orders : LookupForDelivery(o))
           \/ Create(c) \/ CreateFails(c) \/ FindRegistered(c) \/ StoreHandler(c)
    PROVE  Alone' /\ Once'
<1>0. /\ "loop" \in Callers /\ "dms" \in Callers /\ Callers \subseteq Actors
      /\ "desk" \notin Callers /\ "desk" \in Actors
  BY DEF Callers, Actors
<1>t. /\ pc \in [Actors -> {"idle", "create", "register", "remove", "removing", "store", "offer"}]
      /\ target \in [Actors -> MaybeHandler] /\ old \in [Callers -> MaybeHandler]
      /\ registered \in MaybeHandler /\ handlers \in [HandlerIds -> Handler]
  BY DEF Typed, TypeOK
<1>1. ASSUME NEW l \in Callers, Lookup(l) PROVE Alone' /\ Once'
  <2>1. /\ UNCHANGED <<messages, handlers, desk, old, saves>>
        /\ pc' = [pc EXCEPT ![l] = IF registered # 0 THEN "offer" ELSE "create"]
        /\ target' = [target EXCEPT ![l] = registered]
    BY <1>1 DEF Lookup, Goto
  <2>2. registered # 0 => registered \in HandlerIds /\ AtWork(registered)
    BY <1>1, <1>t, Constants, OpenAtWork DEF Lookup, Sound, RegisteredIsOpen, Open
  <2>3. Alone'
    BY <1>0, <1>t, <2>1, <2>2 DEF Alone, AtWork, Open
  <2> QED
    BY <2>1, <2>3, OnceFrame
<1>2. CASE LookupForSync \/ \E o \in Orders : LookupForDelivery(o)
  BY <1>0, <1>1, <1>2 DEF LookupForSync, LookupForDelivery
<1>3. CASE Create(c)
  <2> DEFINE h == CHOOSE x \in HandlerIds : Free(x)
             n == [NewHandler EXCEPT !.mute = ~ready]
  <2>1. h \in HandlerIds /\ \A x \in HandlerIds : ~AtWork(x)
    BY <1>3 DEF Create, Full, Calm, AtWork
  <2>2. n.sender = "select" /\ n.egressClosed = FALSE /\ n.closed = FALSE /\ n.poller = "idle"
    BY DEF NewHandler
  <2>3. handlers' = [handlers EXCEPT ![h] = n] /\ target' = [target EXCEPT ![c] = h]
        /\ pc' = [pc EXCEPT ![c] = "register"] /\ UNCHANGED <<messages, desk, old, saves>>
    BY <1>3 DEF Create, Goto
  <2> HIDE DEF h, n
  <2>4. \A x \in HandlerIds : x # h => handlers'[x] = Gone
    BY <1>t, <2>1, <2>3 DEF AtWork
  <2>5. Alone'
    BY <1>0, <1>t, <2>1, <2>2, <2>3, <2>4 DEF Alone, AtWork, Open
  <2>6. \A x \in HandlerIds : handlers[x].sender = "ended"
    BY <2>1, HandlerValues DEF AtWork
  <2>7. Once'
    BY <1>t, <2>2, <2>3, <2>4, <2>6, HandlerValues DEF Once, Saving, messages
  <2> QED
    BY <2>5, <2>7
<1>4. CASE CreateFails(c)
  <2>1. /\ UNCHANGED <<messages, handlers, desk, old, saves>>
        /\ target' = [target EXCEPT ![c] = 0] /\ pc' = [pc EXCEPT ![c] = "idle"]
    BY <1>4 DEF CreateFails, Return, Goto
  <2>2. Alone'
    BY <1>0, <1>t, <2>1 DEF Alone, AtWork, Open
  <2> QED
    BY <2>1, <2>2, OnceFrame
<1>5. CASE FindRegistered(c)
  <2>1. /\ pc[c] = "register" /\ Unlocked /\ old' = [old EXCEPT ![c] = registered]
        /\ pc' = [pc EXCEPT ![c] = IF registered # 0 THEN "remove" ELSE "store"]
        /\ UNCHANGED <<messages, handlers, desk, target, saves>>
    BY <1>5 DEF FindRegistered, Goto
  <2>2. Private(c)
    BY <2>1 DEF Sound, FreshIsPrivate, Registering
  <2>3. target[c] \in HandlerIds /\ AtWork(target[c]) /\ target[c] # registered
    BY <2>2, OpenAtWork DEF Private, Untouched, Unreferenced
  <2>4. registered # 0 => registered \in HandlerIds /\ AtWork(registered)
    BY <1>t, <2>1, Constants, OpenAtWork DEF Sound, RegisteredIsOpen, Open
  <2>5. registered = 0
    BY <2>3, <2>4 DEF Alone
  <2>6. Alone'
    BY <1>0, <1>t, <2>1, <2>5 DEF Alone, AtWork, Open
  <2> QED
    BY <2>1, <2>6, OnceFrame
<1>6. CASE StoreHandler(c)
  <2>1. /\ pc[c] = "store" /\ pc' = [pc EXCEPT ![c] = "offer"]
        /\ UNCHANGED <<messages, handlers, desk, target, old, saves>>
    BY <1>6 DEF StoreHandler, Goto
  <2>2. target[c] \in HandlerIds /\ AtWork(target[c])
    BY <2>1, OpenAtWork DEF Sound, FreshIsPrivate, Registering, Private, Untouched
  <2>3. Alone'
    BY <1>0, <1>t, <2>1, <2>2 DEF Alone, AtWork, Open
  <2> QED
    BY <2>1, <2>3, OnceFrame
<1> QED
  BY <1>2, <1>3, <1>4, <1>5, <1>6

\* Nobody removes a handler.
LEMMA RemoveOnce ==
    ASSUME Alone, TakeClosed \/ \E a \in Actors : BeginRemove(a) \/ FinishRemove(a)
    PROVE  FALSE
BY DEF Alone, TakeClosed, BeginRemove, FinishRemove, Actors, Callers

\* The handler that is at work takes a step and stays open.
LEMMA WorkOnce ==
    ASSUME Typed, Alone, NEW h \in HandlerIds, AtWork(h), NEW n \in Handler,
           handlers' = [handlers EXCEPT ![h] = n],
           n.egressClosed = handlers[h].egressClosed, n.closed = handlers[h].closed,
           n.sender \notin {"closing", "ended", "hung"}, n.poller # "suicide",
           UNCHANGED <<desk, old, saves>>, pc'["desk"] = "idle",
           \A c \in Callers : /\ pc'[c] \notin {"remove", "removing"}
                              /\ pc'[c] = "offer" => pc[c] = "offer" /\ target'[c] = target[c]
    PROVE  /\ Alone' /\ handlers'[h] = n
           /\ \A x \in HandlerIds : x # h => handlers'[x] = Gone /\ handlers[x] = Gone
<1>1. handlers'[h] = n /\ \A x \in HandlerIds : x # h => handlers'[x] = handlers[x]
  BY DEF Typed, TypeOK
<1>2. \A x \in HandlerIds : x # h => handlers[x] = Gone
  BY DEF Alone, AtWork
<1>3. Open(h) /\ ~n.egressClosed /\ ~n.closed
  BY DEF Alone, Open
<1>4. AtWork(h)'
  BY <1>1, <1>3, HandlerValues DEF AtWork
<1>5. \A x \in HandlerIds : AtWork(x)' => x = h
  BY <1>1, <1>2 DEF AtWork
<1>6. Open(h)'
  BY <1>1, <1>3 DEF Open
<1>7. ASSUME NEW c \in Callers, pc'[c] = "offer" PROVE target'[c] = h
  <2>1. target[c] \in HandlerIds /\ AtWork(target[c]) /\ target'[c] = target[c]
    BY <1>7 DEF Alone
  <2> QED
    BY <1>2, <2>1 DEF AtWork
<1>8. Alone'
  <2>1. desk' = <<>> /\ pc'["desk"] = "idle" /\ saves' = {}
    BY DEF Alone
  <2>2. \A c \in Callers : old'[c] = 0 /\ pc'[c] \notin {"remove", "removing"}
    BY DEF Alone
  <2>3. \A c \in Callers : pc'[c] = "offer" => target'[c] \in HandlerIds /\ handlers'[target'[c]] # Gone
    BY <1>4, <1>7 DEF AtWork
  <2>4. \A x \in HandlerIds : AtWork(x)' =>
           Open(x)' /\ handlers'[x].sender \notin {"closing", "ended", "hung"}
           /\ handlers'[x].poller # "suicide"
    BY <1>1, <1>5, <1>6
  <2> QED
    BY <1>5, <2>1, <2>2, <2>3, <2>4 DEF Alone, AtWork
<1> QED
  BY <1>1, <1>2, <1>8

\* A caller hands the open handler an order.
LEMMA OfferOnce ==
    ASSUME Typed, Alone, Once, OfferPoll \/ OfferDelivery
    PROVE  Alone' /\ Once'
<1>0. "loop" \in Callers /\ "dms" \in Callers /\ "desk" \notin Callers /\ Callers \subseteq Actors
  BY DEF Callers, Actors
<1>t. /\ pc \in [Actors -> {"idle", "create", "register", "remove", "removing", "store", "offer"}]
      /\ target \in [Actors -> MaybeHandler] /\ handlers \in [HandlerIds -> Handler]
  BY DEF Typed, TypeOK
<1>1. ASSUME NEW c \in Callers, pc[c] = "offer", Return(c), UNCHANGED <<messages, old, desk, saves>>,
             NEW n \in Handler, handlers' = [handlers EXCEPT ![target[c]] = n],
             n.egressClosed = handlers[target[c]].egressClosed,
             n.closed = handlers[target[c]].closed,
             n.sender = handlers[target[c]].sender, n.sending = handlers[target[c]].sending,
             n.poller # "suicide"
      PROVE  Alone' /\ Once'
  <2> DEFINE v == target[c]
  <2>1. v \in HandlerIds /\ AtWork(v)
    BY <1>1 DEF Alone
  <2>2. target' = [target EXCEPT ![c] = 0] /\ pc' = [pc EXCEPT ![c] = "idle"]
    BY <1>1 DEF Return, Goto
  <2>3. handlers[v].sender \notin {"closing", "ended", "hung"}
    BY <2>1 DEF Alone
  <2>4. \A d \in Callers : /\ pc'[d] \notin {"remove", "removing"}
                           /\ pc'[d] = "offer" => pc[d] = "offer" /\ target'[d] = target[d]
    BY <1>0, <1>t, <2>2 DEF Alone
  <2>5. pc'["desk"] = "idle"
    BY <1>0, <2>2, <1>t DEF Alone, Actors
  <2>6. Alone' /\ handlers'[v] = n /\ \A x \in HandlerIds : x # v => handlers'[x] = Gone /\ handlers[x] = Gone
    <3> HIDE DEF v
    <3>1. /\ handlers' = [handlers EXCEPT ![v] = n]
          /\ n.egressClosed = handlers[v].egressClosed /\ n.closed = handlers[v].closed
          /\ n.sender \notin {"closing", "ended", "hung"}
      BY <1>1, <2>3 DEF v
    <3> QED
      BY <1>1, <2>1, <2>4, <2>5, <3>1, WorkOnce
  <2>7. Once'
    BY <1>1, <2>6, OnceFrame
  <2> QED
    BY <2>6, <2>7
<1>2. CASE OfferPoll
  <2> DEFINE v == target["loop"]
  <2>1. v \in HandlerIds /\ AtWork(v) /\ Open(v) /\ handlers[v].poller # "suicide"
    BY <1>0, <1>2 DEF OfferPoll, Alone
  <2>2. /\ pc["loop"] = "offer" /\ Return("loop") /\ UNCHANGED <<messages, old, desk, saves>>
        /\ handlers' = [handlers EXCEPT ![v].poller = "polling"] \/ handlers' = handlers
    BY <1>2, <2>1 DEF OfferPoll, Open
  <2>3. handlers[v] \in Handler
    BY <1>t, <2>1
  <2> DEFINE n == [handlers[v] EXCEPT !.poller = "polling"]
  <2>4. /\ n \in Handler /\ n.poller = "polling"
        /\ n.egressClosed = handlers[v].egressClosed /\ n.closed = handlers[v].closed
        /\ n.sender = handlers[v].sender /\ n.sending = handlers[v].sending
    BY <2>3 DEF Handler
  <2>5. CASE handlers' = handlers
    <3>1. handlers' = [handlers EXCEPT ![v] = handlers[v]]
      BY <1>t, <2>5
    <3> QED
      BY <1>0, <1>1, <2>1, <2>2, <2>3, <3>1
  <2>6. CASE handlers' = [handlers EXCEPT ![v].poller = "polling"]
    <3>1. handlers' = [handlers EXCEPT ![v] = n]
      BY <2>6
    <3> HIDE DEF n
    <3> QED
      BY <1>0, <1>1, <2>2, <2>4, <3>1
  <2> QED
    BY <2>2, <2>5, <2>6
<1>3. CASE OfferDelivery
  <2> DEFINE v == target["dms"]
             e == Append(handlers[v].egress, order)
             n == [handlers[v] EXCEPT !.egress = e]
  <2>1. v \in HandlerIds /\ AtWork(v) /\ Open(v) /\ handlers[v].poller # "suicide"
    BY <1>0, <1>3 DEF OfferDelivery, Alone
  <2>2. /\ pc["dms"] = "offer" /\ Return("dms") /\ UNCHANGED <<messages, old, desk, saves>>
        /\ handlers' = [handlers EXCEPT ![v].egress = Append(@, order)] \/ handlers' = handlers
    BY <1>3, <2>1, Zenon DEF OfferDelivery, Open
  <2>3. handlers[v] \in Handler /\ order \in Orders /\ handlers[v].egress \in Seq(Orders)
    BY <1>t, <1>3, <2>1, HandlerFields DEF OfferDelivery, Typed, OrdersInHand
  <2>4. e \in Seq(Orders)
    BY <2>3
  <2>5. CASE handlers' = handlers
    <3>1. handlers' = [handlers EXCEPT ![v] = handlers[v]]
      BY <1>t, <2>5
    <3> QED
      BY <1>0, <1>1, <2>1, <2>2, <2>3, <3>1
  <2>6. CASE handlers' = [handlers EXCEPT ![v].egress = Append(@, order)]
    <3>1. handlers' = [handlers EXCEPT ![v] = n]
      BY <2>6
    <3> HIDE DEF e
    <3>2. n \in Handler
      BY <2>3, <2>4, HandlerUpdates
    <3>3. /\ n.egressClosed = handlers[v].egressClosed /\ n.closed = handlers[v].closed
          /\ n.sender = handlers[v].sender /\ n.sending = handlers[v].sending
          /\ n.poller = handlers[v].poller
      BY <2>3 DEF Handler
    <3> HIDE DEF n
    <3> QED
      BY <1>0, <1>1, <2>1, <2>2, <3>1, <3>2, <3>3
  <2> QED
    BY <2>2, <2>5, <2>6
<1> QED
  BY <1>2, <1>3

\* What the goroutines of the handler at work do to the messages.
LEMMA SenderOnce ==
    ASSUME Typed, Alone, Once, NEW h \in HandlerIds, AtWork(h), NEW n \in Handler,
           handlers' = [handlers EXCEPT ![h] = n],
           n.egressClosed = handlers[h].egressClosed, n.closed = handlers[h].closed,
           n.sender \notin {"closing", "ended", "hung"}, n.poller # "suicide",
           UNCHANGED <<desk, old, saves, pc, target>>,
           handlers[h].sender = "save" => n.sender = "save" \/ ~draft'[Sent(h)],
           n.sender = "save" => n.sending = handlers[h].sending,
           n.sender = "create" => n.sending \in Orders /\ created'[MessageOf[n.sending]] = 0,
           \A m \in Messages :
              \/ created'[m] = created[m] /\ (draft'[m] = draft[m] \/ ~draft'[m])
              \/ /\ m = Sent(h) /\ created[m] = 0 /\ created'[m] = 1 /\ n.sender = "save"
    PROVE  Alone' /\ Once'
<1>1. /\ Alone' /\ handlers'[h] = n
      /\ \A x \in HandlerIds : x # h => handlers'[x] = Gone /\ handlers[x] = Gone
  <2>1. pc'["desk"] = "idle"
    BY DEF Alone
  <2>2. \A c \in Callers : /\ pc'[c] \notin {"remove", "removing"}
                           /\ pc'[c] = "offer" => pc[c] = "offer" /\ target'[c] = target[c]
    BY DEF Alone
  <2> QED
    BY <2>1, <2>2, WorkOnce
<1>2. ASSUME NEW x \in HandlerIds, handlers'[x].sender = "create" PROVE created'[Sent(x)'] = 0
  <2>1. x = h
    BY <1>1, <1>2, HandlerValues
  <2> QED
    BY <1>1, <1>2, <2>1 DEF Sent, Sending
<1>3. ASSUME NEW m \in Messages
      PROVE  created'[m] = 0 \/ (created'[m] = 1 /\ (~draft'[m] \/ Saving(m)'))
  <2>1. created[m] = 0 \/ (created[m] = 1 /\ (~draft[m] \/ Saving(m)))
    BY DEF Once
  <2>2. n.sender = "save" /\ m = Sent(h) => Saving(m)'
    <3> SUFFICES ASSUME n.sender = "save", m = Sent(h) PROVE Saving(m)'
      OBVIOUS
    <3>1. handlers'[h].sender = "save" /\ handlers'[h].sending = handlers[h].sending
      BY <1>1
    <3>2. Sent(h)' = m
      BY <3>1 DEF Sent, Sending
    <3> QED
      BY <3>1, <3>2 DEF Saving
  <2>3. Saving(m) => handlers[h].sender = "save" /\ m = Sent(h)
    BY <1>1, HandlerValues DEF Saving
  <2> QED
    BY <2>1, <2>2, <2>3
<1> QED
  BY <1>1, <1>2, <1>3 DEF Once

LEMMA HandlerOnce ==
    ASSUME Typed, Calm', Alone, Once, NEW h \in HandlerIds,
           SenderOf(h) \/ SendFails(h) \/ PollerOf(h) \/ TokenExpired(h)
    PROVE  Alone' /\ Once'
<1> DEFINE r == handlers[h]
<1>t. /\ r \in Handler /\ created \in [Messages -> Nat] /\ draft \in [Messages -> BOOLEAN]
      /\ handlers \in [HandlerIds -> Handler] /\ failures \in Nat
  BY Constants DEF Typed, TypeOK
<1>1. ~SendFails(h) /\ ~TokenExpired(h)
  BY <1>t DEF SendFails, TokenExpired, Fail, Calm
<1>2. AtWork(h)
  BY <1>1, HandlerValues DEF AtWork, SenderOf, PollerOf, TakeOrder, NoticeClosed, SenderEnds, Build,
     CreateDM, SaveSent, Acknowledge, FinishPoll, Suicide, SenderGoes, PollerGoes
<1>3. Open(h) /\ r.sender \notin {"closing", "ended", "hung"} /\ r.poller # "suicide"
  BY <1>2 DEF Alone
<1>4. ~NoticeClosed(h) /\ ~SenderEnds(h) /\ ~Suicide(h)
  BY <1>3 DEF NoticeClosed, SenderEnds, Suicide, PollerGoes, Open
<1>5. r.sender \in Holding => r.sending \in Orders /\ Sent(h) \in Messages
  BY Constants DEF Typed, OrdersInHand, Holding, Sent, Sending
\* One handler at work: no other one is saving.
<1>6. \A m \in Messages : created[m] # 0 /\ draft[m] => r.sender = "save" /\ m = Sent(h)
  BY <1>2 , SavingAtWork DEF Once, Saving, Alone
<1>f. ASSUME NEW s \in Senders
      PROVE  /\ [r EXCEPT !.sender = s] \in Handler
             /\ [r EXCEPT !.sender = s].sender = s
             /\ [r EXCEPT !.sender = s].sending = r.sending
             /\ [r EXCEPT !.sender = s].egressClosed = r.egressClosed
             /\ [r EXCEPT !.sender = s].closed = r.closed
             /\ [r EXCEPT !.sender = s].poller = r.poller
  BY <1>t DEF Handler, Senders
<1>7. CASE TakeOrder(h)
  <2> DEFINE e == Tail(r.egress)
             o == Head(r.egress)
             n == [r EXCEPT !.sender = "build", !.egress = e, !.sending = o]
  <2>1. r.egress \in Seq(Orders) /\ r.egress # <<>>
    BY <1>t, <1>7, HandlerFields DEF TakeOrder
  <2>2. e \in Seq(Orders) /\ o \in Orders
    BY <2>1
  <2>3. handlers' = [handlers EXCEPT ![h] = n]
    BY <1>7 DEF TakeOrder
  <2>4. r.sender = "select" /\ UNCHANGED <<messages, desk, old, saves, pc, target>>
    BY <1>7 DEF TakeOrder, goroutines
  <2> HIDE DEF e, o
  <2>5. n \in Handler /\ n.sender = "build" /\ n.egressClosed = r.egressClosed /\ n.closed = r.closed
        /\ n.poller = r.poller
    BY <1>t, <2>2 DEF Handler
  <2> HIDE DEF n
  <2> QED
    BY <1>2, <1>3, <2>3, <2>4, <2>5, SenderOnce DEF messages
<1>8. CASE Build(h)
  <2> DEFINE s == IF Sendable(Sent(h)) THEN "create" ELSE "ack"
             n == [r EXCEPT !.sender = s]
  <2>1. r.sender = "build" /\ handlers' = [handlers EXCEPT ![h] = n]
        /\ UNCHANGED <<messages, desk, old, saves, pc, target>>
    BY <1>8 DEF Build, SenderGoes, goroutines
  <2>2. s \in {"create", "ack"} /\ s \in Senders /\ (s = "create" => draft[Sent(h)])
    BY DEF Sendable, Senders
  <2>3. s = "create" => r.sending \in Orders /\ created'[MessageOf[r.sending]] = 0
    <3>1. r.sending \in Orders /\ Sent(h) \in Messages /\ Sent(h) = MessageOf[r.sending]
      BY <1>5, <2>1 DEF Holding, Sent, Sending
    <3>2. s = "create" => created[Sent(h)] = 0
      BY <1>6, <2>1, <2>2, <3>1
    <3> QED
      BY <2>1, <3>1, <3>2 DEF messages
  <2> HIDE DEF s
  <2>4. /\ n \in Handler /\ n.sender = s /\ n.sending = r.sending /\ n.egressClosed = r.egressClosed
        /\ n.closed = r.closed /\ n.poller = r.poller
    BY <1>f, <2>2
  <2> HIDE DEF n
  <2> QED
    BY <1>2, <1>3, <2>1, <2>2, <2>3, <2>4, SenderOnce DEF messages
<1>9. CASE CreateDM(h)
  <2> DEFINE n == [r EXCEPT !.sender = "save"]
  <2>1. /\ r.sender = "create" /\ handlers' = [handlers EXCEPT ![h] = n]
        /\ created' = [created EXCEPT ![Sent(h)] = @ + 1]
        /\ UNCHANGED <<draft, desk, old, saves, pc, target>>
    BY <1>9 DEF CreateDM, SenderGoes, goroutines
  <2>2. Sent(h) \in Messages /\ created[Sent(h)] = 0
    BY <1>5, <2>1 DEF Holding, Once
  <2>3. /\ n \in Handler /\ n.sender = "save" /\ n.sending = r.sending /\ n.egressClosed = r.egressClosed
        /\ n.closed = r.closed /\ n.poller = r.poller
    BY <1>f DEF Senders
  <2>4. \A m \in Messages :
              \/ created'[m] = created[m] /\ draft'[m] = draft[m]
              \/ m = Sent(h) /\ created[m] = 0 /\ created'[m] = 1
    BY <1>t, <2>1, <2>2
  <2> HIDE DEF n
  <2> QED
    BY <1>2, <1>3, <2>1, <2>3, <2>4, SenderOnce
<1>10. CASE SaveSent(h)
  <2> DEFINE n == [r EXCEPT !.sender = "ack"]
  <2>1. /\ r.sender = "save" /\ handlers' = [handlers EXCEPT ![h] = n]
        /\ draft' = [draft EXCEPT ![Sent(h)] = FALSE]
        /\ UNCHANGED <<created, desk, old, saves, pc, target>>
    BY <1>10 DEF SaveSent, SenderGoes, goroutines
  <2>2. Sent(h) \in Messages
    BY <1>5, <2>1 DEF Holding
  <2>3. /\ n \in Handler /\ n.sender = "ack" /\ n.sending = r.sending /\ n.egressClosed = r.egressClosed
        /\ n.closed = r.closed /\ n.poller = r.poller
    BY <1>f DEF Senders
  <2>4. ~draft'[Sent(h)] /\ \A m \in Messages : draft'[m] = draft[m] \/ ~draft'[m]
    BY <1>t, <2>1, <2>2
  <2> HIDE DEF n
  <2> QED
    BY <1>2, <1>3, <2>1, <2>3, <2>4, SenderOnce
<1>11. CASE Acknowledge(h)
  <2> DEFINE n == [r EXCEPT !.sender = "select", !.sending = Nobody]
  <2>1. /\ r.sender = "ack" /\ handlers' = [handlers EXCEPT ![h] = n]
        /\ UNCHANGED <<messages, desk, old, saves, pc, target>>
    BY <1>11 DEF Acknowledge, goroutines
  <2>2. n \in Handler /\ n.sender = "select" /\ n.egressClosed = r.egressClosed /\ n.closed = r.closed
        /\ n.poller = r.poller
    BY <1>t DEF Handler
  <2> HIDE DEF n
  <2> QED
    BY <1>2, <1>3, <2>1, <2>2, SenderOnce DEF messages
<1>12. CASE FinishPoll(h)
  <2> DEFINE n == [r EXCEPT !.poller = "idle"]
  <2>1. /\ handlers' = [handlers EXCEPT ![h] = n]
        /\ UNCHANGED <<messages, desk, old, saves, pc, target>>
    BY <1>12 DEF FinishPoll, PollerGoes, goroutines
  <2>2. n \in Handler /\ n.sender = r.sender /\ n.egressClosed = r.egressClosed /\ n.closed = r.closed
        /\ n.poller = "idle" /\ n.sending = r.sending
    BY <1>t DEF Handler
  <2>3. r.sender = "create" => r.sending \in Orders /\ created'[MessageOf[r.sending]] = 0
    BY <1>5, <2>1 DEF Holding, Once, Sent, Sending, messages
  <2> HIDE DEF n
  <2> QED
    BY <1>2, <1>3, <2>1, <2>2, <2>3, SenderOnce DEF messages
<1> QED
  BY <1>1, <1>4, <1>7, <1>8, <1>9, <1>10, <1>11, <1>12 DEF SenderOf, PollerOf
-----------------------------------------------------------------------------
LEMMA SentStep == Typed /\ Sound /\ SentInv /\ [Next]_vars => SentInv'
<1> SUFFICES ASSUME Typed, Sound, SentInv, [Next]_vars, Calm' PROVE Alone' /\ Once'
  BY DEF SentInv
<1>0. Calm /\ Alone /\ Once
  BY CalmBefore DEF SentInv
<1>1. CASE InitWorker \/ Crash \/ (\E o \in Orders : AskDelivery(o) \/ GiveUp(o))
           \/ (\E m \in Messages : SaveLate(m))
  BY <1>0, <1>1, SurroundingsOnce
<1>2. ASSUME NEW c \in Callers,
             \/ LookupForSync \/ (\E o \in Orders : LookupForDelivery(o))
             \/ Create(c) \/ CreateFails(c) \/ FindRegistered(c) \/ StoreHandler(c)
      PROVE  Alone' /\ Once'
  BY <1>0, <1>2, CallerOnce
<1>3. CASE TakeClosed \/ \E a \in Actors : BeginRemove(a) \/ FinishRemove(a)
  BY <1>0, <1>3, RemoveOnce
<1>4. CASE OfferPoll \/ OfferDelivery
  BY <1>0, <1>4, OfferOnce
<1>5. ASSUME NEW h \in HandlerIds, SenderOf(h) \/ SendFails(h) \/ PollerOf(h) \/ TokenExpired(h)
      PROVE  Alone' /\ Once'
  BY <1>0, <1>5, HandlerOnce
<1>6. CASE UNCHANGED vars
  BY <1>0, <1>6, CalmFrame DEF vars, process, goroutines
<1>7. "loop" \in Callers /\ "dms" \in Callers /\ Callers \subseteq Actors /\ "desk" \in Actors
  BY DEF Callers, Actors
<1>8. CASE Looping \/ Delivering \/ AtDesk \/ \E c \in Callers : CreateFails(c)
  BY <1>2, <1>3, <1>4, <1>7, <1>8 DEF Looping, Delivering, AtDesk, Calling
<1> QED
  BY <1>1, <1>5, <1>6, <1>8 DEF Next

\* A message asked to be delivered several times is sent once, as long as no query has
\* failed and no two handlers of the account were at work (ProcessOutDM).
THEOREM SentOnceCorrect == Spec => []SentOnce
<1>1. Init => SentInv
  <2> SUFFICES ASSUME Init PROVE Alone /\ Once
    BY DEF SentInv
  <2>1. /\ desk = <<>> /\ saves = {} /\ \A a \in Actors : pc[a] = "idle"
        /\ \A c \in Callers : old[c] = 0 /\ \A h \in HandlerIds : handlers[h] = Gone
        /\ \A m \in Messages : created[m] = 0
    BY DEF Init
  <2>2. Alone
    BY <2>1 DEF Alone, AtWork, Actors, Callers
  <2>3. Once
    BY <2>1, HandlerValues DEF Once, Callers
  <2> QED
    BY <2>2, <2>3
<1>2. IInv /\ SentInv => SentOnce
  <2> SUFFICES ASSUME IInv, SentInv, NEW m \in Messages, ~overlapped, ~(failures > 0)
               PROVE  created[m] <= 1
    BY DEF SentOnce
  <2>1. failures = 0
    BY DEF IInv, TypeOK
  <2> QED
    BY <2>1 DEF SentInv, Calm, Once
<1>3. IInv => Typed /\ Sound
  BY DEF IInv, Typed, Sound
<1> QED
  BY <1>1, <1>2, <1>3, Inductive, SentStep, PTL DEF Spec
=============================================================================

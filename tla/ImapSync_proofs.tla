-------------------------- MODULE ImapSync_proofs --------------------------
(***************************************************************************)
(* Theorems about ImapSync, for any number of workers and messages, all    *)
(* thresholds and all bounds.                                              *)
(***************************************************************************)
EXTENDS ImapSync, TLAPS

\* The mailbox mb has this many messages, and each of them is in done.
Settled(mb, done, u) == u \in 0..Len(mb) /\ \A v \in 1..u : mb[v] \in done

\* What a fetch has left to forward: messages of the mailbox, with consecutive UIDs.
Consecutive(mb, s) ==
    \A i \in DOMAIN s :
        /\ s[i].uid = s[1].uid + (i - 1)
        /\ s[i].uid <= Len(mb)
        /\ s[i].mail = mb[s[i].uid]

\* What comes before the next message to forward is settled.
NoGap(mb, done, s) == s # <<>> => Settled(mb, done, s[1].uid - 1)

\* The copies of the sync state a worker holds, and what it has left to forward.
WorkerSettled(mb, done, l, b, s) ==
    /\ Settled(mb, done, l.lastSeen)
    /\ Settled(mb, done, b.lastSeen)
    /\ Consecutive(mb, s)
    /\ NoGap(mb, done, s)

Handled == delivered \cup failed

\* Each copy of the sync state is behind the LDA, and a fetch begins where one of them ends.
CopiesSettled ==
    epoch = 1 =>
        /\ Settled(mailbox, Handled, infos.lastSeen)
        /\ \A w \in Workers :
              WorkerSettled(mailbox, Handled, local[w], box[w], fetched[w])

\* The inductive invariant.
IInv == TypeOK /\ CopiesSettled
-----------------------------------------------------------------------------
(***************************************************************************)
(* Types.                                                                  *)
(***************************************************************************)
LEMMA OlderAge ==
    ASSUME NEW limit \in Nat, NEW x \in 0..limit \cup {None}
    PROVE  Older(x, limit) \in 0..limit \cup {None} /\ (x # None => Older(x, limit) # None)
BY NoneAssumption DEF Older

LEMMA NothingType == NoInfos \in Infos /\ NoBox \in [lastSeen : Nat, validity : Nat]
BY DEF NoInfos, NoBox, Infos, SyncingAge, ErrorsAge

\* The mark and the date of the first error may be replaced by any age.
LEMMA InfosFields ==
    ASSUME NEW i \in Infos, NEW s \in SyncingAge, NEW e \in ErrorsAge
    PROVE  /\ [i EXCEPT !.syncing = s] \in Infos
           /\ [i EXCEPT !.errors = e] \in Infos
           /\ [i EXCEPT !.errors = e, !.syncing = s] \in Infos
BY DEF Infos

LEMMA InfosTypes ==
    ASSUME NEW i \in Infos
    PROVE  /\ i.syncing \in SyncingAge /\ i.errors \in ErrorsAge
           /\ i.lastSeen \in Nat /\ i.validity \in Nat
BY DEF Infos

LEMMA OlderErrorsType ==
    ASSUME NEW i \in Infos
    PROVE  OlderErrors(i) \in Infos /\ OlderErrors(i).lastSeen = i.lastSeen
<1>1. i.errors \in 0..(FailuresThreshold + 1) \cup {None}
  BY InfosTypes DEF ErrorsAge
<1>2. FailuresThreshold + 1 \in Nat
  BY ThresholdsAssumption
<1>3. Older(i.errors, FailuresThreshold + 1) \in ErrorsAge
  BY <1>1, <1>2, OlderAge DEF ErrorsAge
<1> QED
  BY <1>3 DEF OlderErrors, Infos

LEMMA SequenceOf ==
    ASSUME NEW S, NEW k \in Nat, NEW f \in [1..k -> S]
    PROVE  f \in Seq(S) /\ DOMAIN f = 1..k
OBVIOUS

\* The answer to a fetch: consecutive messages of the mailbox.
LEMMA FetchType ==
    ASSUME TypeOK, NEW from \in Nat \ {0}
    PROVE  /\ FetchFrom(from) \in Seq(Message)
           /\ Consecutive(mailbox, FetchFrom(from))
           /\ FetchFrom(from) # <<>> => FetchFrom(from)[1].uid - 1 \in 0..(from - 1)
<1> DEFINE n == Len(mailbox)
           first == IF from > n THEN n ELSE from
           s == [i \in 1..(n - first + 1) |->
                    [uid |-> first + i - 1, mail |-> mailbox[first + i - 1]]]
<1>1. mailbox \in Seq(Mails) /\ n \in Nat
  BY DEF TypeOK
<1>2. CASE n = 0
  <2>1. FetchFrom(from) = <<>>
    BY <1>2 DEF FetchFrom
  <2> QED
    BY <2>1 DEF Consecutive
<1>3. CASE n # 0
  <2>1. FetchFrom(from) = s
    BY <1>3 DEF FetchFrom
  <2>2. first \in 1..n /\ first <= from
    BY <1>1, <1>3
  <2>3. \A i \in 1..(n - first + 1) : first + i - 1 \in 1..n
    BY <1>1, <2>2
  <2>4. \A i \in 1..(n - first + 1) : s[i] \in Message
    BY <1>1, <2>3 DEF Message
  <2>5. n - first + 1 \in Nat /\ n - first + 1 >= 1
    BY <1>1, <2>2
  <2>6. s \in [1..(n - first + 1) -> Message]
    BY <2>4
  <2>7. s[1].uid = first
    BY <2>2, <2>5
  <2>8. Consecutive(mailbox, s)
    <3> SUFFICES ASSUME NEW i \in DOMAIN s
                 PROVE  /\ s[i].uid = s[1].uid + (i - 1)
                        /\ s[i].uid <= n
                        /\ s[i].mail = mailbox[s[i].uid]
      BY DEF Consecutive
    <3>1. i \in 1..(n - first + 1)
      OBVIOUS
    <3>2. s[i].uid = first + i - 1 /\ s[i].mail = mailbox[first + i - 1]
      BY <3>1
    <3> QED
      BY <3>1, <3>2, <2>2, <2>3, <2>7, <1>1
  <2>9. s \in Seq(Message)
    BY <2>5, <2>6, SequenceOf
  <2>10. s[1].uid - 1 \in 0..(from - 1)
    BY <1>1, <2>2, <2>7
  <2> HIDE DEF s, first, n
  <2> QED
    BY <2>1, <2>8, <2>9, <2>10
<1> QED
  BY <1>2, <1>3

\* Return writes what it is meant to write.
LEMMA ReturnType ==
    ASSUME TypeOK, NEW w \in Workers, Return(w)
    PROVE  /\ pc' \in [Workers -> {"idle", "mark", "login", "fetching", "abort", "save"}]
           /\ local' \in [Workers -> Infos]
           /\ box' \in [Workers -> [lastSeen : Nat, validity : Nat]]
           /\ fetched' \in [Workers -> Seq(Message)]
           /\ age' \in [Workers -> 0..(SyncingTimeout + 1)]
<1>1. 0 \in 0..(SyncingTimeout + 1)
  BY ThresholdsAssumption
<1>2. <<>> \in Seq(Message)
  OBVIOUS
<1> QED
  BY <1>1, <1>2, NothingType DEF Return, Goto, TypeOK

\* What SaveState writes.
LEMMA SavedType ==
    ASSUME TypeOK, NEW w \in Workers
    PROVE  /\ [local[w] EXCEPT !.syncing = None] \in Infos
           /\ [local[w] EXCEPT !.syncing = None, !.synced = TRUE,
                    !.lastSeen = box[w].lastSeen, !.validity = box[w].validity] \in Infos
<1>1. local[w] \in Infos /\ box[w] \in [lastSeen : Nat, validity : Nat]
  BY DEF TypeOK
<1>2. None \in SyncingAge
  BY DEF SyncingAge
<1> QED
  BY <1>1, <1>2 DEF Infos

\* A delivery, failed or not.
LEMMA ForwardType ==
    ASSUME TypeOK, NEW w \in Workers, CanForward(w)
    PROVE  /\ fetched[w] \in Seq(Message) /\ fetched[w] # <<>>
           /\ Next1(w) \in Message /\ Next1(w) = fetched[w][1]
           /\ fetched' \in [Workers -> Seq(Message)]
           /\ fetched'[w] = Tail(fetched[w])
<1>1. fetched[w] \in Seq(Message) /\ fetched[w] # <<>>
  BY DEF TypeOK, CanForward
<1>2. Head(fetched[w]) \in Message /\ Tail(fetched[w]) \in Seq(Message)
  BY <1>1
<1>3. Head(fetched[w]) = fetched[w][1]
  BY <1>1
<1> QED
  BY <1>1, <1>2, <1>3 DEF Next1, CanForward, TypeOK

LEMMA LoopType ==
    ASSUME TypeOK, NEW w \in Workers, LoopOrAbort(w)
    PROVE  pc' \in [Workers -> {"idle", "mark", "login", "fetching", "abort", "save"}]
BY DEF LoopOrAbort, Goto, TypeOK

LEMMA InitType == Init => TypeOK
<1> SUFFICES ASSUME Init PROVE TypeOK
  OBVIOUS
<1>1. <<>> \in Seq(Mails) /\ <<>> \in Seq(Message)
  OBVIOUS
<1>2. 0 \in 0..(SyncingTimeout + 1) /\ 1 \in 1..(MaxResets + 1) /\ 0 \in 0..MaxFailures
  BY ThresholdsAssumption, BoundsAssumption
<1> QED
  BY <1>1, <1>2, NothingType DEF Init, TypeOK

LEMMA TypeStep == TypeOK /\ [Next]_vars => TypeOK'
<1> SUFFICES ASSUME TypeOK, [Next]_vars PROVE TypeOK'
  OBVIOUS
<1> USE BoundsAssumption, ThresholdsAssumption
<1> DEFINE Steps == {"idle", "mark", "login", "fetching", "abort", "save"}
<1>0. Fail => failures' \in 0..MaxFailures
  BY DEF Fail, TypeOK
<1>1. ASSUME NEW m \in Mails, NewMail(m) PROVE TypeOK'
  BY <1>1 DEF NewMail, TypeOK, dbVars, workerVars, ldaVars
<1>2. CASE ResetMailbox
  BY <1>2 DEF ResetMailbox, TypeOK, dbVars, workerVars, ldaVars
<1>3. CASE Tick
  <2>1. infos' \in Infos
    <3>1. OlderErrors(infos) \in Infos
      BY OlderErrorsType DEF TypeOK
    <3>2. OlderErrors(infos).syncing \in 0..SyncingTimeout \cup {None}
      BY <3>1, InfosTypes DEF SyncingAge
    <3>3. Older(OlderErrors(infos).syncing, SyncingTimeout) \in SyncingAge
      BY <3>2, OlderAge DEF SyncingAge
    <3>4. infos' = [OlderErrors(infos) EXCEPT
                       !.syncing = Older(OlderErrors(infos).syncing, SyncingTimeout)]
      BY <1>3, <3>1 DEF Tick
    <3> QED
      BY <3>1, <3>3, <3>4 DEF Infos
  <2>2. local' \in [Workers -> Infos]
    BY <1>3, OlderErrorsType DEF Tick, TypeOK
  <2>3. age' \in [Workers -> 0..(SyncingTimeout + 1)]
    <3> SUFFICES ASSUME NEW w \in Workers
                 PROVE  Older(age[w], SyncingTimeout + 1) \in 0..(SyncingTimeout + 1)
      BY <1>3 DEF Tick, TypeOK
    <3>1. age[w] \in 0..(SyncingTimeout + 1)
      BY DEF TypeOK
    <3> QED
      BY <3>1, NoneAssumption DEF Older
  <2>4. failures' \in 0..MaxFailures
    BY <1>3 DEF Tick, TypeOK
  <2> QED
    BY <1>3, <2>1, <2>2, <2>3, <2>4 DEF Tick, TypeOK, remoteVars, ldaVars
<1>4. CASE Reactivate
  BY <1>4 DEF Reactivate, TypeOK, remoteVars, workerVars, ldaVars
<1>5. ASSUME NEW w \in Workers, Step(w) PROVE TypeOK'
  <2>1. CASE Start(w)
    BY <2>1 DEF Start, Goto, TypeOK, remoteVars, dbVars, ldaVars
  <2>2. CASE MarkSyncing(w)
    <3>0. local[w] \in Infos /\ 0 \in SyncingAge /\ None \in ErrorsAge
      BY DEF TypeOK, SyncingAge, ErrorsAge
    <3>1. infos' \in Infos /\ local[w].lastSeen \in Nat /\ local[w].validity \in Nat
      BY <2>2, <3>0, InfosFields, InfosTypes DEF MarkSyncing
    <3>2. box' \in [Workers -> [lastSeen : Nat, validity : Nat]]
      BY <2>2, <3>1 DEF MarkSyncing, TypeOK
    <3> QED
      BY <2>2, <3>1, <3>2 DEF MarkSyncing, Goto, TypeOK, remoteVars, ldaVars
  <2>3. CASE LoginSucceeds(w)
    <3>1. local' \in [Workers -> Infos]
      <4>1. local[w] \in Infos /\ None \in SyncingAge /\ None \in ErrorsAge
        BY DEF TypeOK, SyncingAge, ErrorsAge
      <4>2. [local[w] EXCEPT !.errors = None] \in Infos
        BY <4>1, InfosFields
      <4> QED
        BY <2>3, <4>2 DEF LoginSucceeds, TypeOK
    <3>2. box' \in [Workers -> [lastSeen : Nat, validity : Nat]]
      <4>1. epoch \in Nat /\ box[w] \in [lastSeen : Nat, validity : Nat]
        BY DEF TypeOK
      <4>2. [box[w] EXCEPT !.validity = epoch] \in [lastSeen : Nat, validity : Nat]
        BY <4>1
      <4>3. box' = [box EXCEPT ![w] = [box[w] EXCEPT !.validity = epoch]]
        BY <2>3 DEF LoginSucceeds, TypeOK
      <4> QED
        BY <4>2, <4>3 DEF TypeOK
    <3>3. From(w) \in Nat \ {0}
      BY DEF From, TypeOK
    <3>4. fetched' \in [Workers -> Seq(Message)]
      BY <2>3, <3>3, FetchType DEF LoginSucceeds, TypeOK
    <3> QED
      BY <2>3, <3>1, <3>2, <3>4 DEF LoginSucceeds, Goto, TypeOK, remoteVars, dbVars, ldaVars
  <2>4. CASE SkipSeen(w)
    <3>1. fetched' \in [Workers -> Seq(Message)]
      BY <2>4, ForwardType DEF SkipSeen
    <3> QED
      BY <2>4, <3>1 DEF SkipSeen, TypeOK, remoteVars, dbVars, ldaVars
  <2>5. CASE DeliverMail(w)
    <3>1. fetched' \in [Workers -> Seq(Message)] /\ Next1(w) \in Message
      BY <2>5, ForwardType DEF DeliverMail
    <3>2. pc' \in [Workers -> Steps]
      BY <2>5, LoopType DEF DeliverMail
    <3>3. delivered' \subseteq Mails /\ box' \in [Workers -> [lastSeen : Nat, validity : Nat]]
      BY <2>5, <3>1 DEF DeliverMail, TypeOK, Message
    <3> QED
      BY <2>5, <3>1, <3>2, <3>3 DEF DeliverMail, TypeOK, remoteVars, dbVars
  <2>6. CASE AbortBeforeSave(w)
    BY <2>6, ReturnType DEF AbortBeforeSave, TypeOK, remoteVars, dbVars, ldaVars
  <2>7. CASE SaveState(w)
    <3>1. infos' \in Infos
      BY <2>7, SavedType DEF SaveState
    <3> QED
      BY <2>7, <3>1, ReturnType DEF SaveState, TypeOK, remoteVars, ldaVars
  <2> QED
    BY <1>5, <2>1, <2>2, <2>3, <2>4, <2>5, <2>6, <2>7 DEF Step
<1>6. ASSUME NEW w \in Workers, Failure(w) PROVE TypeOK'
  <2>1. CASE LoginFails(w)
    <3> DEFINE first == IF local[w].errors = None THEN 0 ELSE local[w].errors
               new == [local[w] EXCEPT !.errors = first, !.syncing = None]
    <3>1. local[w] \in Infos /\ local[w].errors \in ErrorsAge
      BY InfosTypes DEF TypeOK
    <3>2. first \in ErrorsAge /\ None \in SyncingAge
      BY <3>1 DEF ErrorsAge, SyncingAge
    <3>3. new \in Infos
      BY <3>1, <3>2, InfosFields
    <3>4. infos' = new /\ local' = [local EXCEPT ![w] = new]
      BY <2>1 DEF LoginFails
    <3>5. infos' \in Infos /\ local' \in [Workers -> Infos]
      BY <3>3, <3>4 DEF TypeOK
    <3>6. status' \in {"active", "inactive"}
      BY <2>1 DEF LoginFails, TypeOK
    <3> QED
      BY <1>0, <2>1, <3>5, <3>6 DEF LoginFails, Goto, TypeOK, remoteVars, ldaVars
  <2>2. CASE SelectFails(w)
    <3>1. local[w] \in Infos /\ None \in SyncingAge /\ None \in ErrorsAge
      BY DEF TypeOK, SyncingAge, ErrorsAge
    <3>2. [local[w] EXCEPT !.errors = None] \in Infos
      BY <3>1, InfosFields
    <3>3. local' \in [Workers -> Infos]
      BY <2>2, <3>2 DEF SelectFails, TypeOK
    <3> QED
      BY <1>0, <2>2, <3>3 DEF SelectFails, Goto, TypeOK, remoteVars, dbVars, ldaVars
  <2>3. CASE FetchBreaks(w)
    <3>1. <<>> \in Seq(Message)
      OBVIOUS
    <3> QED
      BY <1>0, <2>3, <3>1 DEF FetchBreaks, TypeOK, remoteVars, dbVars, ldaVars
  <2>4. CASE DeliverMailFails(w)
    <3>1. fetched' \in [Workers -> Seq(Message)] /\ Next1(w) \in Message
      BY <2>4, ForwardType DEF DeliverMailFails
    <3>2. pc' \in [Workers -> Steps]
      BY <2>4, LoopType DEF DeliverMailFails
    <3>3. delivered' \subseteq Mails /\ failed' \subseteq Mails
      BY <2>4, <3>1 DEF DeliverMailFails, TypeOK, Message
    <3> QED
      BY <1>0, <2>4, <3>1, <3>2, <3>3 DEF DeliverMailFails, TypeOK, remoteVars, dbVars
  <2>5. CASE Crash(w)
    BY <1>0, <2>5, ReturnType DEF Crash, TypeOK, remoteVars, dbVars, ldaVars
  <2> QED
    BY <1>6, <2>1, <2>2, <2>3, <2>4, <2>5 DEF Failure
<1>7. CASE UNCHANGED vars
  BY <1>7 DEF vars, remoteVars, dbVars, workerVars, ldaVars, TypeOK
<1> QED
  BY <1>1, <1>2, <1>3, <1>4, <1>5, <1>6, <1>7 DEF Next
-----------------------------------------------------------------------------
(***************************************************************************)
(* What is settled stays settled.                                          *)
(***************************************************************************)
LEMMA SettledZero ==
    ASSUME NEW mb \in Seq(Mails), NEW done
    PROVE  Settled(mb, done, 0) /\ Consecutive(mb, <<>>) /\ NoGap(mb, done, <<>>)
BY DEF Settled, Consecutive, NoGap

LEMMA SettledLess ==
    ASSUME NEW mb \in Seq(Mails), NEW done, NEW u, NEW v \in 0..u, Settled(mb, done, u)
    PROVE  Settled(mb, done, v)
BY DEF Settled

\* The next message settles one more.
LEMMA SettledNext ==
    ASSUME NEW mb \in Seq(Mails), NEW done, NEW u \in 1..Len(mb),
           Settled(mb, done, u - 1), mb[u] \in done
    PROVE  Settled(mb, done, u)
BY DEF Settled

\* The mailbox and what was handed to the LDA only grow.
LEMMA SettledGrows ==
    ASSUME NEW mb \in Seq(Mails), NEW mb2 \in Seq(Mails), NEW done, NEW done2, done \subseteq done2,
           Len(mb) <= Len(mb2), \A i \in 1..Len(mb) : mb2[i] = mb[i],
           NEW u, Settled(mb, done, u)
    PROVE  Settled(mb2, done2, u)
BY DEF Settled

LEMMA WorkerGrows ==
    ASSUME NEW mb \in Seq(Mails), NEW mb2 \in Seq(Mails), NEW done, NEW done2, done \subseteq done2,
           Len(mb) <= Len(mb2), \A i \in 1..Len(mb) : mb2[i] = mb[i],
           NEW l \in Infos, NEW b \in [lastSeen : Nat, validity : Nat],
           NEW s \in Seq(Message), WorkerSettled(mb, done, l, b, s)
    PROVE  WorkerSettled(mb2, done2, l, b, s)
<1>1. Settled(mb2, done2, l.lastSeen) /\ Settled(mb2, done2, b.lastSeen)
  BY SettledGrows DEF WorkerSettled
<1>2. Consecutive(mb2, s)
  <2> SUFFICES ASSUME NEW i \in DOMAIN s
               PROVE  /\ s[i].uid = s[1].uid + (i - 1)
                      /\ s[i].uid <= Len(mb2)
                      /\ s[i].mail = mb2[s[i].uid]
    BY DEF Consecutive
  <2>1. s[i] \in Message
    OBVIOUS
  <2>2. s[i].uid \in Nat \ {0}
    BY <2>1 DEF Message
  <2>3. /\ s[i].uid = s[1].uid + (i - 1)
        /\ s[i].uid <= Len(mb)
        /\ s[i].mail = mb[s[i].uid]
    BY DEF WorkerSettled, Consecutive
  <2>4. s[i].uid \in 1..Len(mb)
    BY <2>2, <2>3
  <2> QED
    BY <2>3, <2>4
<1>3. NoGap(mb2, done2, s)
  BY SettledGrows DEF WorkerSettled, NoGap
<1> QED
  BY <1>1, <1>2, <1>3 DEF WorkerSettled

\* A step of worker w only has to account for w and for the database.
LEMMA WorkerStep ==
    ASSUME IInv, NEW w \in Workers, UNCHANGED remoteVars, Handled \subseteq Handled',
           \A v \in Workers \ {w} :
               local'[v] = local[v] /\ box'[v] = box[v] /\ fetched'[v] = fetched[v],
           epoch = 1 =>
               /\ Settled(mailbox, Handled', infos'.lastSeen)
               /\ WorkerSettled(mailbox, Handled', local'[w], box'[w], fetched'[w])
    PROVE  CopiesSettled'
<1> SUFFICES ASSUME epoch' = 1
             PROVE  /\ Settled(mailbox', Handled', infos'.lastSeen)
                    /\ \A v \in Workers :
                          WorkerSettled(mailbox', Handled', local'[v], box'[v], fetched'[v])
  BY DEF CopiesSettled
<1>1. epoch = 1 /\ mailbox' = mailbox
  BY DEF remoteVars
<1>2. ASSUME NEW v \in Workers \ {w}
      PROVE  WorkerSettled(mailbox, Handled', local'[v], box'[v], fetched'[v])
  <2>1. WorkerSettled(mailbox, Handled, local[v], box[v], fetched[v])
    BY <1>1 DEF IInv, CopiesSettled
  <2>2. /\ mailbox \in Seq(Mails) /\ local[v] \in Infos
        /\ box[v] \in [lastSeen : Nat, validity : Nat] /\ fetched[v] \in Seq(Message)
    BY DEF IInv, TypeOK
  <2>3. WorkerSettled(mailbox, Handled', local[v], box[v], fetched[v])
    BY <2>1, <2>2, WorkerGrows
  <2> QED
    BY <2>3
<1> QED
  BY <1>1, <1>2

\* What the invariant says of w and of the database, and that w's copies have their types.
LEMMA Known ==
    ASSUME IInv, NEW w \in Workers
    PROVE  /\ mailbox \in Seq(Mails) /\ infos \in Infos
           /\ local[w] \in Infos /\ box[w] \in [lastSeen : Nat, validity : Nat]
           /\ fetched[w] \in Seq(Message)
           /\ epoch = 1 =>
                 /\ Settled(mailbox, Handled, infos.lastSeen)
                 /\ WorkerSettled(mailbox, Handled, local[w], box[w], fetched[w])
BY DEF IInv, TypeOK, CopiesSettled

LEMMA ReturnSettled ==
    ASSUME IInv, NEW w \in Workers, Return(w)
    PROVE  /\ WorkerSettled(mailbox, Handled', local'[w], box'[w], fetched'[w])
           /\ \A v \in Workers \ {w} :
                 local'[v] = local[v] /\ box'[v] = box[v] /\ fetched'[v] = fetched[v]
<1>1. local'[w] = NoInfos /\ box'[w] = NoBox /\ fetched'[w] = <<>>
  BY DEF Return, IInv, TypeOK
<1>2. NoInfos.lastSeen = 0 /\ NoBox.lastSeen = 0
  BY DEF NoInfos, NoBox
<1>3. WorkerSettled(mailbox, Handled', NoInfos, NoBox, <<>>)
  BY <1>2, Known, SettledZero DEF WorkerSettled
<1> QED
  BY <1>1, <1>3 DEF Return, IInv, TypeOK

\* The first message that is left is next to what is settled, whether it is handled now or
\* was before: the rest can be forwarded from there.
LEMMA TailSettled ==
    ASSUME NEW mb \in Seq(Mails), NEW done, NEW s \in Seq(Message), s # <<>>,
           Consecutive(mb, s), NoGap(mb, done, s),
           s[1].mail \in done \/ Settled(mb, done, s[1].uid)
    PROVE  /\ Settled(mb, done, s[1].uid)
           /\ Consecutive(mb, Tail(s)) /\ NoGap(mb, done, Tail(s))
<1>1. 1 \in DOMAIN s /\ s[1] \in Message
  OBVIOUS
<1>2. s[1].uid \in 1..Len(mb) /\ s[1].mail = mb[s[1].uid]
  BY <1>1 DEF Consecutive, Message
<1>3. Settled(mb, done, s[1].uid)
  BY <1>2, SettledNext DEF NoGap
<1>4. \A i \in DOMAIN Tail(s) : i + 1 \in DOMAIN s /\ Tail(s)[i] = s[i + 1]
  OBVIOUS
<1>5. Tail(s) # <<>> => Tail(s)[1] = s[2] /\ 2 \in DOMAIN s
  OBVIOUS
<1>6. Tail(s) # <<>> => s[2].uid = s[1].uid + 1
  BY <1>2, <1>5 DEF Consecutive
<1>7. Consecutive(mb, Tail(s))
  <2> SUFFICES ASSUME NEW i \in DOMAIN Tail(s)
               PROVE  /\ Tail(s)[i].uid = Tail(s)[1].uid + (i - 1)
                      /\ Tail(s)[i].uid <= Len(mb)
                      /\ Tail(s)[i].mail = mb[Tail(s)[i].uid]
    BY DEF Consecutive
  <2>1. Tail(s) # <<>> /\ i \in Nat
    OBVIOUS
  <2>2. /\ s[i + 1].uid = s[1].uid + ((i + 1) - 1)
        /\ s[i + 1].uid <= Len(mb)
        /\ s[i + 1].mail = mb[s[i + 1].uid]
    BY <1>4 DEF Consecutive
  <2>3. Tail(s)[i] = s[i + 1]
    BY <1>4
  <2>4. Tail(s)[1].uid = s[1].uid + 1
    BY <2>1, <1>5, <1>6
  <2> HIDE <1>4, <1>5
  <2> QED
    BY <1>2, <2>1, <2>2, <2>3, <2>4
<1>8. NoGap(mb, done, Tail(s))
  <2>1. Tail(s) # <<>> => Tail(s)[1].uid - 1 = s[1].uid
    BY <1>2, <1>5, <1>6
  <2> QED
    BY <1>3, <2>1 DEF NoGap
<1> QED
  BY <1>3, <1>7, <1>8
-----------------------------------------------------------------------------
(***************************************************************************)
(* The steps of a sync keep the copies settled.                            *)
(***************************************************************************)
LEMMA InitSettled == Init => CopiesSettled
<1> SUFFICES ASSUME Init PROVE CopiesSettled
  OBVIOUS
<1>1. mailbox \in Seq(Mails)
  BY InitType DEF TypeOK
<1>2. NoInfos.lastSeen = 0 /\ NoBox.lastSeen = 0
  BY DEF NoInfos, NoBox
<1>3. WorkerSettled(mailbox, Handled, NoInfos, NoBox, <<>>)
  BY <1>1, <1>2, SettledZero DEF WorkerSettled
<1>4. Settled(mailbox, Handled, NoInfos.lastSeen)
  BY <1>1, <1>2, SettledZero
<1> QED
  BY <1>3, <1>4 DEF Init, CopiesSettled

LEMMA StepSettled ==
    ASSUME IInv, NEW w \in Workers, Step(w)
    PROVE  CopiesSettled'
<1> USE Known
<1>1. CASE Start(w)
  <2>1. Handled' = Handled /\ infos' = infos /\ UNCHANGED remoteVars
    BY <1>1 DEF Start, Handled, dbVars, ldaVars
  <2>2. /\ local'[w] = infos /\ box' = box /\ fetched' = fetched
        /\ \A v \in Workers \ {w} : local'[v] = local[v]
    BY <1>1 DEF Start, IInv, TypeOK
  <2> QED
    BY <2>1, <2>2, WorkerStep DEF WorkerSettled
<1>2. CASE MarkSyncing(w)
  <2>1. Handled' = Handled /\ UNCHANGED remoteVars
    BY <1>2 DEF MarkSyncing, Handled, ldaVars
  <2>2. infos'.lastSeen = local[w].lastSeen
    BY <1>2 DEF MarkSyncing, Infos
  <2>3. /\ box'[w].lastSeen = local[w].lastSeen /\ local' = local /\ fetched' = fetched
        /\ \A v \in Workers \ {w} : box'[v] = box[v]
    BY <1>2 DEF MarkSyncing, IInv, TypeOK
  <2> QED
    BY <2>1, <2>2, <2>3, WorkerStep DEF WorkerSettled
<1>3. CASE LoginSucceeds(w)
  <2>1. Handled' = Handled /\ infos' = infos /\ UNCHANGED remoteVars
    BY <1>3 DEF LoginSucceeds, Handled, dbVars, ldaVars
  <2>2. /\ local'[w].lastSeen = local[w].lastSeen
        /\ box'[w].lastSeen = box[w].lastSeen
        /\ fetched'[w] = FetchFrom(From(w))
        /\ \A v \in Workers \ {w} :
              local'[v] = local[v] /\ box'[v] = box[v] /\ fetched'[v] = fetched[v]
    BY <1>3 DEF LoginSucceeds, IInv, TypeOK, Infos
  <2>3. From(w) \in Nat \ {0} /\ From(w) - 1 \in 0..box[w].lastSeen
    BY DEF From
  <2>4. /\ Consecutive(mailbox, FetchFrom(From(w)))
        /\ FetchFrom(From(w)) # <<>> => FetchFrom(From(w))[1].uid - 1 \in 0..(From(w) - 1)
    BY <2>3, FetchType DEF IInv
  <2>5. FetchFrom(From(w)) # <<>> => FetchFrom(From(w))[1].uid - 1 \in 0..box[w].lastSeen
    BY <2>3, <2>4
  <2>6. epoch = 1 => NoGap(mailbox, Handled, FetchFrom(From(w)))
    BY <2>5, SettledLess DEF NoGap, WorkerSettled
  <2>7. epoch = 1 => WorkerSettled(mailbox, Handled', local'[w], box'[w], fetched'[w])
    BY <2>1, <2>2, <2>4, <2>6 DEF WorkerSettled
  <2> QED
    BY <2>1, <2>2, <2>7, WorkerStep
<1>4. CASE SkipSeen(w)
  <2>1. Handled' = Handled /\ infos' = infos /\ UNCHANGED remoteVars
    BY <1>4 DEF SkipSeen, Handled, dbVars, ldaVars
  <2>2. /\ local' = local /\ box' = box /\ fetched'[w] = Tail(fetched[w])
        /\ \A v \in Workers \ {w} : fetched'[v] = fetched[v]
        /\ fetched[w] # <<>>
    BY <1>4 DEF SkipSeen, CanForward, IInv, TypeOK
  <2>3. fetched[w][1].uid \in 0..box[w].lastSeen
    BY <1>4, ForwardType DEF SkipSeen, Seen, IInv, Message
  <2>4. epoch = 1 => Settled(mailbox, Handled, fetched[w][1].uid)
    BY <2>3, SettledLess DEF WorkerSettled
  <2>5. epoch = 1 => /\ Consecutive(mailbox, Tail(fetched[w]))
                     /\ NoGap(mailbox, Handled, Tail(fetched[w]))
    BY <2>2, <2>4, TailSettled DEF WorkerSettled
  <2>6. epoch = 1 => WorkerSettled(mailbox, Handled', local'[w], box'[w], fetched'[w])
    BY <2>1, <2>2, <2>5 DEF WorkerSettled
  <2> QED
    BY <2>1, <2>2, <2>6, WorkerStep
<1>5. CASE DeliverMail(w)
  <2>1. infos' = infos /\ UNCHANGED remoteVars /\ Handled' = Handled \cup {Next1(w).mail}
    BY <1>5 DEF DeliverMail, Handled, dbVars
  <2>2. /\ local' = local /\ fetched'[w] = Tail(fetched[w])
        /\ \A v \in Workers \ {w} : box'[v] = box[v] /\ fetched'[v] = fetched[v]
        /\ box'[w].lastSeen = Next1(w).uid
    BY <1>5 DEF DeliverMail, CanForward, IInv, TypeOK
  <2>3. Next1(w) = fetched[w][1] /\ fetched[w] # <<>>
    BY <1>5, ForwardType DEF DeliverMail, IInv
  <2>4. epoch = 1 => WorkerSettled(mailbox, Handled', local[w], box[w], fetched[w])
    BY <2>1, WorkerGrows
  <2>5. epoch = 1 => /\ Settled(mailbox, Handled', fetched[w][1].uid)
                     /\ Consecutive(mailbox, Tail(fetched[w]))
                     /\ NoGap(mailbox, Handled', Tail(fetched[w]))
    BY <2>1, <2>3, <2>4, TailSettled DEF WorkerSettled
  <2>6. epoch = 1 => WorkerSettled(mailbox, Handled', local'[w], box'[w], fetched'[w])
    BY <2>2, <2>3, <2>4, <2>5 DEF WorkerSettled
  <2>7. epoch = 1 => Settled(mailbox, Handled', infos.lastSeen)
    BY <2>1, SettledGrows
  <2> QED
    BY <2>1, <2>2, <2>6, <2>7, WorkerStep
<1>6. CASE AbortBeforeSave(w)
  <2>1. Handled' = Handled /\ infos' = infos /\ UNCHANGED remoteVars
    BY <1>6 DEF AbortBeforeSave, Handled, dbVars, ldaVars
  <2> QED
    BY <1>6, <2>1, ReturnSettled, WorkerStep DEF AbortBeforeSave
<1>7. CASE SaveState(w)
  <2>1. Handled' = Handled /\ UNCHANGED remoteVars
    BY <1>7 DEF SaveState, Handled, ldaVars
  <2>2. infos'.lastSeen \in {local[w].lastSeen, box[w].lastSeen}
    BY <1>7 DEF SaveState, Infos
  <2>3. epoch = 1 => Settled(mailbox, Handled', infos'.lastSeen)
    BY <2>1, <2>2 DEF WorkerSettled
  <2> QED
    BY <1>7, <2>1, <2>3, ReturnSettled, WorkerStep DEF SaveState
<1> QED
  BY <1>1, <1>2, <1>3, <1>4, <1>5, <1>6, <1>7 DEF Step

LEMMA FailureSettled ==
    ASSUME IInv, NEW w \in Workers, Failure(w)
    PROVE  CopiesSettled'
<1> USE Known
<1>1. CASE LoginFails(w)
  <2>1. Handled' = Handled /\ UNCHANGED remoteVars
    BY <1>1 DEF LoginFails, Handled, ldaVars
  <2>2. infos'.lastSeen = local[w].lastSeen
    BY <1>1 DEF LoginFails, Infos
  <2>3. /\ local'[w].lastSeen = local[w].lastSeen /\ box' = box /\ fetched' = fetched
        /\ \A v \in Workers \ {w} : local'[v] = local[v]
    BY <1>1 DEF LoginFails, IInv, TypeOK, Infos
  <2> QED
    BY <2>1, <2>2, <2>3, WorkerStep DEF WorkerSettled
<1>2. CASE SelectFails(w)
  <2>1. Handled' = Handled /\ infos' = infos /\ UNCHANGED remoteVars
    BY <1>2 DEF SelectFails, Handled, dbVars, ldaVars
  <2>2. /\ local'[w].lastSeen = local[w].lastSeen /\ box' = box /\ fetched' = fetched
        /\ \A v \in Workers \ {w} : local'[v] = local[v]
    BY <1>2 DEF SelectFails, IInv, TypeOK, Infos
  <2> QED
    BY <2>1, <2>2, WorkerStep DEF WorkerSettled
<1>3. CASE FetchBreaks(w)
  <2>1. Handled' = Handled /\ infos' = infos /\ UNCHANGED remoteVars
    BY <1>3 DEF FetchBreaks, Handled, dbVars, ldaVars
  <2>2. /\ local' = local /\ box' = box /\ fetched'[w] = <<>>
        /\ \A v \in Workers \ {w} : fetched'[v] = fetched[v]
    BY <1>3 DEF FetchBreaks, IInv, TypeOK
  <2>3. Consecutive(mailbox, <<>>) /\ NoGap(mailbox, Handled, <<>>)
    BY SettledZero
  <2> QED
    BY <2>1, <2>2, <2>3, WorkerStep DEF WorkerSettled
<1>4. CASE DeliverMailFails(w)
  <2>1. /\ infos' = infos /\ UNCHANGED remoteVars
        /\ Handled \subseteq Handled' /\ Next1(w).mail \in Handled'
    BY <1>4 DEF DeliverMailFails, Handled, dbVars
  <2>2. /\ local' = local /\ box' = box /\ fetched'[w] = Tail(fetched[w])
        /\ \A v \in Workers \ {w} : fetched'[v] = fetched[v]
    BY <1>4 DEF DeliverMailFails, CanForward, IInv, TypeOK
  <2>3. Next1(w) = fetched[w][1] /\ fetched[w] # <<>>
    BY <1>4, ForwardType DEF DeliverMailFails, IInv
  <2>4. epoch = 1 => WorkerSettled(mailbox, Handled', local[w], box[w], fetched[w])
    BY <2>1, WorkerGrows
  <2>5. epoch = 1 => /\ Consecutive(mailbox, Tail(fetched[w]))
                     /\ NoGap(mailbox, Handled', Tail(fetched[w]))
    BY <2>1, <2>3, <2>4, TailSettled DEF WorkerSettled
  <2>6. epoch = 1 => WorkerSettled(mailbox, Handled', local'[w], box'[w], fetched'[w])
    BY <2>2, <2>4, <2>5 DEF WorkerSettled
  <2>7. epoch = 1 => Settled(mailbox, Handled', infos.lastSeen)
    BY <2>1, SettledGrows
  <2> QED
    BY <2>1, <2>2, <2>6, <2>7, WorkerStep
<1>5. CASE Crash(w)
  <2>1. Handled' = Handled /\ infos' = infos /\ UNCHANGED remoteVars
    BY <1>5 DEF Crash, Handled, dbVars, ldaVars
  <2> QED
    BY <1>5, <2>1, ReturnSettled, WorkerStep DEF Crash
<1> QED
  BY <1>1, <1>2, <1>3, <1>4, <1>5 DEF Failure

\* A message arrives: nothing that was settled moves.
LEMMA NewMailSettled ==
    ASSUME IInv, NEW m \in Mails, NewMail(m)
    PROVE  CopiesSettled'
<1> SUFFICES ASSUME epoch' = 1
             PROVE  /\ Settled(mailbox', Handled', infos'.lastSeen)
                    /\ \A w \in Workers :
                          WorkerSettled(mailbox', Handled', local'[w], box'[w], fetched'[w])
  BY DEF CopiesSettled
<1>1. /\ epoch = 1 /\ Handled' = Handled /\ infos' = infos
      /\ local' = local /\ box' = box /\ fetched' = fetched
      /\ mailbox' = Append(mailbox, m)
  BY DEF NewMail, Handled, dbVars, workerVars, ldaVars
<1>2. /\ mailbox \in Seq(Mails) /\ mailbox' \in Seq(Mails) /\ Len(mailbox) <= Len(mailbox')
      /\ \A i \in 1..Len(mailbox) : mailbox'[i] = mailbox[i]
  BY <1>1 DEF IInv, TypeOK
<1>3. Settled(mailbox', Handled, infos.lastSeen)
  BY <1>1, <1>2, SettledGrows DEF IInv, CopiesSettled
<1>4. ASSUME NEW w \in Workers
      PROVE  WorkerSettled(mailbox', Handled, local[w], box[w], fetched[w])
  BY <1>1, <1>2, Known, WorkerGrows
<1> QED
  BY <1>1, <1>3, <1>4

\* Time passes: no UID changes.
LEMMA TickSettled ==
    ASSUME IInv, Tick
    PROVE  CopiesSettled'
<1> SUFFICES ASSUME epoch' = 1
             PROVE  /\ Settled(mailbox', Handled', infos'.lastSeen)
                    /\ \A w \in Workers :
                          WorkerSettled(mailbox', Handled', local'[w], box'[w], fetched'[w])
  BY DEF CopiesSettled
<1>1. /\ epoch = 1 /\ mailbox' = mailbox /\ Handled' = Handled
      /\ box' = box /\ fetched' = fetched
  BY DEF Tick, Handled, remoteVars, ldaVars
<1>2. infos'.lastSeen = infos.lastSeen
  <2>1. OlderErrors(infos) \in Infos /\ OlderErrors(infos).lastSeen = infos.lastSeen
    BY OlderErrorsType DEF IInv, TypeOK
  <2> QED
    BY <2>1 DEF Tick, Infos
<1>3. \A w \in Workers : local'[w].lastSeen = local[w].lastSeen
  BY OlderErrorsType DEF Tick, IInv, TypeOK
<1> QED
  BY <1>1, <1>2, <1>3 DEF IInv, CopiesSettled, WorkerSettled

LEMMA IInvStep == IInv /\ [Next]_vars => IInv'
<1> SUFFICES ASSUME IInv, [Next]_vars PROVE CopiesSettled'
  BY TypeStep DEF IInv
<1>1. CASE ResetMailbox
  <2>1. epoch' # 1
    BY <1>1 DEF ResetMailbox, IInv, TypeOK
  <2> QED
    BY <2>1 DEF CopiesSettled
<1>2. CASE Reactivate \/ UNCHANGED vars
  BY <1>2 DEF Reactivate, vars, remoteVars, dbVars, workerVars, ldaVars, IInv, CopiesSettled, Handled
<1> QED
  BY <1>1, <1>2, NewMailSettled, TickSettled, StepSettled, FailureSettled DEF Next
-----------------------------------------------------------------------------
(***************************************************************************)
(* Theorems.                                                               *)
(***************************************************************************)
LEMMA Inductive == Spec => []IInv
<1>1. Init => IInv
  BY InitType, InitSettled DEF IInv
<1> QED
  BY <1>1, IInvStep, PTL DEF Spec

\* The types of the state (SyncRemoteWithLocal and what it writes to Infos).
THEOREM TypeCorrect == Spec => []TypeOK
<1>1. IInv => TypeOK
  BY DEF IInv
<1> QED
  BY <1>1, Inductive, PTL

\* The saved lastseenuid, and any copy of it that a worker may write back later, never
\* passes a message that was neither stored nor refused by the LDA, for any number of
\* workers that overlap, crash or run late.
THEOREM SkippedCorrect == Spec => []NothingSkippedUnseen
<1>1. IInv => NothingSkippedUnseen
  <2> SUFFICES ASSUME IInv, epoch = 1
               PROVE  /\ SettledUpTo(infos.lastSeen)
                      /\ \A w \in Workers : SettledUpTo(box[w].lastSeen)
    BY DEF NothingSkippedUnseen
  <2>1. mailbox \in Seq(Mails)
    BY DEF IInv, TypeOK
  <2>2. \A u : Settled(mailbox, Handled, u) => SettledUpTo(u)
    BY <2>1 DEF Settled, SettledUpTo, Handled
  <2> QED
    BY <2>2 DEF IInv, CopiesSettled, WorkerSettled
<1> QED
  BY <1>1, Inductive, PTL
=============================================================================

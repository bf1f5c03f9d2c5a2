------------------------- MODULE Encryption_proofs -------------------------
(***************************************************************************)
(* Theorems about Encryption, for all messages, keys and bounds.           *)
(***************************************************************************)
EXTENDS Encryption, FiniteSetTheorems, TLAPS

\* A passphrase that is known has a timer of its own, which started when it was given.
PassphrasesTimed ==
    \A k \in Keys : secret[k] \in Given => age[k] <= TTL /\ TTL - age[k] \in timers[k]

\* The inductive invariant.
IInv == TypeOK /\ PassphrasesTimed /\ WaitsForAsked
-----------------------------------------------------------------------------
(***************************************************************************)
(* What a thunk writes has the right type.                                 *)
(***************************************************************************)
LEMMA NewTaskType ==
    ASSUME NEW m \in Messages, NEW awaited \in Awaited
    PROVE  NewTask(m, awaited) \in Task
BY DEF NewTask, Task, Given

LEMMA TaskMessage ==
    ASSUME TypeOK, NEW i \in DOMAIN tasks
    PROVE  tasks[i] \in Task /\ tasks[i].message \in Messages /\ tasks[i].key \in Keys \cup {None}
<1>1. tasks \in Seq(Task)
  BY DEF TypeOK
<1>2. tasks[i] \in Task
  BY <1>1
<1> QED
  BY <1>2 DEF Task

LEMMA GoType ==
    ASSUME TypeOK, NEW i \in DOMAIN tasks, NEW awaited \in Awaited, Go(i, awaited)
    PROVE  tasks' \in Seq(Task)
<1>1. NewTask(tasks[i].message, awaited) \in Task
  BY TaskMessage, NewTaskType
<1>2. tasks \in Seq(Task)
  BY DEF TypeOK
<1> QED
  BY <1>1, <1>2 DEF Go

LEMMA WriteType ==
    ASSUME TypeOK, NEW i \in DOMAIN tasks, NEW e \in Entry, Write(i, e)
    PROVE  entry' \in [Messages -> Entry]
BY TaskMessage DEF Write, TypeOK

LEMMA StatusEntry ==
    ASSUME NEW status \in Status
    PROVE  Is(status) \in Entry /\ Is(status).waitsFor = {}
BY DEF Is, Entry

LEMMA WaitingEntry ==
    ASSUME NEW keys \in SUBSET Keys
    PROVE  WaitsFor(keys) \in Entry /\ WaitsFor(keys).waitsFor = keys
BY DEF WaitsFor, Entry, Status

\* The thunks of a retry: as many as there are messages.
LEMMA RetryType ==
    ASSUME NEW ms \in SUBSET Messages, NEW s \in TasksFor(ms)
    PROVE  s \in Seq(Task)
<1>1. Cardinality(ms) \in Nat
  BY MessagesAssumption, FS_Subset, FS_CardinalityType
<1>2. {NewTask(m, "keyring") : m \in ms} \subseteq Task
  BY NewTaskType DEF Awaited
<1>3. s \in [1..Cardinality(ms) -> Task]
  BY <1>2 DEF TasksFor
<1> QED
  BY <1>1, <1>3
-----------------------------------------------------------------------------
(***************************************************************************)
(* The two other conjuncts of the invariant, for steps that leave most of  *)
(* what they are about alone.                                              *)
(***************************************************************************)
\* A step that gives no passphrase and starts no timer.
LEMMA TimedFrame ==
    ASSUME PassphrasesTimed, UNCHANGED <<timers, age>>,
           \A k \in Keys : secret'[k] \in Given => secret'[k] = secret[k]
    PROVE  PassphrasesTimed'
BY DEF PassphrasesTimed

LEMMA AskedFrame ==
    ASSUME WaitsForAsked,
           \A k \in Keys : secret[k] \in Asked => secret'[k] \in Asked,
           \A m \in Messages : entry'[m] = entry[m] \/ entry'[m].waitsFor = {},
           TypeOK
    PROVE  WaitsForAsked'
<1> SUFFICES ASSUME NEW m \in Messages, NEW k \in entry'[m].waitsFor
             PROVE  secret'[k] \in Asked
  BY DEF WaitsForAsked
<1>1. entry'[m] = entry[m]
  OBVIOUS
<1>2. k \in Keys
  BY <1>1 DEF TypeOK, Entry
<1> QED
  BY <1>1, <1>2 DEF WaitsForAsked

LEMMA AskStep ==
    ASSUME TypeOK, NEW keys \in SUBSET Keys, Ask(keys)
    PROVE  /\ secret' \in [Keys -> Secret]
           /\ \A k \in Keys : secret'[k] \in Given => secret'[k] = secret[k]
           /\ \A k \in Keys : secret[k] \in Asked => secret'[k] \in Asked
           /\ \A k \in keys : secret'[k] \in Asked
BY DEF TypeOK, Ask, Secret, Asked, Given

\* A thunk that ends its wait by writing a status that waits for nothing.
LEMMA WritesStatus ==
    ASSUME IInv, NEW i \in DOMAIN tasks, NEW status \in Status, NEW awaited \in Awaited,
           Write(i, Is(status)), Go(i, awaited), UNCHANGED <<secret, timers, age, mistaken>>
    PROVE  IInv'
<1>1. TypeOK'
  <2>1. entry' \in [Messages -> Entry]
    BY StatusEntry, WriteType DEF IInv
  <2>2. tasks' \in Seq(Task)
    BY GoType DEF IInv
  <2> QED
    BY <2>1, <2>2 DEF IInv, TypeOK
<1>2. PassphrasesTimed'
  BY TimedFrame DEF IInv
<1>3. WaitsForAsked'
  <2>1. \A m \in Messages : entry'[m] = entry[m] \/ entry'[m].waitsFor = {}
    BY StatusEntry, TaskMessage DEF Write, IInv, TypeOK
  <2> QED
    BY <2>1, AskedFrame DEF IInv
<1> QED
  BY <1>1, <1>2, <1>3 DEF IInv

\* A thunk that goes on and writes nothing.
LEMMA WritesNothing ==
    ASSUME IInv, tasks' \in Seq(Task), UNCHANGED <<secret, entry, timers, age, mistaken>>
    PROVE  IInv'
<1>1. TypeOK'
  BY DEF IInv, TypeOK
<1>2. PassphrasesTimed'
  BY TimedFrame DEF IInv
<1>3. WaitsForAsked'
  BY AskedFrame DEF IInv
<1> QED
  BY <1>1, <1>2, <1>3 DEF IInv
-----------------------------------------------------------------------------
(***************************************************************************)
(* One lemma per group of actions.                                         *)
(***************************************************************************)
LEMMA StartsPreserve ==
    ASSUME IInv, NEW m \in Messages, Load(m) \/ Save(m)
    PROVE  IInv'
<1>1. CASE Load(m)
  <2>1. TypeOK'
    BY <1>1, StatusEntry, NewTaskType DEF Load, IInv, TypeOK, Awaited, Status
  <2>2. PassphrasesTimed'
    BY <1>1, TimedFrame DEF Load, IInv
  <2>3. WaitsForAsked'
    <3>1. \A n \in Messages : entry'[n] = entry[n] \/ entry'[n].waitsFor = {}
      BY <1>1, StatusEntry DEF Load, IInv, TypeOK, Status
    <3> QED
      BY <1>1, <3>1, AskedFrame DEF Load, IInv
  <2> QED
    BY <2>1, <2>2, <2>3 DEF IInv
<1>2. CASE Save(m)
  <2>1. tasks' \in Seq(Task)
    BY <1>2, NewTaskType DEF Save, IInv, TypeOK, Awaited
  <2> QED
    BY <1>2, <2>1, WritesNothing DEF Save
<1> QED
  BY <1>1, <1>2

LEMMA PassphraseMissingPreserves ==
    ASSUME IInv, NEW i \in DOMAIN tasks, NEW found \in SUBSET Keys, PassphraseMissing(i, found)
    PROVE  IInv'
<1> USE DEF PassphraseMissing
<1>1. TypeOK'
  <2>1. entry' \in [Messages -> Entry]
    BY WaitingEntry, WriteType DEF IInv
  <2>2. tasks' \in Seq(Task)
    BY GoType DEF IInv, Awaited
  <2>3. secret' \in [Keys -> Secret]
    BY AskStep DEF IInv
  <2> QED
    BY <2>1, <2>2, <2>3 DEF IInv, TypeOK
<1>2. PassphrasesTimed'
  BY AskStep, TimedFrame DEF IInv
<1>3. WaitsForAsked'
  <2> SUFFICES ASSUME NEW m \in Messages, NEW k \in entry'[m].waitsFor
               PROVE  secret'[k] \in Asked
    BY DEF WaitsForAsked
  <2>1. CASE m = tasks[i].message
    <3>1. entry'[m].waitsFor = found
      BY <2>1, WaitingEntry DEF Write, IInv, TypeOK
    <3> QED
      BY <3>1, AskStep DEF IInv
  <2>2. CASE m # tasks[i].message
    <3>1. entry'[m] = entry[m]
      BY <2>2 DEF Write, IInv, TypeOK
    <3>2. k \in Keys
      BY <3>1 DEF IInv, TypeOK, Entry
    <3> QED
      BY <3>1, <3>2, AskStep DEF IInv, WaitsForAsked
  <2> QED
    BY <2>1, <2>2
<1> QED
  BY <1>1, <1>2, <1>3 DEF IInv

LEMMA WrongPassphrasePreserves ==
    ASSUME IInv, NEW i \in DOMAIN tasks, WrongPassphrase(i)
    PROVE  IInv'
<1> USE DEF WrongPassphrase
<1> DEFINE asked == {tasks[i].key} \cap Keys
<1>1. Ask(asked)
  BY DEF Ask
<1>2. TypeOK'
  <2>1. tasks' \in Seq(Task)
    BY GoType DEF IInv, Awaited
  <2> QED
    BY <1>1, <2>1, AskStep DEF IInv, TypeOK
<1>3. PassphrasesTimed'
  BY <1>1, AskStep, TimedFrame DEF IInv
<1>4. WaitsForAsked'
  BY <1>1, AskStep, AskedFrame DEF IInv
<1> QED
  BY <1>2, <1>3, <1>4 DEF IInv

LEMMA PassphraseFoundPreserves ==
    ASSUME IInv, NEW i \in DOMAIN tasks, NEW found \in SUBSET Keys, PassphraseFound(i, found)
    PROVE  IInv'
<1>1. PICK k \in Usable(found) :
          tasks' = [tasks EXCEPT ![i].awaits = "unlocking", ![i].key = k,
                                 ![i].passphrase = secret[k]]
  BY DEF PassphraseFound
<1>2. [tasks[i] EXCEPT !.awaits = "unlocking", !.key = k, !.passphrase = secret[k]] \in Task
  <2>1. k \in Keys /\ secret[k] \in Given
    BY DEF Usable
  <2>2. tasks[i] \in Task
    BY TaskMessage DEF IInv
  <2> QED
    BY <2>1, <2>2 DEF Task, Awaited
<1>3. tasks' = [tasks EXCEPT ![i] =
          [tasks[i] EXCEPT !.awaits = "unlocking", !.key = k, !.passphrase = secret[k]]]
  BY <1>1
<1>4. tasks' \in Seq(Task)
  BY <1>2, <1>3 DEF IInv, TypeOK
<1> QED
  BY <1>4, WritesNothing DEF PassphraseFound

LEMMA ResumePreserves ==
    ASSUME IInv, NEW i \in DOMAIN tasks, Resume(i)
    PROVE  IInv'
<1>1. Found(i) \subseteq SUBSET Keys
  BY TaskMessage, KeysAssumption DEF Found, IInv
<1>2. ASSUME NEW found \in SUBSET Keys, OpenFound(i, found) PROVE IInv'
  <2>1. tasks' \in Seq(Task)
    BY <1>2, GoType DEF OpenFound, IInv, Awaited
  <2> QED
    BY <1>2, <2>1, WritesNothing DEF OpenFound
<1>3. ASSUME NoKeyFound(i) PROVE IInv'
  BY <1>3, WritesStatus DEF NoKeyFound, Status, Awaited
<1>8. ASSUME KeyringFails(i) PROVE IInv'
  BY <1>8, WritesStatus DEF KeyringFails, Status, Awaited
<1>4. ASSUME Unlocked(i) PROVE IInv'
  <2>1. tasks' \in Seq(Task)
    BY <1>4, GoType DEF Unlocked, IInv, Awaited
  <2> QED
    BY <1>4, <2>1, WritesNothing DEF Unlocked
<1>5. ASSUME Decrypted(i) PROVE IInv'
  <2>1. PICK status \in {"decrypted", "error"} : Write(i, Is(status))
    BY <1>5 DEF Decrypted
  <2> QED
    BY <1>5, <2>1, WritesStatus DEF Decrypted, Status, Awaited
<1>6. ASSUME RecipientsFound(i) PROVE IInv'
  BY <1>6, WritesStatus DEF RecipientsFound, Status, Awaited
<1>7. ASSUME Encrypted(i) PROVE IInv'
  <2>1. PICK status \in {"encrypted", "error"} : Write(i, Is(status))
    BY <1>7 DEF Encrypted
  <2> QED
    BY <1>7, <2>1, WritesStatus DEF Encrypted, Status, Awaited
<1> QED
  BY <1>1, <1>2, <1>3, <1>4, <1>5, <1>6, <1>7, <1>8, PassphraseFoundPreserves,
     PassphraseMissingPreserves, WrongPassphrasePreserves DEF Resume

LEMMA SetPassphrasePreserves ==
    ASSUME IInv, NEW k \in Keys, NEW p \in Given, SetPassphrase(k, p)
    PROVE  IInv'
<1> DEFINE retried == EncryptedWith(k)
<1>1. retried \subseteq Messages
  BY DEF EncryptedWith
<1>2. TypeOK'
  <2>1. tasks' \in Seq(Task)
    <3>1. PICK s \in TasksFor(retried) : tasks' = tasks \o s
      BY DEF SetPassphrase
    <3>2. s \in Seq(Task)
      BY <1>1, RetryType
    <3> QED
      BY <3>1, <3>2 DEF IInv, TypeOK
  <2>2. entry' \in [Messages -> Entry]
    BY StatusEntry DEF SetPassphrase, IInv, TypeOK, Status
  <2>3. timers' \in [Keys -> SUBSET (0..TTL)] /\ age' \in [Keys -> Nat]
    BY EncryptionBoundsAssumption DEF SetPassphrase, Arm, IInv, TypeOK
  <2>4. secret' \in [Keys -> Secret] /\ mistaken' \in BOOLEAN
    BY DEF SetPassphrase, IInv, TypeOK, Secret
  <2> QED
    BY <2>1, <2>2, <2>3, <2>4 DEF TypeOK
<1>3. PassphrasesTimed'
  <2> SUFFICES ASSUME NEW l \in Keys, secret'[l] \in Given
               PROVE  age'[l] <= TTL /\ TTL - age'[l] \in timers'[l]
    BY DEF PassphrasesTimed
  <2>1. CASE l = k
    BY <2>1, EncryptionBoundsAssumption DEF SetPassphrase, Arm, IInv, TypeOK
  <2>2. CASE l # k
    BY <2>2 DEF SetPassphrase, Arm, IInv, TypeOK, PassphrasesTimed
  <2> QED
    BY <2>1, <2>2
<1>4. WaitsForAsked'
  <2> SUFFICES ASSUME NEW m \in Messages, NEW l \in entry'[m].waitsFor
               PROVE  secret'[l] \in Asked
    BY DEF WaitsForAsked
  <2>1. m \notin retried
    BY StatusEntry DEF SetPassphrase, IInv, TypeOK, Status
  <2>2. entry'[m] = entry[m]
    BY <2>1 DEF SetPassphrase, IInv, TypeOK
  <2>3. l \in Keys /\ l # k
    BY <2>1, <2>2 DEF EncryptedWith, IInv, TypeOK, Entry
  <2>4. secret'[l] = secret[l]
    BY <2>3 DEF SetPassphrase, IInv, TypeOK
  <2> QED
    BY <2>2, <2>4 DEF IInv, WaitsForAsked
<1> QED
  BY <1>2, <1>3, <1>4 DEF IInv

LEMMA ExpirePreserves ==
    ASSUME IInv, NEW k \in Keys, Expire(k)
    PROVE  IInv'
<1>1. TypeOK'
  BY DEF Expire, IInv, TypeOK, Secret, Asked
<1>2. PassphrasesTimed'
  BY DEF Expire, IInv, TypeOK, PassphrasesTimed, Given
<1>3. WaitsForAsked'
  BY AskedFrame DEF Expire, IInv, TypeOK, Asked
<1> QED
  BY <1>1, <1>2, <1>3 DEF IInv

\* No timer is late, so a passphrase that is still there has a timer left to wait for.
LEMMA TickPreserves ==
    ASSUME IInv, Tick
    PROVE  IInv'
<1>1. \A k \in Keys : \A d \in timers[k] : d \in 1..TTL
  BY EncryptionBoundsAssumption DEF Tick, IInv, TypeOK
<1>2. TypeOK'
  <2>1. \A k \in Keys : {d - 1 : d \in timers[k]} \in SUBSET (0..TTL)
    BY <1>1, EncryptionBoundsAssumption
  <2> QED
    BY <2>1 DEF Tick, IInv, TypeOK
<1>3. PassphrasesTimed'
  <2> SUFFICES ASSUME NEW k \in Keys, secret[k] \in Given
               PROVE  age'[k] <= TTL /\ TTL - age'[k] \in timers'[k]
    BY DEF PassphrasesTimed, Tick
  <2>1. age[k] \in Nat /\ TTL - age[k] \in timers[k]
    BY DEF IInv, TypeOK, PassphrasesTimed
  <2>2. TTL - age[k] \in 1..TTL
    BY <1>1, <2>1
  <2>3. age'[k] = age[k] + 1 /\ timers'[k] = {d - 1 : d \in timers[k]}
    BY DEF Tick
  <2>4. (TTL - age[k]) - 1 \in timers'[k]
    BY <2>1, <2>3
  <2>5. (TTL - age[k]) - 1 = TTL - age'[k]
    BY <2>1, <2>3, EncryptionBoundsAssumption
  <2> QED
    BY <2>1, <2>2, <2>3, <2>4, <2>5, EncryptionBoundsAssumption
<1>4. WaitsForAsked'
  BY DEF Tick, IInv, WaitsForAsked
<1> QED
  BY <1>2, <1>3, <1>4 DEF IInv
-----------------------------------------------------------------------------
LEMMA InitHolds == Init => IInv
<1> SUFFICES ASSUME Init PROVE IInv
  OBVIOUS
<1>1. TypeOK
  <2>1. Is("none") \in Entry
    BY StatusEntry DEF Status
  <2>2. tasks \in Seq(Task)
    BY DEF Init
  <2> QED
    BY <2>1, <2>2 DEF Init, TypeOK, Secret
<1>2. PassphrasesTimed
  BY DEF Init, PassphrasesTimed, Given
<1>3. WaitsForAsked
  BY DEF Init, WaitsForAsked, Is
<1> QED
  BY <1>1, <1>2, <1>3 DEF IInv

LEMMA StepPreserves == IInv /\ [Next]_vars => IInv'
<1> SUFFICES ASSUME IInv, [Next]_vars PROVE IInv'
  OBVIOUS
<1>1. CASE \E m \in Messages : Load(m) \/ Save(m)
  BY <1>1, StartsPreserve
<1>2. CASE \E i \in DOMAIN tasks : Resume(i)
  BY <1>2, ResumePreserves
<1>3. CASE \E k \in Keys : Expire(k)
  BY <1>3, ExpirePreserves
<1>4. CASE \E k \in Keys : \E p \in Given : SetPassphrase(k, p)
  BY <1>4, SetPassphrasePreserves
<1>5. CASE Tick
  BY <1>5, TickPreserves
<1>6. CASE UNCHANGED vars
  BY <1>6 DEF vars, IInv, TypeOK, PassphrasesTimed, WaitsForAsked
<1> QED
  BY <1>1, <1>2, <1>3, <1>4, <1>5, <1>6 DEF Next

LEMMA Invariance == Spec => []IInv
BY InitHolds, StepPreserves, PTL DEF Spec

\* Type correctness: in particular, no timer of setPassphrase outlasts its delay.
THEOREM TypeCorrect == Spec => []TypeOK
BY Invariance, PTL DEF IInv

\* A passphrase is in memory for TTL at most, whatever the user enters and whichever
\* thunks fail meanwhile.
THEOREM ForgottenCorrect == Spec => []PassphraseForgotten
<1>1. IInv => PassphraseForgotten
  BY DEF IInv, PassphrasesTimed, PassphraseForgotten
<1> QED
  BY <1>1, Invariance, PTL

\* A message waits only for passphrases that were asked for and are not known.
THEOREM WaitsCorrect == Spec => []WaitsForAsked
BY Invariance, PTL DEF IInv
-----------------------------------------------------------------------------
(***************************************************************************)
(* A message that is being decrypted or encrypted has a thunk that will    *)
(* say how it ended.                                                       *)
(***************************************************************************)
Deciphers == {"keyring", "unlocking", "decryption"}

\* A thunk of ts is at work on message m.
AtWork(ts, m, awaited) == \E i \in DOMAIN ts : ts[i].message = m /\ ts[i].awaits \in awaited

\* While the user makes no mistake, the passphrases in memory and in hand are right.
NoMistake ==
    /\ \A k \in Keys : secret[k] # "wrong"
    /\ \A i \in DOMAIN tasks : tasks[i].awaits = "unlocking" => tasks[i].passphrase = "right"

\* What is shown as being worked on is in hand.
InHand ==
    ~mistaken =>
        \A m \in Messages :
            /\ entry[m].status = "decrypting" => AtWork(tasks, m, Deciphers)
            /\ entry[m].status = "encrypting" => AtWork(tasks, m, {"encryption"})

HInv == IInv /\ (~mistaken => NoMistake) /\ InHand

(* What a thunk that goes on leaves of the others. *)
LEMMA OthersAtWork ==
    ASSUME TypeOK, NEW i \in DOMAIN tasks, NEW t, tasks' = [tasks EXCEPT ![i] = t]
    PROVE  /\ DOMAIN tasks' = DOMAIN tasks /\ tasks'[i] = t
           /\ \A j \in DOMAIN tasks : j # i => tasks'[j] = tasks[j]
           /\ \A m \in Messages \ {tasks[i].message}, awaited \in SUBSET Awaited :
                 AtWork(tasks, m, awaited) => AtWork(tasks', m, awaited)
<1>1. tasks \in Seq(Task)
  BY DEF TypeOK
<1>2. /\ DOMAIN tasks' = DOMAIN tasks /\ tasks'[i] = t
      /\ \A j \in DOMAIN tasks : j # i => tasks'[j] = tasks[j]
  BY <1>1
<1>3. QED
  BY <1>2 DEF AtWork

LEMMA GoIs ==
    ASSUME TypeOK, NEW i \in DOMAIN tasks, NEW awaited, Go(i, awaited)
    PROVE  /\ tasks' = [tasks EXCEPT ![i] = NewTask(tasks[i].message, awaited)]
           /\ NewTask(tasks[i].message, awaited).message = tasks[i].message
           /\ NewTask(tasks[i].message, awaited).awaits = awaited
BY DEF Go, NewTask

(* A thunk ends a wait by writing the entry of its message. *)
LEMMA WritesInHand ==
    ASSUME HInv, NEW i \in DOMAIN tasks, NEW e \in Entry, NEW awaited \in Awaited,
           Write(i, e), Go(i, awaited), UNCHANGED mistaken,
           \A k \in Keys : secret'[k] # "wrong" \/ secret'[k] = secret[k],
           awaited # "unlocking", e.status # "decrypting",
           e.status = "encrypting" => awaited = "encryption"
    PROVE  (~mistaken' => NoMistake') /\ InHand'
<1> DEFINE n == tasks[i].message
           t == NewTask(n, awaited)
<1>1. TypeOK /\ n \in Messages
  BY TaskMessage DEF HInv, IInv
<1>2. /\ tasks' = [tasks EXCEPT ![i] = t] /\ t.message = n /\ t.awaits = awaited
  BY <1>1, GoIs
<1>3. /\ DOMAIN tasks' = DOMAIN tasks /\ tasks'[i] = t
      /\ \A j \in DOMAIN tasks : j # i => tasks'[j] = tasks[j]
      /\ \A m \in Messages \ {n}, aw \in SUBSET Awaited :
            AtWork(tasks, m, aw) => AtWork(tasks', m, aw)
  BY <1>1, <1>2, OthersAtWork
<1>4. entry'[n] = e /\ \A m \in Messages \ {n} : entry'[m] = entry[m]
  BY <1>1 DEF Write, TypeOK
<1> HIDE DEF n, t
<1>5. ~mistaken' => NoMistake'
  <2>1. ~mistaken' => \A k \in Keys : secret'[k] # "wrong"
    BY DEF HInv, NoMistake
  <2>2. ~mistaken' => \A j \in DOMAIN tasks' :
            tasks'[j].awaits = "unlocking" => tasks'[j].passphrase = "right"
    BY <1>2, <1>3 DEF HInv, NoMistake
  <2>3. QED
    BY <2>1, <2>2 DEF NoMistake
<1>6. InHand'
  <2> SUFFICES ASSUME ~mistaken, NEW m \in Messages
               PROVE  /\ entry'[m].status = "decrypting" => AtWork(tasks', m, Deciphers)
                      /\ entry'[m].status = "encrypting" => AtWork(tasks', m, {"encryption"})
    BY DEF InHand
  <2>1. CASE m = n
    BY <1>2, <1>3, <1>4, <2>1 DEF AtWork
  <2>2. CASE m # n
    <3>1. Deciphers \in SUBSET Awaited /\ {"encryption"} \in SUBSET Awaited
      BY DEF Deciphers, Awaited
    <3>2. QED
      BY <1>3, <1>4, <2>2, <3>1 DEF HInv, InHand
  <2>3. QED
    BY <2>1, <2>2
<1>7. QED
  BY <1>5, <1>6

(* A thunk goes on with the same message and writes nothing. *)
LEMMA GoesOnInHand ==
    ASSUME HInv, NEW i \in DOMAIN tasks, NEW t, tasks' = [tasks EXCEPT ![i] = t],
           t.message = tasks[i].message, t.awaits \in Deciphers, tasks[i].awaits \in Deciphers,
           ~mistaken /\ t.awaits = "unlocking" => t.passphrase = "right",
           UNCHANGED <<secret, entry, mistaken>>
    PROVE  (~mistaken' => NoMistake') /\ InHand'
<1>1. TypeOK
  BY DEF HInv, IInv
<1>2. /\ DOMAIN tasks' = DOMAIN tasks /\ tasks'[i] = t
      /\ \A j \in DOMAIN tasks : j # i => tasks'[j] = tasks[j]
  BY <1>1, OthersAtWork
<1>3. \A m \in Messages : AtWork(tasks, m, Deciphers) => AtWork(tasks', m, Deciphers)
  BY <1>2 DEF AtWork
<1>4. \A m \in Messages : AtWork(tasks, m, {"encryption"}) => AtWork(tasks', m, {"encryption"})
  BY <1>2 DEF AtWork, Deciphers
<1>5. ~mistaken' => NoMistake'
  BY <1>2 DEF HInv, NoMistake
<1>6. InHand'
  BY <1>3, <1>4 DEF HInv, InHand
<1>7. QED
  BY <1>5, <1>6

LEMMA ResumeInHand ==
    ASSUME HInv, NEW i \in DOMAIN tasks, Resume(i)
    PROVE  (~mistaken' => NoMistake') /\ InHand'
<1>1. TypeOK /\ Found(i) \subseteq SUBSET Keys
  BY TaskMessage, KeysAssumption DEF Found, HInv, IInv
<1>2. tasks[i] \in Task
  BY <1>1, TaskMessage
<1>3. ASSUME NEW found \in SUBSET Keys, OpenFound(i, found) PROVE (~mistaken' => NoMistake') /\ InHand'
  BY <1>1, <1>3, GoIs, GoesOnInHand DEF OpenFound, Awaits, Deciphers
<1>4. ASSUME NEW found \in SUBSET Keys, PassphraseFound(i, found)
      PROVE  (~mistaken' => NoMistake') /\ InHand'
  <2>1. PICK k \in Usable(found) :
            tasks' = [tasks EXCEPT ![i].awaits = "unlocking", ![i].key = k,
                                   ![i].passphrase = secret[k]]
    BY <1>4 DEF PassphraseFound
  <2> DEFINE t == [tasks[i] EXCEPT !.awaits = "unlocking", !.key = k, !.passphrase = secret[k]]
  <2>2. tasks' = [tasks EXCEPT ![i] = t]
    BY <2>1
  <2>3. t.message = tasks[i].message /\ t.awaits = "unlocking" /\ t.passphrase = secret[k]
    BY <1>2 DEF Task
  <2>4. ~mistaken => secret[k] = "right"
    BY DEF HInv, NoMistake, Usable, Given
  <2> HIDE DEF t
  <2>5. QED
    BY <1>4, <2>2, <2>3, <2>4, GoesOnInHand DEF PassphraseFound, Awaits, Deciphers
<1>5. ASSUME NEW found \in SUBSET Keys, PassphraseMissing(i, found)
      PROVE  (~mistaken' => NoMistake') /\ InHand'
  <2>1. WaitsFor(found) \in Entry /\ WaitsFor(found).status = "need_passphrase"
    BY WaitingEntry DEF WaitsFor
  <2>2. \A k \in Keys : secret'[k] # "wrong" \/ secret'[k] = secret[k]
    BY <1>5 DEF PassphraseMissing, Ask
  <2>3. QED
    BY <1>5, <2>1, <2>2, WritesInHand DEF PassphraseMissing, Awaited
<1>6. ASSUME NEW status \in Status, NEW awaited \in Awaited, Write(i, Is(status)), Go(i, awaited),
             UNCHANGED <<secret, mistaken>>, status # "decrypting", awaited # "unlocking",
             status = "encrypting" => awaited = "encryption"
      PROVE  (~mistaken' => NoMistake') /\ InHand'
  <2>1. Is(status) \in Entry /\ Is(status).status = status
    BY StatusEntry DEF Is
  <2>2. QED
    BY <1>6, <2>1, WritesInHand
<1>7. CASE NoKeyFound(i)
  BY <1>6, <1>7 DEF NoKeyFound, Status, Awaited
<1>8. CASE Unlocked(i)
  BY <1>1, <1>8, GoIs, GoesOnInHand DEF Unlocked, Awaits, Deciphers
<1>9. CASE WrongPassphrase(i)
  <2>1. mistaken /\ mistaken'
    BY <1>9 DEF WrongPassphrase, Awaits, HInv, NoMistake, IInv, TypeOK
  <2>2. QED
    BY <2>1 DEF InHand
<1>10. CASE Decrypted(i)
  <2>1. PICK status \in {"decrypted", "error"} : Write(i, Is(status))
    BY <1>10 DEF Decrypted
  <2>2. QED
    BY <1>6, <1>10, <2>1 DEF Decrypted, Status, Awaited
<1>11. CASE RecipientsFound(i)
  BY <1>6, <1>11 DEF RecipientsFound, Status, Awaited
<1>12. CASE Encrypted(i)
  <2>1. PICK status \in {"encrypted", "error"} : Write(i, Is(status))
    BY <1>12 DEF Encrypted
  <2>2. QED
    BY <1>6, <1>12, <2>1 DEF Encrypted, Status, Awaited
<1>13. CASE KeyringFails(i)
  BY <1>6, <1>13 DEF KeyringFails, Status, Awaited
<1>14. QED
  BY <1>1, <1>3, <1>4, <1>5, <1>7, <1>8, <1>9, <1>10, <1>11, <1>12, <1>13 DEF Resume

(* Thunks that start. *)
LEMMA StartedAtWork ==
    ASSUME TypeOK, NEW s \in Seq(Task), tasks' = tasks \o s
    PROVE  /\ \A m \in Messages, aw \in SUBSET Awaited :
                 AtWork(tasks, m, aw) \/ AtWork(s, m, aw) => AtWork(tasks', m, aw)
           /\ \A i \in DOMAIN tasks' : \/ i \in DOMAIN tasks /\ tasks'[i] = tasks[i]
                                       \/ \E j \in DOMAIN s : tasks'[i] = s[j]
<1>1. tasks \in Seq(Task)
  BY DEF TypeOK
<1>2. /\ \A i \in DOMAIN tasks : i \in DOMAIN tasks' /\ tasks'[i] = tasks[i]
      /\ \A j \in DOMAIN s : Len(tasks) + j \in DOMAIN tasks' /\ tasks'[Len(tasks) + j] = s[j]
  BY <1>1
<1>3. \A i \in DOMAIN tasks' : \/ i \in DOMAIN tasks /\ tasks'[i] = tasks[i]
                              \/ \E j \in DOMAIN s : tasks'[i] = s[j]
  <2> SUFFICES ASSUME NEW i \in DOMAIN tasks', i \notin DOMAIN tasks
               PROVE  \E j \in DOMAIN s : tasks'[i] = s[j]
    BY <1>2
  <2>1. i - Len(tasks) \in DOMAIN s /\ tasks'[i] = s[i - Len(tasks)]
    BY <1>1
  <2>2. QED
    BY <2>1
<1>4. \A m \in Messages, aw \in SUBSET Awaited :
         AtWork(tasks, m, aw) \/ AtWork(s, m, aw) => AtWork(tasks', m, aw)
  BY <1>2 DEF AtWork
<1>5. QED
  BY <1>3, <1>4

LEMMA StartsInHand ==
    ASSUME HInv, NEW m \in Messages, Load(m) \/ Save(m)
    PROVE  (~mistaken' => NoMistake') /\ InHand'
<1>1. PICK aw \in {"keyring", "recipients"} :
          /\ tasks' = Append(tasks, NewTask(m, aw))
          /\ \/ aw = "keyring" /\ entry' = [entry EXCEPT ![m] = Is("decrypting")]
             \/ UNCHANGED entry
  BY DEF Load, Save
<1> DEFINE s == <<NewTask(m, aw)>>
<1>2. NewTask(m, aw) \in Task /\ NewTask(m, aw).message = m /\ NewTask(m, aw).awaits = aw
  BY NewTaskType DEF Awaited, NewTask
<1>3. TypeOK
  BY DEF HInv, IInv
<1>4. s \in Seq(Task) /\ tasks' = tasks \o s /\ DOMAIN s = {1} /\ s[1] = NewTask(m, aw)
  BY <1>1, <1>2, <1>3 DEF TypeOK
<1> HIDE DEF s
<1>5. ~mistaken' => NoMistake'
  BY <1>2, <1>3, <1>4, StartedAtWork DEF HInv, NoMistake, Load, Save
<1>6. InHand'
  <2> SUFFICES ASSUME ~mistaken, NEW n \in Messages
               PROVE  /\ entry'[n].status = "decrypting" => AtWork(tasks', n, Deciphers)
                      /\ entry'[n].status = "encrypting" => AtWork(tasks', n, {"encryption"})
    BY DEF InHand, Load, Save
  <2>1. Deciphers \in SUBSET Awaited /\ {"encryption"} \in SUBSET Awaited
    BY DEF Deciphers, Awaited
  <2>2. CASE entry'[n] = entry[n]
    BY <1>3, <1>4, <2>1, <2>2, StartedAtWork DEF HInv, InHand
  <2>3. CASE n = m /\ aw = "keyring" /\ entry' = [entry EXCEPT ![m] = Is("decrypting")]
    <3>1. AtWork(s, n, Deciphers)
      BY <1>2, <1>4, <2>3 DEF AtWork, Deciphers
    <3>2. entry'[n].status = "decrypting"
      BY <1>3, <2>3 DEF TypeOK, Is
    <3>3. QED
      BY <1>3, <1>4, <2>1, <3>1, <3>2, StartedAtWork
  <2>4. QED
    BY <1>1, <1>3, <2>2, <2>3 DEF TypeOK
<1>7. QED
  BY <1>5, <1>6

LEMMA SetPassphraseInHand ==
    ASSUME HInv, NEW k \in Keys, NEW p \in Given, SetPassphrase(k, p)
    PROVE  (~mistaken' => NoMistake') /\ InHand'
<1> DEFINE retried == EncryptedWith(k)
<1>1. PICK s \in TasksFor(retried) : tasks' = tasks \o s
  BY DEF SetPassphrase
<1>2. s \in Seq(Task) /\ retried \subseteq Messages
  BY RetryType DEF EncryptedWith
<1>3. TypeOK
  BY DEF HInv, IInv
<1>4. \A j \in DOMAIN s : s[j].awaits = "keyring"
  BY DEF TasksFor, NewTask
<1>5. \A m \in retried : \E j \in DOMAIN s : s[j].message = m
  BY DEF TasksFor
<1> HIDE DEF retried
<1>6. ~mistaken' => NoMistake'
  <2>1. ~mistaken' => ~mistaken /\ p = "right"
    BY DEF SetPassphrase, Given
  <2>2. ~mistaken' => \A l \in Keys : secret'[l] # "wrong"
    BY <1>3, <2>1 DEF SetPassphrase, HInv, NoMistake, TypeOK
  <2>3. QED
    BY <1>1, <1>2, <1>3, <1>4, <2>1, <2>2, StartedAtWork DEF HInv, NoMistake
<1>7. InHand'
  <2> SUFFICES ASSUME ~mistaken', NEW m \in Messages
               PROVE  /\ entry'[m].status = "decrypting" => AtWork(tasks', m, Deciphers)
                      /\ entry'[m].status = "encrypting" => AtWork(tasks', m, {"encryption"})
    BY DEF InHand
  <2>1. Deciphers \in SUBSET Awaited /\ {"encryption"} \in SUBSET Awaited
    BY DEF Deciphers, Awaited
  <2>2. CASE m \in retried
    <3>1. AtWork(s, m, Deciphers)
      BY <1>4, <1>5, <2>2 DEF AtWork, Deciphers
    <3>2. entry'[m].status = "decrypting"
      BY <2>2 DEF SetPassphrase, Is, retried
    <3>3. QED
      BY <1>1, <1>2, <1>3, <2>1, <3>1, <3>2, StartedAtWork
  <2>3. CASE m \notin retried
    <3>1. entry'[m] = entry[m] /\ ~mistaken
      BY <2>3 DEF SetPassphrase, retried
    <3>2. QED
      BY <1>1, <1>2, <1>3, <2>1, <3>1, StartedAtWork DEF HInv, InHand
  <2>4. QED
    BY <2>2, <2>3
<1>8. QED
  BY <1>6, <1>7

LEMMA HInvStep == HInv /\ [Next]_vars => HInv'
<1> SUFFICES ASSUME HInv, [Next]_vars PROVE HInv'
  OBVIOUS
<1>1. IInv'
  BY StepPreserves DEF HInv
<1>2. CASE \E m \in Messages : Load(m) \/ Save(m)
  BY <1>1, <1>2, StartsInHand DEF HInv
<1>3. CASE \E i \in DOMAIN tasks : Resume(i)
  BY <1>1, <1>3, ResumeInHand DEF HInv
<1>4. CASE \E k \in Keys : \E p \in Given : SetPassphrase(k, p)
  BY <1>1, <1>4, SetPassphraseInHand DEF HInv
<1>5. CASE \E k \in Keys : Expire(k)
  BY <1>1, <1>5 DEF HInv, IInv, TypeOK, NoMistake, InHand, Expire
<1>6. CASE Tick \/ UNCHANGED vars
  BY <1>1, <1>6 DEF HInv, NoMistake, InHand, Tick, vars
<1>7. QED
  BY <1>2, <1>3, <1>4, <1>5, <1>6 DEF Next

\* The part of DecryptionSettles that is no liveness: unless a wrong passphrase was entered,
\* a message that is shown as being decrypted, or encrypted, has a thunk that is at work on
\* it and will write how it ended, although the thunks of a message write one entry and any
\* number of them start, wait for different things and end in any order.
THEOREM InHandCorrect == Spec => []InHand
<1>1. Init => HInv
  <2>1. Init => (~mistaken => NoMistake) /\ InHand
    BY DEF Init, NoMistake, InHand, Is
  <2>2. QED
    BY <2>1, InitHolds DEF HInv
<1>2. HInv => InHand
  BY DEF HInv
<1>3. QED
  BY <1>1, <1>2, HInvStep, PTL DEF Spec
=============================================================================

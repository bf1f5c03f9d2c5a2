----------------------------- MODULE Encryption -----------------------------
(***************************************************************************)
(* The passphrases and the encrypted messages of the web application:      *)
(* store/modules/encryption.js, the decryption and encryption middlewares  *)
(* and the thunks decryptMessage and encryptMessage                        *)
(* (frontend/web_application/src).                                         *)
(*                                                                         *)
(* Every message that comes with an answer of the API starts a thunk that  *)
(* awaits the keyring, then OpenPGP, and writes the one entry of the       *)
(* message in the store after each await; the same message may be in the   *)
(* hands of several of them, and of one that encrypts it.  A passphrase    *)
(* the user enters is tried again on the messages that wait for it and is  *)
(* forgotten by a timer.                                                   *)
(***************************************************************************)
EXTENDS Naturals, Sequences, FiniteSets

CONSTANTS
    Messages,   \* the encrypted messages
    Keys,       \* the private keys, by fingerprint
    KeysOf,     \* message -> the keys it is encrypted for
    OpenKeys,   \* the keys stored without a passphrase
    TTL,        \* the delay of setTimeout in setPassphrase
    None,
    MaxTasks    \* bound: thunks started

ASSUME KeysAssumption == KeysOf \in [Messages -> SUBSET Keys] /\ OpenKeys \subseteq Keys
ASSUME EncryptionBoundsAssumption == TTL \in Nat /\ MaxTasks \in Nat
ASSUME MessagesAssumption == IsFiniteSet(Messages)
ASSUME NoKeyAssumption == None \notin Keys

\* privateKeysByFingerprint: the status of a key, with the passphrase when it is "ok".
Asked == {"ask", "ko"}
Given == {"right", "wrong"}
Secret == {"none"} \cup Asked \cup Given
\* messageEncryptionStatusById: waitsFor is keyFingerprint.
Status == {"none", "decrypting", "decrypted", "need_passphrase", "need_privatekey",
           "encrypting", "encrypted", "error"}
Entry == [status : Status, waitsFor : SUBSET Keys]
\* What a thunk awaits: the keyring, a key to be unlocked, the body to be decrypted; the
\* keys of the recipients, the body to be encrypted.
Awaited == {"keyring", "unlocking", "decryption", "recipients", "encryption", "nothing"}
Task == [message : Messages, awaits : Awaited, key : Keys \cup {None}, passphrase : Given]

VARIABLES
    secret,     \* key -> Secret
    entry,      \* message -> Entry
    tasks,      \* the thunks, in the order of their starts
    timers,     \* key -> the times left before each dispatch of resetPassphrase
    age,        \* history: key -> the time since its passphrase was given
    mistaken    \* history: a wrong passphrase was entered

vars == <<secret, entry, tasks, timers, age, mistaken>>

Is(status) == [status |-> status, waitsFor |-> {}]
WaitsFor(keys) == [status |-> "need_passphrase", waitsFor |-> keys]

Init ==
    /\ secret = [k \in Keys |-> "none"]
    /\ entry = [m \in Messages |-> Is("none")]
    /\ tasks = <<>>
    /\ timers = [k \in Keys |-> {}]
    /\ age = [k \in Keys |-> 0]
    /\ mistaken = FALSE
-----------------------------------------------------------------------------
NewTask(m, awaited) == [message |-> m, awaits |-> awaited, key |-> None, passphrase |-> "wrong"]

Awaits(i, awaited) == i \in DOMAIN tasks /\ tasks[i].awaits = awaited

\* A thunk writes the entry of its message and goes on to its next await.
Go(i, awaited) == tasks' = [tasks EXCEPT ![i] = NewTask(@.message, awaited)]
Write(i, e) == entry' = [entry EXCEPT ![tasks[i].message] = e]

\* Mutant of Ask: only the keys whose passphrase was forgotten are asked for.
AskAgain(keys) ==
    secret' = [k \in Keys |-> IF k \in keys /\ secret[k] = "ko" THEN "ask" ELSE secret[k]]

\* ASK_PASSPHRASE for each key of keys.
Ask(keys) == secret' = [k \in Keys |-> IF k \in keys THEN "ask" ELSE secret[k]]

\* The message is part of an answer of the API: decryptMessage is dispatched.
Load(m) ==
    /\ Len(tasks) < MaxTasks
    /\ entry' = [entry EXCEPT ![m] = Is("decrypting")]
    /\ tasks' = Append(tasks, NewTask(m, "keyring"))
    /\ UNCHANGED <<secret, timers, age, mistaken>>

Usable(found) == {k \in found : k \notin OpenKeys /\ secret[k] \in Given}

\* getKeysForMessage has loaded the keyring: found are the keys of the message the user
\* has there now. A key without a passphrase goes first, then one whose passphrase is known.
OpenFound(i, found) ==
    /\ Awaits(i, "keyring")
    /\ found \cap OpenKeys # {}
    /\ Go(i, "decryption")
    /\ UNCHANGED <<secret, entry, timers, age, mistaken>>

PassphraseFound(i, found) ==
    /\ Awaits(i, "keyring")
    /\ found \cap OpenKeys = {}
    /\ \E k \in Usable(found) :
          tasks' = [tasks EXCEPT ![i].awaits = "unlocking", ![i].key = k,
                                 ![i].passphrase = secret[k]]
    /\ UNCHANGED <<secret, entry, timers, age, mistaken>>

\* ASK_PASSPHRASE for each key and NEED_PASSPHRASE, before anything else can run.
PassphraseMissing(i, found) ==
    /\ Awaits(i, "keyring")
    /\ found # {}
    /\ found \cap OpenKeys = {}
    /\ Usable(found) = {}
    /\ Ask(found)
    /\ Write(i, WaitsFor(found))
    /\ Go(i, "nothing")
    /\ UNCHANGED <<timers, age, mistaken>>

\* Mutant of NoKeyFound: an early return that leaves the entry as it is.
NoKeySilent(i) ==
    /\ Awaits(i, "keyring")
    /\ Go(i, "nothing")
    /\ UNCHANGED <<secret, entry, timers, age, mistaken>>

NoKeyFound(i) ==
    /\ Awaits(i, "keyring")
    /\ Write(i, Is("need_privatekey"))
    /\ Go(i, "nothing")
    /\ UNCHANGED <<secret, timers, age, mistaken>>

\* getKeysForMessage throws (a key that cannot be read): DECRYPT_MESSAGE_FAIL.
KeyringFails(i) ==
    /\ Awaits(i, "keyring")
    /\ Write(i, Is("error"))
    /\ Go(i, "nothing")
    /\ UNCHANGED <<secret, timers, age, mistaken>>

\* usableKey.decrypt(passphrase) with the passphrase read before the await.
Unlocked(i) ==
    /\ Awaits(i, "unlocking")
    /\ tasks[i].passphrase = "right"
    /\ Go(i, "decryption")
    /\ UNCHANGED <<secret, entry, timers, age, mistaken>>

\* ASK_PASSPHRASE with the error: the entry of the message is left as it is.
WrongPassphrase(i) ==
    /\ Awaits(i, "unlocking")
    /\ tasks[i].passphrase = "wrong"
    /\ Ask({tasks[i].key})
    /\ Go(i, "nothing")
    /\ UNCHANGED <<entry, timers, age, mistaken>>

\* DECRYPT_MESSAGE_SUCCESS or DECRYPT_MESSAGE_FAIL.
Decrypted(i) ==
    /\ Awaits(i, "decryption")
    /\ \E status \in {"decrypted", "error"} : Write(i, Is(status))
    /\ Go(i, "nothing")
    /\ UNCHANGED <<secret, timers, age, mistaken>>
-----------------------------------------------------------------------------
(***************************************************************************)
(* The encryption middleware: every message that is saved.                 *)
(***************************************************************************)
Save(m) ==
    /\ Len(tasks) < MaxTasks
    /\ tasks' = Append(tasks, NewTask(m, "recipients"))
    /\ UNCHANGED <<secret, entry, timers, age, mistaken>>

\* Every recipient has a public key, or the message is saved as it is.
RecipientsFound(i) ==
    /\ Awaits(i, "recipients")
    /\ \/ Write(i, Is("encrypting")) /\ Go(i, "encryption")
       \/ Write(i, Is("error")) /\ Go(i, "nothing")
    /\ UNCHANGED <<secret, timers, age, mistaken>>

Encrypted(i) ==
    /\ Awaits(i, "encryption")
    /\ \E status \in {"encrypted", "error"} : Write(i, Is(status))
    /\ Go(i, "nothing")
    /\ UNCHANGED <<secret, timers, age, mistaken>>
-----------------------------------------------------------------------------
(***************************************************************************)
(* The user and the timers.                                                *)
(***************************************************************************)
\* findMessagesEncryptedWithKey
EncryptedWith(k) == {m \in Messages : k \in entry[m].waitsFor}

\* The thunks that decrypt each message of ms again, started in any order.
TasksFor(ms) ==
    {s \in [1..Cardinality(ms) -> {NewTask(m, "keyring") : m \in ms}] :
        \A m \in ms : \E j \in DOMAIN s : s[j].message = m}

\* Mutant of Arm: the delay is in another unit.
ArmLonger(k) == timers' = [timers EXCEPT ![k] = @ \cup {10 * TTL}]

\* setTimeout: none of the timers that run is cancelled.
Arm(k) == timers' = [timers EXCEPT ![k] = @ \cup {TTL}]

\* AskPassphraseForm, there while a message waits for this key: SET_PASSPHRASE, then the
\* middleware tries the messages that wait for it again and starts a timer.
SetPassphrase(k, p) ==
    /\ \E m \in Messages : entry[m] = WaitsFor({k})
    /\ Len(tasks) + Cardinality(EncryptedWith(k)) <= MaxTasks
    /\ secret' = [secret EXCEPT ![k] = p]
    /\ entry' = [m \in Messages |-> IF m \in EncryptedWith(k) THEN Is("decrypting") ELSE entry[m]]
    /\ \E s \in TasksFor(EncryptedWith(k)) : tasks' = tasks \o s
    /\ Arm(k)
    /\ age' = [age EXCEPT ![k] = 0]
    /\ mistaken' = (mistaken \/ p = "wrong")

\* RESET_PASSPHRASE
Expire(k) ==
    /\ 0 \in timers[k]
    /\ timers' = [timers EXCEPT ![k] = @ \ {0}]
    /\ secret' = [secret EXCEPT ![k] = "ko"]
    /\ UNCHANGED <<entry, tasks, age, mistaken>>

\* Time passes; timers are not late.
Tick ==
    /\ \A k \in Keys : 0 \notin timers[k]
    /\ timers' = [k \in Keys |-> {d - 1 : d \in timers[k]}]
    /\ age' = [k \in Keys |-> IF secret[k] \in Given THEN age[k] + 1 ELSE 0]
    /\ UNCHANGED <<secret, entry, tasks, mistaken>>
-----------------------------------------------------------------------------
Found(i) == SUBSET KeysOf[tasks[i].message]

Resume(i) ==
    \/ \E found \in Found(i) :
          OpenFound(i, found) \/ PassphraseFound(i, found) \/ PassphraseMissing(i, found)
    \/ NoKeyFound(i) \/ KeyringFails(i) \/ Unlocked(i) \/ WrongPassphrase(i) \/ Decrypted(i)
    \/ RecipientsFound(i) \/ Encrypted(i)

Next ==
    \/ \E m \in Messages : Load(m) \/ Save(m)
    \/ \E i \in DOMAIN tasks : Resume(i)
    \/ \E k \in Keys : Expire(k) \/ \E p \in Given : SetPassphrase(k, p)
    \/ Tick

\* Promises that are awaited settle, one at a time and in any order.
Fairness == WF_vars(\E i \in DOMAIN tasks : Resume(i))

Spec == Init /\ [][Next]_vars /\ Fairness
-----------------------------------------------------------------------------
\* The types; no timer waits longer than the delay of setPassphrase.
TypeOK ==
    /\ secret \in [Keys -> Secret]
    /\ entry \in [Messages -> Entry]
    /\ tasks \in Seq(Task)
    /\ timers \in [Keys -> SUBSET (0..TTL)]
    /\ age \in [Keys -> Nat]
    /\ mistaken \in BOOLEAN

\* A passphrase stays in memory for TTL at most, however often it is entered, found wrong
\* and entered again (the comment of setPassphrase, with the delay of its setTimeout).
PassphraseForgotten ==
    \A k \in Keys : secret[k] \in Given => age[k] <= TTL

\* A message only waits for passphrases that the store has been asked for and does not
\* have: none is left waiting by a thunk that looked just before the user answered, and
\* the form of the key finds the entry it reads (AskPassphraseForm).
WaitsForAsked ==
    \A m \in Messages : \A k \in entry[m].waitsFor : secret[k] \in Asked

\* Every decryption ends, whichever thunks and encryptions share the entry, unless a wrong passphrase was entered.
DecryptionSettles ==
    \A m \in Messages : entry[m].status = "decrypting" ~> (entry[m].status # "decrypting" \/ mistaken)
=============================================================================

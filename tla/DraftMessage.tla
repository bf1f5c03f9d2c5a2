---------------------------- MODULE DraftMessage ----------------------------
(***************************************************************************)
(* The draft editor of the web application and the draft it keeps on the   *)
(* server: the scene NewDraft, the component DraftMessage, the actions     *)
(* saveDraft, sendDraft and requestDraft and the reducer draft-message     *)
(* (frontend/web_application/src), against the REST API that checks a      *)
(* PATCH before it writes it (py.main/message) and the broker that mails   *)
(* what is stored (go.emails).                                             *)
(*                                                                         *)
(* A text is shown by the editor, kept in the redux store as the entry of  *)
(* the draft, captured by the save each edit schedules, stored by the      *)
(* server and read back.  Every save, throttled or not, is a call of its   *)
(* own: nothing orders the calls in flight, and each one carries the       *)
(* message the browser knew when the user typed.                           *)
(*                                                                         *)
(* The model follows one new message (hasDiscussion is false), with the    *)
(* same message_id from one opening to the next.                           *)
(***************************************************************************)
EXTENDS Naturals, Sequences

CONSTANTS
    Texts,          \* what the user may type: a body with its subject and recipients
    Blank,          \* a new Message: it has no recipient
    None,
    MaxEdits,       \* bound: changes typed by the user
    MaxCalls,       \* bound: calls of createOrUpdateDraft
    MaxMounts,      \* bound: times the scene is opened
    MaxFailures     \* bound: requests or answers lost

ASSUME TextsAssumption == Blank \notin Texts /\ None \notin Texts \cup {Blank}
ASSUME DraftBoundsAssumption ==
    MaxEdits \in Nat /\ MaxCalls \in Nat /\ MaxMounts \in Nat /\ MaxFailures \in Nat

Body == Texts \cup {Blank}
MaybeBody == Body \cup {None}

\* What remains of a call to do: the request is on its way to the server, has passed its
\* checks, is written, has been read back; then, for a send, the order is on its way, the
\* broker has mailed the message, the message is no longer a draft. A "late" broker has
\* mailed a message whose sending the API no longer waits for.
Stage == {"saving", "checked", "written", "read", "posting", "mailed", "marked",
          "late", "done", "refused", "lost"}
\* A call of createOrUpdateDraft and what follows it. base is the body of the message the
\* browser knew (None: it knew no message, the draft is created), mount the component
\* that waits for it, got what was read back, mailed what the broker sent.
Call == [text : Body, base : MaybeBody, send : BOOLEAN, mount : Nat, stage : Stage,
         got : MaybeBody, mailed : MaybeBody, deletions : Nat]
Throttled == [text : Body, base : MaybeBody, deletions : Nat]

ASSUME NoneAssumption == None \notin Throttled

VARIABLES
    stored,     \* server: the body of the message
    status,     \* server: "absent", "draft" or "sent"
    entry,      \* store: draftsByInternalId[internalId]
    original,   \* store: messagesById[message_id], the message as the browser knows it
    requesting, \* store: isRequestingDraft
    deleting,   \* store: isDeletingDraft
    throttled,  \* throttled[internalId]: the save to start after UPDATE_WAIT_TIME
    calls,      \* every call of createOrUpdateDraft, in the order of their starts
    deletion,   \* the call of onDeleteMessage: "none", "asked" or "gone"
    editor,     \* the component: "closed", "waiting" (not initialized) or "open"
    text,       \* its state: draftMessage.body
    isSending,  \* its state: isSending
    mount,      \* number of the component instance
    done,       \* the message is known to be sent: its scene redirects to the discussion
    overlapped, \* history: the user typed while a call was unanswered
    deletions,  \* history: number of times the server has deleted the message
    edits,      \* counter of the bound
    failures    \* counter of the bound

serverVars == <<stored, status>>
storeVars == <<entry, original, requesting, deleting>>
componentVars == <<editor, text, isSending, mount>>
bounds == <<edits, failures>>
vars == <<serverVars, storeVars, throttled, calls, deletion, componentVars, done,
          overlapped, deletions, bounds>>

Init ==
    /\ stored = None
    /\ status = "absent"
    /\ entry = None
    /\ original = None
    /\ requesting = FALSE
    /\ deleting = FALSE
    /\ throttled = None
    /\ calls = <<>>
    /\ deletion = "none"
    /\ editor = "closed"
    /\ text = Blank
    /\ isSending = FALSE
    /\ mount = 0
    /\ done = FALSE
    /\ overlapped = FALSE
    /\ deletions = 0
    /\ edits = 0
    /\ failures = 0
-----------------------------------------------------------------------------
(***************************************************************************)
(* The scene and its component.                                            *)
(***************************************************************************)
\* Mutant of Show: the component does not wait for the entry.
ShowAtOnce(e, mounted, pending) ==
    IF mounted
    THEN editor' = "open" /\ text' = e
    ELSE editor' = "closed" /\ text' = Blank

\* genererateStateFromProps: a component that is not initialized takes the entry of the
\* store as soon as the draft is no longer being requested.
Show(e, mounted, pending) ==
    IF ~mounted
    THEN editor' = "closed" /\ text' = Blank
    ELSE IF e = None \/ pending
         THEN editor' = "waiting" /\ text' = Blank
         ELSE editor' = "open" /\ text' = e

\* What a change of the store shows: an initialized component keeps its own text, unless
\* the entry goes away, which mounts a new instance under another key.
Refresh(e, pending) ==
    IF editor = "open" /\ e # None
    THEN UNCHANGED <<editor, text>>
    ELSE Show(e, editor # "closed", pending)

\* The scene is opened: WithDraftMessage requests the draft if the store has none, and
\* requestDraft takes the message the store knows or asks the server for it.
Open ==
    /\ editor = "closed"
    /\ ~done
    /\ mount < MaxMounts
    /\ mount' = mount + 1
    /\ LET mustRequest == entry = None /\ ~requesting /\ ~deleting
           known == mustRequest /\ original # None
       IN  /\ requesting' = (requesting \/ (mustRequest /\ ~known))
           /\ entry' = IF known THEN original ELSE entry
           /\ Show(entry', TRUE, requesting')
    /\ UNCHANGED <<serverVars, original, deleting, throttled, calls, deletion, isSending,
                   done, overlapped, deletions, bounds>>

\* getMessage answers with the stored message.
DraftFound ==
    /\ requesting
    /\ status = "draft"
    /\ requesting' = FALSE
    /\ original' = stored
    /\ entry' = stored
    /\ Refresh(stored, FALSE)
    /\ UNCHANGED <<serverVars, deleting, throttled, calls, deletion, isSending, mount,
                   done, overlapped, deletions, bounds>>

\* getMessage answers with a message that is sent: the scene redirects to its discussion.
SentFound ==
    /\ requesting
    /\ status = "sent"
    /\ requesting' = FALSE
    /\ original' = stored
    /\ entry' = stored
    /\ done' = TRUE
    /\ isSending' = FALSE
    /\ Show(stored, FALSE, FALSE)
    /\ UNCHANGED <<serverVars, deleting, throttled, calls, deletion, mount, overlapped,
                   deletions, bounds>>

\* getMessage fails, whatever the reason: requestDraft goes on with a new Message.
DraftNotFound ==
    /\ requesting
    /\ \/ status = "absent" /\ UNCHANGED failures
       \/ status # "absent" /\ failures < MaxFailures /\ failures' = failures + 1
    /\ requesting' = FALSE
    /\ entry' = Blank
    /\ Refresh(Blank, FALSE)
    /\ UNCHANGED <<serverVars, original, deleting, throttled, calls, deletion, isSending,
                   mount, done, overlapped, deletions, edits>>

\* Mutant of Close: leaving the scene cancels the save that waits.
CloseAndCancel ==
    /\ editor # "closed"
    /\ Show(entry, FALSE, FALSE)
    /\ isSending' = FALSE
    /\ throttled' = None
    /\ UNCHANGED <<serverVars, storeVars, calls, deletion, mount, done, overlapped,
                   deletions, bounds>>

\* The user leaves the scene: the component is unmounted, its promises are not.
Close ==
    /\ editor # "closed"
    /\ Show(entry, FALSE, FALSE)
    /\ isSending' = FALSE
    /\ UNCHANGED <<serverVars, storeVars, throttled, calls, deletion, mount, done,
                   overlapped, deletions, bounds>>
-----------------------------------------------------------------------------
(***************************************************************************)
(* saveDraft: each edit cancels the save that waits and schedules another. *)
(***************************************************************************)
Unanswered == \E i \in DOMAIN calls : calls[i].stage \notin {"done", "refused"}

\* Mutant of Known: every save is a new message.
Unknown == None

\* The message of the store, against which createOrUpdateDraft computes its patch.
Known == original

\* saveDraft withThrottle: EDIT_DRAFT, and a save that will be called with the message of
\* now.
Schedule(t) ==
    /\ entry' = t
    /\ throttled' = [text |-> t, base |-> Known, deletions |-> deletions]

\* handleChange, onEditDraft.
Edit(t) ==
    /\ editor = "open"
    /\ t # text
    /\ edits < MaxEdits
    /\ edits' = edits + 1
    /\ text' = t
    /\ Schedule(t)
    /\ overlapped' = (overlapped \/ Unanswered)
    /\ UNCHANGED <<serverVars, original, requesting, deleting, calls, deletion, editor,
                   isSending, mount, done, deletions, failures>>

\* Mutant of Start: a message is sent without waiting for its save.
StartWithoutSaving(s, send) ==
    calls' = Append(calls, [text |-> s.text, base |-> s.base, send |-> send, mount |-> mount,
                            stage |-> IF send THEN "posting" ELSE "saving", got |-> None,
                            mailed |-> None, deletions |-> s.deletions])

\* createOrUpdateDraft is called: with a message it will update, without it will create.
Start(s, send) ==
    calls' = Append(calls, [text |-> s.text, base |-> s.base, send |-> send,
                            mount |-> mount, stage |-> "saving", got |-> None,
                            mailed |-> None, deletions |-> s.deletions])

\* UPDATE_WAIT_TIME has passed since the last edit.
Autosave ==
    /\ throttled # None
    /\ Len(calls) < MaxCalls
    /\ Start(throttled, FALSE)
    /\ throttled' = None
    /\ UNCHANGED <<serverVars, storeVars, deletion, componentVars, done, overlapped,
                   deletions, bounds>>

\* Mutant of CanSend: the button stays enabled.
CanSendAgain == editor = "open" /\ text # Blank

\* getCanSend: there are recipients.
CanSend == editor = "open" /\ ~isSending /\ text # Blank

\* handleSend, onSendDraft, saveDraft without throttle.
ClickSend ==
    /\ CanSend
    /\ Len(calls) < MaxCalls
    /\ isSending' = TRUE
    /\ entry' = text
    /\ throttled' = None
    /\ Start([text |-> text, base |-> Known, deletions |-> deletions], TRUE)
    /\ UNCHANGED <<serverVars, original, requesting, deleting, deletion, editor, text,
                   mount, done, overlapped, deletions, bounds>>
-----------------------------------------------------------------------------
(***************************************************************************)
(* The calls in flight.                                                    *)
(***************************************************************************)
Step(i, from, to) ==
    /\ calls[i].stage = from
    /\ calls' = [calls EXCEPT ![i].stage = to]

\* Mutant of Reject: the promise of handleSend has no catch.
RejectUncaught(i, to) ==
    /\ calls' = [calls EXCEPT ![i].stage = to]
    /\ UNCHANGED isSending

\* The promise of a call is rejected: handleSend tells the user and lets him send again;
\* nobody listens to the promise of a throttled save.
Reject(i, to) ==
    /\ calls' = [calls EXCEPT ![i].stage = to]
    /\ isSending' = (isSending /\ ~(calls[i].send /\ calls[i].mount = mount))

HasBody(c) == c.text # c.base

\* create_draft: the message_id must be unique. patch_draft and apply_patch: the message
\* must be a draft, whose body is the one the browser knew if the patch changes it.
Accepted(c) ==
    IF c.base = None THEN status = "absent"
    ELSE status = "draft" /\ (HasBody(c) => stored = c.base)

Check(i) ==
    /\ Accepted(calls[i])
    /\ Step(i, "saving", "checked")
    /\ UNCHANGED <<serverVars, storeVars, throttled, deletion, componentVars, done,
                   overlapped, deletions, bounds>>

Refuse(i) ==
    /\ calls[i].stage = "saving"
    /\ ~Accepted(calls[i])
    /\ Reject(i, "refused")
    /\ UNCHANGED <<serverVars, storeVars, throttled, deletion, editor, text, mount, done,
                   overlapped, deletions, bounds>>

\* save_db or update_db, in a later query than the check. The columns an update leaves of
\* a deleted message are no message.
Write(i) ==
    /\ Step(i, "checked", "written")
    /\ LET c == calls[i]
           creates == c.base = None
       IN  /\ stored' = IF creates \/ (status # "absent" /\ HasBody(c)) THEN c.text ELSE stored
           /\ status' = IF creates THEN "draft" ELSE status
    /\ UNCHANGED <<storeVars, throttled, deletion, componentVars, done, overlapped,
                   deletions, bounds>>

\* The request is acknowledged, requestMessage reads the message.
ReadBack(i) ==
    /\ calls[i].stage = "written"
    /\ \/ /\ status # "absent"
          /\ calls' = [calls EXCEPT ![i].stage = "read", ![i].got = stored]
          /\ UNCHANGED isSending
       \/ /\ status = "absent"
          /\ Reject(i, "refused")
    /\ UNCHANGED <<serverVars, storeVars, throttled, deletion, editor, text, mount, done,
                   overlapped, deletions, bounds>>

\* Mutant of Learn: the answer is not put in the store.
LearnNothing(i) == UNCHANGED original

\* REQUEST_MESSAGE_SUCCESS
Learn(i) == original' = calls[i].got

\* REQUEST_MESSAGE_SUCCESS then SYNC_DRAFT, which puts the body of this save in the store.
Saved(i) ==
    /\ Step(i, "read", IF calls[i].send THEN "posting" ELSE "done")
    /\ Learn(i)
    /\ entry' = calls[i].text
    /\ Refresh(calls[i].text, requesting)
    /\ UNCHANGED <<serverVars, requesting, deleting, throttled, deletion, isSending, mount,
                   done, overlapped, deletions, bounds>>

\* postActions: SendDraft orders the broker to deliver the message, which must be a draft.
Deliver(i) ==
    /\ calls[i].stage = "posting"
    /\ \/ /\ status = "draft"
          /\ calls' = [calls EXCEPT ![i].stage = "mailed", ![i].mailed = stored]
          /\ UNCHANGED isSending
       \/ /\ status # "draft"
          /\ Reject(i, "refused")
    /\ UNCHANGED <<serverVars, storeVars, throttled, deletion, editor, text, mount, done,
                   overlapped, deletions, bounds>>

\* The broker updates the message: Is_draft is false.
Mark(i) ==
    /\ Step(i, "mailed", "marked") \/ Step(i, "late", "lost")
    /\ status' = IF status = "absent" THEN status ELSE "sent"
    /\ UNCHANGED <<stored, storeVars, throttled, deletion, componentVars, done, overlapped,
                   deletions, bounds>>

\* requestMessage, CLEAR_DRAFT, then the scene closes its tab and redirects.
Sent(i) ==
    /\ calls[i].stage = "marked"
    /\ \/ /\ status # "absent"
          /\ Step(i, "marked", "done")
          /\ original' = stored
          /\ entry' = None
          /\ done' = TRUE
          /\ isSending' = FALSE
          /\ Show(None, FALSE, FALSE)
       \/ /\ status = "absent"
          /\ Reject(i, "refused")
          /\ UNCHANGED <<original, entry, done, editor, text>>
    /\ UNCHANGED <<serverVars, requesting, deleting, throttled, deletion, mount, overlapped,
                   deletions, bounds>>

\* A request or its answer is lost, or the broker takes more than 30 seconds.
Lose(i) ==
    /\ calls[i].stage \in {"saving", "written", "read", "posting", "mailed", "marked"}
    /\ failures < MaxFailures
    /\ failures' = failures + 1
    /\ Reject(i, IF calls[i].stage = "mailed" THEN "late" ELSE "lost")
    /\ UNCHANGED <<serverVars, storeVars, throttled, deletion, editor, text, mount, done,
                   overlapped, deletions, edits>>
-----------------------------------------------------------------------------
(***************************************************************************)
(* onDeleteMessage. The save that waits is not cancelled.                  *)
(***************************************************************************)
\* The button is there once the browser knows the message.
ClickDelete ==
    /\ editor = "open"
    /\ original # None
    /\ deletion = "none"
    /\ deletion' = "asked"
    /\ deleting' = TRUE
    /\ overlapped' = (overlapped \/ Unanswered)
    /\ UNCHANGED <<serverVars, entry, original, requesting, throttled, calls, componentVars,
                   done, deletions, bounds>>

Delete ==
    /\ deletion = "asked"
    /\ status # "absent"
    /\ deletion' = "gone"
    /\ status' = "absent"
    /\ stored' = None
    /\ deletions' = deletions + 1
    /\ UNCHANGED <<storeVars, throttled, calls, componentVars, done, overlapped, bounds>>

\* REMOVE_FROM_COLLECTION, CLEAR_DRAFT, DELETE_DRAFT_SUCCESS, then the tab is closed.
Deleted ==
    /\ deletion = "gone"
    /\ deletion' = "none"
    /\ original' = None
    /\ entry' = None
    /\ deleting' = FALSE
    /\ isSending' = FALSE
    /\ Show(None, FALSE, FALSE)
    /\ UNCHANGED <<serverVars, requesting, throttled, calls, mount, done, overlapped,
                   deletions, bounds>>

\* deleteMessage is rejected, and onDeleteMessage stops there.
DeleteFails ==
    /\ \/ deletion = "asked" /\ status = "absent" /\ UNCHANGED failures
       \/ /\ deletion # "none"
          /\ failures < MaxFailures
          /\ failures' = failures + 1
    /\ deletion' = "none"
    /\ UNCHANGED <<serverVars, storeVars, throttled, calls, componentVars, done, overlapped,
                   deletions, edits>>
-----------------------------------------------------------------------------
\* What the program and the server do by themselves with call i.
Progress(i) ==
    Check(i) \/ Refuse(i) \/ Write(i) \/ ReadBack(i) \/ Saved(i) \/ Deliver(i) \/ Mark(i) \/ Sent(i)

User == Open \/ Close \/ ClickSend \/ ClickDelete \/ \E t \in Texts : Edit(t)
Requests == DraftFound \/ SentFound \/ DraftNotFound \/ Delete \/ Deleted \/ DeleteFails

Next ==
    \/ User
    \/ Requests
    \/ Autosave
    \/ \E i \in DOMAIN calls : Progress(i) \/ Lose(i)

\* Timers fire and requests are answered; the user owes nothing.
Fairness ==
    /\ WF_vars(Autosave)
    /\ WF_vars(Requests)
    /\ \A i \in 1..MaxCalls : WF_vars(i \in DOMAIN calls /\ Progress(i))

Spec == Init /\ [][Next]_vars /\ Fairness
-----------------------------------------------------------------------------
\* The types; an editor that is shown always has a body (genererateStateFromProps).
TypeOK ==
    /\ stored \in MaybeBody
    /\ status \in {"absent", "draft", "sent"}
    /\ entry \in MaybeBody
    /\ original \in MaybeBody
    /\ requesting \in BOOLEAN
    /\ deleting \in BOOLEAN
    /\ throttled \in Throttled \cup {None}
    /\ calls \in Seq(Call)
    /\ deletion \in {"none", "asked", "gone"}
    /\ editor \in {"closed", "waiting", "open"}
    /\ text \in Body
    /\ isSending \in BOOLEAN
    /\ mount \in 0..MaxMounts
    /\ done \in BOOLEAN
    /\ overlapped \in BOOLEAN
    /\ deletions \in Nat
    /\ edits \in 0..MaxEdits
    /\ failures \in 0..MaxFailures

(***************************************************************************)
(* Nothing orders the saves in flight and the server does not write a save *)
(* with the check of it, so what follows is only promised to a user who    *)
(* neither types nor deletes while a save of the draft is unanswered:      *)
(* overlapped tells that one did, failures that an answer never came.      *)
(***************************************************************************)
\* What the broker mails is the body the user saw when he clicked on Send, whatever
\* autosaves were scheduled or in flight then (onSendDraft).
SentIsClicked ==
    \A i \in DOMAIN calls : calls[i].mailed \in {None, calls[i].text} \/ overlapped

\* One click is one mail: isSending disables the button until the send is over. Leaving
\* the scene forgets isSending (getCanSend).
Mailings == {i \in DOMAIN calls : calls[i].mailed # None}
MailedOnce ==
    (\E i, j \in Mailings : i # j) => overlapped \/ failures > 0 \/ mount > 1

\* A message that is deleted is not created again by a save of before its deletion, which
\* onDeleteMessage leaves scheduled or in flight.
DeletedStaysDeleted ==
    [][status = "absent" /\ status' = "draft" =>
          \/ overlapped
          \/ \E i \in DOMAIN calls : /\ calls[i].stage = "checked"
                                     /\ calls[i].stage # calls'[i].stage
                                     /\ calls[i].deletions = deletions]_vars

Quiet ==
    throttled = None /\ deletion = "none" /\ ~requesting /\ ~Unanswered

\* Once nothing is scheduled or in flight, the editor, the store and the server agree.
ShownIsStored ==
    Quiet /\ editor = "open" /\ status = "draft" /\ ~overlapped /\ failures = 0
        => text = stored /\ entry = stored /\ original = stored

\* A scheduled save reaches the server, if no later edit replaces it, and if the message
\* is not sent or deleted before it.
EditIsSaved ==
    \A t \in Texts :
        (throttled # None /\ throttled.text = t) ~>
            \/ stored = t
            \/ throttled # None /\ throttled.text # t
            \/ status = "sent" \/ deletions > 0
            \/ overlapped \/ failures > 0
            \/ throttled # None /\ Len(calls) = MaxCalls

\* Whatever becomes of a send, the user gets his button back (handleSend).
SendSettles == isSending ~> ~isSending
=============================================================================

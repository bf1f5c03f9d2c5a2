------------------------ MODULE DraftMessage_proofs ------------------------
(***************************************************************************)
(* Proofs about the draft editor, for every set of texts and every number  *)
(* of edits, calls, openings and failures.                                 *)
(***************************************************************************)
EXTENDS DraftMessage, SequenceTheorems, TLAPS

(* A body is something. *)
LEMMA BodyIsNotNone == None \notin Body /\ Body \subseteq MaybeBody /\ None \in MaybeBody
BY TextsAssumption DEF Body, MaybeBody
-----------------------------------------------------------------------------
(***************************************************************************)
(* The types.                                                              *)
(***************************************************************************)
\* Call i has reached stage st, the others are where they were.
Moved(i, st) ==
    /\ calls' \in Seq(Call)
    /\ DOMAIN calls' = DOMAIN calls
    /\ \A j \in DOMAIN calls : j # i => calls'[j] = calls[j]
    /\ calls'[i].stage = st
    /\ calls'[i].send = calls[i].send
    /\ calls'[i].base = calls[i].base
    /\ calls'[i].deletions = calls[i].deletions
    /\ calls'[i].text = calls[i].text

(* A call is its fields, and some of them change. *)
LEMMA CallFields ==
    ASSUME NEW c \in Call
    PROVE  /\ c.text \in Body /\ c.base \in MaybeBody /\ c.send \in BOOLEAN
           /\ c.stage \in Stage /\ c.got \in MaybeBody /\ c.mailed \in MaybeBody
BY DEF Call

LEMMA CallUpdates ==
    ASSUME NEW c \in Call
    PROVE  /\ \A st \in Stage : [c EXCEPT !.stage = st] \in Call
           /\ \A g \in MaybeBody : [c EXCEPT !.got = g] \in Call
           /\ \A m \in MaybeBody : [c EXCEPT !.mailed = m] \in Call
BY DEF Call

LEMMA ReplacedMoves ==
    ASSUME calls \in Seq(Call), NEW i \in DOMAIN calls, NEW n \in Call,
           n.send = calls[i].send, n.base = calls[i].base, n.deletions = calls[i].deletions,
           n.text = calls[i].text,
           calls' = [calls EXCEPT ![i] = n]
    PROVE  Moved(i, n.stage) /\ calls'[i] = n
BY DEF Moved

(* Three ways of moving a call on: its stage only, what it reads, what it mails. *)
LEMMA StageMoves ==
    ASSUME calls \in Seq(Call), NEW i \in DOMAIN calls, NEW st \in Stage,
           calls' = [calls EXCEPT ![i].stage = st]
    PROVE  Moved(i, st) /\ calls'[i].got = calls[i].got /\ calls'[i].mailed = calls[i].mailed
<1> DEFINE n == [calls[i] EXCEPT !.stage = st]
<1>1. calls[i] \in Call
  OBVIOUS
<1>2. n \in Call
  BY <1>1, CallUpdates
<1>3. /\ n.stage = st /\ n.send = calls[i].send /\ n.base = calls[i].base
      /\ n.deletions = calls[i].deletions /\ n.text = calls[i].text
      /\ n.got = calls[i].got /\ n.mailed = calls[i].mailed
  BY <1>1 DEF Call
<1>4. calls' = [calls EXCEPT ![i] = n]
  OBVIOUS
<1> HIDE DEF n
<1>5. QED
  BY <1>2, <1>3, <1>4, ReplacedMoves

LEMMA ReadMoves ==
    ASSUME calls \in Seq(Call), NEW i \in DOMAIN calls, NEW g \in MaybeBody,
           calls' = [calls EXCEPT ![i].stage = "read", ![i].got = g]
    PROVE  Moved(i, "read") /\ calls'[i].got = g /\ calls'[i].mailed = calls[i].mailed
<1> DEFINE one == [calls[i] EXCEPT !.stage = "read"]
           n == [one EXCEPT !.got = g]
<1>1. calls[i] \in Call /\ "read" \in Stage
  BY DEF Stage
<1>2. one \in Call
  BY <1>1, CallUpdates
<1>3. n \in Call
  <2> HIDE DEF one
  <2>1. QED
    BY <1>2, CallUpdates
<1>4. /\ n.stage = "read" /\ n.send = calls[i].send /\ n.base = calls[i].base
      /\ n.deletions = calls[i].deletions /\ n.text = calls[i].text
      /\ n.got = g /\ n.mailed = calls[i].mailed
  BY <1>1 DEF Call
<1>5. calls' = [calls EXCEPT ![i] = n]
  OBVIOUS
<1> HIDE DEF one, n
<1>6. Moved(i, n.stage) /\ calls'[i] = n
  <2> SUFFICES ASSUME calls \in Seq(Call), i \in DOMAIN calls, n \in Call,
                      n.send = calls[i].send, n.base = calls[i].base, n.deletions = calls[i].deletions,
                      n.text = calls[i].text,
                      calls' = [calls EXCEPT ![i] = n]
               PROVE  Moved(i, n.stage) /\ calls'[i] = n
    BY <1>3, <1>4, <1>5
  <2> QED
    BY ONLY calls \in Seq(Call), i \in DOMAIN calls, n \in Call,
            n.send = calls[i].send, n.base = calls[i].base, n.deletions = calls[i].deletions,
            n.text = calls[i].text,
            calls' = [calls EXCEPT ![i] = n], ReplacedMoves
<1>7. QED
  BY <1>4, <1>6

LEMMA MailMoves ==
    ASSUME calls \in Seq(Call), NEW i \in DOMAIN calls, NEW m \in MaybeBody,
           calls' = [calls EXCEPT ![i].stage = "mailed", ![i].mailed = m]
    PROVE  Moved(i, "mailed") /\ calls'[i].got = calls[i].got /\ calls'[i].mailed = m
<1> DEFINE one == [calls[i] EXCEPT !.stage = "mailed"]
           n == [one EXCEPT !.mailed = m]
<1>1. calls[i] \in Call /\ "mailed" \in Stage
  BY DEF Stage
<1>2. one \in Call
  BY <1>1, CallUpdates
<1>3. n \in Call
  <2> HIDE DEF one
  <2>1. QED
    BY <1>2, CallUpdates
<1>4. /\ n.stage = "mailed" /\ n.send = calls[i].send /\ n.base = calls[i].base
      /\ n.deletions = calls[i].deletions /\ n.text = calls[i].text
      /\ n.got = calls[i].got /\ n.mailed = m
  BY <1>1 DEF Call
<1>5. calls' = [calls EXCEPT ![i] = n]
  OBVIOUS
<1> HIDE DEF one, n
<1>6. Moved(i, n.stage) /\ calls'[i] = n
  <2> SUFFICES ASSUME calls \in Seq(Call), i \in DOMAIN calls, n \in Call,
                      n.send = calls[i].send, n.base = calls[i].base, n.deletions = calls[i].deletions,
                      n.text = calls[i].text,
                      calls' = [calls EXCEPT ![i] = n]
               PROVE  Moved(i, n.stage) /\ calls'[i] = n
    BY <1>3, <1>4, <1>5
  <2> QED
    BY ONLY calls \in Seq(Call), i \in DOMAIN calls, n \in Call,
            n.send = calls[i].send, n.base = calls[i].base, n.deletions = calls[i].deletions,
            n.text = calls[i].text,
            calls' = [calls EXCEPT ![i] = n], ReplacedMoves
<1>7. QED
  BY <1>4, <1>6

\* One more call has started, of text t and base b.
Started(b, send, t, d) ==
    /\ calls' \in Seq(Call)
    /\ \A i \in DOMAIN calls : i \in DOMAIN calls' /\ calls'[i] = calls[i]
    /\ \A i \in DOMAIN calls' :
         \/ i \in DOMAIN calls /\ calls'[i] = calls[i]
         \/ /\ i = Len(calls) + 1
            /\ calls'[i].stage = "saving" /\ calls'[i].send = send /\ calls'[i].base = b
            /\ calls'[i].mailed = None /\ calls'[i].got = None
            /\ calls'[i].text = t /\ calls'[i].deletions = d

LEMMA StartStarts ==
    ASSUME calls \in Seq(Call), mount \in Nat, NEW s \in Throttled, NEW send \in BOOLEAN,
           Start(s, send)
    PROVE  Started(s.base, send, s.text, s.deletions)
<1> DEFINE n == [text |-> s.text, base |-> s.base, send |-> send, mount |-> mount,
                 stage |-> "saving", got |-> None, mailed |-> None, deletions |-> s.deletions]
<1>1. n \in Call
  BY BodyIsNotNone DEF Call, Throttled, Stage
<1>2. /\ n.stage = "saving" /\ n.send = send /\ n.base = s.base
      /\ n.mailed = None /\ n.got = None /\ n.text = s.text /\ n.deletions = s.deletions
  OBVIOUS
<1>3. calls' = Append(calls, n)
  BY DEF Start
<1> HIDE DEF n
<1>4. QED
  BY <1>1, <1>2, <1>3 DEF Started

\* The component: its text is a body whatever it shows.
ShownOK == editor \in {"closed", "waiting", "open"} /\ text \in Body

LEMMA ShowType ==
    ASSUME NEW e \in MaybeBody, NEW mounted \in BOOLEAN, NEW pending \in BOOLEAN,
           Show(e, mounted, pending)
    PROVE  ShownOK' /\ (editor' = "closed" <=> ~mounted) /\ (e = None => editor' # "open")
BY BodyIsNotNone DEF Show, ShownOK, Body, MaybeBody

LEMMA RefreshType ==
    ASSUME ShownOK, NEW e \in MaybeBody, NEW pending \in BOOLEAN, Refresh(e, pending)
    PROVE  /\ ShownOK' /\ (editor' = "closed" <=> editor = "closed")
           /\ editor' = "open" => editor = "open" \/ ~pending
BY ShowType DEF Refresh, ShownOK, Show

LEMMA InitType == Init => TypeOK
<1> SUFFICES ASSUME Init PROVE TypeOK
  OBVIOUS
<1>1. <<>> \in Seq(Call)
  BY EmptySeq
<1>2. calls \in Seq(Call)
  BY <1>1 DEF Init
<1>3. QED
  <2>1. None \in MaybeBody /\ Blank \in Body
    BY BodyIsNotNone DEF Body
  <2>2. edits \in 0..MaxEdits /\ failures \in 0..MaxFailures /\ mount \in 0..MaxMounts
    BY DraftBoundsAssumption DEF Init
  <2>3. /\ stored \in MaybeBody /\ entry \in MaybeBody /\ original \in MaybeBody
        /\ throttled \in Throttled \cup {None} /\ text \in Body
    BY <2>1 DEF Init
  <2>4. /\ status \in {"absent", "draft", "sent"}
        /\ deletion \in {"none", "asked", "gone"} /\ editor \in {"closed", "waiting", "open"}
        /\ requesting \in BOOLEAN /\ deleting \in BOOLEAN /\ isSending \in BOOLEAN
        /\ done \in BOOLEAN /\ overlapped \in BOOLEAN /\ deletions \in Nat
    BY DEF Init
  <2>5. QED
    BY <1>2, <2>2, <2>3, <2>4 DEF TypeOK

\* Call i has moved to st and has neither read nor mailed anything.
Passed(i, st) ==
    Moved(i, st) /\ calls'[i].got = calls[i].got /\ calls'[i].mailed = calls[i].mailed

LEMMA PassedStage ==
    ASSUME calls \in Seq(Call), NEW i \in DOMAIN calls, NEW st \in Stage,
           calls' = [calls EXCEPT ![i].stage = st]
    PROVE  Passed(i, st)
BY StageMoves DEF Passed

(* What each step does to the call it is about. *)
LEMMA ProgressMoves ==
    ASSUME TypeOK, NEW i \in DOMAIN calls
    PROVE  /\ Check(i) => calls[i].stage = "saving" /\ Passed(i, "checked")
           /\ Refuse(i) => calls[i].stage = "saving" /\ Passed(i, "refused")
           /\ Write(i) => calls[i].stage = "checked" /\ Passed(i, "written")
           /\ ReadBack(i) =>
                /\ calls[i].stage = "written"
                /\ \/ /\ status # "absent" /\ Moved(i, "read")
                      /\ calls'[i].got = stored /\ calls'[i].mailed = calls[i].mailed
                   \/ status = "absent" /\ Passed(i, "refused")
           /\ Saved(i) =>
                /\ calls[i].stage = "read"
                /\ Passed(i, IF calls[i].send THEN "posting" ELSE "done")
           /\ Deliver(i) =>
                /\ calls[i].stage = "posting"
                /\ \/ status = "draft" /\ Moved(i, "mailed") /\ calls'[i].mailed = stored
                   \/ status # "draft" /\ Passed(i, "refused")
           /\ Mark(i) =>
                \/ calls[i].stage = "mailed" /\ Passed(i, "marked")
                \/ calls[i].stage = "late" /\ Passed(i, "lost")
           /\ Sent(i) =>
                /\ calls[i].stage = "marked"
                /\ \/ status # "absent" /\ Passed(i, "done")
                   \/ status = "absent" /\ Passed(i, "refused")
           /\ Lose(i) => \E st \in {"late", "lost"} : Passed(i, st)
<1>1. calls \in Seq(Call) /\ stored \in MaybeBody
  BY DEF TypeOK
<1>2. /\ "checked" \in Stage /\ "refused" \in Stage /\ "written" \in Stage
      /\ "posting" \in Stage /\ "done" \in Stage /\ "marked" \in Stage /\ "lost" \in Stage
      /\ "late" \in Stage
  BY DEF Stage
<1>3. ASSUME Check(i) PROVE calls[i].stage = "saving" /\ Passed(i, "checked")
  <2>1. calls[i].stage = "saving" /\ calls' = [calls EXCEPT ![i].stage = "checked"]
    BY <1>3 DEF Check, Step
  <2>2. QED
    BY <1>1, <1>2, <2>1, PassedStage
<1>4. ASSUME Refuse(i) PROVE calls[i].stage = "saving" /\ Passed(i, "refused")
  <2>1. calls[i].stage = "saving" /\ calls' = [calls EXCEPT ![i].stage = "refused"]
    BY <1>4 DEF Refuse, Reject
  <2>2. QED
    BY <1>1, <1>2, <2>1, PassedStage
<1>5. ASSUME Write(i) PROVE calls[i].stage = "checked" /\ Passed(i, "written")
  <2>1. calls[i].stage = "checked" /\ calls' = [calls EXCEPT ![i].stage = "written"]
    BY <1>5 DEF Write, Step
  <2>2. QED
    BY <1>1, <1>2, <2>1, PassedStage
<1>6. ASSUME ReadBack(i)
      PROVE  /\ calls[i].stage = "written"
             /\ \/ /\ status # "absent" /\ Moved(i, "read")
                   /\ calls'[i].got = stored /\ calls'[i].mailed = calls[i].mailed
                \/ status = "absent" /\ Passed(i, "refused")
  <2>1. calls[i].stage = "written"
    BY <1>6 DEF ReadBack
  <2>2. \/ status # "absent" /\ calls' = [calls EXCEPT ![i].stage = "read", ![i].got = stored]
        \/ status = "absent" /\ calls' = [calls EXCEPT ![i].stage = "refused"]
    BY <1>6 DEF ReadBack, Reject
  <2>3. ASSUME calls' = [calls EXCEPT ![i].stage = "read", ![i].got = stored]
        PROVE  Moved(i, "read") /\ calls'[i].got = stored /\ calls'[i].mailed = calls[i].mailed
    BY <1>1, <2>3, ReadMoves
  <2>4. ASSUME calls' = [calls EXCEPT ![i].stage = "refused"] PROVE Passed(i, "refused")
    BY <1>1, <1>2, <2>4, PassedStage
  <2>5. QED
    BY <2>1, <2>2, <2>3, <2>4
<1>7. ASSUME Saved(i)
      PROVE  calls[i].stage = "read" /\ Passed(i, IF calls[i].send THEN "posting" ELSE "done")
  <2>1. PICK st \in Stage : st = IF calls[i].send THEN "posting" ELSE "done"
    BY <1>2
  <2>2. calls[i].stage = "read" /\ calls' = [calls EXCEPT ![i].stage = st]
    BY <1>7, <2>1 DEF Saved, Step
  <2>3. QED
    BY <1>1, <2>1, <2>2, PassedStage
<1>8. ASSUME Deliver(i)
      PROVE  /\ calls[i].stage = "posting"
             /\ \/ status = "draft" /\ Moved(i, "mailed") /\ calls'[i].mailed = stored
                \/ status # "draft" /\ Passed(i, "refused")
  <2>1. calls[i].stage = "posting"
    BY <1>8 DEF Deliver
  <2>2. \/ status = "draft" /\ calls' = [calls EXCEPT ![i].stage = "mailed", ![i].mailed = stored]
        \/ status # "draft" /\ calls' = [calls EXCEPT ![i].stage = "refused"]
    BY <1>8 DEF Deliver, Reject
  <2>3. ASSUME calls' = [calls EXCEPT ![i].stage = "mailed", ![i].mailed = stored]
        PROVE  Moved(i, "mailed") /\ calls'[i].mailed = stored
    BY <1>1, <2>3, MailMoves
  <2>4. ASSUME calls' = [calls EXCEPT ![i].stage = "refused"] PROVE Passed(i, "refused")
    BY <1>1, <1>2, <2>4, PassedStage
  <2>5. QED
    BY <2>1, <2>2, <2>3, <2>4
<1>9. ASSUME Mark(i)
      PROVE  \/ calls[i].stage = "mailed" /\ Passed(i, "marked")
             \/ calls[i].stage = "late" /\ Passed(i, "lost")
  <2>1. \/ calls[i].stage = "mailed" /\ calls' = [calls EXCEPT ![i].stage = "marked"]
        \/ calls[i].stage = "late" /\ calls' = [calls EXCEPT ![i].stage = "lost"]
    BY <1>9 DEF Mark, Step
  <2>2. QED
    BY <1>1, <1>2, <2>1, PassedStage
<1>10. ASSUME Sent(i)
       PROVE  /\ calls[i].stage = "marked"
              /\ \/ status # "absent" /\ Passed(i, "done")
                 \/ status = "absent" /\ Passed(i, "refused")
  <2>1. /\ calls[i].stage = "marked"
        /\ \/ status # "absent" /\ calls' = [calls EXCEPT ![i].stage = "done"]
           \/ status = "absent" /\ calls' = [calls EXCEPT ![i].stage = "refused"]
    BY <1>10 DEF Sent, Step, Reject
  <2>2. QED
    BY <1>1, <1>2, <2>1, PassedStage
<1>11. ASSUME Lose(i) PROVE \E st \in {"late", "lost"} : Passed(i, st)
  <2>1. PICK st \in {"late", "lost"} : calls' = [calls EXCEPT ![i].stage = st]
    BY <1>11 DEF Lose, Reject
  <2>2. st \in Stage
    BY <1>2
  <2>3. QED
    BY <1>1, <2>1, <2>2, PassedStage
<1>12. QED
  BY <1>3, <1>4, <1>5, <1>6, <1>7, <1>8, <1>9, <1>10, <1>11

\* The rest of the types: of the server, of the store and of the component.
ServerOK ==
    stored \in MaybeBody /\ status \in {"absent", "draft", "sent"} /\ deletions \in Nat
StoreOK ==
    /\ entry \in MaybeBody /\ original \in MaybeBody
    /\ requesting \in BOOLEAN /\ deleting \in BOOLEAN
    /\ throttled \in Throttled \cup {None}
    /\ deletion \in {"none", "asked", "gone"}
MountOK ==
    /\ isSending \in BOOLEAN /\ done \in BOOLEAN /\ overlapped \in BOOLEAN
    /\ mount \in 0..MaxMounts /\ edits \in 0..MaxEdits /\ failures \in 0..MaxFailures
CallsOK == calls \in Seq(Call)

LEMMA TypeParts == TypeOK <=> ServerOK /\ StoreOK /\ MountOK /\ CallsOK /\ ShownOK
BY DEF TypeOK, ServerOK, StoreOK, MountOK, CallsOK, ShownOK

LEMMA TypePartsNext == ServerOK' /\ StoreOK' /\ MountOK' /\ CallsOK' /\ ShownOK' => TypeOK'
BY DEF TypeOK, ServerOK, StoreOK, MountOK, CallsOK, ShownOK

(* What starts a call. *)
LEMMA AutosaveStarts ==
    ASSUME TypeOK, Autosave
    PROVE  throttled # None /\ Started(throttled.base, FALSE, throttled.text, throttled.deletions)
<1>1. mount \in Nat
  BY DraftBoundsAssumption DEF TypeOK
<1>2. throttled # None /\ throttled \in Throttled /\ Start(throttled, FALSE)
  BY DEF Autosave, TypeOK
<1>3. PICK s \in Throttled : s = throttled /\ Start(s, FALSE)
  BY <1>2
<1>4. QED
  BY <1>1, <1>2, <1>3, StartStarts DEF TypeOK

LEMMA ClickSendStarts ==
    ASSUME TypeOK, ClickSend
    PROVE  Started(original, TRUE, text, deletions)
<1>1. mount \in Nat
  BY DraftBoundsAssumption DEF TypeOK
<1>2. PICK s \in Throttled : /\ s.base = original /\ s.text = text /\ s.deletions = deletions
                            /\ Start(s, TRUE)
  BY DEF ClickSend, Throttled, Known, TypeOK
<1>3. QED
  BY <1>1, <1>2, StartStarts DEF TypeOK

(* The user opens and leaves the scene, types, clicks. *)
LEMMA UserType == ASSUME TypeOK, User PROVE TypeOK'
<1>1. ServerOK /\ StoreOK /\ MountOK /\ CallsOK /\ ShownOK
  BY TypeParts
<1> USE DraftBoundsAssumption
<1>2. CASE Open
  <2> DEFINE known == entry = None /\ ~requesting /\ ~deleting /\ original # None
  <2>1. /\ entry' = IF known THEN original ELSE entry
        /\ requesting' = (requesting \/ (entry = None /\ ~requesting /\ ~deleting /\ ~known))
        /\ Show(entry', TRUE, requesting')
    BY <1>2 DEF Open
  <2>2. entry' \in MaybeBody /\ requesting' \in BOOLEAN
    BY <1>1, <2>1 DEF StoreOK
  <2>3. ShownOK'
    BY <2>1, <2>2, ShowType
  <2>4. ServerOK' /\ StoreOK' /\ CallsOK'
    BY <1>1, <1>2, <2>2 DEF Open, ServerOK, StoreOK, CallsOK, serverVars
  <2>5. MountOK'
    BY <1>1, <1>2 DEF Open, MountOK, bounds
  <2>6. QED
    BY <2>3, <2>4, <2>5, TypePartsNext
<1>3. CASE Close
  <2>1. ShownOK'
    <3>1. Show(entry, FALSE, FALSE) /\ entry \in MaybeBody
      BY <1>1, <1>3 DEF Close, StoreOK
    <3>2. QED
      BY <3>1, ShowType
  <2>2. ServerOK' /\ StoreOK' /\ CallsOK' /\ MountOK'
    BY <1>1, <1>3 DEF Close, ServerOK, StoreOK, CallsOK, MountOK, serverVars, storeVars, bounds
  <2>3. QED
    BY <2>1, <2>2, TypePartsNext
<1>4. CASE ClickSend
  <2>1. CallsOK'
    BY <1>4, ClickSendStarts DEF CallsOK, Started
  <2>2. ServerOK' /\ StoreOK'
    BY <1>1, <1>4, BodyIsNotNone DEF ClickSend, ServerOK, StoreOK, ShownOK, serverVars
  <2>3. MountOK' /\ ShownOK'
    BY <1>1, <1>4 DEF ClickSend, MountOK, ShownOK, bounds
  <2>4. QED
    BY <2>1, <2>2, <2>3, TypePartsNext
<1>5. CASE ClickDelete
  <2>1. ServerOK' /\ StoreOK' /\ CallsOK' /\ ShownOK'
    BY <1>1, <1>5
    DEF ClickDelete, ServerOK, StoreOK, CallsOK, ShownOK, serverVars, componentVars
  <2>2. MountOK'
    BY <1>1, <1>5 DEF ClickDelete, MountOK, Unanswered, componentVars, bounds
  <2>3. QED
    BY <2>1, <2>2, TypePartsNext
<1>6. ASSUME NEW t \in Texts, Edit(t) PROVE TypeOK'
  <2>1. t \in Body /\ original \in MaybeBody /\ deletions \in Nat
    BY <1>1 DEF Body, StoreOK, ServerOK
  <2>2. [text |-> t, base |-> Known, deletions |-> deletions] \in Throttled
    BY <2>1 DEF Throttled, Known
  <2>3. StoreOK'
    BY <1>1, <1>6, <2>1, <2>2, BodyIsNotNone DEF Edit, Schedule, StoreOK
  <2>4. ServerOK' /\ CallsOK' /\ ShownOK'
    BY <1>1, <1>6, <2>1 DEF Edit, ServerOK, CallsOK, ShownOK, serverVars
  <2>5. MountOK'
    BY <1>1, <1>6 DEF Edit, MountOK, Unanswered
  <2>6. QED
    BY <2>3, <2>4, <2>5, TypePartsNext
<1>7. QED
  BY <1>2, <1>3, <1>4, <1>5, <1>6 DEF User

(* The message is requested and deleted. *)
LEMMA RequestsType == ASSUME TypeOK, Requests PROVE TypeOK'
<1>1. ServerOK /\ StoreOK /\ MountOK /\ CallsOK /\ ShownOK
  BY TypeParts
<1>2. stored \in MaybeBody /\ Blank \in MaybeBody /\ None \in MaybeBody
  BY <1>1, BodyIsNotNone DEF ServerOK, Body
<1> USE DraftBoundsAssumption
<1>3. CASE DraftFound
  <2>1. ShownOK'
    BY <1>1, <1>2, <1>3, RefreshType DEF DraftFound
  <2>2. ServerOK' /\ StoreOK' /\ CallsOK' /\ MountOK'
    BY <1>1, <1>2, <1>3
    DEF DraftFound, ServerOK, StoreOK, CallsOK, MountOK, serverVars, bounds
  <2>3. QED
    BY <2>1, <2>2, TypePartsNext
<1>4. CASE SentFound
  <2>1. ShownOK'
    BY <1>1, <1>2, <1>4, ShowType DEF SentFound
  <2>2. ServerOK' /\ StoreOK' /\ CallsOK' /\ MountOK'
    BY <1>1, <1>2, <1>4
    DEF SentFound, ServerOK, StoreOK, CallsOK, MountOK, serverVars, bounds
  <2>3. QED
    BY <2>1, <2>2, TypePartsNext
<1>5. CASE DraftNotFound
  <2>1. ShownOK'
    BY <1>1, <1>2, <1>5, RefreshType DEF DraftNotFound
  <2>2. ServerOK' /\ StoreOK' /\ CallsOK'
    BY <1>1, <1>2, <1>5 DEF DraftNotFound, ServerOK, StoreOK, CallsOK, serverVars
  <2>3. MountOK'
    <3>1. failures' \in 0..MaxFailures
      BY <1>1, <1>5 DEF DraftNotFound, MountOK
    <3>2. UNCHANGED <<isSending, done, overlapped, mount, edits>>
      BY <1>5 DEF DraftNotFound
    <3>3. QED
      BY <1>1, <3>1, <3>2 DEF MountOK
  <2>4. QED
    BY <2>1, <2>2, <2>3, TypePartsNext
<1>6. CASE Delete
  <2>1. ServerOK' /\ StoreOK' /\ CallsOK' /\ MountOK' /\ ShownOK'
    BY <1>1, <1>2, <1>6
    DEF Delete, ServerOK, StoreOK, CallsOK, MountOK, ShownOK, storeVars, componentVars, bounds
  <2>2. QED
    BY <2>1, TypePartsNext
<1>7. CASE Deleted
  <2>1. ShownOK'
    BY <1>1, <1>2, <1>7, ShowType DEF Deleted
  <2>2. ServerOK' /\ StoreOK' /\ CallsOK' /\ MountOK'
    BY <1>1, <1>2, <1>7
    DEF Deleted, ServerOK, StoreOK, CallsOK, MountOK, serverVars, bounds
  <2>3. QED
    BY <2>1, <2>2, TypePartsNext
<1>8. CASE DeleteFails
  <2>1. ServerOK' /\ StoreOK' /\ CallsOK' /\ ShownOK'
    BY <1>1, <1>8
    DEF DeleteFails, ServerOK, StoreOK, CallsOK, ShownOK, serverVars, storeVars, componentVars
  <2>2. MountOK'
    <3>1. failures' \in 0..MaxFailures
      BY <1>1, <1>8 DEF DeleteFails, MountOK
    <3>2. UNCHANGED <<isSending, done, overlapped, mount, edits>>
      BY <1>8 DEF DeleteFails, componentVars
    <3>3. QED
      BY <1>1, <3>1, <3>2 DEF MountOK
  <2>3. QED
    BY <2>1, <2>2, TypePartsNext
<1>9. QED
  BY <1>3, <1>4, <1>5, <1>6, <1>7, <1>8 DEF Requests

(* A call starts, goes on or is lost. *)
LEMMA AutosaveType == ASSUME TypeOK, Autosave PROVE TypeOK'
<1>1. ServerOK /\ StoreOK /\ MountOK /\ CallsOK /\ ShownOK
  BY TypeParts
<1>2. CallsOK'
  BY AutosaveStarts DEF CallsOK, Started
<1>3. ServerOK' /\ StoreOK' /\ MountOK' /\ ShownOK'
  BY <1>1
  DEF Autosave, ServerOK, StoreOK, MountOK, ShownOK, serverVars, storeVars, componentVars, bounds
<1>4. QED
  BY <1>2, <1>3, TypePartsNext

LEMMA ProgressType ==
    ASSUME TypeOK, NEW i \in DOMAIN calls, Progress(i) \/ Lose(i)
    PROVE  TypeOK'
<1>1. ServerOK /\ StoreOK /\ MountOK /\ CallsOK /\ ShownOK
  BY TypeParts
<1>2. /\ calls[i].text \in MaybeBody /\ calls[i].got \in MaybeBody /\ None \in MaybeBody
      /\ stored \in MaybeBody
  BY <1>1, CallFields, BodyIsNotNone DEF CallsOK, ServerOK
<1>3. CallsOK'
  <2>1. \A st : Passed(i, st) \/ Moved(i, st) => calls' \in Seq(Call)
    BY DEF Passed, Moved
  <2>2. \E st : Passed(i, st) \/ Moved(i, st)
    BY ProgressMoves DEF Progress
  <2>3. QED
    BY <2>1, <2>2 DEF CallsOK
<1> USE DraftBoundsAssumption
<1>4. CASE Check(i)
  <2>1. ServerOK' /\ StoreOK' /\ MountOK' /\ ShownOK'
    BY <1>1, <1>4
    DEF Check, ServerOK, StoreOK, MountOK, ShownOK, serverVars, storeVars, componentVars, bounds
  <2>2. QED
    BY <1>3, <2>1, TypePartsNext
<1>5. CASE Refuse(i)
  <2>1. ServerOK' /\ StoreOK' /\ MountOK' /\ ShownOK'
    BY <1>1, <1>5
    DEF Refuse, Reject, ServerOK, StoreOK, MountOK, ShownOK, serverVars, storeVars, bounds
  <2>2. QED
    BY <1>3, <2>1, TypePartsNext
<1>6. CASE Write(i)
  <2>1. ServerOK'
    BY <1>1, <1>2, <1>6 DEF Write, ServerOK
  <2>2. StoreOK' /\ MountOK' /\ ShownOK'
    BY <1>1, <1>6 DEF Write, StoreOK, MountOK, ShownOK, storeVars, componentVars, bounds
  <2>3. QED
    BY <1>3, <2>1, <2>2, TypePartsNext
<1>7. CASE ReadBack(i)
  <2>1. ServerOK' /\ StoreOK' /\ ShownOK'
    BY <1>1, <1>7 DEF ReadBack, ServerOK, StoreOK, ShownOK, serverVars, storeVars
  <2>2. MountOK'
    <3>1. UNCHANGED isSending \/ Reject(i, "refused")
      BY <1>7 DEF ReadBack
    <3>2. isSending' \in BOOLEAN
      BY <1>1, <3>1 DEF Reject, MountOK
    <3>3. UNCHANGED <<done, overlapped, mount, edits, failures>>
      BY <1>7 DEF ReadBack, bounds
    <3>4. QED
      BY <1>1, <3>2, <3>3 DEF MountOK
  <2>3. QED
    BY <1>3, <2>1, <2>2, TypePartsNext
<1>8. CASE Saved(i)
  <2>1. ShownOK'
    <3>1. Refresh(calls[i].text, requesting) /\ requesting \in BOOLEAN
      BY <1>1, <1>8 DEF Saved, StoreOK
    <3>2. QED
      BY <1>1, <1>2, <3>1, RefreshType
  <2>2. ServerOK' /\ StoreOK' /\ MountOK'
    BY <1>1, <1>2, <1>8 DEF Saved, Learn, ServerOK, StoreOK, MountOK, serverVars, bounds
  <2>3. QED
    BY <1>3, <2>1, <2>2, TypePartsNext
<1>9. CASE Deliver(i)
  <2>1. ServerOK' /\ StoreOK' /\ ShownOK'
    BY <1>1, <1>9 DEF Deliver, ServerOK, StoreOK, ShownOK, serverVars, storeVars
  <2>2. MountOK'
    <3>1. UNCHANGED isSending \/ Reject(i, "refused")
      BY <1>9 DEF Deliver
    <3>2. isSending' \in BOOLEAN
      BY <1>1, <3>1 DEF Reject, MountOK
    <3>3. UNCHANGED <<done, overlapped, mount, edits, failures>>
      BY <1>9 DEF Deliver, bounds
    <3>4. QED
      BY <1>1, <3>2, <3>3 DEF MountOK
  <2>3. QED
    BY <1>3, <2>1, <2>2, TypePartsNext
<1>10. CASE Mark(i)
  <2>1. ServerOK' /\ StoreOK' /\ MountOK' /\ ShownOK'
    BY <1>1, <1>10
    DEF Mark, ServerOK, StoreOK, MountOK, ShownOK, storeVars, componentVars, bounds
  <2>2. QED
    BY <1>3, <2>1, TypePartsNext
<1>11. CASE Sent(i)
  <2>1. ShownOK'
    BY <1>1, <1>2, <1>11, ShowType DEF Sent, ShownOK
  <2>2. ServerOK' /\ StoreOK' /\ MountOK'
    BY <1>1, <1>2, <1>11 DEF Sent, Reject, ServerOK, StoreOK, MountOK, serverVars, bounds
  <2>3. QED
    BY <1>3, <2>1, <2>2, TypePartsNext
<1>12. CASE Lose(i)
  <2>1. ServerOK' /\ StoreOK' /\ ShownOK'
    BY <1>1, <1>12 DEF Lose, ServerOK, StoreOK, ShownOK, serverVars, storeVars
  <2>2. MountOK'
    BY <1>1, <1>12 DEF Lose, Reject, MountOK
  <2>3. QED
    BY <1>3, <2>1, <2>2, TypePartsNext
<1>13. QED
  BY <1>4, <1>5, <1>6, <1>7, <1>8, <1>9, <1>10, <1>11, <1>12 DEF Progress

LEMMA TypeStep == TypeOK /\ [Next]_vars => TypeOK'
<1> SUFFICES ASSUME TypeOK, [Next]_vars PROVE TypeOK'
  OBVIOUS
<1>1. CASE UNCHANGED vars
  BY <1>1 DEF TypeOK, vars, serverVars, storeVars, componentVars, bounds
<1>2. CASE Next
  BY <1>2, UserType, RequestsType, AutosaveType, ProgressType DEF Next
<1>3. QED
  BY <1>1, <1>2

(* The draft, the saves in flight and the editor keep their types: an editor that is shown
   has a body (genererateStateFromProps). *)
THEOREM TypeCorrect == Spec => []TypeOK
BY InitType, TypeStep, PTL DEF Spec
-----------------------------------------------------------------------------
(***************************************************************************)
(* One click is one mail.                                                  *)
(***************************************************************************)
\* A message has a body, and so has what is read of it.
BodiesKnown ==
    /\ status # "absent" => stored # None
    /\ \A i \in DOMAIN calls : calls[i].stage = "read" => calls[i].got # None

\* While the user waits for the answers, nothing is lost and the scene is opened once.
Calm == ~overlapped /\ failures = 0 /\ mount <= 1

Over(i) == calls[i].stage \in {"done", "refused"}
Live(i) == calls[i].send /\ ~Over(i)
Mailed(i) == calls[i].mailed # None

\* Before the scene is opened there is nothing; until the answer to its request there is
\* nothing else.
OpenedFirst ==
    /\ mount = 0 => /\ calls = <<>> /\ throttled = None /\ ~requesting
                    /\ editor = "closed" /\ deletion = "none" /\ deletions = 0
    /\ requesting => /\ calls = <<>> /\ throttled = None
                     /\ editor # "open" /\ deletion = "none" /\ deletions = 0

\* A save that waits is the only one, and it is an update if the message is known.
ThrottledAlone ==
    throttled # None =>
        /\ \A i \in DOMAIN calls : Over(i)
        /\ original # None => throttled.base = original

\* No save, waiting or in flight, creates the message.
OnlyUpdates ==
    /\ throttled # None => throttled.base # None
    /\ \A i \in DOMAIN calls : calls[i].stage \in {"saving", "checked"} => calls[i].base # None

\* Once the user deletes the message, nothing creates it again.
Doomed == deletion # "none" => original # None /\ OnlyUpdates
Buried ==
    deletions > 0 => status = "absent" /\ (original # None \/ editor = "closed") /\ OnlyUpdates

\* Until then, a call that has been written has a message.
Exists ==
    deletions = 0 =>
        \A i \in DOMAIN calls :
            \/ calls[i].stage \in {"written", "read", "posting", "mailed", "marked"}
            \/ calls[i].stage = "checked" /\ calls[i].base # None
            => status # "absent"

\* One send at a time, for which the editor waits until the scene is left.
OneSend ==
    /\ \A i \in DOMAIN calls : Live(i) => isSending \/ editor = "closed"
    /\ \A i, j \in DOMAIN calls : Live(i) /\ Live(j) => i = j
    /\ done => editor = "closed" /\ \A i \in DOMAIN calls : ~Live(i)

\* Only a send mails; when it is over the editor is gone, or the message is.
MailsAreSends ==
    \A i \in DOMAIN calls :
        /\ calls[i].stage \notin {"late", "lost"}
        /\ calls[i].stage \in {"posting", "mailed", "marked"} => calls[i].send
        /\ Mailed(i) => calls[i].send /\ calls[i].stage \in {"mailed", "marked", "done", "refused"}
        /\ Mailed(i) /\ Over(i) => deletions > 0 \/ done

OneMail == \A i, j \in DOMAIN calls : Mailed(i) /\ Mailed(j) => i = j

OnceParts ==
    /\ OpenedFirst /\ ThrottledAlone
    /\ Doomed /\ Buried /\ Exists
    /\ OneSend /\ MailsAreSends /\ OneMail

OInv == TypeOK /\ BodiesKnown /\ (Calm => OnceParts)

(* What is stored, read and learnt of a message is a body. *)
LEMMA BodiesProgress ==
    ASSUME TypeOK, BodiesKnown, NEW i \in DOMAIN calls, Progress(i) \/ Lose(i)
    PROVE  BodiesKnown'
<1>1. calls \in Seq(Call) /\ calls[i].text # None
  BY CallFields, BodyIsNotNone DEF TypeOK
<1>2. ASSUME NEW st, Moved(i, st), st = "read" => calls'[i].got # None
      PROVE  \A j \in DOMAIN calls' : calls'[j].stage = "read" => calls'[j].got # None
  BY <1>2 DEF Moved, BodiesKnown
<1>3. \A st : Passed(i, st) => Moved(i, st)
  BY DEF Passed
<1>4. CASE Write(i)
  <2>1. \A j \in DOMAIN calls' : calls'[j].stage = "read" => calls'[j].got # None
    BY <1>2, <1>3, <1>4, ProgressMoves
  <2>2. status' # "absent" => stored' # None
    BY <1>1, <1>4 DEF Write, BodiesKnown
  <2>3. QED
    BY <2>1, <2>2 DEF BodiesKnown
<1>5. CASE ~Write(i)
  <2>1. stored' = stored /\ (status' # "absent" => status # "absent")
    BY <1>5 DEF Progress, Check, Refuse, ReadBack, Saved, Deliver, Mark, Sent, Lose, serverVars
  <2>2. \E st : Moved(i, st) /\ (st = "read" => calls'[i].got # None)
    <3>1. CASE ReadBack(i)
      BY <1>3, <3>1, ProgressMoves DEF BodiesKnown
    <3>2. ASSUME NEW st \in {"checked", "refused", "posting", "done", "marked", "lost", "late"},
                 Passed(i, st)
          PROVE  \E x : Moved(i, x) /\ (x = "read" => calls'[i].got # None)
      BY <1>3, <3>2
    <3>3. CASE Deliver(i)
      BY <1>3, <3>3, ProgressMoves
    <3>4. CASE Check(i) \/ Refuse(i) \/ Saved(i) \/ Mark(i) \/ Sent(i) \/ Lose(i)
      BY <3>2, <3>4, ProgressMoves
    <3>5. QED
      BY <1>5, <3>1, <3>3, <3>4 DEF Progress
  <2>3. QED
    BY <1>2, <2>1, <2>2 DEF BodiesKnown
<1>6. QED
  BY <1>4, <1>5

LEMMA BodiesStep == TypeOK /\ BodiesKnown /\ [Next]_vars => BodiesKnown'
<1> SUFFICES ASSUME TypeOK, BodiesKnown, [Next]_vars PROVE BodiesKnown'
  OBVIOUS
<1>1. calls \in Seq(Call)
  BY DEF TypeOK
<1>2. CASE UNCHANGED <<serverVars, calls>>
  BY <1>2 DEF BodiesKnown, serverVars
<1>3. CASE Delete
  BY <1>3 DEF Delete, BodiesKnown
<1>4. ASSUME NEW b, NEW send, NEW t, NEW d, Started(b, send, t, d), UNCHANGED serverVars PROVE BodiesKnown'
  <2>1. \A i \in DOMAIN calls' : i \in DOMAIN calls \/ i = Len(calls) + 1
    BY <1>1, <1>4 DEF Started
  <2>2. QED
    BY <1>4, <2>1 DEF Started, BodiesKnown, serverVars
<1>5. CASE Autosave
  BY <1>4, <1>5, AutosaveStarts DEF Autosave
<1>6. CASE ClickSend
  BY <1>4, <1>6, ClickSendStarts DEF ClickSend
<1>7. ASSUME NEW i \in DOMAIN calls, Progress(i) \/ Lose(i) PROVE BodiesKnown'
  BY <1>7, BodiesProgress
<1>8. CASE Open \/ Close \/ ClickDelete \/ \E t \in Texts : Edit(t)
  BY <1>2, <1>8 DEF Open, Close, ClickDelete, Edit
<1>9. CASE DraftFound \/ SentFound \/ DraftNotFound \/ Deleted \/ DeleteFails
  BY <1>2, <1>9 DEF DraftFound, SentFound, DraftNotFound, Deleted, DeleteFails
<1>10. CASE UNCHANGED vars
  BY <1>2, <1>10 DEF vars
<1>11. QED
  BY <1>3, <1>5, <1>6, <1>7, <1>8, <1>9, <1>10 DEF Next, User, Requests

(* Once something is lost or overlaps, or the scene is opened again, it is so for good. *)
LEMMA CalmStep == TypeOK /\ [Next]_vars /\ Calm' => Calm
<1> SUFFICES ASSUME TypeOK, [Next]_vars, Calm' PROVE Calm
  OBVIOUS
<1>1. failures \in Nat /\ mount \in Nat
  BY DraftBoundsAssumption DEF TypeOK
<1>2. ASSUME \/ UNCHANGED <<overlapped, failures, mount>>
             \/ overlapped' = (overlapped \/ Unanswered) /\ UNCHANGED <<failures, mount>>
             \/ failures' = failures + 1 /\ UNCHANGED <<overlapped, mount>>
             \/ mount' = mount + 1 /\ UNCHANGED <<overlapped, failures>>
      PROVE  Calm
  <2>1. CASE UNCHANGED <<overlapped, failures, mount>>
    BY <2>1 DEF Calm
  <2>2. CASE overlapped' = (overlapped \/ Unanswered) /\ UNCHANGED <<failures, mount>>
    <3>1. ~overlapped
      BY <2>2 DEF Calm
    <3>2. QED
      BY <2>2, <3>1 DEF Calm
  <2>3. CASE failures' = failures + 1 /\ UNCHANGED <<overlapped, mount>>
    <3>1. failures' = 0
      BY DEF Calm
    <3>2. QED
      BY <1>1, <2>3, <3>1
  <2>4. CASE mount' = mount + 1 /\ UNCHANGED <<overlapped, failures>>
    <3>1. mount' <= 1
      BY DEF Calm
    <3>2. mount <= 1
      BY <1>1, <2>4, <3>1
    <3>3. QED
      BY <2>4, <3>2 DEF Calm
  <2>5. QED
    BY <1>2, <2>1, <2>2, <2>3, <2>4
<1>3. CASE User
  <2>1. CASE Open
    BY <1>2, <2>1 DEF Open, bounds
  <2>2. CASE Close
    BY <1>2, <2>2 DEF Close, bounds
  <2>3. CASE ClickSend
    BY <1>2, <2>3 DEF ClickSend, bounds
  <2>4. CASE ClickDelete
    BY <1>2, <2>4 DEF ClickDelete, componentVars, bounds
  <2>5. ASSUME NEW t \in Texts, Edit(t) PROVE Calm
    BY <1>2, <2>5 DEF Edit
  <2>6. QED
    BY <1>3, <2>1, <2>2, <2>3, <2>4, <2>5 DEF User
<1>4. CASE Requests
  BY <1>2, <1>4
  DEF Requests, DraftFound, SentFound, DraftNotFound, Delete, Deleted, DeleteFails,
      componentVars, bounds
<1>5. CASE Autosave
  BY <1>2, <1>5 DEF Autosave, componentVars, bounds
<1>6. ASSUME NEW i \in DOMAIN calls, Progress(i) PROVE Calm
  BY <1>2, <1>6
  DEF Progress, Check, Refuse, Write, ReadBack, Saved, Deliver, Mark, Sent, componentVars, bounds
<1>7. ASSUME NEW i \in DOMAIN calls, Lose(i) PROVE Calm
  BY <1>2, <1>7 DEF Lose
<1>8. CASE UNCHANGED vars
  BY <1>2, <1>8 DEF vars, componentVars, bounds
<1>9. QED
  BY <1>3, <1>4, <1>5, <1>6, <1>7, <1>8 DEF Next

(* The steps that leave the calls alone. *)
LEMMA OpenOnce ==
    ASSUME TypeOK, OnceParts, Calm', Open PROVE OnceParts'
<1>1. mount = 0 /\ mount' = 1
  <2>1. mount \in Nat /\ mount' = mount + 1 /\ mount' <= 1
    BY DraftBoundsAssumption DEF TypeOK, Open, Calm
  <2>2. QED
    BY <2>1
<1>2. calls' = <<>> /\ throttled' = None /\ deletion' = "none" /\ deletions' = 0
  BY <1>1 DEF OnceParts, OpenedFirst, Open
<1>3. requesting' => editor' # "open"
  BY DEF Open, Show
<1>4. ~done'
  BY DEF Open
<1>5. QED
  BY <1>1, <1>2, <1>3, <1>4
  DEF OnceParts, OpenedFirst, ThrottledAlone, Doomed, Buried, Exists, OneSend, MailsAreSends,
      OneMail

LEMMA AnsweredOnce ==
    ASSUME TypeOK, OnceParts, DraftFound \/ SentFound \/ (DraftNotFound /\ UNCHANGED failures)
    PROVE  OnceParts'
<1>1. requesting /\ ~requesting' /\ mount' = mount
  BY DEF DraftFound, SentFound, DraftNotFound
<1>2. mount # 0
  BY <1>1 DEF OnceParts, OpenedFirst
<1>3. calls' = <<>> /\ throttled' = None /\ deletion' = "none" /\ deletions' = 0
  BY <1>1 DEF OnceParts, OpenedFirst, DraftFound, SentFound, DraftNotFound
<1>4. done' => editor' = "closed"
  <2>1. CASE DraftFound
    <3>1. done' = done /\ Refresh(stored, FALSE)
      BY <2>1 DEF DraftFound
    <3>2. editor = "closed" => editor' = "closed"
      BY <3>1 DEF Refresh, Show
    <3>3. QED
      BY <3>1, <3>2 DEF OnceParts, OneSend
  <2>2. CASE SentFound
    BY <2>2 DEF SentFound, Show
  <2>3. CASE DraftNotFound
    <3>1. done' = done /\ Refresh(Blank, FALSE)
      BY <2>3 DEF DraftNotFound
    <3>2. editor = "closed" => editor' = "closed"
      BY <3>1 DEF Refresh, Show
    <3>3. QED
      BY <3>1, <3>2 DEF OnceParts, OneSend
  <2>4. QED
    BY <2>1, <2>2, <2>3
<1>5. QED
  BY <1>1, <1>2, <1>3, <1>4
  DEF OnceParts, OpenedFirst, ThrottledAlone, Doomed, Buried, Exists, OneSend, MailsAreSends,
      OneMail

LEMMA CloseOnce == ASSUME OnceParts, Close PROVE OnceParts'
<1>1. editor' = "closed" /\ editor # "closed"
  BY DEF Close, Show
<1>2. UNCHANGED <<status, original, requesting, throttled, calls, deletion, mount, done, deletions>>
  BY DEF Close, serverVars, storeVars
<1>3. OpenedFirst' /\ ThrottledAlone'
  BY <1>1, <1>2 DEF OnceParts, OpenedFirst, ThrottledAlone, Over
<1>4. Doomed' /\ Buried' /\ Exists'
  BY <1>1, <1>2 DEF OnceParts, Doomed, Buried, OnlyUpdates, Exists
<1>5. OneSend' /\ MailsAreSends' /\ OneMail'
  BY <1>1, <1>2 DEF OnceParts, OneSend, MailsAreSends, OneMail, Live, Over, Mailed
<1>6. QED
  BY <1>3, <1>4, <1>5 DEF OnceParts

\* Nothing is in flight.
AllOver == \A i \in DOMAIN calls : Over(i)

LEMMA EditOnce ==
    ASSUME TypeOK, OnceParts, Calm', NEW t \in Texts, Edit(t) PROVE OnceParts'
<1>1. AllOver
  BY DEF Edit, Calm, Unanswered, AllOver, Over
<1>2. /\ UNCHANGED <<status, original, requesting, calls, deletion, editor, isSending, mount,
                     done, deletions>>
      /\ editor = "open" /\ throttled'.base = original
  BY DEF Edit, Schedule, Known, serverVars
<1>3. OpenedFirst' /\ ThrottledAlone'
  BY <1>1, <1>2 DEF OnceParts, OpenedFirst, ThrottledAlone, AllOver, Over
<1>4. Doomed' /\ Buried' /\ Exists'
  BY <1>1, <1>2 DEF OnceParts, Doomed, Buried, OnlyUpdates, Exists, AllOver, Over
<1>5. OneSend' /\ MailsAreSends' /\ OneMail'
  BY <1>2 DEF OnceParts, OneSend, MailsAreSends, OneMail, Live, Over, Mailed
<1>6. QED
  BY <1>3, <1>4, <1>5 DEF OnceParts

LEMMA ClickDeleteOnce ==
    ASSUME TypeOK, OnceParts, Calm', ClickDelete PROVE OnceParts'
<1>1. AllOver
  BY DEF ClickDelete, Calm, Unanswered, AllOver, Over
<1>2. /\ UNCHANGED <<status, original, requesting, throttled, calls, editor, isSending, mount,
                     done, deletions>>
      /\ editor = "open" /\ original # None
  BY DEF ClickDelete, serverVars, componentVars
<1>3. OpenedFirst' /\ ThrottledAlone'
  BY <1>2 DEF OnceParts, OpenedFirst, ThrottledAlone, Over
<1>4. OnlyUpdates'
  BY <1>1, <1>2 DEF OnceParts, ThrottledAlone, OnlyUpdates, AllOver, Over
<1>5. Doomed' /\ Buried' /\ Exists'
  BY <1>2, <1>4 DEF OnceParts, Doomed, Buried, Exists
<1>6. OneSend' /\ MailsAreSends' /\ OneMail'
  BY <1>2 DEF OnceParts, OneSend, MailsAreSends, OneMail, Live, Over, Mailed
<1>7. QED
  BY <1>3, <1>5, <1>6 DEF OnceParts

LEMMA DeleteOnce == ASSUME TypeOK, OnceParts, Delete PROVE OnceParts'
<1>1. /\ UNCHANGED <<original, requesting, throttled, calls, editor, isSending, mount, done>>
      /\ deletion = "asked" /\ status' = "absent"
  BY DEF Delete, storeVars, componentVars
<1>2. deletions' > 0
  <2>1. deletions \in Nat /\ deletions' = deletions + 1
    BY DEF TypeOK, Delete
  <2>2. QED
    BY <2>1
<1>3. OpenedFirst' /\ ThrottledAlone'
  BY <1>1 DEF OnceParts, OpenedFirst, ThrottledAlone, Over
<1>4. original # None /\ OnlyUpdates
  BY <1>1 DEF OnceParts, Doomed
<1>5. Doomed' /\ Buried' /\ Exists'
  BY <1>1, <1>2, <1>4 DEF Doomed, Buried, Exists, OnlyUpdates
<1>6. OneSend' /\ MailsAreSends' /\ OneMail'
  BY <1>1, <1>2 DEF OnceParts, OneSend, MailsAreSends, OneMail, Live, Over, Mailed
<1>7. QED
  BY <1>3, <1>5, <1>6 DEF OnceParts

LEMMA DeletedOnce == ASSUME TypeOK, OnceParts, Deleted PROVE OnceParts'
<1>1. /\ UNCHANGED <<status, requesting, throttled, calls, mount, done, deletions>>
      /\ deletion = "gone" /\ deletion' = "none" /\ original' = None
  BY DEF Deleted, serverVars
<1>2. editor' = "closed"
  BY DEF Deleted, Show
<1>3. OpenedFirst' /\ ThrottledAlone'
  BY <1>1, <1>2 DEF OnceParts, OpenedFirst, ThrottledAlone, Over
<1>4. Doomed' /\ Buried' /\ Exists'
  BY <1>1, <1>2 DEF OnceParts, Doomed, Buried, Exists, OnlyUpdates
<1>5. OneSend' /\ MailsAreSends' /\ OneMail'
  BY <1>1, <1>2 DEF OnceParts, OneSend, MailsAreSends, OneMail, Live, Over, Mailed
<1>6. QED
  BY <1>3, <1>4, <1>5 DEF OnceParts

LEMMA DeleteFailsOnce == ASSUME OnceParts, DeleteFails PROVE OnceParts'
<1>1. /\ UNCHANGED <<status, original, requesting, throttled, calls, editor, isSending, mount,
                     done, deletions>>
      /\ deletion' = "none"
  BY DEF DeleteFails, serverVars, storeVars, componentVars
<1>2. OpenedFirst' /\ ThrottledAlone'
  BY <1>1 DEF OnceParts, OpenedFirst, ThrottledAlone, Over
<1>3. Doomed' /\ Buried' /\ Exists'
  BY <1>1 DEF OnceParts, Doomed, Buried, Exists, OnlyUpdates
<1>4. OneSend' /\ MailsAreSends' /\ OneMail'
  BY <1>1 DEF OnceParts, OneSend, MailsAreSends, OneMail, Live, Over, Mailed
<1>5. QED
  BY <1>2, <1>3, <1>4 DEF OnceParts

(* The steps that start a call. *)
LEMMA AutosaveOnce == ASSUME TypeOK, OnceParts, Autosave PROVE OnceParts'
<1>1. /\ UNCHANGED <<status, original, requesting, editor, isSending, mount, done, deletion,
                     deletions>>
      /\ throttled # None /\ throttled' = None
  BY DEF Autosave, serverVars, storeVars, componentVars
<1>2. AllOver
  BY <1>1 DEF OnceParts, ThrottledAlone, AllOver
<1>3. \A i \in DOMAIN calls' :
         \/ i \in DOMAIN calls /\ calls'[i] = calls[i]
         \/ /\ i = Len(calls) + 1
            /\ calls'[i].stage = "saving" /\ calls'[i].send = FALSE
            /\ calls'[i].base = throttled.base /\ calls'[i].mailed = None
  BY AutosaveStarts DEF Started
<1>4. OpenedFirst' /\ ThrottledAlone'
  BY <1>1 DEF OnceParts, OpenedFirst, ThrottledAlone
<1>5. OnlyUpdates => OnlyUpdates'
  BY <1>1, <1>2, <1>3 DEF OnlyUpdates, AllOver, Over
<1>6. Exists'
  BY <1>1, <1>3 DEF OnceParts, Exists
<1>7. Doomed' /\ Buried'
  BY <1>1, <1>5 DEF OnceParts, Doomed, Buried
<1>8. \A i \in DOMAIN calls' : calls'[i].send => i \in DOMAIN calls /\ calls'[i] = calls[i]
  BY <1>3
<1>9. OneSend'
  BY <1>1, <1>8 DEF OnceParts, OneSend, Live, Over
<1>10. MailsAreSends'
  BY <1>1, <1>3 DEF OnceParts, MailsAreSends, Over, Mailed
<1>11. OneMail'
  BY <1>3 DEF OnceParts, OneMail, Mailed
<1>12. QED
  BY <1>4, <1>6, <1>7, <1>9, <1>10, <1>11 DEF OnceParts

LEMMA ClickSendOnce == ASSUME TypeOK, OnceParts, ClickSend PROVE OnceParts'
<1>1. /\ UNCHANGED <<status, original, requesting, editor, mount, done, deletion, deletions>>
      /\ editor = "open" /\ throttled' = None
  BY DEF ClickSend, CanSend, serverVars
<1>2. isSending' /\ ~isSending
  BY DEF ClickSend, CanSend
<1>3. (\A i \in DOMAIN calls : ~Live(i)) /\ ~done
  BY <1>1, <1>2 DEF OnceParts, OneSend
<1>4. \A i \in DOMAIN calls' :
         \/ i \in DOMAIN calls /\ calls'[i] = calls[i]
         \/ /\ i = Len(calls) + 1
            /\ calls'[i].stage = "saving" /\ calls'[i].send = TRUE
            /\ calls'[i].base = original /\ calls'[i].mailed = None
  BY ClickSendStarts DEF Started
<1>5. OpenedFirst' /\ ThrottledAlone'
  BY <1>1 DEF OnceParts, OpenedFirst, ThrottledAlone
<1>6. original # None /\ OnlyUpdates => OnlyUpdates'
  BY <1>1, <1>4 DEF OnlyUpdates
<1>7. Exists'
  BY <1>1, <1>4 DEF OnceParts, Exists
<1>8. Doomed' /\ Buried'
  BY <1>1, <1>6 DEF OnceParts, Doomed, Buried
<1>9. OneSend'
  <2>1. \A i \in DOMAIN calls' : Live(i)' => i = Len(calls) + 1
    BY <1>3, <1>4 DEF Live, Over
  <2>2. QED
    BY <1>1, <1>2, <1>3, <2>1 DEF OneSend
<1>10. MailsAreSends'
  BY <1>1, <1>4 DEF OnceParts, MailsAreSends, Over, Mailed
<1>11. OneMail'
  BY <1>4 DEF OnceParts, OneMail, Mailed
<1>12. QED
  BY <1>5, <1>7, <1>8, <1>9, <1>10, <1>11 DEF OnceParts

(* The steps of a call that has started. What they never do: *)
LEMMA ProgressKeeps ==
    ASSUME TypeOK, BodiesKnown, NEW i \in DOMAIN calls, Progress(i)
    PROVE  /\ UNCHANGED <<requesting, throttled, deletion, mount, deletions>>
           /\ editor = "closed" => editor' = "closed"
           /\ done => done'
           /\ status' = "absent" => status = "absent"
           /\ original # None => original' # None
<1>1. CASE Check(i)
  BY <1>1 DEF Check, serverVars, storeVars, componentVars
<1>2. CASE Refuse(i)
  BY <1>2 DEF Refuse, serverVars, storeVars
<1>3. CASE Write(i)
  BY <1>3 DEF Write, storeVars, componentVars
<1>4. CASE ReadBack(i)
  BY <1>4 DEF ReadBack, serverVars, storeVars
<1>5. CASE Saved(i)
  <2>1. calls[i].stage = "read" /\ original' = calls[i].got
    BY <1>5, ProgressMoves DEF Saved, Learn
  <2>2. original' # None
    BY <2>1 DEF BodiesKnown
  <2>3. editor = "closed" => editor' = "closed"
    BY <1>5 DEF Saved, Refresh, Show
  <2>4. QED
    BY <1>5, <2>2, <2>3 DEF Saved, serverVars
<1>6. CASE Deliver(i)
  BY <1>6 DEF Deliver, serverVars, storeVars
<1>7. CASE Mark(i)
  BY <1>7 DEF Mark, storeVars, componentVars
<1>8. CASE Sent(i)
  <2>1. UNCHANGED <<status, requesting, throttled, deletion, mount, deletions>>
    BY <1>8 DEF Sent, serverVars
  <2>2. \/ status # "absent" /\ original' = stored /\ done' /\ editor' = "closed"
        \/ UNCHANGED <<original, done, editor>>
    BY <1>8 DEF Sent, Show
  <2>3. QED
    BY <2>1, <2>2 DEF BodiesKnown
<1>9. QED
  BY <1>1, <1>2, <1>3, <1>4, <1>5, <1>6, <1>7, <1>8 DEF Progress

(* A call that goes on is not over, and none goes back to its checks. *)
LEMMA ProgressStage ==
    ASSUME TypeOK, MailsAreSends, NEW i \in DOMAIN calls, Progress(i)
    PROVE  /\ ~Over(i)
           /\ \E st : /\ Moved(i, st) /\ st \notin {"saving", "late", "lost"}
                      /\ st = "checked" => calls[i].stage = "saving"
<1>1. calls[i].stage \notin {"late", "lost"}
  BY DEF MailsAreSends
<1>2. \A st : Passed(i, st) => Moved(i, st)
  BY DEF Passed
<1>3. ~Over(i)
  BY <1>1, ProgressMoves DEF Progress, Over
<1>4. \E st : /\ Moved(i, st) /\ st \notin {"saving", "late", "lost"}
              /\ st = "checked" => calls[i].stage = "saving"
  <2>1. CASE Check(i)
    BY <1>2, <2>1, ProgressMoves
  <2>2. ASSUME NEW st \in {"refused", "written", "read", "posting", "done", "mailed", "marked"},
               Moved(i, st)
        PROVE  \E x : /\ Moved(i, x) /\ x \notin {"saving", "late", "lost"}
                      /\ x = "checked" => calls[i].stage = "saving"
    BY <2>2
  <2>3. CASE Refuse(i) \/ Write(i) \/ Mark(i) \/ Sent(i)
    BY <1>1, <1>2, <2>2, <2>3, ProgressMoves
  <2>4. CASE ReadBack(i)
    BY <1>2, <2>2, <2>4, ProgressMoves
  <2>5. CASE Deliver(i)
    BY <1>2, <2>2, <2>5, ProgressMoves
  <2>6. CASE Saved(i)
    BY <1>2, <2>2, <2>6, ProgressMoves
  <2>7. QED
    BY <2>1, <2>3, <2>4, <2>5, <2>6 DEF Progress
<1>5. QED
  BY <1>3, <1>4

(* The scene is open, and no save waits. *)
LEMMA OpenedProgress ==
    ASSUME TypeOK, BodiesKnown, OnceParts, NEW i \in DOMAIN calls, Progress(i)
    PROVE  OpenedFirst' /\ ThrottledAlone' /\ throttled = None
<1>1. ~Over(i) /\ UNCHANGED <<requesting, throttled, deletion, mount, deletions>>
  BY ProgressStage, ProgressKeeps DEF OnceParts
<1>2. calls # <<>>
  OBVIOUS
<1>3. mount # 0 /\ ~requesting
  BY <1>2 DEF OnceParts, OpenedFirst
<1>4. throttled = None
  BY <1>1 DEF OnceParts, ThrottledAlone
<1>5. QED
  BY <1>1, <1>3, <1>4 DEF OpenedFirst, ThrottledAlone

(* What is deleted stays so, since no call creates it. *)
LEMMA DoomedProgress ==
    ASSUME TypeOK, BodiesKnown, OnceParts, NEW i \in DOMAIN calls, Progress(i)
    PROVE  Doomed' /\ Buried'
<1>1. /\ UNCHANGED <<throttled, deletion, deletions>>
      /\ editor = "closed" => editor' = "closed"
      /\ original # None => original' # None
  BY ProgressKeeps
<1>2. OnlyUpdates => OnlyUpdates'
  <2>1. PICK st : /\ Moved(i, st) /\ st # "saving"
                  /\ st = "checked" => calls[i].stage = "saving"
    BY ProgressStage DEF OnceParts
  <2>2. QED
    BY <1>1, <2>1 DEF OnlyUpdates, Moved
<1>3. OnlyUpdates /\ status = "absent" => status' = "absent"
  <2>1. CASE Write(i)
    <3>1. calls[i].stage = "checked"
      BY <2>1, ProgressMoves
    <3>2. OnlyUpdates => calls[i].base # None
      BY <3>1 DEF OnlyUpdates
    <3>3. QED
      BY <2>1, <3>2 DEF Write
  <2>2. CASE Mark(i)
    BY <2>2 DEF Mark
  <2>3. CASE ~Write(i) /\ ~Mark(i)
    BY <2>3 DEF Progress, Check, Refuse, ReadBack, Saved, Deliver, Sent, serverVars
  <2>4. QED
    BY <2>1, <2>2, <2>3
<1>4. QED
  BY <1>1, <1>2, <1>3 DEF OnceParts, Doomed, Buried

(* What has been written exists until it is deleted. *)
LEMMA ExistsProgress ==
    ASSUME TypeOK, BodiesKnown, OnceParts, NEW i \in DOMAIN calls, Progress(i)
    PROVE  Exists'
<1>1. deletions' = deletions /\ (status' = "absent" => status = "absent")
  BY ProgressKeeps
<1> DEFINE needs(c) == \/ c.stage \in {"written", "read", "posting", "mailed", "marked"}
                       \/ c.stage = "checked" /\ c.base # None
<1>2. \A st : Passed(i, st) => Moved(i, st)
  BY DEF Passed
<1>3. ASSUME deletions = 0, NEW st, Moved(i, st), needs(calls'[i]) => status' # "absent"
      PROVE  Exists'
  <2>1. \A j \in DOMAIN calls : needs(calls[j]) => status # "absent"
    BY <1>3 DEF OnceParts, Exists
  <2>2. \A j \in DOMAIN calls' : needs(calls'[j]) => status' # "absent"
    BY <1>1, <1>3, <2>1 DEF Moved
  <2>3. QED
    BY <2>2 DEF Exists
<1>4. ASSUME deletions = 0 PROVE needs(calls[i]) => status # "absent"
  BY <1>4 DEF OnceParts, Exists
<1>5. calls[i].stage # "late"
  BY DEF OnceParts, MailsAreSends
<1>6. ASSUME deletions = 0
      PROVE  \E st : Moved(i, st) /\ (needs(calls'[i]) => status' # "absent")
  <2>1. CASE Check(i)
    <3>1. Moved(i, "checked") /\ (calls[i].base # None => status' # "absent")
      BY <1>2, <2>1, ProgressMoves DEF Check, Accepted, serverVars
    <3>2. QED
      BY <3>1 DEF Moved
  <2>2. CASE Refuse(i)
    BY <1>2, <2>2, ProgressMoves DEF Moved
  <2>3. CASE Write(i)
    <3>1. Moved(i, "written") /\ calls[i].stage = "checked"
      BY <1>2, <2>3, ProgressMoves
    <3>2. status' # "absent"
      BY <1>4, <1>6, <2>3, <3>1 DEF Write
    <3>3. QED
      BY <3>1, <3>2
  <2>4. CASE ReadBack(i)
    <3>1. \/ Moved(i, "read") /\ status # "absent"
          \/ Moved(i, "refused")
      BY <1>2, <2>4, ProgressMoves
    <3>2. QED
      BY <1>1, <3>1 DEF Moved
  <2>5. CASE Saved(i)
    <3>1. calls[i].stage = "read" /\ \E st : Moved(i, st)
      BY <1>2, <2>5, ProgressMoves
    <3>2. QED
      BY <1>1, <1>4, <1>6, <3>1
  <2>6. CASE Deliver(i)
    <3>1. \/ Moved(i, "mailed") /\ status = "draft"
          \/ Moved(i, "refused")
      BY <1>2, <2>6, ProgressMoves
    <3>2. QED
      BY <1>1, <3>1 DEF Moved
  <2>7. CASE Mark(i)
    <3>1. calls[i].stage = "mailed" /\ Moved(i, "marked")
      BY <1>2, <1>5, <2>7, ProgressMoves
    <3>2. QED
      BY <1>1, <1>4, <1>6, <3>1
  <2>8. CASE Sent(i)
    <3>1. Moved(i, "done") \/ Moved(i, "refused")
      BY <1>2, <2>8, ProgressMoves
    <3>2. QED
      BY <3>1 DEF Moved
  <2>9. QED
    BY <2>1, <2>2, <2>3, <2>4, <2>5, <2>6, <2>7, <2>8 DEF Progress
<1>7. CASE deletions = 0
  BY <1>3, <1>6, <1>7
<1>8. CASE deletions # 0
  BY <1>1, <1>8 DEF Exists
<1>9. QED
  BY <1>7, <1>8

(* The send that is underway keeps the editor waiting, or closes it. *)
LEMMA OneSendProgress ==
    ASSUME TypeOK, BodiesKnown, OnceParts, NEW i \in DOMAIN calls, Progress(i)
    PROVE  OneSend'
<1>1. editor = "closed" => editor' = "closed"
  BY ProgressKeeps
<1>2. PICK st : Moved(i, st)
  BY ProgressStage DEF OnceParts
<1>3. ~Over(i) /\ DOMAIN calls' = DOMAIN calls
  BY <1>2, ProgressStage DEF OnceParts, Moved
<1>4. \A j \in DOMAIN calls : Live(j)' => Live(j)
  BY <1>2, <1>3 DEF Live, Over, Moved
<1>5. \A j, k \in DOMAIN calls' : Live(j)' /\ Live(k)' => j = k
  BY <1>3, <1>4 DEF OnceParts, OneSend
<1>6. Over(i)' /\ calls[i].send => \A j \in DOMAIN calls : ~Live(j)'
  <2>1. SUFFICES ASSUME Over(i)', calls[i].send, NEW j \in DOMAIN calls, Live(j)'
                 PROVE  FALSE
    OBVIOUS
  <2>2. Live(i) /\ Live(j)
    BY <1>3, <1>4, <2>1 DEF Live
  <2>3. i = j
    BY <2>2 DEF OnceParts, OneSend
  <2>4. QED
    BY <2>1, <2>3 DEF Live
<1>7. ASSUME NEW x \in {"refused", "done"}, Passed(i, x) PROVE Over(i)'
  BY <1>7 DEF Passed, Moved, Over
<1>8. CASE Sent(i)
  <2>1. calls[i].stage = "marked" /\ (Passed(i, "done") \/ Passed(i, "refused"))
    BY <1>8, ProgressMoves
  <2>2. calls[i].send /\ Over(i)'
    BY <1>7, <2>1 DEF OnceParts, MailsAreSends
  <2>3. \A j \in DOMAIN calls' : ~Live(j)'
    BY <1>3, <1>6, <2>2
  <2>4. done' => editor' = "closed"
    <3>1. editor' = "closed" \/ UNCHANGED <<done, editor>>
      BY <1>8 DEF Sent, Show
    <3>2. QED
      BY <3>1 DEF OnceParts, OneSend
  <2>5. QED
    BY <2>3, <2>4 DEF OneSend
<1>9. CASE ~Sent(i)
  <2>1. done' = done
    BY <1>9
    DEF Progress, Check, Refuse, Write, ReadBack, Saved, Deliver, Mark
  <2>2. done' => editor' = "closed" /\ \A j \in DOMAIN calls' : ~Live(j)'
    BY <1>1, <1>3, <1>4, <2>1 DEF OnceParts, OneSend
  <2>3. isSending' = isSending \/ (Over(i)' /\ calls[i].send)
    <3>1. CASE UNCHANGED isSending
      BY <3>1
    <3>2. ASSUME Reject(i, "refused"), Over(i)'
          PROVE  isSending' = isSending \/ (Over(i)' /\ calls[i].send)
      <4>1. CASE calls[i].send
        BY <3>2, <4>1
      <4>2. CASE ~calls[i].send
        <5>1. isSending' = (isSending /\ ~(calls[i].send /\ calls[i].mount = mount))
          BY <3>2 DEF Reject
        <5>2. isSending' = isSending
          BY <4>2, <5>1 DEF TypeOK
        <5>3. QED
          BY <5>2
      <4>3. QED
        BY <4>1, <4>2
    <3>3. CASE Refuse(i)
      BY <1>7, <3>2, <3>3, ProgressMoves DEF Refuse
    <3>4. CASE ReadBack(i)
      <4>1. CASE UNCHANGED isSending
        BY <4>1
      <4>2. CASE status = "absent" /\ Reject(i, "refused")
        BY <1>7, <3>2, <3>4, <4>2, ProgressMoves
      <4>3. QED
        BY <3>4, <4>1, <4>2 DEF ReadBack
    <3>5. CASE Deliver(i)
      <4>1. CASE UNCHANGED isSending
        BY <4>1
      <4>2. CASE status # "draft" /\ Reject(i, "refused")
        BY <1>7, <3>2, <3>5, <4>2, ProgressMoves
      <4>3. QED
        BY <3>5, <4>1, <4>2 DEF Deliver
    <3>6. CASE Check(i) \/ Write(i) \/ Saved(i) \/ Mark(i)
      BY <3>1, <3>6 DEF Check, Write, Saved, Mark, componentVars
    <3>7. QED
      BY <1>9, <3>3, <3>4, <3>5, <3>6 DEF Progress
  <2>4. \A j \in DOMAIN calls' : Live(j)' => isSending' \/ editor' = "closed"
    <3>1. CASE isSending' = isSending
      BY <1>1, <1>3, <1>4, <3>1 DEF OnceParts, OneSend
    <3>2. CASE Over(i)' /\ calls[i].send
      BY <1>3, <1>6, <3>2
    <3>3. QED
      BY <2>3, <3>1, <3>2
  <2>5. QED
    BY <1>5, <2>2, <2>4 DEF OneSend
<1>10. QED
  BY <1>8, <1>9

(* A call that has mailed is a send, and it is over when the editor or the message is. *)
LEMMA MailsProgress ==
    ASSUME TypeOK, BodiesKnown, OnceParts, NEW i \in DOMAIN calls, Progress(i)
    PROVE  MailsAreSends'
<1>1. deletions' = deletions /\ (done => done')
  BY ProgressKeeps
<1> DEFINE kept(c) ==
      /\ c.stage \notin {"late", "lost"}
      /\ c.stage \in {"posting", "mailed", "marked"} => c.send
      /\ c.mailed # None => c.send /\ c.stage \in {"mailed", "marked", "done", "refused"}
      /\ c.mailed # None /\ c.stage \in {"done", "refused"} => deletions > 0 \/ done'
<1>2. \A j \in DOMAIN calls : kept(calls[j])
  BY <1>1 DEF OnceParts, MailsAreSends, Mailed, Over
<1>3. ASSUME NEW st, Moved(i, st), kept(calls'[i]) PROVE MailsAreSends'
  <2>1. \A j \in DOMAIN calls' : kept(calls'[j])
    BY <1>2, <1>3 DEF Moved
  <2>2. QED
    BY <1>1, <2>1 DEF MailsAreSends, Mailed, Over
<1>4. /\ calls[i].stage \notin {"late", "lost"}
      /\ calls[i].stage \in {"posting", "mailed", "marked"} => calls[i].send
      /\ calls[i].mailed # None =>
           calls[i].send /\ calls[i].stage \in {"mailed", "marked", "done", "refused"}
  BY <1>2
<1>5. ASSUME NEW st, Moved(i, st), calls'[i].mailed = calls[i].mailed, calls[i].mailed = None,
             st \notin {"late", "lost"},
             st \in {"posting", "mailed", "marked"} => calls[i].send
      PROVE  MailsAreSends'
  <2>1. kept(calls'[i])
    BY <1>5 DEF Moved
  <2>2. QED
    BY <1>3, <1>5, <2>1
<1>6. CASE Check(i)
  BY <1>4, <1>5, <1>6, ProgressMoves DEF Passed
<1>7. CASE Refuse(i)
  BY <1>4, <1>5, <1>7, ProgressMoves DEF Passed
<1>8. CASE Write(i)
  BY <1>4, <1>5, <1>8, ProgressMoves DEF Passed
<1>9. CASE ReadBack(i)
  <2>1. /\ calls[i].mailed = None /\ calls'[i].mailed = calls[i].mailed
        /\ Moved(i, "read") \/ Moved(i, "refused")
    BY <1>4, <1>9, ProgressMoves DEF Passed
  <2>2. QED
    BY <1>5, <2>1
<1>10. CASE Saved(i)
  <2>1. calls[i].mailed = None /\ Passed(i, IF calls[i].send THEN "posting" ELSE "done")
    BY <1>4, <1>10, ProgressMoves
  <2>2. CASE calls[i].send
    BY <1>5, <2>1, <2>2 DEF Passed
  <2>3. CASE ~calls[i].send
    BY <1>5, <2>1, <2>3 DEF Passed
  <2>4. QED
    BY <2>2, <2>3
<1>11. CASE Deliver(i)
  <2>1. calls[i].stage = "posting" /\ calls[i].send /\ calls[i].mailed = None
    BY <1>4, <1>11, ProgressMoves
  <2>2. Moved(i, "mailed") \/ Passed(i, "refused")
    BY <1>11, ProgressMoves
  <2>3. CASE Moved(i, "mailed")
    <3>1. kept(calls'[i])
      BY <2>1, <2>3 DEF Moved
    <3>2. QED
      BY <1>3, <2>3, <3>1
  <2>4. CASE Passed(i, "refused")
    BY <1>5, <2>1, <2>4 DEF Passed
  <2>5. QED
    BY <2>2, <2>3, <2>4
<1>12. CASE Mark(i)
  <2>1. calls[i].send /\ Passed(i, "marked")
    BY <1>4, <1>12, ProgressMoves
  <2>2. kept(calls'[i])
    BY <2>1 DEF Passed, Moved
  <2>3. QED
    BY <1>3, <2>1, <2>2 DEF Passed
<1>13. CASE Sent(i)
  <2>1. /\ calls[i].stage = "marked" /\ calls[i].send
        /\ \/ status # "absent" /\ Passed(i, "done")
           \/ status = "absent" /\ Passed(i, "refused")
    BY <1>4, <1>13, ProgressMoves
  <2>2. status # "absent" => done'
    BY <1>13 DEF Sent
  <2>3. deletions \in Nat
    BY DEF TypeOK
  <2>4. status = "absent" => deletions > 0
    BY <2>1, <2>3 DEF OnceParts, Exists
  <2>5. PICK st \in {"done", "refused"} : Passed(i, st)
    BY <2>1
  <2>6. kept(calls'[i])
    BY <2>1, <2>2, <2>4, <2>5 DEF Passed, Moved
  <2>7. QED
    BY <1>3, <2>5, <2>6 DEF Passed
<1>14. QED
  BY <1>6, <1>7, <1>8, <1>9, <1>10, <1>11, <1>12, <1>13 DEF Progress

(* The broker mails only for the send that is underway, and only a draft. *)
LEMMA OneMailProgress ==
    ASSUME TypeOK, BodiesKnown, OnceParts, NEW i \in DOMAIN calls, Progress(i)
    PROVE  OneMail'
<1>1. calls[i].stage # "late"
  BY DEF OnceParts, MailsAreSends
<1>2. CASE Deliver(i) /\ status = "draft"
  <2>1. Moved(i, "mailed") /\ calls[i].stage = "posting"
    BY <1>2, ProgressMoves
  <2>2. Live(i)
    BY <2>1 DEF Live, Over, OnceParts, MailsAreSends
  <2>3. ~done /\ ~(deletions > 0)
    BY <1>2, <2>2 DEF OnceParts, OneSend, Buried
  <2>4. ASSUME NEW j \in DOMAIN calls, Mailed(j) PROVE j = i
    <3>1. calls[j].send /\ ~Over(j)
      BY <2>3, <2>4 DEF OnceParts, MailsAreSends
    <3>2. QED
      BY <2>2, <3>1 DEF OnceParts, OneSend, Live
  <2>5. \A j \in DOMAIN calls' : j # i => j \in DOMAIN calls /\ calls'[j] = calls[j]
    BY <2>1 DEF Moved
  <2>6. \A j \in DOMAIN calls' : Mailed(j)' => j = i
    BY <2>4, <2>5 DEF Mailed
  <2>7. QED
    BY <2>6 DEF OneMail
<1>3. CASE ~(Deliver(i) /\ status = "draft")
  <2>1. \E st : Moved(i, st) /\ calls'[i].mailed = calls[i].mailed
    <3>1. ASSUME NEW x, Passed(i, x)
          PROVE  \E st : Moved(i, st) /\ calls'[i].mailed = calls[i].mailed
      BY <3>1 DEF Passed
    <3>2. CASE ReadBack(i)
      BY <3>1, <3>2, ProgressMoves
    <3>3. CASE Deliver(i)
      BY <1>3, <3>1, <3>3, ProgressMoves
    <3>4. CASE Check(i) \/ Refuse(i) \/ Write(i) \/ Saved(i) \/ Mark(i) \/ Sent(i)
      BY <3>1, <3>4, ProgressMoves
    <3>5. QED
      BY <3>2, <3>3, <3>4 DEF Progress
  <2>2. \A j \in DOMAIN calls' : j \in DOMAIN calls /\ calls'[j].mailed = calls[j].mailed
    BY <2>1 DEF Moved
  <2>3. QED
    BY <2>2 DEF OnceParts, OneMail, Mailed
<1>4. QED
  BY <1>2, <1>3

LEMMA InitOnce == Init => BodiesKnown /\ OnceParts
<1> SUFFICES ASSUME Init PROVE BodiesKnown /\ OnceParts
  OBVIOUS
<1>1. DOMAIN calls = {} /\ calls = <<>>
  BY DEF Init
<1>2. BodiesKnown
  BY <1>1 DEF Init, BodiesKnown
<1>3. OnceParts
  BY <1>1
  DEF Init, OnceParts, OpenedFirst, ThrottledAlone, Doomed, Buried, Exists, OneSend,
      MailsAreSends, OneMail
<1>4. QED
  BY <1>2, <1>3

LEMMA OnceStep ==
    ASSUME TypeOK, BodiesKnown, OnceParts, Calm, Calm', [Next]_vars PROVE OnceParts'
<1>1. CASE User
  BY <1>1, OpenOnce, CloseOnce, ClickSendOnce, ClickDeleteOnce, EditOnce DEF User
<1>2. CASE Requests
  <2>1. UNCHANGED failures
    <3>1. failures = 0 /\ failures' = 0
      BY DEF Calm
    <3>2. QED
      BY <3>1
  <2>2. QED
    BY <1>2, <2>1, AnsweredOnce, DeleteOnce, DeletedOnce, DeleteFailsOnce DEF Requests
<1>3. CASE Autosave
  BY <1>3, AutosaveOnce
<1>4. ASSUME NEW i \in DOMAIN calls, Progress(i) PROVE OnceParts'
  BY <1>4, OpenedProgress, DoomedProgress, ExistsProgress, OneSendProgress, MailsProgress,
     OneMailProgress
  DEF OnceParts
<1>5. ASSUME NEW i \in DOMAIN calls, Lose(i) PROVE OnceParts'
  <2>1. failures = 0 /\ failures' = 0 /\ failures' = failures + 1
    BY <1>5 DEF Calm, Lose
  <2>2. QED
    BY <2>1
<1>6. CASE UNCHANGED vars
  <2>1. UNCHANGED <<status, original, requesting, throttled, calls, deletion, editor, isSending,
                    mount, done, deletions>>
    BY <1>6 DEF vars, serverVars, storeVars, componentVars
  <2>2. QED
    BY <2>1
    DEF OnceParts, OpenedFirst, ThrottledAlone, Doomed, Buried, OnlyUpdates, Exists, OneSend,
        MailsAreSends, OneMail, Live, Over, Mailed
<1>7. QED
  BY <1>1, <1>2, <1>3, <1>4, <1>5, <1>6 DEF Next

LEMMA OInvStep == OInv /\ [Next]_vars => OInv'
<1> SUFFICES ASSUME OInv, [Next]_vars PROVE OInv'
  OBVIOUS
<1>1. TypeOK' /\ BodiesKnown'
  BY TypeStep, BodiesStep DEF OInv
<1>2. ASSUME Calm' PROVE OnceParts'
  <2>1. Calm
    BY <1>2, CalmStep DEF OInv
  <2>2. QED
    BY <1>2, <2>1, OnceStep DEF OInv
<1>3. QED
  BY <1>1, <1>2 DEF OInv

LEMMA OInvMailedOnce == OInv => MailedOnce
<1> SUFFICES ASSUME OInv, NEW i \in Mailings, NEW j \in Mailings, i # j
             PROVE  overlapped \/ failures > 0 \/ mount > 1
  BY DEF MailedOnce
<1>1. i \in DOMAIN calls /\ j \in DOMAIN calls /\ Mailed(i) /\ Mailed(j)
  BY DEF Mailings, Mailed
<1>2. ~Calm
  BY <1>1 DEF OInv, OnceParts, OneMail
<1>3. failures \in Nat /\ mount \in Nat
  BY DraftBoundsAssumption DEF OInv, TypeOK
<1>4. CASE overlapped
  BY <1>4
<1>5. CASE ~overlapped
  <2>1. failures # 0 \/ ~(mount <= 1)
    BY <1>2, <1>5 DEF Calm
  <2>2. failures > 0 \/ mount > 1
    BY <1>3, <2>1
  <2>3. QED
    BY <2>2
<1>6. QED
  BY <1>4, <1>5

(* One click is one mail, for a user who waits for the answers to his saves, as long as
   none of them is lost and the scene is opened once: the send he asked for is the only one
   that is underway until the editor or the message is gone (getCanSend, handleSend). *)
THEOREM OnceCorrect == Spec => []MailedOnce
<1>1. Init => OInv
  BY InitType, InitOnce DEF OInv
<1>2. QED
  BY <1>1, OInvStep, OInvMailedOnce, PTL DEF Spec
-----------------------------------------------------------------------------
(***************************************************************************)
(* What a user who waits for the answers to his saves may rely on, however *)
(* often the scene is opened and whatever is lost: the texts in flight are *)
(* one, and what is deleted is not created again.                          *)
(***************************************************************************)
StoredExists == status = "absent" => stored = None

\* A save that waits is of the last edit: nothing is in flight, and it is an update of what
\* is stored, or it creates a message that is not known.
ThrottledIsLast ==
    throttled # None =>
        /\ AllOver
        /\ throttled.base = None => original = None /\ throttled.deletions = deletions
        /\ throttled.base # None => stored \in {None, throttled.base}
        /\ entry \in {Blank, None, throttled.text}
        /\ editor = "open" => text \in {Blank, throttled.text}

EditorAnswered == editor = "open" => ~requesting /\ entry # None

\* As long as the store knows no draft, the server has none, and none is being created.
NotYet ==
    /\ requesting \/ (entry = None /\ ~done) => status = "absent" /\ OnlyUpdates
    /\ entry = None /\ ~done => original = None
DeletedIsAbsent == deletion = "gone" => status = "absent"

\* A call that creates the message was asked for after the last deletion.
CreatesAreRecent ==
    \A i \in DOMAIN calls :
        calls[i].stage \in {"saving", "checked"} /\ calls[i].base = None
            => calls[i].deletions = deletions

\* The calls in flight have one text, which is the editor's if it has any.
OneText ==
    \A i \in DOMAIN calls : ~Over(i) =>
        /\ \A j \in DOMAIN calls : ~Over(j) => calls[i].text = calls[j].text
        /\ entry \in {Blank, None, calls[i].text}
        /\ editor = "open" => text \in {Blank, calls[i].text}

\* Call i is about to rely on the message having the text of the call.
Relies(i) ==
    \/ calls[i].stage \in {"written", "read", "posting"}
    \/ calls[i].stage \in {"saving", "checked"} /\ ~HasBody(calls[i])
    \/ ~Over(i) /\ original = calls[i].text
StoredIsText ==
    \A i \in DOMAIN calls :
        /\ Relies(i) => stored \in {None, calls[i].text}
        /\ calls[i].stage = "read" => calls[i].got = calls[i].text

\* The browser knows what is stored, or an answer will tell it, or never will.
KnownIsStored ==
    \/ status = "absent" \/ original \in {None, stored}
    \/ \E i \in DOMAIN calls : calls[i].stage \in {"written", "read", "lost", "late"}

MailedIsText == \A i \in DOMAIN calls : calls[i].mailed \in {None, calls[i].text}

OrderParts ==
    /\ StoredExists /\ EditorAnswered /\ NotYet /\ Doomed /\ DeletedIsAbsent
    /\ ThrottledIsLast /\ CreatesAreRecent
    /\ OneText /\ StoredIsText /\ KnownIsStored /\ MailedIsText

CInv == TypeOK /\ BodiesKnown /\ (~overlapped => OrderParts)

(* The steps that leave the calls alone. *)
LEMMA OpenOrder == ASSUME TypeOK, OrderParts, Open PROVE OrderParts'
<1>1. /\ UNCHANGED <<stored, status, original, throttled, calls, deletion, done, deletions>>
      /\ ~done
  BY DEF Open, serverVars
<1>2. entry' = entry
  <2>1. entry # None \/ original = None
    BY <1>1 DEF OrderParts, NotYet
  <2>2. QED
    BY <2>1 DEF Open
<1>3. requesting' => requesting \/ entry = None
  BY DEF Open
<1>4. editor' = "open" => ~requesting' /\ entry # None /\ text' = entry
  BY <1>2 DEF Open, Show
<1>5. /\ StoredExists' /\ EditorAnswered' /\ NotYet' /\ Doomed' /\ DeletedIsAbsent'
  BY <1>1, <1>2, <1>3, <1>4
  DEF OrderParts, StoredExists, EditorAnswered, NotYet, Doomed, DeletedIsAbsent, OnlyUpdates
<1>6. ThrottledIsLast' /\ CreatesAreRecent'
  BY <1>1, <1>2, <1>4 DEF OrderParts, ThrottledIsLast, CreatesAreRecent, AllOver, Over
<1>7. OneText' /\ StoredIsText' /\ KnownIsStored' /\ MailedIsText'
  BY <1>1, <1>2, <1>4
  DEF OrderParts, OneText, StoredIsText, Relies, HasBody, KnownIsStored, MailedIsText, Over
<1>8. QED
  BY <1>5, <1>6, <1>7 DEF OrderParts

LEMMA CloseOrder ==
    ASSUME OrderParts, UNCHANGED <<serverVars, storeVars, throttled, calls, done, deletions>>,
           deletion' \in {"none", deletion},
           editor' = "closed" \/ UNCHANGED <<editor, text>>
    PROVE  OrderParts'
<1>1. UNCHANGED <<stored, status, entry, original, requesting>>
  BY DEF serverVars, storeVars
<1>2. /\ StoredExists' /\ EditorAnswered' /\ NotYet' /\ Doomed' /\ DeletedIsAbsent'
  BY <1>1
  DEF OrderParts, StoredExists, EditorAnswered, NotYet, Doomed, DeletedIsAbsent, OnlyUpdates
<1>3. ThrottledIsLast' /\ CreatesAreRecent'
  BY <1>1 DEF OrderParts, ThrottledIsLast, CreatesAreRecent, AllOver, Over
<1>4. OneText' /\ StoredIsText' /\ KnownIsStored' /\ MailedIsText'
  BY <1>1
  DEF OrderParts, OneText, StoredIsText, Relies, HasBody, KnownIsStored, MailedIsText, Over
<1>5. QED
  BY <1>2, <1>3, <1>4 DEF OrderParts

LEMMA EditOrder ==
    ASSUME TypeOK, OrderParts, NEW t \in Texts, Edit(t), ~overlapped' PROVE OrderParts'
<1>1. AllOver
  BY DEF Edit, Unanswered, AllOver, Over
<1>2. /\ UNCHANGED <<stored, status, original, requesting, calls, deletion, done, deletions, editor>>
      /\ editor = "open" /\ text' = t /\ entry' = t
      /\ throttled'.base = original /\ throttled'.text = t /\ throttled'.deletions = deletions
  BY DEF Edit, Schedule, Known, serverVars
<1>3. t # None
  BY TextsAssumption
<1>4. original = None \/ stored \in {None, original}
  BY <1>1 DEF OrderParts, KnownIsStored, StoredExists, AllOver, Over
<1>5. ~requesting
  BY <1>2 DEF OrderParts, EditorAnswered
<1>6. /\ StoredExists' /\ EditorAnswered' /\ NotYet' /\ Doomed' /\ DeletedIsAbsent'
  BY <1>2, <1>3, <1>5
  DEF OrderParts, StoredExists, EditorAnswered, NotYet, Doomed, DeletedIsAbsent, OnlyUpdates
<1>7. ThrottledIsLast' /\ CreatesAreRecent'
  BY <1>1, <1>2, <1>4 DEF OrderParts, ThrottledIsLast, CreatesAreRecent, AllOver, Over
<1>8. OneText' /\ StoredIsText' /\ KnownIsStored' /\ MailedIsText'
  BY <1>1, <1>2
  DEF OrderParts, OneText, StoredIsText, Relies, HasBody, KnownIsStored, MailedIsText, Over,
      AllOver
<1>9. QED
  BY <1>6, <1>7, <1>8 DEF OrderParts

LEMMA ClickDeleteOrder ==
    ASSUME TypeOK, OrderParts, ClickDelete, ~overlapped' PROVE OrderParts'
<1>1. AllOver
  BY DEF ClickDelete, Unanswered, AllOver, Over
<1>2. /\ UNCHANGED <<stored, status, entry, original, requesting, throttled, calls, done, deletions,
                     editor, text>>
      /\ original # None /\ deletion' = "asked"
  BY DEF ClickDelete, serverVars, componentVars
<1>3. OnlyUpdates
  BY <1>1, <1>2 DEF OrderParts, ThrottledIsLast, OnlyUpdates, AllOver, Over
<1>4. /\ StoredExists' /\ EditorAnswered' /\ NotYet' /\ Doomed' /\ DeletedIsAbsent'
  BY <1>2, <1>3
  DEF OrderParts, StoredExists, EditorAnswered, NotYet, Doomed, DeletedIsAbsent, OnlyUpdates
<1>5. ThrottledIsLast' /\ CreatesAreRecent'
  BY <1>2 DEF OrderParts, ThrottledIsLast, CreatesAreRecent, AllOver, Over
<1>6. OneText' /\ StoredIsText' /\ KnownIsStored' /\ MailedIsText'
  BY <1>2
  DEF OrderParts, OneText, StoredIsText, Relies, HasBody, KnownIsStored, MailedIsText, Over
<1>7. QED
  BY <1>4, <1>5, <1>6 DEF OrderParts

LEMMA DeleteOrder == ASSUME TypeOK, OrderParts, Delete PROVE OrderParts'
<1>1. /\ UNCHANGED <<entry, original, requesting, throttled, calls, done, editor, text>>
      /\ deletion = "asked" /\ status' = "absent" /\ stored' = None
  BY DEF Delete, storeVars, componentVars
<1>2. original # None /\ OnlyUpdates
  BY <1>1 DEF OrderParts, Doomed
<1>3. /\ StoredExists' /\ EditorAnswered' /\ NotYet' /\ Doomed' /\ DeletedIsAbsent'
  BY <1>1, <1>2
  DEF OrderParts, StoredExists, EditorAnswered, NotYet, Doomed, DeletedIsAbsent, OnlyUpdates
<1>4. ThrottledIsLast' /\ CreatesAreRecent'
  BY <1>1, <1>2 DEF OrderParts, ThrottledIsLast, CreatesAreRecent, OnlyUpdates, AllOver, Over
<1>5. OneText' /\ StoredIsText' /\ KnownIsStored' /\ MailedIsText'
  BY <1>1
  DEF OrderParts, OneText, StoredIsText, Relies, HasBody, KnownIsStored, MailedIsText, Over
<1>6. QED
  BY <1>3, <1>4, <1>5 DEF OrderParts

LEMMA DeletedOrder == ASSUME TypeOK, OrderParts, Deleted PROVE OrderParts'
<1>1. /\ UNCHANGED <<stored, status, requesting, throttled, calls, done, deletions>>
      /\ deletion = "gone" /\ deletion' = "none" /\ original' = None /\ entry' = None
  BY DEF Deleted, serverVars
<1>2. editor' = "closed"
  BY DEF Deleted, Show
<1>3. status = "absent" /\ stored = None /\ OnlyUpdates
  BY <1>1 DEF OrderParts, Doomed, DeletedIsAbsent, StoredExists
<1>4. /\ StoredExists' /\ EditorAnswered' /\ NotYet' /\ Doomed' /\ DeletedIsAbsent'
  BY <1>1, <1>2, <1>3
  DEF OrderParts, StoredExists, EditorAnswered, NotYet, Doomed, DeletedIsAbsent, OnlyUpdates
<1>5. ThrottledIsLast' /\ CreatesAreRecent'
  BY <1>1, <1>2, <1>3
  DEF OrderParts, ThrottledIsLast, CreatesAreRecent, OnlyUpdates, AllOver, Over
<1>6. OneText' /\ StoredIsText' /\ KnownIsStored' /\ MailedIsText'
  BY <1>1, <1>2, <1>3
  DEF OrderParts, OneText, StoredIsText, Relies, HasBody, KnownIsStored, MailedIsText, Over
<1>7. QED
  BY <1>4, <1>5, <1>6 DEF OrderParts

LEMMA AnsweredOrder ==
    ASSUME TypeOK, OrderParts, DraftFound \/ SentFound \/ DraftNotFound PROVE OrderParts'
<1>1. requesting /\ status = "absent" /\ OnlyUpdates
  BY DEF OrderParts, NotYet, DraftFound, SentFound, DraftNotFound
<1>2. DraftNotFound
  BY <1>1 DEF DraftFound, SentFound
<1>3. /\ UNCHANGED <<stored, status, original, throttled, calls, deletion, done, deletions>>
      /\ ~requesting' /\ entry' = Blank
  BY <1>2 DEF DraftNotFound, serverVars
<1>4. editor' = "open" => text' = Blank
  <2>1. Refresh(Blank, FALSE) /\ editor # "open"
    BY <1>1, <1>2 DEF DraftNotFound, OrderParts, EditorAnswered
  <2>2. QED
    BY <2>1 DEF Refresh, Show
<1>5. Blank # None
  BY TextsAssumption
<1>6. /\ StoredExists' /\ EditorAnswered' /\ NotYet' /\ Doomed' /\ DeletedIsAbsent'
  BY <1>3, <1>5
  DEF OrderParts, StoredExists, EditorAnswered, NotYet, Doomed, DeletedIsAbsent, OnlyUpdates
<1>7. ThrottledIsLast' /\ CreatesAreRecent'
  BY <1>3, <1>4 DEF OrderParts, ThrottledIsLast, CreatesAreRecent, AllOver, Over
<1>8. OneText' /\ StoredIsText' /\ KnownIsStored' /\ MailedIsText'
  BY <1>3, <1>4
  DEF OrderParts, OneText, StoredIsText, Relies, HasBody, KnownIsStored, MailedIsText, Over
<1>9. QED
  BY <1>6, <1>7, <1>8 DEF OrderParts

(* The steps that start a call. *)
LEMMA AutosaveOrder == ASSUME TypeOK, OrderParts, Autosave PROVE OrderParts'
<1>1. /\ UNCHANGED <<stored, status, entry, original, requesting, editor, text, done, deletion,
                     deletions>>
      /\ throttled # None /\ throttled' = None
  BY DEF Autosave, serverVars, storeVars, componentVars
<1>2. AllOver
  BY <1>1 DEF OrderParts, ThrottledIsLast
<1>3. \A i \in DOMAIN calls' :
         \/ i \in DOMAIN calls /\ calls'[i] = calls[i]
         \/ /\ i = Len(calls) + 1
            /\ calls'[i].stage = "saving" /\ calls'[i].mailed = None
            /\ calls'[i].base = throttled.base /\ calls'[i].text = throttled.text
            /\ calls'[i].deletions = throttled.deletions
  BY AutosaveStarts DEF Started
<1>4. throttled.text # None
  <2>1. throttled \in Throttled
    BY <1>1 DEF TypeOK
  <2>2. QED
    BY <2>1, BodyIsNotNone DEF Throttled
<1>5. /\ throttled.base = None => original = None /\ throttled.deletions = deletions
      /\ throttled.base # None => stored \in {None, throttled.base}
      /\ entry \in {Blank, None, throttled.text}
      /\ editor = "open" => text \in {Blank, throttled.text}
  BY <1>1 DEF OrderParts, ThrottledIsLast
<1>6. OnlyUpdates => OnlyUpdates'
  BY <1>1, <1>2, <1>3 DEF OnlyUpdates, AllOver, Over
<1>7. /\ StoredExists' /\ EditorAnswered' /\ NotYet' /\ Doomed' /\ DeletedIsAbsent'
  BY <1>1, <1>6 DEF OrderParts, StoredExists, EditorAnswered, NotYet, Doomed, DeletedIsAbsent
<1>8. ThrottledIsLast' /\ CreatesAreRecent'
  BY <1>1, <1>3, <1>5 DEF OrderParts, ThrottledIsLast, CreatesAreRecent
<1>9. \A i \in DOMAIN calls' : ~Over(i)' => i = Len(calls) + 1 /\ calls'[i].text = throttled.text
  BY <1>2, <1>3 DEF AllOver, Over
<1>10. OneText'
  BY <1>1, <1>5, <1>9 DEF OneText
<1>11. original = throttled.text => stored \in {None, throttled.text}
  BY <1>2, <1>4 DEF OrderParts, KnownIsStored, StoredExists, AllOver, Over
<1>12. StoredIsText'
  BY <1>1, <1>2, <1>3, <1>4, <1>5, <1>11 DEF StoredIsText, Relies, HasBody, AllOver, Over
<1>13. KnownIsStored'
  BY <1>1, <1>2 DEF OrderParts, KnownIsStored, AllOver, Over
<1>14. MailedIsText'
  BY <1>3 DEF OrderParts, MailedIsText
<1>15. QED
  BY <1>7, <1>8, <1>10, <1>12, <1>13, <1>14 DEF OrderParts

LEMMA ClickSendOrder == ASSUME TypeOK, OrderParts, ClickSend PROVE OrderParts'
<1>1. /\ UNCHANGED <<stored, status, original, requesting, editor, text, done, deletion, deletions>>
      /\ editor = "open" /\ throttled' = None /\ entry' = text /\ text # Blank
  BY DEF ClickSend, CanSend, serverVars
<1>2. \A i \in DOMAIN calls' :
         \/ i \in DOMAIN calls /\ calls'[i] = calls[i]
         \/ /\ i = Len(calls) + 1
            /\ calls'[i].stage = "saving" /\ calls'[i].mailed = None
            /\ calls'[i].base = original /\ calls'[i].text = text
            /\ calls'[i].deletions = deletions
  BY ClickSendStarts DEF Started
<1>3. text # None /\ ~requesting
  BY <1>1, BodyIsNotNone DEF TypeOK, OrderParts, EditorAnswered
<1>4. original # None /\ OnlyUpdates => OnlyUpdates'
  BY <1>1, <1>2 DEF OnlyUpdates
<1>5. /\ StoredExists' /\ EditorAnswered' /\ NotYet' /\ Doomed' /\ DeletedIsAbsent'
  BY <1>1, <1>3, <1>4
  DEF OrderParts, StoredExists, EditorAnswered, NotYet, Doomed, DeletedIsAbsent
<1>6. ThrottledIsLast' /\ CreatesAreRecent'
  BY <1>1, <1>2 DEF OrderParts, ThrottledIsLast, CreatesAreRecent
<1>7. \A i \in DOMAIN calls' : ~Over(i)' => calls'[i].text = text
  <2>1. \A i \in DOMAIN calls : ~Over(i) => calls[i].text = text
    BY <1>1 DEF OrderParts, OneText
  <2>2. QED
    BY <1>2, <2>1 DEF Over
<1>8. OneText'
  BY <1>1, <1>7 DEF OneText
<1>9. original = text => stored \in {None, text}
  <2>1. CASE AllOver
    BY <1>3, <2>1 DEF OrderParts, KnownIsStored, StoredExists, AllOver, Over
  <2>2. CASE ~AllOver
    <3>1. PICK i \in DOMAIN calls : ~Over(i)
      BY <2>2 DEF AllOver
    <3>2. calls[i].text = text
      BY <1>1, <3>1 DEF OrderParts, OneText
    <3>3. QED
      BY <3>1, <3>2 DEF OrderParts, StoredIsText, Relies
  <2>3. QED
    BY <2>1, <2>2
<1>10. StoredIsText'
  <2>1. ASSUME NEW i \in DOMAIN calls PROVE Relies(i) => stored \in {None, calls[i].text}
    BY DEF OrderParts, StoredIsText
  <2>2. ASSUME NEW i \in DOMAIN calls', Relies(i)' PROVE stored \in {None, calls'[i].text}
    <3>1. CASE i \in DOMAIN calls /\ calls'[i] = calls[i]
      BY <1>1, <2>1, <2>2, <3>1 DEF Relies, HasBody, Over
    <3>2. CASE calls'[i].stage = "saving" /\ calls'[i].base = original /\ calls'[i].text = text
      BY <1>1, <1>9, <2>2, <3>2 DEF Relies, HasBody
    <3>3. QED
      BY <1>2, <3>1, <3>2
  <2>3. \A i \in DOMAIN calls' : calls'[i].stage = "read" => calls'[i].got = calls'[i].text
    BY <1>2 DEF OrderParts, StoredIsText
  <2>4. QED
    BY <1>1, <2>2, <2>3 DEF StoredIsText
<1>11. KnownIsStored'
  <2>1. \A i \in DOMAIN calls : i \in DOMAIN calls' /\ calls'[i] = calls[i]
    BY ClickSendStarts DEF Started
  <2>2. QED
    BY <1>1, <2>1 DEF OrderParts, KnownIsStored
<1>12. MailedIsText'
  BY <1>2 DEF OrderParts, MailedIsText
<1>13. QED
  BY <1>5, <1>6, <1>8, <1>10, <1>11, <1>12 DEF OrderParts

(* The steps of a call that has started, lost ones included: it was not over. *)
LEMMA Underway ==
    ASSUME TypeOK, NEW i \in DOMAIN calls, Progress(i) \/ Lose(i)
    PROVE  /\ ~Over(i)
           /\ \E st : /\ Moved(i, st) /\ st # "saving"
                      /\ st = "checked" => calls[i].stage = "saving"
<1>1. \A st : Passed(i, st) => Moved(i, st)
  BY DEF Passed
<1>2. ~Over(i)
  <2>1. CASE Progress(i)
    BY <2>1, ProgressMoves DEF Progress, Over
  <2>2. CASE Lose(i)
    BY <2>2 DEF Lose, Over
  <2>3. QED
    BY <2>1, <2>2
<1>3. \E st : /\ Moved(i, st) /\ st # "saving"
              /\ st = "checked" => calls[i].stage = "saving"
  <2>1. CASE Check(i)
    BY <1>1, <2>1, ProgressMoves
  <2>2. ASSUME NEW st \in {"refused", "written", "read", "posting", "done", "mailed", "marked",
                           "lost", "late"},
               Moved(i, st)
        PROVE  \E x : /\ Moved(i, x) /\ x # "saving"
                      /\ x = "checked" => calls[i].stage = "saving"
    BY <2>2
  <2>3. CASE Refuse(i) \/ Write(i) \/ Mark(i) \/ Sent(i) \/ Lose(i)
    BY <1>1, <2>2, <2>3, ProgressMoves
  <2>4. CASE ReadBack(i)
    BY <1>1, <2>2, <2>4, ProgressMoves
  <2>5. CASE Deliver(i)
    BY <1>1, <2>2, <2>5, ProgressMoves
  <2>6. CASE Saved(i)
    BY <1>1, <2>2, <2>6, ProgressMoves
  <2>7. QED
    BY <2>1, <2>3, <2>4, <2>5, <2>6 DEF Progress
<1>4. QED
  BY <1>2, <1>3

LEMMA UnderwayKeeps ==
    ASSUME TypeOK, BodiesKnown, NEW i \in DOMAIN calls, Progress(i) \/ Lose(i)
    PROVE  /\ UNCHANGED <<requesting, throttled, deletion, deletions>>
           /\ done => done'
           /\ original # None => original' # None
<1>1. CASE Progress(i)
  BY <1>1, ProgressKeeps
<1>2. CASE Lose(i)
  BY <1>2 DEF Lose, storeVars
<1>3. QED
  BY <1>1, <1>2

(* Only a call that creates the message brings it back. *)
LEMMA AbsentStays ==
    ASSUME TypeOK, NEW i \in DOMAIN calls, Progress(i) \/ Lose(i), status = "absent"
    PROVE  \/ status' = "absent" /\ stored' = stored
           \/ Write(i) /\ calls[i].stage = "checked" /\ calls[i].base = None
<1>1. CASE Write(i)
  <2>1. calls[i].stage = "checked"
    BY <1>1, ProgressMoves
  <2>2. QED
    BY <1>1, <2>1 DEF Write
<1>2. CASE Mark(i)
  BY <1>2 DEF Mark
<1>3. CASE ~Write(i) /\ ~Mark(i)
  BY <1>3 DEF Progress, Check, Refuse, ReadBack, Saved, Deliver, Sent, Lose, serverVars
<1>4. QED
  BY <1>1, <1>2, <1>3

LEMMA EditorProgress ==
    ASSUME TypeOK, OrderParts, NEW i \in DOMAIN calls, Progress(i) \/ Lose(i)
    PROVE  /\ EditorAnswered'
           /\ editor' = "open" => (text' = text /\ editor = "open") \/ text' = calls[i].text
           /\ entry' \in {entry, calls[i].text} \/ (entry' = None /\ done')
           /\ entry' = None /\ ~done' => entry = None /\ ~done /\ original' = original
<1>1. calls[i].text # None
  BY CallFields, BodyIsNotNone DEF TypeOK
<1>2. CASE Saved(i)
  <2>1. /\ entry' = calls[i].text /\ UNCHANGED requesting
        /\ Refresh(calls[i].text, requesting)
    BY <1>2 DEF Saved
  <2>2. editor' = "open" =>
          ~requesting /\ ((text' = text /\ editor = "open") \/ text' = calls[i].text)
    BY <2>1 DEF Refresh, Show, OrderParts, EditorAnswered
  <2>3. QED
    BY <1>1, <2>1, <2>2 DEF EditorAnswered
<1>3. CASE Sent(i)
  <2>1. /\ UNCHANGED requesting
        /\ \/ entry' = None /\ done' /\ editor' = "closed"
           \/ UNCHANGED <<original, entry, done, editor, text>>
    BY <1>3 DEF Sent, Show
  <2>2. QED
    BY <2>1 DEF OrderParts, EditorAnswered
<1>4. CASE ~Saved(i) /\ ~Sent(i)
  <2>1. UNCHANGED <<original, entry, requesting, done, editor, text>>
    BY <1>4
    DEF Progress, Check, Refuse, Write, ReadBack, Deliver, Mark, Lose, storeVars, componentVars
  <2>2. QED
    BY <2>1 DEF OrderParts, EditorAnswered
<1>5. QED
  BY <1>2, <1>3, <1>4

LEMMA DoomedOrder ==
    ASSUME TypeOK, BodiesKnown, OrderParts, NEW i \in DOMAIN calls, Progress(i) \/ Lose(i)
    PROVE  /\ StoredExists' /\ EditorAnswered' /\ NotYet' /\ Doomed' /\ DeletedIsAbsent'
           /\ ThrottledIsLast' /\ CreatesAreRecent' /\ throttled = None
<1>1. PICK st : /\ Moved(i, st) /\ st # "saving"
                /\ st = "checked" => calls[i].stage = "saving"
  BY Underway
<1>2. throttled = None /\ throttled' = None
  BY Underway, UnderwayKeeps DEF OrderParts, ThrottledIsLast, AllOver
<1>3. OnlyUpdates => OnlyUpdates'
  BY <1>1, <1>2 DEF OnlyUpdates, Moved
<1>4. OnlyUpdates /\ status = "absent" => status' = "absent"
  BY AbsentStays DEF OnlyUpdates
<1>5. StoredExists'
  <2>1. CASE Write(i)
    BY <2>1 DEF Write, OrderParts, StoredExists
  <2>2. CASE ~Write(i)
    <3>1. stored' = stored /\ (status' = "absent" => status = "absent")
      BY <2>2 DEF Progress, Check, Refuse, ReadBack, Saved, Deliver, Mark, Sent, Lose, serverVars
    <3>2. QED
      BY <3>1 DEF OrderParts, StoredExists
  <2>3. QED
    BY <2>1, <2>2
<1>6. NotYet'
  <2>1. /\ UNCHANGED requesting
        /\ entry' = None /\ ~done' => entry = None /\ ~done /\ original' = original
    BY EditorProgress, UnderwayKeeps
  <2>2. QED
    BY <1>3, <1>4, <2>1 DEF OrderParts, NotYet
<1>7. Doomed' /\ DeletedIsAbsent'
  BY <1>3, <1>4, UnderwayKeeps DEF OrderParts, Doomed, DeletedIsAbsent
<1>8. ThrottledIsLast'
  BY <1>2 DEF ThrottledIsLast
<1>9. CreatesAreRecent'
  BY <1>1, UnderwayKeeps DEF OrderParts, CreatesAreRecent, Moved
<1>10. QED
  BY <1>2, <1>5, <1>6, <1>7, <1>8, <1>9, EditorProgress

LEMMA OneTextOrder ==
    ASSUME TypeOK, OrderParts, NEW i \in DOMAIN calls, Progress(i) \/ Lose(i)
    PROVE  OneText'
<1>1. PICK st : Moved(i, st)
  BY Underway
<1>2. ~Over(i)
  BY Underway
<1>3. \A j \in DOMAIN calls' :
        ~Over(j)' => j \in DOMAIN calls /\ ~Over(j) /\ calls'[j].text = calls[i].text
  BY <1>1, <1>2 DEF Moved, Over, OrderParts, OneText
<1>4. entry \in {Blank, None, calls[i].text} /\ (editor = "open" => text \in {Blank, calls[i].text})
  BY <1>2 DEF OrderParts, OneText
<1>5. /\ entry' \in {Blank, None, calls[i].text}
      /\ editor' = "open" => text' \in {Blank, calls[i].text}
  BY <1>4, EditorProgress
<1>6. QED
  BY <1>3, <1>5 DEF OneText

(* What is stored is the text of the calls that rely on it, and of what the browser knows. *)
LEMMA StoredProgress ==
    ASSUME TypeOK, OrderParts, NEW i \in DOMAIN calls, Progress(i) \/ Lose(i),
           NEW j \in DOMAIN calls', Relies(j)'
    PROVE  stored' \in {None, calls'[j].text}
<1> DEFINE t == calls[i].text
<1>1. PICK st : /\ Moved(i, st) /\ st # "saving"
                /\ st = "checked" => calls[i].stage = "saving"
  BY Underway
<1>2. ~Over(i)
  BY Underway
<1>3. j \in DOMAIN calls /\ ~Over(j) /\ calls'[j].text = t /\ calls[j].text = t
  <2>1. ~Over(j)'
    BY DEF Relies, Over
  <2>2. j \in DOMAIN calls /\ ~Over(j) /\ calls'[j].text = calls[j].text
    BY <1>1, <1>2, <2>1 DEF Moved, Over
  <2>3. QED
    BY <1>2, <2>2 DEF OrderParts, OneText
<1>4. (Relies(i) => stored \in {None, t}) /\ (Relies(j) => stored \in {None, t})
  BY <1>3 DEF OrderParts, StoredIsText
<1>5. CASE Write(i)
  <2>1. calls[i].stage = "checked" /\ (status = "absent" => stored = None)
    BY <1>5, ProgressMoves DEF OrderParts, StoredExists
  <2>2. stored' = t \/ (stored' = stored /\ (status = "absent" \/ ~HasBody(calls[i])))
    BY <1>5 DEF Write
  <2>3. ~HasBody(calls[i]) => Relies(i)
    BY <2>1 DEF Relies
  <2>4. QED
    BY <1>3, <1>4, <2>1, <2>2, <2>3
<1>6. CASE Saved(i)
  <2>1. calls[i].stage = "read" /\ stored' = stored
    BY <1>6, ProgressMoves DEF Saved, serverVars
  <2>2. QED
    BY <1>3, <1>4, <2>1 DEF Relies
<1>7. CASE ReadBack(i)
  <2>1. calls[i].stage = "written" /\ stored' = stored
    BY <1>7, ProgressMoves DEF ReadBack, serverVars
  <2>2. QED
    BY <1>3, <1>4, <2>1 DEF Relies
<1>8. CASE Sent(i)
  <2>1. stored' = stored /\ original' \in {original, stored}
    BY <1>8 DEF Sent, serverVars
  <2>2. \E x \in {"done", "refused"} : Moved(i, x)
    BY <1>8, ProgressMoves DEF Passed
  <2>3. j # i
    BY <2>2 DEF Moved, Relies, Over
  <2>4. calls'[j] = calls[j]
    BY <1>1, <1>3, <2>3 DEF Moved
  <2>5. CASE original' = stored
    BY <1>3, <1>4, <2>1, <2>4, <2>5 DEF Relies, HasBody, Over
  <2>6. CASE original' = original
    BY <1>3, <1>4, <2>1, <2>4, <2>6 DEF Relies, HasBody, Over
  <2>7. QED
    BY <2>1, <2>5, <2>6
<1>9. CASE Check(i) \/ Refuse(i) \/ Deliver(i) \/ Mark(i) \/ Lose(i)
  <2>1. stored' = stored /\ original' = original
    BY <1>9 DEF Check, Refuse, Deliver, Mark, Lose, serverVars, storeVars
  <2>2. j # i => Relies(j)
    <3>1. j # i => calls'[j] = calls[j]
      BY <1>1, <1>3 DEF Moved
    <3>2. QED
      BY <1>3, <2>1, <3>1 DEF Relies, HasBody, Over
  <2>3. j = i => Relies(i)
    <3>1. \E x \in {"checked", "refused", "mailed", "marked", "late", "lost"} : Moved(i, x)
      <4>1. \A x : Passed(i, x) => Moved(i, x)
        BY DEF Passed
      <4>2. CASE Deliver(i)
        BY <4>1, <4>2, ProgressMoves
      <4>3. CASE Mark(i)
        BY <4>1, <4>3, ProgressMoves
      <4>4. CASE Lose(i)
        BY <4>1, <4>4, ProgressMoves
      <4>5. CASE Check(i) \/ Refuse(i)
        BY <4>1, <4>5, ProgressMoves
      <4>6. QED
        BY <1>9, <4>2, <4>3, <4>4, <4>5
    <3>2. calls'[i].stage = "checked" => calls[i].stage = "saving"
      BY <1>1 DEF Moved
    <3>3. QED
      BY <1>1, <1>2, <2>1, <3>1, <3>2 DEF Moved, Relies, HasBody, Over
  <2>4. QED
    BY <1>3, <1>4, <2>1, <2>2, <2>3
<1>10. QED
  BY <1>5, <1>6, <1>7, <1>8, <1>9 DEF Progress

LEMMA StoredIsTextOrder ==
    ASSUME TypeOK, BodiesKnown, OrderParts, NEW i \in DOMAIN calls, Progress(i) \/ Lose(i)
    PROVE  StoredIsText' /\ MailedIsText'
<1> DEFINE t == calls[i].text
<1>1. PICK st : Moved(i, st)
  BY Underway
<1>2. Relies(i) => stored \in {None, t}
  BY DEF OrderParts, StoredIsText
<1>3. calls'[i].stage = "read" => calls'[i].got = t
  <2>1. CASE ReadBack(i)
    <3>1. calls[i].stage = "written"
      BY <2>1, ProgressMoves
    <3>2. stored \in {None, t}
      BY <1>2, <3>1 DEF Relies
    <3>3. \/ status # "absent" /\ calls'[i].got = stored
          \/ Moved(i, "refused")
      BY <2>1, ProgressMoves DEF Passed
    <3>4. QED
      BY <3>2, <3>3 DEF BodiesKnown, Moved
  <2>2. ASSUME NEW x, Passed(i, x), x # "read" PROVE calls'[i].stage # "read"
    BY <2>2 DEF Passed, Moved
  <2>3. CASE Deliver(i)
    BY <2>2, <2>3, ProgressMoves DEF Moved
  <2>4. CASE Saved(i)
    BY <2>2, <2>4, ProgressMoves
  <2>5. CASE Lose(i)
    BY <2>2, <2>5, ProgressMoves
  <2>6. CASE Check(i) \/ Refuse(i) \/ Write(i) \/ Mark(i) \/ Sent(i)
    BY <2>2, <2>6, ProgressMoves
  <2>7. QED
    BY <2>1, <2>3, <2>4, <2>5, <2>6 DEF Progress
<1>4. calls'[i].mailed \in {None, t}
  <2>1. calls[i].mailed \in {None, t}
    BY DEF OrderParts, MailedIsText
  <2>2. ASSUME NEW x, Passed(i, x) PROVE calls'[i].mailed \in {None, t}
    BY <2>1, <2>2 DEF Passed
  <2>3. CASE Deliver(i)
    <3>1. calls[i].stage = "posting"
      BY <2>3, ProgressMoves
    <3>2. stored \in {None, t}
      BY <1>2, <3>1 DEF Relies
    <3>3. QED
      BY <2>2, <2>3, <3>2, ProgressMoves
  <2>4. CASE ReadBack(i)
    BY <2>1, <2>2, <2>4, ProgressMoves
  <2>5. CASE Lose(i)
    BY <2>2, <2>5, ProgressMoves
  <2>6. CASE Check(i) \/ Refuse(i) \/ Write(i) \/ Mark(i) \/ Sent(i) \/ Saved(i)
    BY <2>2, <2>6, ProgressMoves
  <2>7. QED
    BY <2>3, <2>4, <2>5, <2>6 DEF Progress
<1>5. StoredIsText'
  <2>1. \A j \in DOMAIN calls' : Relies(j)' => stored' \in {None, calls'[j].text}
    BY StoredProgress
  <2>2. \A j \in DOMAIN calls' : calls'[j].stage = "read" => calls'[j].got = calls'[j].text
    BY <1>1, <1>3 DEF Moved, OrderParts, StoredIsText
  <2>3. QED
    BY <2>1, <2>2 DEF StoredIsText
<1>6. MailedIsText'
  BY <1>1, <1>4 DEF Moved, OrderParts, MailedIsText
<1>7. QED
  BY <1>5, <1>6

LEMMA KnownOrder ==
    ASSUME TypeOK, BodiesKnown, OrderParts, NEW i \in DOMAIN calls, Progress(i) \/ Lose(i)
    PROVE  KnownIsStored'
<1> DEFINE late == {"written", "read", "lost", "late"}
<1>1. ASSUME NEW st \in late, Moved(i, st) PROVE KnownIsStored'
  BY <1>1 DEF KnownIsStored, Moved
<1>2. ASSUME NEW st, Moved(i, st), UNCHANGED <<stored, original>>, calls[i].stage \notin late,
             status = "absent" => status' = "absent"
      PROVE  KnownIsStored'
  BY <1>2 DEF KnownIsStored, Moved, OrderParts
<1>3. \A x : Passed(i, x) => Moved(i, x)
  BY DEF Passed
<1>4. CASE Write(i)
  BY <1>1, <1>3, <1>4, ProgressMoves
<1>5. CASE Lose(i)
  BY <1>1, <1>3, <1>5, ProgressMoves
<1>6. CASE ReadBack(i)
  <2>1. Moved(i, "read") \/ status' = "absent"
    BY <1>6, ProgressMoves DEF ReadBack, serverVars
  <2>2. QED
    BY <1>1, <2>1 DEF KnownIsStored
<1>7. CASE Saved(i)
  <2>1. calls[i].stage = "read" /\ original' = calls[i].got /\ UNCHANGED <<stored, status>>
    BY <1>7, ProgressMoves DEF Saved, Learn, serverVars
  <2>2. original' = calls[i].text /\ stored \in {None, calls[i].text}
    BY <2>1 DEF OrderParts, StoredIsText, Relies
  <2>3. QED
    BY <2>1, <2>2 DEF KnownIsStored, BodiesKnown
<1>8. CASE Sent(i)
  <2>1. status' = "absent" \/ original' = stored'
    BY <1>8 DEF Sent, serverVars
  <2>2. QED
    BY <2>1 DEF KnownIsStored
<1>9. CASE Check(i) \/ Refuse(i)
  <2>1. UNCHANGED <<stored, status, original>>
    BY <1>9 DEF Check, Refuse, serverVars, storeVars
  <2>2. QED
    BY <1>2, <1>3, <1>9, <2>1, ProgressMoves
<1>10. CASE Deliver(i)
  <2>1. UNCHANGED <<stored, status, original>>
    BY <1>10 DEF Deliver, serverVars, storeVars
  <2>2. QED
    BY <1>2, <1>3, <1>10, <2>1, ProgressMoves
<1>11. CASE Mark(i)
  <2>1. UNCHANGED <<stored, original>> /\ (status = "absent" => status' = "absent")
    BY <1>11 DEF Mark, storeVars
  <2>2. CASE Moved(i, "lost")
    BY <1>1, <2>2
  <2>3. CASE calls[i].stage = "mailed" /\ Moved(i, "marked")
    BY <1>2, <2>1, <2>3
  <2>4. QED
    BY <1>3, <1>11, <2>2, <2>3, ProgressMoves
<1>12. QED
  BY <1>4, <1>5, <1>6, <1>7, <1>8, <1>9, <1>10, <1>11 DEF Progress

LEMMA AnsweredBefore == ASSUME TypeOK, [Next]_vars, ~overlapped' PROVE ~overlapped
<1>1. CASE UNCHANGED overlapped
  BY <1>1
<1>2. CASE overlapped' = (overlapped \/ Unanswered)
  BY <1>2
<1>3. CASE User
  BY <1>1, <1>2, <1>3 DEF User, Open, Close, ClickSend, ClickDelete, Edit
<1>4. CASE Requests
  BY <1>1, <1>4 DEF Requests, DraftFound, SentFound, DraftNotFound, Delete, Deleted, DeleteFails
<1>5. CASE Autosave
  BY <1>1, <1>5 DEF Autosave
<1>6. ASSUME NEW i \in DOMAIN calls, Progress(i) \/ Lose(i) PROVE ~overlapped
  BY <1>1, <1>6
  DEF Progress, Check, Refuse, Write, ReadBack, Saved, Deliver, Mark, Sent, Lose
<1>7. CASE UNCHANGED vars
  BY <1>1, <1>7 DEF vars
<1>8. QED
  BY <1>3, <1>4, <1>5, <1>6, <1>7 DEF Next

LEMMA OrderStep ==
    ASSUME TypeOK, BodiesKnown, OrderParts, [Next]_vars, ~overlapped' PROVE OrderParts'
<1>1. CASE Open
  BY <1>1, OpenOrder
<1>2. CASE Close
  <2>1. /\ UNCHANGED <<serverVars, storeVars, throttled, calls, done, deletions, deletion>>
        /\ editor' = "closed"
    BY <1>2 DEF Close, Show
  <2>2. QED
    BY <2>1, CloseOrder
<1>3. CASE DeleteFails
  <2>1. /\ UNCHANGED <<serverVars, storeVars, throttled, calls, done, deletions>>
        /\ deletion' = "none" /\ UNCHANGED <<editor, text>>
    BY <1>3 DEF DeleteFails, componentVars
  <2>2. QED
    BY <2>1, CloseOrder
<1>4. CASE ClickSend
  BY <1>4, ClickSendOrder
<1>5. CASE ClickDelete
  BY <1>5, ClickDeleteOrder
<1>6. ASSUME NEW t \in Texts, Edit(t) PROVE OrderParts'
  BY <1>6, EditOrder
<1>7. CASE DraftFound \/ SentFound \/ DraftNotFound
  BY <1>7, AnsweredOrder
<1>8. CASE Delete
  BY <1>8, DeleteOrder
<1>9. CASE Deleted
  BY <1>9, DeletedOrder
<1>10. CASE Autosave
  BY <1>10, AutosaveOrder
<1>11. ASSUME NEW i \in DOMAIN calls, Progress(i) \/ Lose(i) PROVE OrderParts'
  BY <1>11, DoomedOrder, OneTextOrder, StoredIsTextOrder, KnownOrder DEF OrderParts
<1>12. CASE UNCHANGED vars
  <2>1. /\ UNCHANGED <<serverVars, storeVars, throttled, calls, done, deletions, deletion>>
        /\ UNCHANGED <<editor, text>>
    BY <1>12 DEF vars, componentVars
  <2>2. QED
    BY <2>1, CloseOrder
<1>13. QED
  BY <1>1, <1>2, <1>3, <1>4, <1>5, <1>6, <1>7, <1>8, <1>9, <1>10, <1>11, <1>12
  DEF Next, User, Requests

LEMMA InitOrder == Init => CInv
<1> SUFFICES ASSUME Init PROVE CInv
  OBVIOUS
<1>1. DOMAIN calls = {}
  BY DEF Init
<1>2. OrderParts
  BY <1>1
  DEF Init, OrderParts, StoredExists, EditorAnswered, NotYet, OnlyUpdates, Doomed, DeletedIsAbsent,
      ThrottledIsLast, CreatesAreRecent, OneText, StoredIsText, KnownIsStored, MailedIsText
<1>3. QED
  BY <1>2, InitType, InitOnce DEF CInv

LEMMA CInvStep == CInv /\ [Next]_vars => CInv'
<1> SUFFICES ASSUME CInv, [Next]_vars PROVE CInv'
  OBVIOUS
<1>1. TypeOK' /\ BodiesKnown'
  BY TypeStep, BodiesStep DEF CInv
<1>2. ASSUME ~overlapped' PROVE OrderParts'
  BY <1>2, AnsweredBefore, OrderStep DEF CInv
<1>3. QED
  BY <1>1, <1>2 DEF CInv

(* For a user who waits for the answers to his saves, what the broker mails is the body he
   saw when he clicked on Send, however often the scene is opened and whatever is lost: the
   broker mails what is stored, and what is in flight has one text (onSendDraft). *)
THEOREM ClickedCorrect == Spec => []SentIsClicked
<1>1. CInv => SentIsClicked
  BY DEF CInv, OrderParts, MailedIsText, SentIsClicked
<1>2. QED
  BY <1>1, InitOrder, CInvStep, PTL DEF Spec

LEMMA CreatedByWrite ==
    ASSUME TypeOK, [Next]_vars, status = "absent", status' = "draft"
    PROVE  \E i \in DOMAIN calls :
              Write(i) /\ calls[i].stage = "checked" /\ calls[i].base = None
<1>1. CASE User \/ Autosave \/ UNCHANGED vars
  BY <1>1
  DEF User, Open, Close, ClickSend, ClickDelete, Edit, Autosave, serverVars, vars
<1>2. CASE Requests
  BY <1>2
  DEF Requests, DraftFound, SentFound, DraftNotFound, Delete, Deleted, DeleteFails, serverVars
<1>3. CASE \E i \in DOMAIN calls : Progress(i) \/ Lose(i)
  BY <1>3, AbsentStays
<1>4. QED
  BY <1>1, <1>2, <1>3 DEF Next

LEMMA CreatedIsRecent ==
    ASSUME CInv, ~overlapped, [Next]_vars, status = "absent", status' = "draft"
    PROVE  \E i \in DOMAIN calls : /\ calls[i].stage = "checked"
                                   /\ calls[i].stage # calls'[i].stage
                                   /\ calls[i].deletions = deletions
<1>1. PICK i \in DOMAIN calls : Write(i) /\ calls[i].stage = "checked" /\ calls[i].base = None
  BY CreatedByWrite DEF CInv
<1>2. calls'[i].stage = "written"
  BY <1>1, ProgressMoves DEF CInv, Passed, Moved
<1>3. calls[i].deletions = deletions
  BY <1>1 DEF CInv, OrderParts, CreatesAreRecent
<1>4. QED
  BY <1>1, <1>2, <1>3

(* A message that is deleted is not created again by a save of before its deletion: the
   button that deletes it is only there once it is known, when every save of it that waits
   is an update, and an update leaves nothing of a deleted message (onDeleteMessage). *)
THEOREM DeletedCorrect == Spec => DeletedStaysDeleted
<1> DEFINE kept == status = "absent" /\ status' = "draft" =>
                      \/ overlapped
                      \/ \E i \in DOMAIN calls : /\ calls[i].stage = "checked"
                                                 /\ calls[i].stage # calls'[i].stage
                                                 /\ calls[i].deletions = deletions
<1>1. CInv /\ [Next]_vars => [kept]_vars
  BY CreatedIsRecent
<1> HIDE DEF kept
<1>2. Spec => [][kept]_vars
  BY <1>1, InitOrder, CInvStep, PTL DEF Spec
<1>3. QED
  BY <1>2 DEF DeletedStaysDeleted, kept
-----------------------------------------------------------------------------
(***************************************************************************)
(* What the editor shows is what is stored.                                *)
(***************************************************************************)
\* There is a message, or a save will create one.
Living == status # "absent" \/ ~OnlyUpdates
\* Without a failure, no answer and no message that is read back is lost.
NothingLost == \A i \in DOMAIN calls : calls[i].stage \notin {"lost", "late"}
\* The browser knows the message, or an answer that is on its way tells it.
LearntSoon ==
    status # "absent" =>
        original # None \/ \E i \in DOMAIN calls : calls[i].stage \in {"written", "read"}
\* The open editor shows the entry of the store, which the answer of a save sets.
ShownIsEntry == Living /\ editor = "open" => text = entry
\* What is being saved, or will be, is what the entry says.
FlightIsEntry ==
    Living =>
        /\ \A i \in DOMAIN calls : ~Over(i) => entry \in {None, calls[i].text}
        /\ throttled # None => entry \in {None, throttled.text}
\* What is stored when a save is checked is what it was computed from, or its own text.
BaseOrText ==
    status # "absent" =>
        \A i \in DOMAIN calls :
            calls[i].stage \in {"saving", "checked"} => stored \in {calls[i].base, calls[i].text}
\* Once every save is over and none is throttled, the entry of a draft is what is stored: the
\* conjunct that ShownIsStored asks for, and that the others carry through a save.
EntryIsStored ==
    status = "draft" /\ AllOver /\ throttled = None => entry \in {None, stored}

ShownParts ==
    /\ NothingLost /\ LearntSoon
    /\ ShownIsEntry /\ FlightIsEntry
    /\ BaseOrText /\ EntryIsStored

\* The order of the calls, and what is shown as long as no two saves overlap and none fails.
DInv == CInv /\ (~overlapped /\ failures = 0 => ShownParts)

(* The steps of the user: the editor opens on the entry, closes, is edited. *)
LEMMA OpenShown == ASSUME TypeOK, OrderParts, ShownParts, Open PROVE ShownParts'
<1>1. UNCHANGED <<stored, status, original, throttled, calls>> /\ ~done
  BY DEF Open, serverVars
<1>2. entry' = entry
  <2>1. entry # None \/ original = None
    BY <1>1 DEF OrderParts, NotYet
  <2>2. QED
    BY <2>1 DEF Open
<1>3. editor' = "open" => text' = entry'
  BY DEF Open, Show
<1>4. Living' <=> Living
  BY <1>1 DEF Living, OnlyUpdates
<1>5. QED
  BY <1>1, <1>2, <1>3, <1>4
  DEF ShownParts, NothingLost, LearntSoon, ShownIsEntry, FlightIsEntry, BaseOrText, EntryIsStored,
      AllOver, Over

LEMMA CloseShown ==
    ASSUME ShownParts, UNCHANGED <<stored, status, entry, original, throttled, calls>>,
           editor' = "closed" \/ UNCHANGED <<editor, text>>
    PROVE  ShownParts'
BY DEF ShownParts, NothingLost, LearntSoon, ShownIsEntry, FlightIsEntry, BaseOrText, EntryIsStored,
       Living, OnlyUpdates, AllOver, Over

LEMMA EditShown ==
    ASSUME TypeOK, ShownParts, NEW t \in Texts, Edit(t), ~overlapped' PROVE ShownParts'
<1>1. AllOver
  BY DEF Edit, Unanswered, AllOver, Over
<1>2. /\ UNCHANGED <<stored, status, original, calls>>
      /\ text' = t /\ entry' = t /\ throttled'.text = t /\ throttled' # None
  <2>1. [text |-> t, base |-> original, deletions |-> deletions] \in Throttled
    BY DEF Throttled, TypeOK, Body
  <2>2. QED
    BY <2>1, NoneAssumption DEF Edit, Schedule, Known, serverVars
<1>3. QED
  BY <1>1, <1>2
  DEF ShownParts, NothingLost, LearntSoon, ShownIsEntry, FlightIsEntry, BaseOrText, EntryIsStored,
      AllOver, Over

(* A message that is deleted, or was never there, is not stored, and nothing creates it. *)
LEMMA AbsentShown ==
    ASSUME ShownParts, UNCHANGED <<throttled, calls>>, status' = "absent", OnlyUpdates
    PROVE  ShownParts'
BY DEF ShownParts, NothingLost, LearntSoon, ShownIsEntry, FlightIsEntry, BaseOrText, EntryIsStored,
       Living, OnlyUpdates

LEMMA RequestsShown ==
    ASSUME TypeOK, OrderParts, ShownParts, Requests PROVE ShownParts'
<1>1. CASE DraftFound \/ SentFound \/ DraftNotFound
  <2>1. requesting /\ UNCHANGED <<throttled, calls, status>>
    BY <1>1 DEF DraftFound, SentFound, DraftNotFound, serverVars
  <2>2. status = "absent" /\ OnlyUpdates
    BY <2>1 DEF OrderParts, NotYet
  <2>3. QED
    BY <2>1, <2>2, AbsentShown
<1>2. CASE Delete
  BY <1>2, AbsentShown DEF Delete, OrderParts, Doomed
<1>3. CASE Deleted
  BY <1>3, AbsentShown DEF Deleted, serverVars, OrderParts, Doomed, DeletedIsAbsent
<1>4. CASE DeleteFails
  BY <1>4, CloseShown DEF DeleteFails, serverVars, storeVars, componentVars
<1>5. QED
  BY <1>1, <1>2, <1>3, <1>4 DEF Requests

(* A save starts from what is stored: nothing is in flight, so what the browser knows of the
   message is what the server has. *)
LEMMA AutosaveShown ==
    ASSUME TypeOK, OrderParts, ShownParts, Autosave PROVE ShownParts'
<1>1. /\ UNCHANGED <<stored, status, entry, original, editor, text>>
      /\ throttled # None /\ throttled' = None
  BY DEF Autosave, serverVars, storeVars, componentVars
<1>2. AllOver
  BY <1>1 DEF OrderParts, ThrottledIsLast
<1>3. /\ \A i \in DOMAIN calls' :
            \/ i \in DOMAIN calls /\ calls'[i] = calls[i]
            \/ /\ calls'[i].stage = "saving"
               /\ calls'[i].base = throttled.base /\ calls'[i].text = throttled.text
      /\ \A i \in DOMAIN calls : i \in DOMAIN calls' /\ calls'[i] = calls[i]
  BY AutosaveStarts DEF Started
<1>4. OnlyUpdates => OnlyUpdates'
  BY <1>1, <1>2, <1>3 DEF OnlyUpdates, AllOver, Over
<1>5. Living' => Living
  BY <1>1, <1>4 DEF Living
<1>6. NothingLost' /\ LearntSoon' /\ ShownIsEntry'
  BY <1>1, <1>3, <1>5 DEF ShownParts, NothingLost, LearntSoon, ShownIsEntry
<1>7. FlightIsEntry'
  BY <1>1, <1>2, <1>3, <1>5 DEF ShownParts, FlightIsEntry, AllOver, Over
<1>8. status # "absent" => stored = throttled.base
  <2>1. status # "absent" => original # None
    BY <1>2 DEF ShownParts, LearntSoon, AllOver, Over
  <2>2. status # "absent" => stored # None
    BY <1>2, <2>1 DEF OrderParts, KnownIsStored, AllOver, Over
  <2>3. QED
    BY <1>1, <2>1, <2>2 DEF OrderParts, ThrottledIsLast
<1>9. BaseOrText'
  BY <1>1, <1>2, <1>3, <1>8 DEF BaseOrText, AllOver, Over
<1>10. ~AllOver'
  BY AutosaveStarts DEF Autosave, Start, AllOver, Over
<1>11. QED
  BY <1>6, <1>7, <1>9, <1>10 DEF ShownParts, EntryIsStored

(* So does the save of the button that sends. *)
LEMMA ClickSendShown ==
    ASSUME TypeOK, BodiesKnown, OrderParts, ShownParts, ClickSend PROVE ShownParts'
<1>1. /\ UNCHANGED <<stored, status, original, editor, text>>
      /\ editor = "open" /\ throttled' = None /\ entry' = text /\ text # Blank
  BY DEF ClickSend, CanSend, serverVars
<1>2. /\ \A i \in DOMAIN calls' :
            \/ i \in DOMAIN calls /\ calls'[i] = calls[i]
            \/ /\ calls'[i].stage = "saving"
               /\ calls'[i].base = original /\ calls'[i].text = text
      /\ \A i \in DOMAIN calls : i \in DOMAIN calls' /\ calls'[i] = calls[i]
  BY ClickSendStarts DEF Started
<1>3. \A i \in DOMAIN calls : ~Over(i) => calls[i].text = text
  BY <1>1 DEF OrderParts, OneText
<1>4. NothingLost' /\ LearntSoon' /\ ShownIsEntry'
  BY <1>1, <1>2 DEF ShownParts, NothingLost, LearntSoon, ShownIsEntry
<1>5. FlightIsEntry'
  BY <1>1, <1>2, <1>3 DEF FlightIsEntry, Over
<1>6. status # "absent" => stored \in {original, text}
  <2>1. ASSUME NEW i \in DOMAIN calls, calls[i].stage \in {"written", "read"}
        PROVE  stored \in {None, text}
    BY <1>3, <2>1 DEF OrderParts, StoredIsText, Relies, Over
  <2>2. status # "absent" => stored # None
    BY DEF BodiesKnown
  <2>3. QED
    BY <2>1, <2>2 DEF OrderParts, KnownIsStored, ShownParts, NothingLost, LearntSoon
<1>7. BaseOrText'
  BY <1>1, <1>2, <1>6 DEF ShownParts, BaseOrText
<1>8. ~AllOver'
  BY ClickSendStarts DEF ClickSend, Start, AllOver, Over
<1>9. QED
  BY <1>4, <1>5, <1>7, <1>8 DEF ShownParts, EntryIsStored

(* The steps of a call, part by part: no call creates a message that is gone. *)
LEMMA LivingProgress ==
    ASSUME TypeOK, BodiesKnown, OrderParts, NEW i \in DOMAIN calls, Progress(i), Living'
    PROVE  Living
<1>1. PICK st : /\ Moved(i, st) /\ st # "saving"
                /\ st = "checked" => calls[i].stage = "saving"
  BY Underway
<1>2. UNCHANGED throttled
  BY ProgressKeeps
<1>3. OnlyUpdates => OnlyUpdates'
  BY <1>1, <1>2 DEF OnlyUpdates, Moved
<1>4. OnlyUpdates /\ status = "absent" => status' = "absent"
  BY AbsentStays DEF OnlyUpdates
<1>5. QED
  BY <1>3, <1>4 DEF Living

LEMMA LostProgress ==
    ASSUME TypeOK, ShownParts, NEW i \in DOMAIN calls, Progress(i) PROVE NothingLost'
<1>1. ASSUME NEW st, Moved(i, st), st \notin {"lost", "late"} PROVE NothingLost'
  BY <1>1 DEF ShownParts, NothingLost, Moved
<1>2. \A st : Passed(i, st) => Moved(i, st)
  BY DEF Passed
<1>3. calls[i].stage # "late"
  BY DEF ShownParts, NothingLost
<1>4. CASE Saved(i)
  BY <1>1, <1>2, <1>4, ProgressMoves
<1>5. CASE ReadBack(i)
  BY <1>1, <1>2, <1>5, ProgressMoves
<1>6. CASE Deliver(i)
  BY <1>1, <1>2, <1>6, ProgressMoves
<1>7. CASE Check(i) \/ Refuse(i) \/ Write(i) \/ Mark(i) \/ Sent(i)
  BY <1>1, <1>2, <1>3, <1>7, ProgressMoves
<1>8. QED
  BY <1>4, <1>5, <1>6, <1>7 DEF Progress

LEMMA LearntProgress ==
    ASSUME TypeOK, BodiesKnown, ShownParts, NEW i \in DOMAIN calls, Progress(i) PROVE LearntSoon'
<1>1. ASSUME NEW st \in {"written", "read"}, Moved(i, st) PROVE LearntSoon'
  BY <1>1 DEF LearntSoon, Moved
<1>2. CASE Write(i)
  BY <1>1, <1>2, ProgressMoves DEF Passed
<1>3. CASE ReadBack(i)
  <2>1. Moved(i, "read") \/ status' = "absent"
    BY <1>3, ProgressMoves DEF ReadBack, serverVars
  <2>2. QED
    BY <1>1, <2>1 DEF LearntSoon
<1>4. CASE Saved(i)
  <2>1. original' # None
    BY <1>4, ProgressMoves DEF Saved, Learn, BodiesKnown
  <2>2. QED
    BY <2>1 DEF LearntSoon
<1>5. CASE Check(i) \/ Refuse(i) \/ Deliver(i) \/ Mark(i) \/ Sent(i)
  <2>1. /\ calls[i].stage \notin {"written", "read"}
        /\ \E st : Moved(i, st)
    <3>1. \A st : Passed(i, st) => Moved(i, st)
      BY DEF Passed
    <3>2. CASE Deliver(i)
      BY <3>1, <3>2, ProgressMoves
    <3>3. CASE Check(i) \/ Refuse(i) \/ Mark(i) \/ Sent(i)
      BY <3>1, <3>3, ProgressMoves
    <3>4. QED
      BY <1>5, <3>2, <3>3
  <2>2. status' # "absent" => status # "absent"
    BY <1>5 DEF Check, Refuse, Deliver, Mark, Sent, serverVars
  <2>3. original # None => original' # None
    BY ProgressKeeps
  <2>4. QED
    BY <2>1, <2>2, <2>3 DEF ShownParts, LearntSoon, Moved
<1>6. QED
  BY <1>2, <1>3, <1>4, <1>5 DEF Progress

LEMMA EntryProgress ==
    ASSUME TypeOK, BodiesKnown, OrderParts, ShownParts, NEW i \in DOMAIN calls, Progress(i)
    PROVE  ShownIsEntry' /\ FlightIsEntry'
<1> DEFINE t == calls[i].text
<1>1. SUFFICES ASSUME Living' PROVE ShownIsEntry' /\ FlightIsEntry'
  BY DEF ShownIsEntry, FlightIsEntry
<1>2. Living /\ ~Over(i)
  BY <1>1, LivingProgress, Underway
<1>3. entry \in {None, t}
  BY <1>2 DEF ShownParts, FlightIsEntry
<1>4. FlightIsEntry'
  <2>1. PICK st : Moved(i, st)
    BY Underway
  <2>2. \A j \in DOMAIN calls' : ~Over(j)' => calls'[j].text = t
    BY <1>2, <2>1 DEF Moved, Over, OrderParts, OneText
  <2>3. throttled' = None
    BY DoomedOrder, ProgressKeeps
  <2>4. entry' \in {None, t}
    BY <1>3, EditorProgress
  <2>5. QED
    BY <2>2, <2>3, <2>4 DEF FlightIsEntry
<1>5. ShownIsEntry'
  <2>1. CASE Saved(i)
    <3>1. /\ entry' = t /\ Refresh(t, requesting)
      BY <2>1 DEF Saved
    <3>2. editor = "open" => text = t
      BY <1>2, <1>3 DEF ShownParts, ShownIsEntry, OrderParts, EditorAnswered
    <3>3. QED
      BY <3>1, <3>2 DEF Refresh, Show, ShownIsEntry
  <2>2. CASE Sent(i)
    <3>1. editor' = "closed" \/ UNCHANGED <<entry, editor, text>>
      BY <2>2 DEF Sent, Show
    <3>2. QED
      BY <1>2, <3>1 DEF ShownParts, ShownIsEntry
  <2>3. CASE ~Saved(i) /\ ~Sent(i)
    <3>1. UNCHANGED <<entry, editor, text>>
      BY <2>3
      DEF Progress, Check, Refuse, Write, ReadBack, Deliver, Mark, storeVars, componentVars
    <3>2. QED
      BY <1>2, <3>1 DEF ShownParts, ShownIsEntry
  <2>4. QED
    BY <2>1, <2>2, <2>3
<1>6. QED
  BY <1>4, <1>5

LEMMA BaseProgress ==
    ASSUME TypeOK, BodiesKnown, OrderParts, ShownParts, NEW i \in DOMAIN calls, Progress(i)
    PROVE  BaseOrText'
<1>1. PICK st : /\ Moved(i, st) /\ st # "saving"
                /\ st = "checked" => calls[i].stage = "saving"
  BY Underway
<1>2. ASSUME NEW j \in DOMAIN calls', calls'[j].stage \in {"saving", "checked"}
      PROVE  /\ j \in DOMAIN calls /\ calls[j].stage \in {"saving", "checked"}
             /\ calls'[j].base = calls[j].base /\ calls'[j].text = calls[j].text
             /\ calls[j].text = calls[i].text
  <2>1. /\ j \in DOMAIN calls /\ calls[j].stage \in {"saving", "checked"}
        /\ calls'[j].base = calls[j].base /\ calls'[j].text = calls[j].text
    BY <1>1, <1>2 DEF Moved
  <2>2. ~Over(j) /\ ~Over(i)
    BY <2>1, Underway DEF Over
  <2>3. QED
    BY <2>1, <2>2 DEF OrderParts, OneText
<1>3. stored' = calls[i].text \/ (stored' = stored /\ (status' # "absent" => status # "absent"))
  <2>1. CASE Write(i)
    BY <2>1 DEF Write
  <2>2. CASE ~Write(i)
    BY <2>2
    DEF Progress, Check, Refuse, ReadBack, Saved, Deliver, Mark, Sent, serverVars
  <2>3. QED
    BY <2>1, <2>2
<1>4. QED
  BY <1>2, <1>3 DEF ShownParts, BaseOrText

(* The last call that ends leaves its text stored: it wrote it, or it was refused because it was
   stored already. *)
LEMMA StoredOver ==
    ASSUME TypeOK, BodiesKnown, OrderParts, ShownParts, NEW i \in DOMAIN calls, Progress(i)
    PROVE  EntryIsStored'
<1> DEFINE t == calls[i].text
<1> SUFFICES ASSUME status' = "draft", AllOver' PROVE entry' \in {None, stored'}
  BY DEF EntryIsStored
<1>1. Over(i)'
  <2>1. PICK st : Moved(i, st)
    BY Underway
  <2>2. QED
    BY <2>1 DEF Moved, AllOver
<1>2. \A st : Passed(i, st) => calls'[i].stage = st
  BY DEF Passed, Moved
<1>3. CASE Refuse(i)
  <2>1. /\ calls[i].stage = "saving" /\ ~Accepted(calls[i])
        /\ UNCHANGED <<stored, status, entry>>
    BY <1>3, ProgressMoves DEF Refuse, serverVars, storeVars
  <2>2. stored \in {calls[i].base, t} /\ stored # None
    BY <2>1 DEF ShownParts, BaseOrText, BodiesKnown
  <2>3. stored = t
    BY <2>1, <2>2 DEF Accepted
  <2>4. entry \in {None, t}
    BY <2>1 DEF ShownParts, FlightIsEntry, Living, Over
  <2>5. QED
    BY <2>1, <2>3, <2>4
<1>4. CASE Saved(i)
  <2>1. calls[i].stage = "read" /\ entry' = t /\ UNCHANGED <<stored, status>>
    BY <1>4, ProgressMoves DEF Saved, serverVars
  <2>2. stored = t
    BY <2>1 DEF OrderParts, StoredIsText, Relies, BodiesKnown
  <2>3. QED
    BY <2>1, <2>2
<1>5. CASE Sent(i)
  BY <1>5 DEF Sent, serverVars
<1>6. CASE ReadBack(i) \/ Deliver(i)
  <2>1. status = "draft" /\ calls'[i].stage \in {"read", "mailed"}
    <3>1. status = "draft"
      BY <1>6 DEF ReadBack, Deliver, serverVars
    <3>2. CASE ReadBack(i)
      BY <3>1, <3>2, ProgressMoves DEF Moved
    <3>3. CASE Deliver(i)
      BY <3>1, <3>3, ProgressMoves DEF Moved
    <3>4. QED
      BY <1>6, <3>1, <3>2, <3>3
  <2>2. QED
    BY <1>1, <2>1 DEF Over
<1>7. CASE Check(i) \/ Write(i) \/ Mark(i)
  <2>1. calls'[i].stage \in {"checked", "written", "marked", "lost"}
    BY <1>2, <1>7, ProgressMoves
  <2>2. QED
    BY <1>1, <2>1 DEF Over
<1>8. QED
  BY <1>3, <1>4, <1>5, <1>6, <1>7 DEF Progress

(* Failures are counted, never forgotten. *)
LEMMA FailuresGrow == ASSUME TypeOK, [Next]_vars PROVE failures' \in {failures, failures + 1}
<1>1. CASE User
  BY <1>1 DEF User, Open, Close, ClickSend, ClickDelete, Edit, bounds
<1>2. CASE Requests \/ Autosave \/ UNCHANGED vars
  BY <1>2
  DEF Requests, DraftFound, SentFound, DraftNotFound, Delete, Deleted, DeleteFails, Autosave, vars,
      bounds
<1>3. ASSUME NEW i \in DOMAIN calls, Progress(i) \/ Lose(i) PROVE failures' \in {failures, failures + 1}
  BY <1>3
  DEF Progress, Check, Refuse, Write, ReadBack, Saved, Deliver, Mark, Sent, Lose, bounds
<1>4. QED
  BY <1>1, <1>2, <1>3 DEF Next

(* Every step, as long as no two saves overlap and none fails. *)
LEMMA ShownStep ==
    ASSUME TypeOK, BodiesKnown, OrderParts, ShownParts, [Next]_vars, ~overlapped', failures = 0, failures' = 0
    PROVE  ShownParts'
<1>1. CASE User
  <2>1. CASE Open
    BY <2>1, OpenShown
  <2>2. CASE Close
    BY <2>2, CloseShown DEF Close, Show, serverVars, storeVars
  <2>3. CASE ClickSend
    BY <2>3, ClickSendShown
  <2>4. CASE ClickDelete
    BY <2>4, CloseShown DEF ClickDelete, serverVars, componentVars
  <2>5. ASSUME NEW t \in Texts, Edit(t) PROVE ShownParts'
    BY <2>5, EditShown
  <2>6. QED
    BY <1>1, <2>1, <2>2, <2>3, <2>4, <2>5 DEF User
<1>2. CASE Requests
  BY <1>2, RequestsShown
<1>3. CASE Autosave
  BY <1>3, AutosaveShown
<1>4. ASSUME NEW i \in DOMAIN calls, Progress(i) PROVE ShownParts'
  BY <1>4, LostProgress, LearntProgress, EntryProgress, BaseProgress, StoredOver DEF ShownParts
<1>5. ASSUME NEW i \in DOMAIN calls, Lose(i) PROVE FALSE
  BY <1>5 DEF Lose
<1>6. CASE UNCHANGED vars
  BY <1>6, CloseShown DEF vars, serverVars, storeVars, componentVars
<1>7. QED
  BY <1>1, <1>2, <1>3, <1>4, <1>5, <1>6 DEF Next

LEMMA InitShown == Init => DInv
<1> SUFFICES ASSUME Init PROVE DInv
  OBVIOUS
<1>1. DOMAIN calls = {}
  BY DEF Init
<1>2. ShownParts
  BY <1>1
  DEF Init, ShownParts, NothingLost, LearntSoon, ShownIsEntry, FlightIsEntry, BaseOrText, EntryIsStored
<1>3. QED
  BY <1>2, InitOrder DEF DInv

LEMMA DInvStep == DInv /\ [Next]_vars => DInv'
<1> SUFFICES ASSUME DInv, [Next]_vars PROVE DInv'
  OBVIOUS
<1>1. CInv'
  BY CInvStep DEF DInv
<1>2. ASSUME ~overlapped', failures' = 0 PROVE ShownParts'
  <2>1. TypeOK /\ BodiesKnown
    BY DEF DInv, CInv
  <2>2. ~overlapped /\ failures = 0
    <3>1. failures \in Nat
      BY <2>1, DraftBoundsAssumption DEF TypeOK
    <3>2. failures' \in {failures, failures + 1}
      BY <2>1, FailuresGrow
    <3>3. failures = 0
      BY <1>2, <3>1, <3>2
    <3>4. QED
      BY <1>2, <2>1, <3>3, AnsweredBefore
  <2>3. QED
    BY <1>2, <2>1, <2>2, ShownStep DEF DInv, CInv
<1>3. QED
  BY <1>1, <1>2 DEF DInv

(* The invariant gives the property: once everything is quiet, nothing is in flight. *)
LEMMA DInvShown == DInv => ShownIsStored
<1> SUFFICES ASSUME DInv, Quiet, editor = "open", status = "draft", ~overlapped, failures = 0
             PROVE  text = stored /\ entry = stored /\ original = stored
  BY DEF ShownIsStored
<1>1. OrderParts /\ ShownParts /\ AllOver /\ throttled = None
  BY DEF DInv, CInv, Quiet, Unanswered, AllOver, Over
<1>2. entry = stored
  BY <1>1 DEF ShownParts, EntryIsStored, OrderParts, EditorAnswered
<1>3. text = entry
  BY <1>1 DEF ShownParts, ShownIsEntry, Living
<1>4. original # None
  BY <1>1 DEF ShownParts, LearntSoon, AllOver, Over
<1>5. original = stored
  BY <1>1, <1>4 DEF OrderParts, KnownIsStored, AllOver, Over
<1>6. QED
  BY <1>2, <1>3, <1>5

(* When everything is quiet, an editor that is open on a draft shows what the server has stored, and
   the store of the browser agrees: unless two saves have overlapped (onSave does not wait for the
   answer of the one before) or a request has failed, no text that was typed is lost. *)
THEOREM ShownCorrect == Spec => []ShownIsStored
BY InitShown, DInvStep, DInvShown, PTL DEF Spec
-----------------------------------------------------------------------------
(***************************************************************************)
(* The button that is disabled is given back by somebody.                  *)
(***************************************************************************)
Pending == {"saving", "checked", "written", "read", "posting", "mailed", "marked"}

\* Call i is a send of the component that is shown, and is not over.
SendPending(i) == calls[i].send /\ calls[i].mount = mount /\ calls[i].stage \in Pending

\* While the editor says that it is sending, a send that it has started is underway.
SendInHand == isSending => editor # "closed" /\ \E i \in DOMAIN calls : SendPending(i)

(* A call stays that of its component. *)
LEMMA MountKept ==
    ASSUME TypeOK, NEW i \in DOMAIN calls, Progress(i) \/ Lose(i)
    PROVE  \A j \in DOMAIN calls : calls'[j].mount = calls[j].mount
<1>1. calls \in Seq(Call) /\ stored \in MaybeBody
  BY DEF TypeOK
<1>2. \/ \E st \in Stage : calls' = [calls EXCEPT ![i].stage = st]
      \/ calls' = [calls EXCEPT ![i].stage = "read", ![i].got = stored]
      \/ calls' = [calls EXCEPT ![i].stage = "mailed", ![i].mailed = stored]
  BY DEF Progress, Check, Refuse, Write, ReadBack, Saved, Deliver, Mark, Sent, Lose, Step, Reject,
         Stage
<1>3. calls[i] \in Call
  BY <1>1
<1>4. PICK n : calls' = [calls EXCEPT ![i] = n] /\ n.mount = calls[i].mount
  <2>1. ASSUME NEW st \in Stage, calls' = [calls EXCEPT ![i].stage = st]
        PROVE  \E n : calls' = [calls EXCEPT ![i] = n] /\ n.mount = calls[i].mount
    <3>1. calls' = [calls EXCEPT ![i] = [calls[i] EXCEPT !.stage = st]]
      BY <2>1
    <3>2. [calls[i] EXCEPT !.stage = st].mount = calls[i].mount
      BY <1>3 DEF Call
    <3>3. QED
      BY <3>1, <3>2
  <2>2. ASSUME calls' = [calls EXCEPT ![i].stage = "read", ![i].got = stored]
        PROVE  \E n : calls' = [calls EXCEPT ![i] = n] /\ n.mount = calls[i].mount
    <3>1. calls' = [calls EXCEPT ![i] = [calls[i] EXCEPT !.stage = "read", !.got = stored]]
      BY <2>2
    <3>2. [calls[i] EXCEPT !.stage = "read", !.got = stored].mount = calls[i].mount
      BY <1>3 DEF Call
    <3>3. QED
      BY <3>1, <3>2
  <2>3. ASSUME calls' = [calls EXCEPT ![i].stage = "mailed", ![i].mailed = stored]
        PROVE  \E n : calls' = [calls EXCEPT ![i] = n] /\ n.mount = calls[i].mount
    <3>1. calls' = [calls EXCEPT ![i] = [calls[i] EXCEPT !.stage = "mailed", !.mailed = stored]]
      BY <2>3
    <3>2. [calls[i] EXCEPT !.stage = "mailed", !.mailed = stored].mount = calls[i].mount
      BY <1>3 DEF Call
    <3>3. QED
      BY <3>1, <3>2
  <2>4. QED
    BY <1>2, <2>1, <2>2, <2>3
<1>5. QED
  BY <1>1, <1>4

(* A call that moves from one stage to another that is not the last. *)
LEMMA StillPending ==
    ASSUME SendInHand, NEW i \in DOMAIN calls, NEW st, Moved(i, st),
           \A j \in DOMAIN calls : calls'[j].mount = calls[j].mount,
           UNCHANGED mount, isSending' => isSending, editor # "closed" => editor' # "closed",
           isSending' /\ SendPending(i) => st \in Pending
    PROVE  SendInHand'
<1> SUFFICES ASSUME isSending'
             PROVE  editor' # "closed" /\ \E j \in DOMAIN calls' : SendPending(j)'
  BY DEF SendInHand
<1>1. PICK j \in DOMAIN calls : SendPending(j)
  BY DEF SendInHand
<1>2. DOMAIN calls' = DOMAIN calls
  BY DEF Moved
<1>3. CASE j # i
  BY <1>1, <1>2, <1>3 DEF Moved, SendPending, SendInHand
<1>4. CASE j = i
  BY <1>1, <1>2, <1>4 DEF Moved, SendPending, SendInHand
<1>5. QED
  BY <1>3, <1>4

(* A promise that is rejected gives the button back, if it is the component's own. *)
LEMMA RejectGives ==
    ASSUME SendInHand, NEW i \in DOMAIN calls, NEW st, Reject(i, st), isSending',
           UNCHANGED mount
    PROVE  isSending /\ ~SendPending(i)
BY DEF Reject, SendPending

LEMMA ProgressInHand ==
    ASSUME TypeOK, SendInHand, NEW i \in DOMAIN calls, Progress(i) \/ Lose(i)
    PROVE  SendInHand'
<1> USE DEF serverVars, storeVars, componentVars
<1>1. \A j \in DOMAIN calls : calls'[j].mount = calls[j].mount
  BY MountKept
<1>2. UNCHANGED mount
  BY DEF Progress, Check, Refuse, Write, ReadBack, Saved, Deliver, Mark, Sent, Lose
<1>3. /\ isSending \in BOOLEAN /\ editor \in {"closed", "waiting", "open"}
      /\ calls[i].text \in Body /\ requesting \in BOOLEAN /\ ShownOK
  BY CallFields DEF TypeOK, ShownOK
<1>4. CASE Check(i)
  <2>1. Moved(i, "checked") /\ UNCHANGED <<isSending, editor>>
    BY <1>4, ProgressMoves DEF Passed, Check
  <2>2. QED
    BY <1>1, <1>2, <2>1, StillPending DEF Pending
<1>5. CASE Refuse(i)
  <2>1. Moved(i, "refused") /\ UNCHANGED editor /\ Reject(i, "refused")
    BY <1>5, ProgressMoves DEF Passed, Refuse
  <2>2. QED
    BY <1>1, <1>2, <2>1, RejectGives, StillPending DEF Reject
<1>6. CASE Write(i)
  <2>1. Moved(i, "written") /\ UNCHANGED <<isSending, editor>>
    BY <1>6, ProgressMoves DEF Passed, Write
  <2>2. QED
    BY <1>1, <1>2, <2>1, StillPending DEF Pending
<1>7. CASE ReadBack(i)
  <2>1. \/ Moved(i, "read") /\ UNCHANGED isSending
        \/ Moved(i, "refused") /\ Reject(i, "refused")
    <3>1. CASE status # "absent"
      BY <1>7, <3>1, ProgressMoves DEF Passed, ReadBack
    <3>2. CASE status = "absent"
      BY <1>7, <3>2, ProgressMoves DEF Passed, ReadBack
    <3>3. QED
      BY <3>1, <3>2
  <2>2. UNCHANGED editor
    BY <1>7 DEF ReadBack
  <2>3. CASE Moved(i, "read") /\ UNCHANGED isSending
    BY <1>1, <1>2, <2>2, <2>3, StillPending DEF Pending
  <2>4. CASE Moved(i, "refused") /\ Reject(i, "refused")
    BY <1>1, <1>2, <2>2, <2>4, RejectGives, StillPending DEF Reject
  <2>5. QED
    BY <2>1, <2>3, <2>4
<1>8. CASE Saved(i)
  <2>1. PICK st \in {"posting", "done"} :
            Moved(i, st) /\ (st = "done" => ~calls[i].send)
    BY <1>8, ProgressMoves DEF Passed
  <2>2. UNCHANGED isSending /\ Refresh(calls[i].text, requesting)
    BY <1>8 DEF Saved
  <2>3. editor' = "closed" <=> editor = "closed"
    BY <1>3, <2>2, BodyIsNotNone, RefreshType
  <2>4. QED
    BY <1>1, <1>2, <2>1, <2>2, <2>3, StillPending DEF Pending, SendPending
<1>9. CASE Deliver(i)
  <2>1. \/ Moved(i, "mailed") /\ UNCHANGED isSending
        \/ Moved(i, "refused") /\ Reject(i, "refused")
    <3>1. CASE status = "draft"
      BY <1>9, <3>1, ProgressMoves DEF Passed, Deliver
    <3>2. CASE status # "draft"
      BY <1>9, <3>2, ProgressMoves DEF Passed, Deliver
    <3>3. QED
      BY <3>1, <3>2
  <2>2. UNCHANGED editor
    BY <1>9 DEF Deliver
  <2>3. CASE Moved(i, "mailed") /\ UNCHANGED isSending
    BY <1>1, <1>2, <2>2, <2>3, StillPending DEF Pending
  <2>4. CASE Moved(i, "refused") /\ Reject(i, "refused")
    BY <1>1, <1>2, <2>2, <2>4, RejectGives, StillPending DEF Reject
  <2>5. QED
    BY <2>1, <2>3, <2>4
<1>10. CASE Mark(i)
  <2>1. PICK st \in {"marked", "lost"} :
            Moved(i, st) /\ (st = "lost" => calls[i].stage = "late")
    BY <1>10, ProgressMoves DEF Passed
  <2>2. UNCHANGED <<isSending, editor>>
    BY <1>10 DEF Mark
  <2>3. QED
    BY <1>1, <1>2, <2>1, <2>2, StillPending DEF Pending, SendPending
<1>11. CASE Sent(i)
  <2>1. ~isSending' \/ (Moved(i, "refused") /\ Reject(i, "refused") /\ UNCHANGED editor)
    <3>1. CASE status # "absent"
      BY <1>11, <3>1 DEF Sent
    <3>2. CASE status = "absent"
      BY <1>11, <3>2, ProgressMoves DEF Passed, Sent
    <3>3. QED
      BY <3>1, <3>2
  <2>2. CASE Moved(i, "refused") /\ Reject(i, "refused") /\ UNCHANGED editor
    BY <1>1, <1>2, <2>2, RejectGives, StillPending DEF Reject
  <2>3. QED
    BY <2>1, <2>2 DEF SendInHand
<1>12. CASE Lose(i)
  <2>1. PICK st \in {"late", "lost"} : Reject(i, st)
    BY <1>12 DEF Lose
  <2>2. \E to \in {"late", "lost"} : Moved(i, to)
    BY <1>12, ProgressMoves DEF Passed
  <2>3. UNCHANGED editor
    BY <1>12 DEF Lose
  <2>4. QED
    BY <1>1, <1>2, <2>1, <2>2, <2>3, RejectGives, StillPending DEF Reject
<1>13. QED
  BY <1>4, <1>5, <1>6, <1>7, <1>8, <1>9, <1>10, <1>11, <1>12 DEF Progress

LEMMA InHandStep == TypeOK /\ SendInHand /\ [Next]_vars => SendInHand'
<1> SUFFICES ASSUME TypeOK, SendInHand, [Next]_vars PROVE SendInHand'
  OBVIOUS
<1> USE DEF serverVars, storeVars, componentVars
<1>1. CASE User
  <2>1. CASE Open
    BY <1>1, <2>1 DEF Open, SendInHand
  <2>2. CASE Close
    BY <2>2 DEF Close, SendInHand
  <2>3. CASE ClickSend
    <3>1. mount \in Nat
      BY DraftBoundsAssumption DEF TypeOK
    <3>2. Started(original, TRUE, text, deletions) /\ editor' # "closed" /\ UNCHANGED mount
      BY <2>3, ClickSendStarts DEF ClickSend, CanSend
    <3>3. /\ Len(calls) + 1 \in DOMAIN calls' /\ calls'[Len(calls) + 1].send = TRUE
          /\ calls'[Len(calls) + 1].mount = mount /\ calls'[Len(calls) + 1].stage = "saving"
      <4>1. calls \in Seq(Call)
        BY DEF TypeOK
      <4>2. QED
        BY <2>3, <4>1 DEF ClickSend, Start
    <3>4. QED
      BY <3>2, <3>3 DEF SendInHand, SendPending, Pending
  <2>4. CASE ClickDelete
    BY <2>4 DEF ClickDelete, SendInHand, SendPending
  <2>5. ASSUME NEW t \in Texts, Edit(t) PROVE SendInHand'
    BY <2>5 DEF Edit, SendInHand, SendPending
  <2>6. QED
    BY <1>1, <2>1, <2>2, <2>3, <2>4, <2>5 DEF User
<1>2. CASE Requests
  <2>1. CASE DraftFound
    <3>1. Refresh(stored, FALSE) /\ UNCHANGED <<calls, isSending, mount>>
      BY <2>1 DEF DraftFound
    <3>2. editor' = "closed" <=> editor = "closed"
      BY <3>1, RefreshType DEF TypeOK, ShownOK
    <3>3. QED
      BY <3>1, <3>2 DEF SendInHand, SendPending
  <2>2. CASE DraftNotFound
    <3>1. Refresh(Blank, FALSE) /\ UNCHANGED <<calls, isSending, mount>>
      BY <2>2 DEF DraftNotFound
    <3>2. Blank \in MaybeBody
      BY BodyIsNotNone DEF Body
    <3>3. editor' = "closed" <=> editor = "closed"
      BY <3>1, <3>2, RefreshType DEF TypeOK, ShownOK
    <3>4. QED
      BY <3>1, <3>3 DEF SendInHand, SendPending
  <2>3. CASE SentFound \/ Deleted
    BY <2>3 DEF SentFound, Deleted, SendInHand
  <2>4. CASE Delete \/ DeleteFails
    BY <2>4 DEF Delete, DeleteFails, SendInHand, SendPending
  <2>5. QED
    BY <1>2, <2>1, <2>2, <2>3, <2>4 DEF Requests
<1>3. CASE Autosave
  <2>1. /\ \A i \in DOMAIN calls : i \in DOMAIN calls' /\ calls'[i] = calls[i]
        /\ UNCHANGED <<isSending, mount, editor>>
    BY <1>3, AutosaveStarts DEF Started, Autosave
  <2>2. QED
    BY <2>1 DEF SendInHand, SendPending
<1>4. CASE \E i \in DOMAIN calls : Progress(i) \/ Lose(i)
  BY <1>4, ProgressInHand
<1>5. CASE UNCHANGED vars
  BY <1>5 DEF vars, SendInHand, SendPending
<1>6. QED
  BY <1>1, <1>2, <1>3, <1>4, <1>5 DEF Next

\* The part of SendSettles that is no liveness: whenever the button is disabled, a send that
\* this very component has started is underway, whose end or failure enables it again. No
\* send of an earlier opening of the scene, answer or lost request, in whatever order, leaves
\* a button that nobody gives back (handleSend).
THEOREM SendCorrect == Spec => []SendInHand
<1>1. Init => TypeOK /\ SendInHand
  BY InitType DEF Init, SendInHand
<1>2. TypeOK /\ SendInHand /\ [Next]_vars => (TypeOK /\ SendInHand)'
  BY TypeStep, InHandStep
<1>3. QED
  BY <1>1, <1>2, PTL DEF Spec
=============================================================================

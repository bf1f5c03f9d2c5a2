-------------------------- MODULE Timeline_proofs --------------------------
(***************************************************************************)
(* Proofs about the timeline, for every finite set of discussions, every   *)
(* size of the pages and every number of messages, polls and requests.     *)
(***************************************************************************)
EXTENDS Timeline, FiniteSetTheorems, SequenceTheorems, WellFoundedInduction, TLAPS

\* The poller only learns of notifications that are in the queue, and these of messages that
\* have arrived.
KnownHaveArrived ==
    /\ LastOld <= arrived
    /\ \A k \in notified : Notices[k] <= arrived
    /\ \A i \in DOMAIN polls : polls[i] \subseteq notified

IInv == TypeOK /\ KnownHaveArrived /\ ListedIsKnown
-----------------------------------------------------------------------------
(* The natural numbers have no infinite descent, so what is bounded has a maximum. *)
LEMMA MaxOfBounded ==
    ASSUME NEW S, NEW n \in Nat, S \subseteq 0..n, S # {}
    PROVE  Max(S) \in S /\ \A y \in S : y <= Max(S)
<1> DEFINE T == {n - x : x \in S}
<1>1. T \subseteq Nat /\ T # {}
  OBVIOUS
<1>2. PICK t \in T : \A u \in T : ~(<<u, t>> \in OpToRel(<, Nat))
  <2> HIDE DEF T
  <2>1. QED
    BY <1>1, NatLessThanWellFounded, WFMin
<1>3. PICK x \in S : t = n - x
  OBVIOUS
<1>4. ASSUME NEW y \in S PROVE x >= y
  <2>1. n - y \in T /\ n - y \in Nat /\ t \in Nat
    BY <1>1
  <2>2. ~(n - y < t)
    <3> HIDE DEF T
    <3>1. QED
      BY <1>1, <1>2, <2>1 DEF OpToRel
  <2>3. QED
    BY <1>3, <2>1, <2>2
<1>5. QED
  <2>1. \E z \in S : \A y \in S : z >= y
    BY <1>4
  <2>2. Max(S) \in S /\ \A y \in S : Max(S) >= y
    BY <2>1 DEF Max
  <2>3. QED
    BY <2>2

(* The last message of the mailbox and the messages that notifications tell of are numbers. *)
LEMMA OldType == LastOld \in 0..MaxMessages /\ \A n \in Old : n <= LastOld
<1>1. {0} \cup Old \subseteq 0..MaxMessages /\ {0} \cup Old # {}
  BY MailboxAssumption, TimelineBoundsAssumption DEF Old
<1>2. LastOld \in {0} \cup Old /\ \A n \in {0} \cup Old : n <= LastOld
  BY <1>1, MaxOfBounded, TimelineBoundsAssumption DEF LastOld
<1>3. QED
  BY <1>1, <1>2

LEMMA NoticesType ==
    \A k \in DOMAIN Notices : k \in Nat \ {0} /\ Notices[k] \in Nat /\ Notices[k] > LastOld
BY NoticesAssumption, OldType, TimelineBoundsAssumption

(* The last of some notifications. *)
LEMMA MaxOfNotices ==
    ASSUME NEW ns \in SUBSET DOMAIN Notices, ns # {}
    PROVE  Max(ns) \in ns /\ \A k \in ns : k <= Max(ns)
<1>1. Len(Notices) \in Nat /\ ns \subseteq 0..Len(Notices)
  BY NoticesAssumption
<1>2. QED
  BY <1>1, MaxOfBounded

(* Removing an element of a sequence leaves a sequence of the others. *)
LEMMA RemoveAtType ==
    ASSUME NEW S, NEW s \in Seq(S), NEW i \in DOMAIN s
    PROVE  /\ RemoveAt(s, i) \in Seq(S)
           /\ \A j \in DOMAIN RemoveAt(s, i) : \E k \in DOMAIN s : RemoveAt(s, i)[j] = s[k]
<1> DEFINE a == SubSeq(s, 1, i - 1)
           b == SubSeq(s, i + 1, Len(s))
<1>1. RemoveAt(s, i) = a \o b
  BY DEF RemoveAt
<1>2. i \in 1..Len(s)
  OBVIOUS
<1>3. a \in Seq(S) /\ Len(a) = i - 1 /\ \A j \in 1..(i - 1) : a[j] = s[j]
  BY <1>2
<1>4. b \in Seq(S) /\ Len(b) = Len(s) - i /\ \A j \in 1..(Len(s) - i) : b[j] = s[i + j]
  BY <1>2
<1> HIDE DEF a, b
<1>5. a \o b \in Seq(S) /\ Len(a \o b) = Len(s) - 1
  BY <1>2, <1>3, <1>4
<1>6. ASSUME NEW j \in DOMAIN (a \o b) PROVE \E k \in DOMAIN s : (a \o b)[j] = s[k]
  <2>1. j \in 1..(Len(s) - 1)
    BY <1>5
  <2>2. CASE j <= i - 1
    BY <1>2, <1>3, <1>4, <2>1, <2>2
  <2>3. CASE j > i - 1
    <3>1. (a \o b)[j] = b[j - (i - 1)]
      BY <1>2, <1>3, <1>4, <2>1, <2>3
    <3>2. j - (i - 1) \in 1..(Len(s) - i)
      BY <1>2, <2>1, <2>3
    <3>3. b[j - (i - 1)] = s[i + (j - (i - 1))]
      BY <1>4, <3>2
    <3>4. i + (j - (i - 1)) = j + 1 /\ j + 1 \in 1..Len(s)
      BY <1>2, <2>1
    <3>5. QED
      BY <3>1, <3>3, <3>4
  <2>4. QED
    BY <1>2, <2>1, <2>2, <2>3
<1>7. QED
  BY <1>1, <1>5, <1>6

(* The date of a discussion is 0 or the number of one of its messages. *)
LEMMA LatestType ==
    ASSUME messages \in [Discussions -> SUBSET Numbers], NEW d \in Discussions
    PROVE  Latest(d) \in 0..MaxMessages
<1> USE TimelineBoundsAssumption
<1>1. CASE messages[d] = {}
  BY <1>1 DEF Latest
<1>2. CASE messages[d] # {}
  <2>1. messages[d] \subseteq 0..MaxMessages
    BY DEF Numbers
  <2>2. Max(messages[d]) \in messages[d]
    BY <1>2, <2>1, MaxOfBounded
  <2>3. QED
    BY <1>2, <2>1, <2>2 DEF Latest
<1>3. QED
  BY <1>1, <1>2

(* A page, or a discussion, is dated by its messages. *)
LEMMA DatesType ==
    ASSUME messages \in [Discussions -> SUBSET Numbers], NEW ds
    PROVE  DatesOf(ds) \in Dates
BY LatestType, TimelineBoundsAssumption DEF DatesOf, Dates

(* The server answers a request with dates and a count. *)
LEMMA AnswerType ==
    ASSUME messages \in [Discussions -> SUBSET Numbers], NEW r \in Request
    PROVE  Answer(r) \in Request
<1> DEFINE found == IF r.kind = "list" THEN Page(r.offset) ELSE Existing \cap {r.discussion}
           refused == IF r.kind = "list"
                      THEN Existing # {} /\ r.offset > Cardinality(Existing)
                      ELSE found = {}
<1>1. DatesOf(found) \in Dates
  BY DatesType
<1>2. Cardinality(Existing) \in Nat
  <2>1. IsFiniteSet(Existing)
    BY DiscussionsAssumption, FS_Subset DEF Existing
  <2>2. QED
    BY <2>1, FS_CardinalityType
<1>3. Answer(r) = [r EXCEPT !.stage = IF refused THEN "refused" ELSE "answered",
                            !.dates = DatesOf(found), !.total = Cardinality(Existing)]
  BY DEF Answer
<1>4. QED
  <2> HIDE DEF found, refused
  <2>1. QED
    BY <1>1, <1>2, <1>3 DEF Request

(* The list is counted: the offset of the next page is a number. *)
LEMMA OffsetType == ASSUME listed \subseteq Discussions PROVE NextOffset \in Nat
<1>1. IsFiniteSet(listed)
  BY DiscussionsAssumption, FS_Subset
<1>2. QED
  BY <1>1, FS_CardinalityType DEF NextOffset

LEMMA NewRequestType ==
    ASSUME NEW kind \in {"list", "one", "deleted"}, NEW offset \in Nat,
           NEW d \in Discussions \cup {None}
    PROVE  NewRequest(kind, offset, d) \in Request
BY TimelineBoundsAssumption DEF NewRequest, Request, Dates

\* What loadDiscussions may change.
LoadedOK ==
    /\ requests \in Seq(Request)
    /\ isFetching \in BOOLEAN /\ didInvalidate \in BOOLEAN
    /\ initialized \in BOOLEAN /\ stale \in BOOLEAN

(* loadDiscussions keeps the types of what it changes. *)
LEMMA LoadType ==
    ASSUME NEW mounted \in BOOLEAN, NEW started \in BOOLEAN, NEW fetching \in BOOLEAN,
           NEW invalid \in BOOLEAN, NEW reqs \in Seq(Request), NEW st \in BOOLEAN,
           LoadDiscussions(mounted, started, fetching, invalid, reqs, st)
    PROVE  LoadedOK'
<1>1. NewRequest("list", 0, None) \in Request
  BY NewRequestType
<1>2. Append(reqs, NewRequest("list", 0, None)) \in Seq(Request)
  BY <1>1
<1>3. PICK load \in BOOLEAN :
        /\ requests' = IF load THEN Append(reqs, NewRequest("list", 0, None)) ELSE reqs
        /\ isFetching' = (fetching \/ load)
        /\ initialized' = (started \/ load)
        /\ didInvalidate' = invalid
        /\ stale' = (st \/ (load /\ reqs # <<>>))
  BY DEF LoadDiscussions
<1>4. QED
  BY <1>2, <1>3 DEF LoadedOK

\* What loadDiscussions leaves alone.
OtherOK ==
    /\ messages \in [Discussions -> SUBSET Numbers]
    /\ arrived \in 0..MaxMessages
    /\ notified \subseteq DOMAIN Notices
    /\ listed \subseteq Discussions
    /\ byId \in Dates
    /\ total \in Int
    /\ deletion \in Discussions \cup {None}
    /\ open \in BOOLEAN
    /\ polling \in BOOLEAN
    /\ from \in {0} \cup notified
    /\ polls \in Seq(SUBSET DOMAIN Notices)
    /\ notifications \subseteq DOMAIN Notices
    /\ firstPollDone \in BOOLEAN
    /\ openings \in Nat /\ clicks \in Nat /\ failures \in Nat

LEMMA TypeParts == TypeOK <=> LoadedOK /\ OtherOK
BY DEF TypeOK, LoadedOK, OtherOK

LEMMA TypePartsNext == LoadedOK' /\ OtherOK' => TypeOK'
BY DEF TypeOK, LoadedOK, OtherOK

(* A store that is refreshed, invalidated or told of a failure keeps its types. *)
LEMMA RefreshType ==
    ASSUME TypeOK, NEW fetching \in BOOLEAN, NEW invalid \in BOOLEAN,
           NEW reqs \in Seq(Request), NEW st \in BOOLEAN,
           Refresh(fetching, invalid, reqs, st)
    PROVE  LoadedOK'
<1>1. open \in BOOLEAN /\ initialized \in BOOLEAN
  BY DEF TypeOK
<1>2. LoadDiscussions(open, initialized, fetching, invalid, reqs, st)
  BY DEF Refresh
<1>3. QED
  BY <1>1, <1>2, LoadType

LEMMA InvalidateType ==
    ASSUME TypeOK, NEW fetching \in BOOLEAN, NEW reqs \in Seq(Request),
           Invalidate(fetching, reqs)
    PROVE  LoadedOK'
<1>1. (reqs # <<>> \/ Deleting(reqs)) \in BOOLEAN
  BY DEF Deleting
<1>2. Refresh(fetching, TRUE, reqs, reqs # <<>> \/ Deleting(reqs))
  BY DEF Invalidate
<1>3. QED
  BY <1>1, <1>2, RefreshType

LEMMA FailedType ==
    ASSUME TypeOK, NEW i \in DOMAIN requests, Failed(i)
    PROVE  LoadedOK'
<1>1. RemoveAt(requests, i) \in Seq(Request)
  BY RemoveAtType DEF TypeOK
<1>2. CASE requests[i].kind = "deleted"
  <2>1. Invalidate(FALSE, RemoveAt(requests, i))
    BY <1>2 DEF Failed
  <2>2. QED
    BY <1>1, <2>1, InvalidateType
<1>3. CASE requests[i].kind # "deleted"
  <2>1. Refresh(FALSE, didInvalidate, RemoveAt(requests, i), stale \/ ~didInvalidate)
    BY <1>3 DEF Failed
  <2>2. didInvalidate \in BOOLEAN /\ (stale \/ ~didInvalidate) \in BOOLEAN
    BY DEF TypeOK
  <2>3. QED
    BY <1>1, <2>1, <2>2, RefreshType
<1>4. QED
  BY <1>2, <1>3
-----------------------------------------------------------------------------
(* The first state: the mailbox gives the number of the last message. *)
LEMMA InitIInv == Init => IInv
<1> SUFFICES ASSUME Init PROVE IInv
  OBVIOUS
<1> USE MailboxAssumption, TimelineBoundsAssumption DEF Init
<1> DEFINE all == Old
<1>1. all \subseteq 1..MaxMessages
  <2>1. ASSUME NEW d \in Discussions PROVE Mailbox[d] \subseteq 1..MaxMessages
    OBVIOUS
  <2>2. QED
    BY <2>1 DEF Old
<1>2. {0} \cup all \subseteq 0..MaxMessages /\ {0} \cup all # {}
  <2> HIDE DEF all
  <2>1. QED
    BY <1>1
<1>3. arrived \in {0} \cup all /\ \A y \in {0} \cup all : y <= arrived
  BY <1>2, MaxOfBounded DEF LastOld
<1>4. arrived \in 0..MaxMessages
  BY <1>2, <1>3
<1>5. LastOld <= arrived
  BY <1>4
<1>6. LoadedOK
  <2>1. <<>> \in Seq(Request)
    BY EmptySeq
  <2>2. QED
    BY <2>1 DEF LoadedOK
<1>7. OtherOK
  <2>1. <<>> \in Seq(SUBSET DOMAIN Notices)
    BY EmptySeq
  <2>2. /\ messages \in [Discussions -> SUBSET Numbers]
        /\ notified \subseteq DOMAIN Notices /\ notifications \subseteq DOMAIN Notices
    BY <1>1 DEF Numbers
  <2>3. byId \in Dates
    BY DEF Dates
  <2>4. from \in {0} \cup notified /\ total \in Int
    OBVIOUS
  <2>5. QED
    BY <1>4, <2>1, <2>2, <2>3, <2>4 DEF OtherOK
<1>8. KnownHaveArrived
  BY <1>5 DEF KnownHaveArrived
<1>9. ListedIsKnown
  BY DEF ListedIsKnown
<1>10. QED
  BY <1>6, <1>7, <1>8, <1>9, TypeParts DEF IInv

\* What happens on the server and to the list of the store is about these variables only.
listVars == <<listed, byId>>
pollVars == <<arrived, notified, from, polls>>

(* What leaves the list, or the poller, alone keeps what is known of it. *)
LEMMA ListUnchanged == ListedIsKnown /\ UNCHANGED listVars => ListedIsKnown'
BY DEF ListedIsKnown, listVars

LEMMA PollsUnchanged == KnownHaveArrived /\ UNCHANGED pollVars => KnownHaveArrived'
BY DEF KnownHaveArrived, pollVars

\* The steps that only ask for something and let loadDiscussions run.
RestUnchanged == UNCHANGED <<server, listed, byId, total, poller>>

LEMMA AskingStep ==
    ASSUME IInv, LoadedOK', RestUnchanged,
           deletion' \in Discussions \cup {None}, open' \in BOOLEAN,
           openings' \in Nat, clicks' \in Nat, failures' \in Nat
    PROVE  IInv'
<1> USE DEF RestUnchanged, server, poller
<1>1. OtherOK
  BY TypeParts DEF IInv
<1>2. OtherOK'
  BY <1>1 DEF OtherOK
<1>3. ListedIsKnown'
  BY ListUnchanged DEF IInv, listVars
<1>4. KnownHaveArrived'
  BY PollsUnchanged DEF IInv, pollVars
<1>5. QED
  BY <1>2, <1>3, <1>4, TypePartsNext DEF IInv

(* A request that is appended is a request. *)
LEMMA AskedType ==
    ASSUME requests \in Seq(Request), NEW kind \in {"list", "one", "deleted"},
           NEW offset \in Nat, NEW d \in Discussions \cup {None}
    PROVE  Append(requests, NewRequest(kind, offset, d)) \in Seq(Request)
<1>1. NewRequest(kind, offset, d) \in Request
  BY NewRequestType
<1>2. QED
  BY <1>1

(* The user opens and closes the scene, loads more and opens a discussion. *)
LEMMA SceneStep ==
    ASSUME IInv, Open \/ Close \/ LoadMore \/ \E d \in Discussions : OpenDiscussion(d)
    PROVE  IInv'
<1> USE DEF IInv
<1>1. CASE Open
  <2>1. LoadDiscussions(TRUE, FALSE, isFetching, didInvalidate, requests, stale)
    BY <1>1 DEF Open
  <2>2. LoadedOK'
    <3>1. /\ isFetching \in BOOLEAN /\ didInvalidate \in BOOLEAN
          /\ requests \in Seq(Request) /\ stale \in BOOLEAN
      BY DEF TypeOK
    <3>2. QED
      BY <2>1, <3>1, LoadType
  <2>3. /\ RestUnchanged
        /\ deletion' = deletion /\ open' = TRUE
        /\ openings' = openings + 1 /\ clicks' = clicks /\ failures' = failures
    BY <1>1 DEF Open, RestUnchanged, server, poller
  <2>4. QED
    BY <2>2, <2>3, AskingStep DEF TypeOK
<1>2. CASE Close
  <2>1. LoadedOK' /\ OtherOK'
    <3>1. LoadedOK /\ OtherOK
      BY TypeParts
    <3>2. /\ UNCHANGED <<server, store, requests, deletion, poller, stale, openings, failures>>
          /\ open' = FALSE /\ initialized' = FALSE /\ clicks' = clicks + 1
      BY <1>2 DEF Close, Click
    <3>3. LoadedOK'
      BY <3>1, <3>2 DEF LoadedOK, store
    <3>4. clicks' \in Nat /\ openings' \in Nat /\ failures' \in Nat
      BY <3>1, <3>2 DEF OtherOK
    <3>5. OtherOK'
      BY <3>1, <3>2, <3>4 DEF OtherOK, server, store, poller
    <3>6. QED
      BY <3>3, <3>5
  <2>2. UNCHANGED listVars /\ UNCHANGED pollVars
    BY <1>2 DEF Close, server, store, poller, listVars, pollVars
  <2>3. QED
    BY <2>1, <2>2, TypePartsNext, ListUnchanged, PollsUnchanged
<1>3. CASE LoadMore
  <2>1. LoadDiscussions(TRUE, initialized, TRUE, didInvalidate,
            Append(requests, NewRequest("list", NextOffset, None)),
            stale \/ requests # <<>>)
    BY <1>3 DEF LoadMore
  <2>2. Append(requests, NewRequest("list", NextOffset, None)) \in Seq(Request)
    BY OffsetType, AskedType DEF TypeOK
  <2>3. LoadedOK'
    <3>1. /\ initialized \in BOOLEAN /\ didInvalidate \in BOOLEAN
          /\ (stale \/ requests # <<>>) \in BOOLEAN
      BY DEF TypeOK
    <3>2. QED
      BY <2>1, <2>2, <3>1, LoadType
  <2>4. /\ RestUnchanged
        /\ deletion' = deletion /\ open' = open
        /\ openings' = openings /\ clicks' = clicks + 1 /\ failures' = failures
    BY <1>3 DEF LoadMore, Click, RestUnchanged, server, poller
  <2>5. QED
    BY <2>3, <2>4, AskingStep DEF TypeOK
<1>4. ASSUME NEW d \in Discussions, OpenDiscussion(d) PROVE IInv'
  <2>1. Refresh(TRUE, didInvalidate, Append(requests, NewRequest("one", 0, d)),
            stale \/ requests # <<>>)
    BY <1>4 DEF OpenDiscussion
  <2>2. Append(requests, NewRequest("one", 0, d)) \in Seq(Request)
    BY AskedType DEF TypeOK
  <2>3. LoadedOK'
    <3>1. didInvalidate \in BOOLEAN /\ (stale \/ requests # <<>>) \in BOOLEAN
      BY DEF TypeOK
    <3>2. QED
      BY <2>1, <2>2, <3>1, RefreshType
  <2>4. /\ RestUnchanged
        /\ deletion' = deletion /\ open' = open
        /\ openings' = openings /\ clicks' = clicks + 1 /\ failures' = failures
    BY <1>4 DEF OpenDiscussion, Click, RestUnchanged, server, poller
  <2>5. QED
    BY <2>3, <2>4, AskingStep DEF TypeOK
<1>5. QED
  BY <1>1, <1>2, <1>3, <1>4

(* A message arrives, its notification is put in the queue, the server answers. *)
LEMMA ServerStep ==
    ASSUME IInv,
           \/ \E d \in Discussions : Arrive(d)
           \/ Notifying
           \/ \E i \in DOMAIN requests : Serve(i)
    PROVE  IInv'
<1> USE DEF IInv
<1>1. LoadedOK /\ OtherOK
  BY TypeParts
<1>2. ASSUME NEW d \in Discussions, Arrive(d) PROVE IInv'
  <2> USE <1>2 DEF Arrive, store, scene, poller, bounds
  <2>1. arrived + 1 \in Numbers /\ arrived \in Nat
    BY <1>1, TimelineBoundsAssumption DEF OtherOK, Numbers
  <2>2. messages' \in [Discussions -> SUBSET Numbers]
    BY <1>1, <2>1 DEF OtherOK
  <2>3. LoadedOK'
    BY <1>1 DEF LoadedOK
  <2>4. arrived' \in 0..MaxMessages
    BY <1>1, <2>1 DEF OtherOK, Numbers
  <2>5. OtherOK'
    BY <1>1, <2>2, <2>4 DEF OtherOK
  <2>6. KnownHaveArrived'
    <3>1. LastOld <= arrived' /\ \A k \in notified : Notices[k] <= arrived'
      BY <1>1, <2>1, OldType, NoticesType DEF KnownHaveArrived, OtherOK
    <3>2. QED
      BY <3>1 DEF KnownHaveArrived
  <2>7. ListedIsKnown'
    BY ListUnchanged DEF listVars
  <2>8. QED
    BY <2>3, <2>5, <2>6, <2>7, TypePartsNext
<1>3. ASSUME NEW k \in DOMAIN Notices, ByNotifQueue(k) PROVE IInv'
  <2> USE <1>3 DEF ByNotifQueue, store, scene, poller, bounds
  <2>1. LoadedOK'
    BY <1>1 DEF LoadedOK
  <2>2. OtherOK'
    BY <1>1 DEF OtherOK
  <2>3. KnownHaveArrived'
    BY DEF KnownHaveArrived
  <2>4. ListedIsKnown'
    BY ListUnchanged DEF listVars
  <2>5. QED
    BY <2>1, <2>2, <2>3, <2>4, TypePartsNext
<1>4. ASSUME NEW i \in DOMAIN requests, Serve(i) PROVE IInv'
  <2> USE <1>4 DEF Serve, server, store, scene, poller, bounds
  <2>1. requests[i] \in Request
    BY <1>1 DEF LoadedOK
  <2>2. Answer(requests[i]) \in Request
    BY <1>1, <2>1, AnswerType DEF OtherOK
  <2>3. requests' \in Seq(Request)
    BY <1>1, <2>2 DEF LoadedOK
  <2>4. LoadedOK'
    BY <1>1, <2>3 DEF LoadedOK
  <2>5. OtherOK'
    BY <1>1 DEF OtherOK
  <2>6. ListedIsKnown' /\ KnownHaveArrived'
    BY ListUnchanged, PollsUnchanged DEF listVars, pollVars
  <2>7. QED
    BY <2>4, <2>5, <2>6, TypePartsNext
<1>5. QED
  BY <1>2, <1>3, <1>4 DEF Notifying

(* Dates that are merged are dates, of what the answer or the store knows. *)
LEMMA MergeType ==
    ASSUME NEW old \in Dates, NEW dates \in Dates
    PROVE  /\ Merge(old, dates) \in Dates
           /\ \A d \in Discussions : old[d] # 0 \/ dates[d] # 0 => Merge(old, dates)[d] # 0
BY TimelineBoundsAssumption DEF Merge, Dates

\* The steps that put an answer in the list and let loadDiscussions run.
LEMMA ListingStep ==
    ASSUME IInv, LoadedOK', UNCHANGED <<server, deletion, open, poller, bounds>>,
           listed' \subseteq Discussions, byId' \in Dates, total' \in Int,
           \A d \in listed' : byId'[d] # 0
    PROVE  IInv'
<1> USE DEF server, poller, bounds
<1>1. OtherOK
  BY TypeParts DEF IInv
<1>2. OtherOK'
  BY <1>1 DEF OtherOK
<1>3. ListedIsKnown'
  BY DEF ListedIsKnown
<1>4. KnownHaveArrived'
  BY PollsUnchanged DEF IInv, pollVars
<1>5. QED
  BY <1>2, <1>3, <1>4, TypePartsNext DEF IInv

(* The answers: a page and its dates come together, a discussion that is removed loses its
   date with its place in the list. *)
LEMMA ReceiveStep ==
    ASSUME IInv, NEW i \in DOMAIN requests,
           ReceiveList(i) \/ ReceiveOne(i) \/ ReceiveDeleted(i)
    PROVE  IInv'
<1> USE DEF IInv
<1>1. LoadedOK /\ OtherOK
  BY TypeParts
<1>2. requests[i] \in Request
  BY <1>1 DEF LoadedOK
<1> DEFINE r == requests[i]
<1>3. r.dates \in Dates /\ r.total \in Nat
  BY <1>2 DEF Request
<1>4. RemoveAt(requests, i) \in Seq(Request)
  BY <1>1, RemoveAtType DEF LoadedOK
<1>5. /\ didInvalidate \in BOOLEAN /\ stale \in BOOLEAN
      /\ (stale \/ Deleting(requests)) \in BOOLEAN
      /\ (stale \/ r.stage = "answered" \/ r.discussion \notin listed) \in BOOLEAN
  BY <1>1 DEF LoadedOK, Deleting
<1>6. CASE ReceiveList(i)
  <2> DEFINE kept == IF didInvalidate THEN [d \in Discussions |-> 0] ELSE byId
             before == IF didInvalidate THEN {} ELSE listed
  <2>1. kept \in Dates
    BY <1>1, TimelineBoundsAssumption DEF OtherOK, Dates
  <2>2. before \subseteq Discussions /\ \A d \in before : kept[d] # 0
    BY <1>1 DEF OtherOK, ListedIsKnown
  <2>3. Refresh(FALSE, FALSE, RemoveAt(requests, i), stale \/ Deleting(requests))
    BY <1>6 DEF ReceiveList
  <2>4. LoadedOK'
    BY <1>4, <1>5, <2>3, RefreshType
  <2>5. listed' = before \cup Dated(r.dates) /\ byId' = Merge(kept, r.dates) /\ total' = r.total
    BY <1>6 DEF ReceiveList, Kept
  <2> HIDE DEF kept, before, r
  <2>6. byId' \in Dates /\ total' \in Int
    BY <1>3, <2>1, <2>5, MergeType
  <2>7. listed' \subseteq Discussions /\ \A d \in listed' : byId'[d] # 0
    BY <1>3, <2>1, <2>2, <2>5, MergeType DEF Dated
  <2>8. UNCHANGED <<server, deletion, open, poller, bounds>>
    BY <1>6 DEF ReceiveList
  <2>9. QED
    BY <2>4, <2>6, <2>7, <2>8, ListingStep
<1>7. CASE ReceiveOne(i)
  <2>1. Refresh(FALSE, didInvalidate, RemoveAt(requests, i), stale)
    BY <1>7 DEF ReceiveOne
  <2>2. LoadedOK'
    BY <1>4, <1>5, <2>1, RefreshType
  <2>3. /\ byId' = Merge(byId, r.dates)
        /\ UNCHANGED <<server, listed, total, deletion, open, poller, bounds>>
    BY <1>7 DEF ReceiveOne
  <2> HIDE DEF r
  <2>4. byId \in Dates /\ listed \subseteq Discussions /\ total \in Int
    BY <1>1 DEF OtherOK
  <2>5. byId' \in Dates /\ listed' \subseteq Discussions /\ total' \in Int
    BY <1>3, <2>3, <2>4, MergeType
  <2>6. \A d \in listed' : byId'[d] # 0
    BY <1>3, <2>3, <2>4, MergeType DEF ListedIsKnown
  <2>7. QED
    BY <2>2, <2>3, <2>5, <2>6, ListingStep
<1>8. CASE ReceiveDeleted(i)
  <2>1. Refresh(FALSE, didInvalidate, RemoveAt(requests, i),
            stale \/ r.stage = "answered" \/ r.discussion \notin listed)
    BY <1>8 DEF ReceiveDeleted
  <2>2. LoadedOK'
    BY <1>4, <1>5, <2>1, RefreshType
  <2>3. /\ listed' = listed \ {r.discussion}
        /\ byId' = [byId EXCEPT ![r.discussion] = 0]
        /\ total' = total - 1
        /\ UNCHANGED <<server, deletion, open, poller, bounds>>
    BY <1>8 DEF ReceiveDeleted, Without
  <2> HIDE DEF r
  <2>4. byId' \in Dates /\ listed' \subseteq Discussions /\ total' \in Int
    <3>1. byId \in Dates /\ listed \subseteq Discussions /\ total \in Int
      BY <1>1 DEF OtherOK
    <3>2. byId' \in Dates
      <4>1. byId' = [d \in Discussions |-> IF d = r.discussion THEN 0 ELSE byId[d]]
        BY <2>3, <3>1, Zenon DEF Dates
      <4>2. \A d \in Discussions :
               (IF d = r.discussion THEN 0 ELSE byId[d]) \in 0..MaxMessages
        BY <3>1, TimelineBoundsAssumption DEF Dates
      <4>3. QED
        BY <4>1, <4>2 DEF Dates
    <3>3. QED
      BY <2>3, <3>1, <3>2
  <2>5. ASSUME NEW d \in listed' PROVE byId'[d] # 0
    <3>1. d \in listed /\ d # r.discussion /\ d \in Discussions
      BY <1>1, <2>3 DEF OtherOK
    <3>2. byId'[d] = byId[d]
      BY <1>1, <2>3, <3>1 DEF OtherOK, Dates
    <3>3. QED
      BY <3>1, <3>2 DEF ListedIsKnown
  <2>6. QED
    BY <2>2, <2>3, <2>4, <2>5, ListingStep
<1>9. QED
  BY <1>6, <1>7, <1>8

(* Requests that are refused or lost, and the deletion of a message. *)
LEMMA FailureStep ==
    ASSUME IInv, NEW i \in DOMAIN requests, Refused(i) \/ Fail(i)
    PROVE  IInv'
<1>1. Failed(i)
  BY DEF Refused, Fail
<1>2. LoadedOK'
  BY <1>1, FailedType DEF IInv
<1>3. /\ RestUnchanged /\ UNCHANGED <<deletion, open, openings, clicks>>
      /\ failures' = failures \/ failures' = failures + 1
  BY DEF Refused, Fail, RestUnchanged, server, poller, bounds
<1>4. QED
  BY <1>2, <1>3, AskingStep DEF IInv, TypeOK

LEMMA DeletionStep ==
    ASSUME IInv,
           \/ \E d \in Discussions, n \in Numbers : Delete(d, n)
           \/ DeleteAnswered
           \/ DeleteFails
    PROVE  IInv'
<1> USE DEF IInv
<1>1. LoadedOK /\ OtherOK
  BY TypeParts
<1>2. ASSUME NEW d \in Discussions, NEW n \in Numbers, Delete(d, n) PROVE IInv'
  <2> USE <1>2 DEF Delete, Click, store, scene, poller
  <2>1. LoadedOK'
    BY <1>1 DEF LoadedOK
  <2>2. messages' \in [Discussions -> SUBSET Numbers]
    BY <1>1 DEF OtherOK
  <2>3. OtherOK'
    BY <1>1, <2>2 DEF OtherOK
  <2>4. ListedIsKnown' /\ KnownHaveArrived'
    BY ListUnchanged, PollsUnchanged DEF listVars, pollVars
  <2>5. QED
    BY <2>1, <2>3, <2>4, TypePartsNext
<1>3. CASE DeleteAnswered
  <2>1. Refresh(TRUE, didInvalidate, Append(requests, NewRequest("deleted", 0, deletion)),
            stale \/ requests # <<>>)
    BY <1>3 DEF DeleteAnswered
  <2>2. Append(requests, NewRequest("deleted", 0, deletion)) \in Seq(Request)
    BY <1>1, AskedType DEF LoadedOK, OtherOK
  <2>3. LoadedOK'
    <3>1. didInvalidate \in BOOLEAN /\ (stale \/ requests # <<>>) \in BOOLEAN
      BY <1>1 DEF LoadedOK
    <3>2. QED
      BY <2>1, <2>2, <3>1, RefreshType
  <2>4. RestUnchanged /\ deletion' = None /\ UNCHANGED <<open, openings, clicks, failures>>
    BY <1>3 DEF DeleteAnswered, RestUnchanged, server, poller, bounds
  <2>5. QED
    BY <1>1, <2>3, <2>4, AskingStep DEF OtherOK
<1>4. CASE DeleteFails
  <2>1. Refresh(isFetching, TRUE, requests, requests # <<>>)
    BY <1>4 DEF DeleteFails
  <2>2. LoadedOK'
    <3>1. isFetching \in BOOLEAN /\ requests \in Seq(Request) /\ (requests # <<>>) \in BOOLEAN
      BY <1>1 DEF LoadedOK
    <3>2. QED
      BY <2>1, <3>1, RefreshType
  <2>3. /\ RestUnchanged /\ deletion' = None /\ UNCHANGED <<open, openings, clicks>>
        /\ failures' = failures + 1
    BY <1>4 DEF DeleteFails, RestUnchanged, server, poller
  <2>4. QED
    BY <1>1, <2>2, <2>3, AskingStep DEF OtherOK
<1>5. QED
  BY <1>2, <1>3, <1>4

(* The poller: what it learns has arrived, so its filter stays within what there is. *)
LEMMA PollerStep ==
    ASSUME IInv, Polling \/ \E i \in DOMAIN polls : PollFails(i)
    PROVE  IInv'
<1> USE DEF IInv
<1>1. LoadedOK /\ OtherOK
  BY TypeParts
<1>2. polls \in Seq(SUBSET DOMAIN Notices)
  BY <1>1 DEF OtherOK
<1>3. CASE Poll
  <2> USE <1>3 DEF Poll, server, store, scene, bounds
  <2> DEFINE new == {n \in notified : n > from}
  <2>1. new \subseteq notified /\ new \in SUBSET DOMAIN Notices
    BY <1>1 DEF OtherOK
  <2>2. polls' = Append(polls, new)
    OBVIOUS
  <2> HIDE DEF new
  <2>3. polls' \in Seq(SUBSET DOMAIN Notices)
    BY <1>2, <2>1, <2>2
  <2>4. LoadedOK'
    BY <1>1 DEF LoadedOK
  <2>5. OtherOK'
    BY <1>1, <2>3 DEF OtherOK
  <2>6. \A i \in DOMAIN polls' : polls'[i] \subseteq notified
    <3>1. \A i \in DOMAIN polls' : (i \in DOMAIN polls /\ polls'[i] = polls[i]) \/ polls'[i] = new
      BY <1>2, <2>1, <2>2
    <3>2. QED
      BY <2>1, <3>1 DEF KnownHaveArrived
  <2>7. KnownHaveArrived'
    BY <2>6 DEF KnownHaveArrived
  <2>8. ListedIsKnown'
    BY ListUnchanged DEF listVars
  <2>9. QED
    BY <2>4, <2>5, <2>7, <2>8, TypePartsNext
<1>4. ASSUME NEW i \in DOMAIN polls, ReceivePoll(i) PROVE IInv'
  <2> DEFINE ns == polls[i]
  <2>1. ns \in SUBSET DOMAIN Notices /\ ns \subseteq notified
    BY <1>2 DEF KnownHaveArrived
  <2>2. polls' = RemoveAt(polls, i) /\ notifications' = ns
        /\ from' = LastNotification(ns) /\ firstPollDone' = TRUE
        /\ UNCHANGED <<server, listed, byId, total, deletion, open, polling, bounds>>
    BY <1>4 DEF ReceivePoll
  <2>3. from' \in {0} \cup notified
    <3>1. from \in {0} \cup notified
      BY <1>1 DEF OtherOK
    <3>2. ns # {} => Max(ns) \in ns
      <4> HIDE DEF ns
      <4>1. QED
        BY <2>1, MaxOfNotices
    <3>3. QED
      BY <2>1, <2>2, <3>1, <3>2 DEF LastNotification
  <2>4. ASSUME ns # notifications /\ ns # {} /\ firstPollDone PROVE LoadedOK'
    <3>1. Invalidate(isFetching, requests)
      BY <1>4, <2>4 DEF ReceivePoll
    <3>2. isFetching \in BOOLEAN /\ requests \in Seq(Request)
      BY <1>1 DEF LoadedOK
    <3>3. QED
      BY <3>1, <3>2, InvalidateType
  <2>5. ASSUME ~(ns # notifications /\ ns # {} /\ firstPollDone) PROVE LoadedOK'
    <3>1. /\ stale' = (stale \/ Missed(ns))
          /\ UNCHANGED <<requests, isFetching, initialized, didInvalidate>>
      BY <1>4, <2>5 DEF ReceivePoll
    <3>2. QED
      BY <1>1, <3>1 DEF LoadedOK, Missed
  <2>6. LoadedOK'
    BY <2>4, <2>5
  <2>7. polls' \in Seq(SUBSET DOMAIN Notices) /\ \A j \in DOMAIN polls' : polls'[j] \subseteq notified
    BY <1>2, <2>2, RemoveAtType DEF KnownHaveArrived
  <2> HIDE DEF ns
  <2>8. OtherOK'
    BY <1>1, <2>1, <2>2, <2>3, <2>7 DEF OtherOK, server, bounds
  <2>9. KnownHaveArrived'
    BY <2>2, <2>7 DEF KnownHaveArrived, server
  <2>10. ListedIsKnown'
    BY <2>2, ListUnchanged DEF listVars
  <2>11. QED
    BY <2>6, <2>8, <2>9, <2>10, TypePartsNext
<1>5. ASSUME NEW i \in DOMAIN polls, PollFails(i) PROVE IInv'
  <2> USE <1>5 DEF PollFails, server, store, scene
  <2>1. polls' \in Seq(SUBSET DOMAIN Notices) /\ \A j \in DOMAIN polls' : polls'[j] \subseteq notified
    BY <1>2, RemoveAtType DEF KnownHaveArrived
  <2>2. LoadedOK'
    BY <1>1 DEF LoadedOK
  <2>3. OtherOK'
    <3>1. polling' \in BOOLEAN /\ failures' \in Nat
      <4>1. polling \in BOOLEAN /\ polling' \in {polling, FALSE}
        BY <1>1 DEF OtherOK
      <4>2. failures \in Nat /\ failures' = failures + 1
        BY <1>1 DEF OtherOK
      <4>3. polling' \in BOOLEAN
        BY ONLY <4>1, Zenon
      <4>4. QED
        BY <4>2, <4>3
    <3>2. UNCHANGED <<server, listed, byId, total, deletion, open, from, notifications,
                      firstPollDone, openings, clicks>>
      OBVIOUS
    <3>3. QED
      BY <1>1, <2>1, <3>1, <3>2 DEF OtherOK
  <2>4. KnownHaveArrived'
    BY <2>1 DEF KnownHaveArrived
  <2>5. ListedIsKnown'
    BY ListUnchanged DEF listVars
  <2>6. QED
    BY <2>2, <2>3, <2>4, <2>5, TypePartsNext
<1>6. CASE Restart
  <2> USE <1>6 DEF Restart, server, store, scene, bounds
  <2>1. LoadedOK'
    BY <1>1 DEF LoadedOK
  <2>2. OtherOK'
    BY <1>1 DEF OtherOK
  <2>3. ListedIsKnown' /\ KnownHaveArrived'
    BY ListUnchanged, PollsUnchanged DEF listVars, pollVars
  <2>4. QED
    BY <2>1, <2>2, <2>3, TypePartsNext
<1>7. QED
  BY <1>3, <1>4, <1>5, <1>6 DEF Polling

(* Every step preserves the invariant. *)
LEMMA IInvStep == IInv /\ [Next]_vars => IInv'
<1> SUFFICES ASSUME IInv, [Next]_vars PROVE IInv'
  OBVIOUS
<1>1. CASE UNCHANGED vars
  <2>1. LoadedOK' /\ OtherOK'
    BY <1>1, TypeParts
    DEF IInv, LoadedOK, OtherOK, vars, server, store, scene, poller, bounds
  <2>2. ListedIsKnown' /\ KnownHaveArrived'
    BY <1>1, ListUnchanged, PollsUnchanged
    DEF IInv, listVars, pollVars, vars, server, store, poller
  <2>3. QED
    BY <2>1, <2>2, TypePartsNext DEF IInv
<1>2. CASE Open \/ Close \/ LoadMore \/ \E d \in Discussions : OpenDiscussion(d)
  BY <1>2, SceneStep
<1>3. CASE (\E d \in Discussions : Arrive(d)) \/ Notifying
  BY <1>3, ServerStep
<1>4. CASE DeleteAnswered \/ DeleteFails \/ \E d \in Discussions, n \in Numbers : Delete(d, n)
  BY <1>4, DeletionStep
<1>5. ASSUME NEW i \in DOMAIN requests, Reply(i) \/ Fail(i) PROVE IInv'
  BY <1>5, ServerStep, ReceiveStep, FailureStep DEF Reply
<1>6. CASE Polling \/ \E i \in DOMAIN polls : PollFails(i)
  BY <1>6, PollerStep
<1>7. QED
  BY <1>1, <1>2, <1>3, <1>4, <1>5, <1>6 DEF Next, Replies

(* The timeline keeps its types, and the filter of its poller never passes the last message:
   what handleWorkerResults learns has arrived. *)
THEOREM TypeCorrect == Spec => []TypeOK
<1>1. IInv => TypeOK
  BY DEF IInv
<1>2. QED
  BY <1>1, InitIInv, IInvStep, PTL DEF Spec

(* Whatever order the answers come in, each discussion of the list has its date, which the
   scene reads (mapStateToProps of scenes/Timeline). *)
THEOREM KnownCorrect == Spec => []ListedIsKnown
<1>1. IInv => ListedIsKnown
  BY DEF IInv
<1>2. QED
  BY <1>1, InitIInv, IInvStep, PTL DEF Spec
-----------------------------------------------------------------------------
(***************************************************************************)
(* Pages: what the server lists, the latest first.                         *)
(***************************************************************************)
(* A discussion that exists is dated by one of its messages, the last. *)
LEMMA LatestOfExisting ==
    ASSUME messages \in [Discussions -> SUBSET Numbers], NEW d \in Existing
    PROVE  /\ d \in Discussions /\ Latest(d) \in messages[d] /\ Latest(d) \in 1..MaxMessages
           /\ \A n \in messages[d] : n <= Latest(d)
<1>1. d \in Discussions /\ messages[d] # {} /\ messages[d] \subseteq Numbers
  BY DEF Existing
<1>2. messages[d] \subseteq 0..MaxMessages
  BY <1>1 DEF Numbers
<1>3. Max(messages[d]) \in messages[d] /\ \A y \in messages[d] : y <= Max(messages[d])
  BY <1>1, <1>2, TimelineBoundsAssumption, MaxOfBounded
<1>4. QED
  BY <1>1, <1>3 DEF Latest, Numbers

(* There are finitely many discussions. *)
LEMMA ExistingIsFinite == IsFiniteSet(Existing) /\ Existing \subseteq Discussions
BY DiscussionsAssumption, FS_Subset DEF Existing

(* A rank is a number. *)
LEMMA RankType == ASSUME NEW d PROVE Rank(d) \in Nat
<1>1. IsFiniteSet({e \in Existing : Latest(e) > Latest(d)})
  BY ExistingIsFinite, FS_Subset
<1>2. QED
  BY <1>1, FS_CardinalityType DEF Rank

(* The later a discussion, the lower its rank. *)
LEMMA RankOrder ==
    ASSUME messages \in [Discussions -> SUBSET Numbers],
           NEW d \in Existing, NEW e \in Existing, Latest(d) <= Latest(e)
    PROVE  Rank(e) <= Rank(d)
<1> DEFINE above(x) == {y \in Existing : Latest(y) > Latest(x)}
<1>1. \A y \in Existing : Latest(y) \in Nat
  BY LatestOfExisting, TimelineBoundsAssumption
<1>2. above(e) \subseteq above(d)
  BY <1>1
<1>3. IsFiniteSet(above(d))
  BY ExistingIsFinite, FS_Subset
<1>4. Cardinality(above(e)) <= Cardinality(above(d))
  BY <1>2, <1>3, FS_Subset
<1>5. QED
  BY <1>4 DEF Rank

(* Nothing ranks before the discussion of the last message. *)
LEMMA LastRanksFirst ==
    ASSUME messages \in [Discussions -> SUBSET Numbers],
           NEW d \in Existing, \A e \in Existing : Latest(e) <= Latest(d)
    PROVE  Rank(d) = 0
<1>1. \A e \in Existing : Latest(e) \in Nat
  BY LatestOfExisting, TimelineBoundsAssumption
<1>2. {e \in Existing : Latest(e) > Latest(d)} = {}
  BY <1>1
<1>3. QED
  BY <1>2, FS_EmptySet DEF Rank

\* A part of the discussions with all those that are later than one of its own.
Topmost(ds) ==
    /\ ds \subseteq Existing
    /\ \A d \in ds, e \in Existing \ ds : Latest(d) > Latest(e)

(* The discussions of the first ranks are such a part. *)
LEMMA FirstRanks ==
    ASSUME messages \in [Discussions -> SUBSET Numbers], NEW k \in Nat
    PROVE  Topmost({d \in Existing : Rank(d) < k})
<1> DEFINE ds == {d \in Existing : Rank(d) < k}
<1>1. ASSUME NEW d \in ds, NEW e \in Existing \ ds PROVE Latest(d) > Latest(e)
  <2>1. Rank(d) \in Nat /\ Rank(e) \in Nat /\ ~(Rank(e) <= Rank(d))
    BY RankType
  <2>2. Latest(d) \in Nat /\ Latest(e) \in Nat
    BY LatestOfExisting, TimelineBoundsAssumption
  <2>3. ~(Latest(d) <= Latest(e))
    BY <2>1, RankOrder
  <2>4. QED
    BY <2>2, <2>3
<1>2. QED
  BY <1>1 DEF Topmost

(* And such a part has the first ranks, as many as it has discussions. *)
LEMMA TopmostRanks ==
    ASSUME messages \in [Discussions -> SUBSET Numbers], NEW ds, Topmost(ds)
    PROVE  /\ Cardinality(ds) \in Nat
           /\ ds = {d \in Existing : Rank(d) < Cardinality(ds)}
<1> DEFINE above(x) == {y \in Existing : Latest(y) > Latest(x)}
<1>1. ds \subseteq Existing /\ IsFiniteSet(ds)
  BY ExistingIsFinite, FS_Subset DEF Topmost
<1>2. Cardinality(ds) \in Nat
  BY <1>1, FS_CardinalityType
<1>3. \A y \in Existing : Latest(y) \in Nat
  BY LatestOfExisting, TimelineBoundsAssumption
<1>4. ASSUME NEW d \in ds PROVE Rank(d) < Cardinality(ds)
  <2>1. above(d) \subseteq ds \ {d}
    BY <1>1, <1>3, <1>4 DEF Topmost
  <2>2. IsFiniteSet(ds \ {d}) /\ Cardinality(ds \ {d}) = Cardinality(ds) - 1
    BY <1>1, FS_RemoveElement
  <2>3. Cardinality(above(d)) <= Cardinality(ds \ {d})
    BY <2>1, <2>2, FS_Subset
  <2>4. Rank(d) = Cardinality(above(d)) /\ Rank(d) \in Nat
    BY RankType DEF Rank
  <2>5. QED
    BY <1>2, <2>2, <2>3, <2>4
<1>5. ASSUME NEW d \in Existing \ ds PROVE ~(Rank(d) < Cardinality(ds))
  <2>1. ds \subseteq above(d)
    BY <1>1, <1>5 DEF Topmost
  <2>2. IsFiniteSet(above(d))
    BY ExistingIsFinite, FS_Subset
  <2>3. Cardinality(ds) <= Cardinality(above(d))
    BY <2>1, <2>2, FS_Subset
  <2>4. QED
    BY <1>2, <2>3, RankType DEF Rank
<1>6. QED
  BY <1>1, <1>2, <1>4, <1>5

(* A page that is asked for at the end of the list, or at its beginning, extends it. *)
LEMMA PageExtends ==
    ASSUME messages \in [Discussions -> SUBSET Numbers], NEW ds, Topmost(ds),
           NEW k \in {0, Cardinality(ds)}
    PROVE  Topmost(ds \cup Page(k))
<1>1. /\ Cardinality(ds) \in Nat /\ PageSize \in Nat
      /\ ds = {d \in Existing : Rank(d) < Cardinality(ds)}
  BY TopmostRanks, PageAssumption
<1>2. \A d \in Existing : Rank(d) \in Nat
  BY RankType
<1> DEFINE n == Cardinality(ds)
           m == IF k = 0 /\ PageSize < n THEN n ELSE k + PageSize
<1>3. m \in Nat /\ n \in Nat
  BY <1>1
<1>4. ds \cup Page(k) = {d \in Existing : Rank(d) < m}
  <2> HIDE DEF n
  <2>1. ds = {d \in Existing : Rank(d) < n} /\ k \in {0, n}
    BY <1>1 DEF n
  <2>2. ASSUME NEW d \in Existing
        PROVE  Rank(d) < m <=> Rank(d) < n \/ (k <= Rank(d) /\ Rank(d) < k + PageSize)
    BY <1>1, <1>2, <1>3, <2>1
  <2> HIDE DEF m
  <2>3. QED
    BY <2>1, <2>2 DEF Page
<1> HIDE DEF m
<1>5. QED
  BY <1>3, <1>4, FirstRanks

(* The answer of the server dates what is found, and nothing else. *)
LEMMA DatedIsFound ==
    ASSUME messages \in [Discussions -> SUBSET Numbers], NEW ds, ds \subseteq Existing
    PROVE  Dated(DatesOf(ds)) = ds
<1>1. \A d \in Existing : d \in Discussions /\ Latest(d) # 0
  BY LatestOfExisting, TimelineBoundsAssumption
<1>2. QED
  BY <1>1 DEF Dated, DatesOf
-----------------------------------------------------------------------------
(***************************************************************************)
(* The requests, as a set, and what loadDiscussions adds to them.          *)
(***************************************************************************)
Elements(s) == {s[i] : i \in DOMAIN s}
Reload == NewRequest("list", 0, None)

(* What an appended, a removed and a replaced element make of the elements. *)
LEMMA ElementsAppend ==
    ASSUME NEW S, NEW s \in Seq(S), NEW x \in S
    PROVE  Elements(Append(s, x)) = Elements(s) \cup {x}
<1>1. Len(Append(s, x)) = Len(s) + 1 /\ DOMAIN Append(s, x) = 1..(Len(s) + 1)
  OBVIOUS
<1>2. /\ \A i \in 1..Len(s) : Append(s, x)[i] = s[i]
      /\ Append(s, x)[Len(s) + 1] = x
      /\ DOMAIN s = 1..Len(s) /\ Len(s) \in Nat
  OBVIOUS
<1>3. 1..(Len(s) + 1) = 1..Len(s) \cup {Len(s) + 1}
  BY <1>2
<1>4. QED
  BY <1>1, <1>2, <1>3 DEF Elements

LEMMA ElementsRemove ==
    ASSUME NEW S, NEW s \in Seq(S), NEW i \in DOMAIN s
    PROVE  Elements(RemoveAt(s, i)) \subseteq Elements(s)
BY RemoveAtType DEF Elements

LEMMA ElementsReplace ==
    ASSUME NEW S, NEW s \in Seq(S), NEW i \in DOMAIN s, NEW x \in S
    PROVE  Elements([s EXCEPT ![i] = x]) \subseteq Elements(s) \cup {x}
BY DEF Elements

(* A sequence of one. *)
LEMMA Single ==
    ASSUME NEW S, NEW r \in S
    PROVE  /\ Elements(<<r>>) = {r} /\ Elements(<<>>) = {} /\ <<r>> # <<>>
           /\ <<r>> \in Seq(S) /\ DOMAIN <<r>> = {1} /\ <<r>>[1] = r
           /\ Append(<<>>, r) = <<r>>
BY DEF Elements

LEMMA SingleRemoved ==
    ASSUME NEW S, NEW r \in S, NEW i \in DOMAIN <<r>>
    PROVE  RemoveAt(<<r>>, i) = <<>>
<1>1. i = 1 /\ Len(<<r>>) = 1
  OBVIOUS
<1>2. RemoveAt(<<r>>, 1) = SubSeq(<<r>>, 1, 0) \o SubSeq(<<r>>, 2, 1)
  BY DEF RemoveAt
<1>3. SubSeq(<<r>>, 1, 0) = <<>> /\ SubSeq(<<r>>, 2, 1) = <<>>
  OBVIOUS
<1>4. QED
  BY <1>1, <1>2, <1>3

(* A request of the store, when it is made. *)
LEMMA NewRequestIs ==
    ASSUME NEW kind \in {"list", "one", "deleted"}, NEW offset \in Nat,
           NEW d \in Discussions \cup {None}
    PROVE  /\ NewRequest(kind, offset, d) \in Request
           /\ NewRequest(kind, offset, d).kind = kind
           /\ NewRequest(kind, offset, d).offset = offset
           /\ NewRequest(kind, offset, d).discussion = d
           /\ NewRequest(kind, offset, d).stage = "sent"
           /\ \A e \in Discussions : NewRequest(kind, offset, d).dates[e] = 0
BY NewRequestType DEF NewRequest

(* The request of loadDiscussions: the first page. *)
LEMMA ReloadIs ==
    /\ Reload \in Request /\ Reload.kind = "list" /\ Reload.offset = 0 /\ Reload.stage = "sent"
    /\ \A e \in Discussions : Reload.dates[e] = 0
BY NewRequestIs DEF Reload

\* What loadDiscussions does with the requests that are left: it lets them be, or asks for the
\* first page when the scene is open and its list is missing or invalidated.
Loaded(mounted, started, fetching, invalid, reqs, st) ==
    /\ didInvalidate' = invalid
    /\ \/ /\ requests' = reqs /\ initialized' = started /\ isFetching' = fetching /\ stale' = st
          /\ ~(mounted /\ (~started \/ invalid) /\ ~fetching)
       \/ /\ mounted /\ (~started \/ invalid) /\ ~fetching
          /\ requests' = Append(reqs, Reload) /\ initialized' = TRUE /\ isFetching' = TRUE
          /\ stale' = (st \/ reqs # <<>>)

(* loadDiscussions and its callers do that. *)
LEMMA LoadEffect ==
    ASSUME NEW mounted \in BOOLEAN, NEW started \in BOOLEAN, NEW fetching \in BOOLEAN,
           NEW invalid \in BOOLEAN, NEW reqs, NEW st \in BOOLEAN,
           LoadDiscussions(mounted, started, fetching, invalid, reqs, st)
    PROVE  Loaded(mounted, started, fetching, invalid, reqs, st)
<1>1. CASE mounted /\ (~started \/ invalid) /\ ~fetching
  BY <1>1 DEF LoadDiscussions, Loaded, Reload
<1>2. CASE ~(mounted /\ (~started \/ invalid) /\ ~fetching)
  BY <1>2 DEF LoadDiscussions, Loaded, Reload
<1>3. QED
  BY <1>1, <1>2

LEMMA RefreshEffect ==
    ASSUME TypeOK, NEW fetching \in BOOLEAN, NEW invalid \in BOOLEAN, NEW reqs,
           NEW st \in BOOLEAN, Refresh(fetching, invalid, reqs, st)
    PROVE  Loaded(open, initialized, fetching, invalid, reqs, st)
BY LoadEffect DEF Refresh, TypeOK
-----------------------------------------------------------------------------
(***************************************************************************)
(* What holds whatever overlaps: the dates, the flag isFetching and the    *)
(* list before it is asked for.                                            *)
(***************************************************************************)
Asked == Elements(requests)
Listing == \E r \in Asked : r.kind = "list"

\* No date is later than the last message.
DatesArrived ==
    \A d \in Discussions : messages[d] \subseteq 1..arrived /\ byId[d] <= arrived

\* Nor is one that is answered, and the answer about a discussion dates no other.
AnswerArrived(r) ==
    /\ \A d \in Discussions : r.dates[d] <= arrived
    /\ r.kind = "one" => \A d \in Discussions : r.dates[d] # 0 => d = r.discussion

\* Something is in flight when the store says so, and it does when the open scene misses its list.
Fetches ==
    /\ isFetching => requests # <<>>
    /\ open /\ (~initialized \/ didInvalidate) => isFetching

\* The scene was never opened, or is open for the first time and waits for something else.
Unloaded == openings = 0 \/ (openings = 1 /\ open /\ ~initialized)
NothingLoaded ==
    /\ Unloaded => listed = {} /\ total <= 0 /\ ~Listing
    /\ openings = 0 => ~open /\ ~initialized

UInv == DatesArrived /\ (\A r \in Asked : AnswerArrived(r)) /\ Fetches /\ NothingLoaded

(* What comes before the first list, once it is asked for. *)
LEMMA LoadedKeeps ==
    ASSUME NEW mounted \in BOOLEAN, NEW started \in BOOLEAN, NEW fetching \in BOOLEAN,
           NEW invalid \in BOOLEAN, NEW reqs \in Seq(Request), NEW st \in BOOLEAN,
           Loaded(mounted, started, fetching, invalid, reqs, st), open' = mounted,
           arrived' \in Nat, DatesArrived',
           fetching => reqs # <<>>,
           \A r \in Elements(reqs) : AnswerArrived(r)',
           openings' = 0 \/ (openings' = 1 /\ mounted /\ ~started) =>
               listed' = {} /\ total' <= 0 /\ \A r \in Elements(reqs) : r.kind # "list",
           openings' = 0 => ~mounted /\ ~started
    PROVE  UInv'
<1>1. CASE requests' = reqs /\ initialized' = started /\ isFetching' = fetching
           /\ ~(mounted /\ (~started \/ invalid) /\ ~fetching)
  <2>1. Asked' = Elements(reqs)
    BY <1>1 DEF Asked
  <2>2. Fetches'
    BY <1>1 DEF Fetches, Loaded
  <2>3. NothingLoaded'
    BY <1>1, <2>1 DEF NothingLoaded, Unloaded, Listing
  <2>4. QED
    BY <2>1, <2>2, <2>3 DEF UInv
<1>2. CASE /\ mounted /\ requests' = Append(reqs, Reload) /\ initialized' = TRUE
           /\ isFetching' = TRUE
  <2>1. Asked' = Elements(reqs) \cup {Reload}
    BY <1>2, ElementsAppend, ReloadIs DEF Asked
  <2>2. AnswerArrived(Reload)'
    BY ReloadIs DEF AnswerArrived
  <2>3. Fetches'
    <3>1. Append(reqs, Reload) # <<>>
      BY ReloadIs
    <3>2. QED
      BY <1>2, <3>1 DEF Fetches
  <2>4. NothingLoaded'
    BY <1>2 DEF NothingLoaded, Unloaded
  <2>5. QED
    BY <2>1, <2>2, <2>3, <2>4 DEF UInv
<1>3. QED
  BY <1>1, <1>2 DEF Loaded

(* The usual case: the list, the dates and the server are as they were. *)
LEMMA LoadedOnly ==
    ASSUME IInv, UInv, NEW fetching \in BOOLEAN, NEW invalid \in BOOLEAN,
           NEW reqs \in Seq(Request), NEW st \in BOOLEAN,
           Loaded(open, initialized, fetching, invalid, reqs, st),
           UNCHANGED <<messages, arrived, byId, listed, total, open, openings>>,
           fetching => reqs # <<>>,
           \A r \in Elements(reqs) : r \in Asked \/ (AnswerArrived(r) /\ (r.kind # "list" \/ ~Unloaded))
    PROVE  UInv'
<1>1. open \in BOOLEAN /\ initialized \in BOOLEAN /\ arrived' \in Nat
  BY TimelineBoundsAssumption DEF IInv, TypeOK
<1>2. DatesArrived'
  BY DEF UInv, DatesArrived
<1>3. \A r \in Elements(reqs) : AnswerArrived(r)'
  BY DEF UInv, AnswerArrived
<1>4. openings' = 0 \/ (openings' = 1 /\ open /\ ~initialized) =>
               listed' = {} /\ total' <= 0 /\ \A r \in Elements(reqs) : r.kind # "list"
  BY DEF UInv, NothingLoaded, Unloaded, Listing
<1>5. openings' = 0 => ~open /\ ~initialized
  BY DEF UInv, NothingLoaded
<1>6. QED
  BY <1>1, <1>2, <1>3, <1>4, <1>5, LoadedKeeps

(* So do the callers that invalidate the list, and those that are told of a failure. *)
LEMMA InvalidateEffect ==
    ASSUME TypeOK, NEW fetching \in BOOLEAN, NEW reqs, Invalidate(fetching, reqs)
    PROVE  Loaded(open, initialized, fetching, TRUE, reqs, reqs # <<>> \/ Deleting(reqs))
BY RefreshEffect DEF Invalidate, Deleting

LEMMA FailedEffect ==
    ASSUME TypeOK, NEW i \in DOMAIN requests, Failed(i)
    PROVE  LET rest == RemoveAt(requests, i) IN
           \/ /\ requests[i].kind = "deleted"
              /\ Loaded(open, initialized, FALSE, TRUE, rest, rest # <<>> \/ Deleting(rest))
           \/ /\ requests[i].kind # "deleted"
              /\ Loaded(open, initialized, FALSE, didInvalidate, rest, stale \/ ~didInvalidate)
<1>1. CASE requests[i].kind = "deleted"
  BY <1>1, InvalidateEffect DEF Failed
<1>2. CASE requests[i].kind # "deleted"
  <2>1. didInvalidate \in BOOLEAN /\ (stale \/ ~didInvalidate) \in BOOLEAN
    BY DEF TypeOK
  <2>2. QED
    BY <1>2, <2>1, RefreshEffect DEF Failed
<1>3. QED
  BY <1>1, <1>2

(* Nothing that this is about changes. *)
LEMMA UnchangedU ==
    ASSUME UInv, UNCHANGED <<messages, arrived, byId, listed, total, requests, open, openings,
                             isFetching, initialized, didInvalidate>>
    PROVE  UInv'
BY DEF UInv, DatesArrived, AnswerArrived, Fetches, NothingLoaded, Unloaded, Listing, Asked

(* The steps that ask for something. *)
LEMMA RequestsU ==
    ASSUME IInv, UInv,
           Open \/ Close \/ LoadMore \/ (\E d \in Discussions : OpenDiscussion(d)) \/ DeleteAnswered
    PROVE  UInv'
<1> USE DEF IInv
<1>0. /\ requests \in Seq(Request) /\ stale \in BOOLEAN /\ isFetching \in BOOLEAN
      /\ didInvalidate \in BOOLEAN /\ initialized \in BOOLEAN /\ open \in BOOLEAN
      /\ openings \in Nat /\ arrived \in Nat
  BY TimelineBoundsAssumption DEF TypeOK
<1>1. CASE Open
  <2>1. Loaded(TRUE, FALSE, isFetching, didInvalidate, requests, stale)
    BY <1>0, <1>1, LoadEffect DEF Open
  <2>2. /\ UNCHANGED <<messages, arrived, byId, listed, total>>
        /\ ~open /\ open' = TRUE /\ openings' = openings + 1
    BY <1>1 DEF Open, server
  <2>3. DatesArrived' /\ \A r \in Elements(requests) : AnswerArrived(r)'
    BY <2>2 DEF UInv, DatesArrived, AnswerArrived, Asked
  <2>4. openings' # 0
    BY <1>0, <2>2
  <2>5. openings' = 1 => listed' = {} /\ total' <= 0 /\ \A r \in Elements(requests) : r.kind # "list"
    <3>1. openings' = 1 => openings = 0
      BY <1>0, <2>2
    <3>2. QED
      BY <2>2, <3>1 DEF UInv, NothingLoaded, Unloaded, Listing, Asked
  <2>6. arrived' \in Nat /\ (isFetching => requests # <<>>)
    BY <1>0, <2>2 DEF UInv, Fetches
  <2>7. QED
    BY <1>0, <2>1, <2>2, <2>3, <2>4, <2>5, <2>6, LoadedKeeps
<1>2. CASE Close
  <2>1. UNCHANGED <<messages, arrived, byId, listed, total, requests, openings, isFetching, didInvalidate>>
        /\ open /\ ~open' /\ ~initialized'
    BY <1>2 DEF Close, server, store, bounds
  <2>2. QED
    BY <2>1 DEF UInv, DatesArrived, AnswerArrived, Fetches, NothingLoaded, Unloaded, Listing, Asked
<1>3. CASE LoadMore
  <2> DEFINE q == NewRequest("list", NextOffset, None)
  <2>1. NextOffset \in Nat /\ listed \subseteq Discussions
    BY OffsetType DEF TypeOK
  <2>2. /\ q \in Request /\ q.kind = "list" /\ q.stage = "sent"
        /\ \A e \in Discussions : q.dates[e] = 0
    BY <2>1, NewRequestIs
  <2> HIDE DEF q
  <2>3. Append(requests, q) \in Seq(Request) /\ Append(requests, q) # <<>>
    BY <1>0, <2>2
  <2>4. Loaded(open, initialized, TRUE, didInvalidate, Append(requests, q), stale \/ requests # <<>>)
    <3>1. open = TRUE
      BY <1>0, <1>3 DEF LoadMore
    <3>2. (stale \/ requests # <<>>) \in BOOLEAN
      BY <1>0
    <3>3. LoadDiscussions(TRUE, initialized, TRUE, didInvalidate, Append(requests, q), stale \/ requests # <<>>)
      BY <1>3 DEF LoadMore, q
    <3>4. QED
      BY <1>0, <3>1, <3>2, <3>3, LoadEffect
  <2>5. UNCHANGED <<messages, arrived, byId, listed, total, open, openings>>
    BY <1>3 DEF LoadMore, server
  <2>6. ~Unloaded
    <3>1. total > NextOffset
      BY <1>3 DEF LoadMore, NextOffset
    <3>2. total \in Int
      BY DEF TypeOK
    <3>3. QED
      BY <2>1, <3>1, <3>2 DEF UInv, NothingLoaded
  <2>7. AnswerArrived(q)
    BY <1>0, <2>2 DEF AnswerArrived
  <2>8. Elements(Append(requests, q)) = Asked \cup {q}
    BY <1>0, <2>2, ElementsAppend DEF Asked
  <2>9. (stale \/ requests # <<>>) \in BOOLEAN
    BY <1>0
  <2>10. QED
    BY <1>0, <2>3, <2>4, <2>5, <2>6, <2>7, <2>8, <2>9, LoadedOnly
<1>4. ASSUME NEW d \in Discussions \cup {None}, NEW kind \in {"one", "deleted"},
             Refresh(TRUE, didInvalidate, Append(requests, NewRequest(kind, 0, d)), stale \/ requests # <<>>),
             UNCHANGED <<messages, arrived, byId, listed, total, open, openings>>
      PROVE  UInv'
  <2> DEFINE q == NewRequest(kind, 0, d)
  <2>2. /\ q \in Request /\ q.kind = kind /\ q.stage = "sent"
        /\ \A e \in Discussions : q.dates[e] = 0
    BY NewRequestIs
  <2>9. (stale \/ requests # <<>>) \in BOOLEAN
    BY <1>0
  <2>4. Loaded(open, initialized, TRUE, didInvalidate, Append(requests, q), stale \/ requests # <<>>)
    BY <1>0, <1>4, <2>9, RefreshEffect
  <2> HIDE DEF q
  <2>3. Append(requests, q) \in Seq(Request) /\ Append(requests, q) # <<>>
    BY <1>0, <2>2
  <2>7. AnswerArrived(q)
    BY <1>0, <2>2 DEF AnswerArrived
  <2>8. Elements(Append(requests, q)) = Asked \cup {q}
    BY <1>0, <2>2, ElementsAppend DEF Asked
  <2>10. QED
    BY <1>0, <1>4, <2>2, <2>3, <2>4, <2>7, <2>8, <2>9, LoadedOnly
<1>5. ASSUME NEW d \in Discussions, OpenDiscussion(d) PROVE UInv'
  BY <1>4, <1>5 DEF OpenDiscussion, server
<1>6. CASE DeleteAnswered
  <2>1. deletion \in Discussions \cup {None}
    BY DEF TypeOK
  <2>2. QED
    BY <1>4, <1>6, <2>1 DEF DeleteAnswered, server, bounds
<1>7. QED
  BY <1>1, <1>2, <1>3, <1>5, <1>6

(* The date of a discussion is not after the last message; nor is an answer. *)
LEMMA LatestArrived ==
    ASSUME messages \in [Discussions -> SUBSET Numbers], arrived \in Nat, DatesArrived
    PROVE  \A d \in Discussions : Latest(d) \in Nat /\ Latest(d) <= arrived
<1>1. ASSUME NEW d \in Discussions, messages[d] = {} PROVE Latest(d) = 0
  BY <1>1 DEF Latest
<1>2. ASSUME NEW d \in Discussions, messages[d] # {} PROVE Latest(d) \in Nat /\ Latest(d) <= arrived
  <2>1. Latest(d) \in messages[d] /\ Latest(d) \in 1..MaxMessages
    BY <1>2, LatestOfExisting DEF Existing
  <2>2. QED
    BY <2>1, TimelineBoundsAssumption DEF DatesArrived
<1>3. QED
  BY <1>1, <1>2

(* What the server answers, for a page and for a discussion. *)
LEMMA AnswerIs ==
    ASSUME TypeOK, NEW r \in Request
    PROVE  /\ Answer(r).kind = r.kind /\ Answer(r).offset = r.offset
           /\ Answer(r).discussion = r.discussion
           /\ r.kind = "list" => /\ Answer(r).dates = DatesOf(Page(r.offset))
                                 /\ Answer(r).total = Cardinality(Existing)
           /\ r.kind # "list" => /\ Answer(r).dates = DatesOf(Existing \cap {r.discussion})
                                 /\ Answer(r).stage = "refused" => r.discussion \notin Existing
           /\ Answer(r) \in Request
<1> DEFINE found == IF r.kind = "list" THEN Page(r.offset) ELSE Existing \cap {r.discussion}
           refused == IF r.kind = "list"
                      THEN Existing # {} /\ r.offset > Cardinality(Existing)
                      ELSE found = {}
<1>1. Answer(r) = [r EXCEPT !.stage = IF refused THEN "refused" ELSE "answered",
                            !.dates = DatesOf(found), !.total = Cardinality(Existing)]
  BY DEF Answer
<1>2. r.kind # "list" => (refused <=> Existing \cap {r.discussion} = {})
  OBVIOUS
<1>3. Answer(r) \in Request
  BY AnswerType DEF TypeOK
<1> HIDE DEF refused
<1>4. QED
  BY <1>1, <1>2, <1>3 DEF Request

(* No answer is dated after the last message. *)
LEMMA AnswerU ==
    ASSUME TypeOK, DatesArrived, NEW r \in Request PROVE AnswerArrived(Answer(r))
<1>1. PICK ds : Answer(r).dates = DatesOf(ds) /\ (r.kind = "one" => ds \subseteq {r.discussion})
  <2>1. CASE r.kind = "list"
    <3>1. Answer(r).dates = DatesOf(Page(r.offset))
      BY <2>1, AnswerIs
    <3>2. QED
      BY <2>1, <3>1
  <2>2. CASE r.kind # "list"
    <3>1. Answer(r).dates = DatesOf(Existing \cap {r.discussion})
      BY <2>2, AnswerIs
    <3>2. Existing \cap {r.discussion} \subseteq {r.discussion}
      OBVIOUS
    <3>3. QED
      BY <3>1, <3>2
  <2>3. QED
    BY <2>1, <2>2
<1>2. Answer(r).kind = r.kind /\ Answer(r).discussion = r.discussion
  BY AnswerIs
<1>3. \A d \in Discussions : Latest(d) \in Nat /\ Latest(d) <= arrived /\ arrived \in Nat
  BY LatestArrived, TimelineBoundsAssumption DEF TypeOK
<1>4. QED
  BY <1>1, <1>2, <1>3 DEF AnswerArrived, DatesOf

(* Arrivals, answers, notifications and a message that is deleted. *)
LEMMA ServerU ==
    ASSUME IInv, UInv,
           \/ \E d \in Discussions : Arrive(d)
           \/ \E d \in Discussions, n \in Numbers : Delete(d, n)
           \/ \E i \in DOMAIN requests : Serve(i)
           \/ Notifying
    PROVE  UInv'
<1> USE DEF IInv
<1>0. /\ requests \in Seq(Request) /\ arrived \in Nat /\ byId \in Dates
      /\ messages \in [Discussions -> SUBSET Numbers]
  BY TimelineBoundsAssumption DEF TypeOK
<1>1. ASSUME NEW d \in Discussions, Arrive(d) PROVE UInv'
  <2>1. /\ arrived' = arrived + 1 /\ messages' = [messages EXCEPT ![d] = @ \cup {arrived + 1}]
        /\ UNCHANGED <<byId, listed, total, requests, open, openings, isFetching, initialized,
                       didInvalidate>>
    BY <1>1 DEF Arrive, store, scene, bounds
  <2>2. DatesArrived'
    <3>1. \A e \in Discussions : byId[e] \in Nat
      BY <1>0, TimelineBoundsAssumption DEF Dates
    <3>2. \A e \in Discussions : messages'[e] \subseteq 1..arrived'
      BY <1>0, <2>1 DEF UInv, DatesArrived
    <3>3. QED
      BY <1>0, <2>1, <3>1, <3>2 DEF UInv, DatesArrived
  <2>3. ASSUME NEW r \in Asked PROVE AnswerArrived(r)'
    <3>1. r \in Request
      BY <1>0 DEF Asked, Elements
    <3>2. \A e \in Discussions : r.dates[e] \in Nat
      BY <3>1, TimelineBoundsAssumption DEF Request, Dates
    <3>3. QED
      BY <1>0, <2>1, <3>2 DEF UInv, AnswerArrived
  <2>4. QED
    BY <2>1, <2>2, <2>3 DEF UInv, Fetches, NothingLoaded, Unloaded, Listing, Asked
<1>2. ASSUME NEW d \in Discussions, NEW n \in Numbers, Delete(d, n) PROVE UInv'
  <2>1. /\ messages' = [messages EXCEPT ![d] = @ \ {n}]
        /\ UNCHANGED <<arrived, byId, listed, total, requests, open, openings, isFetching,
                       initialized, didInvalidate>>
    BY <1>2 DEF Delete, store, scene
  <2>2. DatesArrived'
    BY <1>0, <2>1 DEF UInv, DatesArrived
  <2>3. QED
    BY <2>1, <2>2 DEF UInv, AnswerArrived, Fetches, NothingLoaded, Unloaded, Listing, Asked
<1>3. ASSUME NEW i \in DOMAIN requests, Serve(i) PROVE UInv'
  <2> DEFINE q == Answer(requests[i])
  <2>1. /\ requests' = [requests EXCEPT ![i] = q]
        /\ UNCHANGED <<messages, arrived, byId, listed, total, open, openings, isFetching,
                       initialized, didInvalidate>>
    BY <1>3 DEF Serve, server, store, scene, bounds
  <2>2. /\ requests[i] \in Request /\ requests[i] \in Asked
        /\ q \in Request /\ AnswerArrived(q) /\ q.kind = requests[i].kind
    <3>1. requests[i] \in Request /\ requests[i] \in Asked
      BY <1>0 DEF Asked, Elements
    <3>2. TypeOK /\ DatesArrived
      BY DEF UInv
    <3>3. QED
      BY <3>1, <3>2, AnswerU, AnswerIs
  <2> HIDE DEF q
  <2>3. Asked' \subseteq Asked \cup {q}
    BY <1>0, <2>1, <2>2, ElementsReplace DEF Asked
  <2>4. \A r \in Asked' : AnswerArrived(r)'
    BY <2>1, <2>2, <2>3 DEF UInv, AnswerArrived
  <2>5. Fetches'
    BY <1>0, <2>1 DEF UInv, Fetches
  <2>6. NothingLoaded'
    BY <2>1, <2>2, <2>3 DEF UInv, NothingLoaded, Unloaded, Listing
  <2>7. DatesArrived'
    BY <2>1 DEF UInv, DatesArrived
  <2>8. QED
    BY <2>4, <2>5, <2>6, <2>7 DEF UInv
<1>4. CASE Notifying
  BY <1>4, UnchangedU DEF Notifying, ByNotifQueue, store, scene, bounds
<1>5. QED
  BY <1>1, <1>2, <1>3, <1>4

(* The poller: it may invalidate the list, and loadDiscussions does the rest. *)
LEMMA PollerU ==
    ASSUME IInv, UInv, Polling \/ \E i \in DOMAIN polls : PollFails(i)
    PROVE  UInv'
<1> USE DEF IInv
<1>1. CASE Poll
  BY <1>1, UnchangedU DEF Poll, server, store, scene, bounds
<1>2. CASE Restart
  BY <1>2, UnchangedU DEF Restart, server, store, scene, bounds
<1>3. ASSUME NEW i \in DOMAIN polls, PollFails(i) PROVE UInv'
  BY <1>3, UnchangedU DEF PollFails, server, store, scene
<1>4. ASSUME NEW i \in DOMAIN polls, ReceivePoll(i) PROVE UInv'
  <2>1. UNCHANGED <<messages, arrived, byId, listed, total, open, openings>>
    BY <1>4 DEF ReceivePoll, server, bounds
  <2>2. CASE Invalidate(isFetching, requests)
    <3>1. /\ requests \in Seq(Request) /\ isFetching \in BOOLEAN
          /\ (requests # <<>> \/ Deleting(requests)) \in BOOLEAN
      BY DEF TypeOK, Deleting
    <3>2. Loaded(open, initialized, isFetching, TRUE, requests, requests # <<>> \/ Deleting(requests))
      BY <2>2, <3>1, InvalidateEffect
    <3>3. isFetching => requests # <<>>
      BY DEF UInv, Fetches
    <3>4. QED
      BY <2>1, <3>1, <3>2, <3>3, LoadedOnly DEF Asked
  <2>3. CASE UNCHANGED <<requests, isFetching, initialized, didInvalidate>>
    BY <2>1, <2>3, UnchangedU
  <2>4. QED
    BY <1>4, <2>2, <2>3 DEF ReceivePoll
<1>5. QED
  BY <1>1, <1>2, <1>3, <1>4 DEF Polling

(* Requests that fail, and a deletion that does. *)
LEMMA FailureU ==
    ASSUME IInv, UInv, DeleteFails \/ \E i \in DOMAIN requests : Refused(i) \/ Fail(i)
    PROVE  UInv'
<1> USE DEF IInv
<1>0. /\ requests \in Seq(Request) /\ isFetching \in BOOLEAN /\ didInvalidate \in BOOLEAN
      /\ stale \in BOOLEAN
  BY DEF TypeOK
<1>1. CASE DeleteFails
  <2>1. /\ UNCHANGED <<messages, arrived, byId, listed, total, open, openings>>
        /\ (requests # <<>>) \in BOOLEAN
    BY <1>1 DEF DeleteFails, server
  <2>2. Loaded(open, initialized, isFetching, TRUE, requests, requests # <<>>)
    BY <1>0, <1>1, <2>1, RefreshEffect DEF DeleteFails
  <2>3. isFetching => requests # <<>>
    BY DEF UInv, Fetches
  <2>4. QED
    BY <1>0, <2>1, <2>2, <2>3, LoadedOnly DEF Asked
<1>2. ASSUME NEW i \in DOMAIN requests, Refused(i) \/ Fail(i) PROVE UInv'
  <2> DEFINE rest == RemoveAt(requests, i)
  <2>1. UNCHANGED <<messages, arrived, byId, listed, total, open, openings>> /\ Failed(i)
    BY <1>2 DEF Refused, Fail, server, bounds
  <2>2. rest \in Seq(Request) /\ Elements(rest) \subseteq Asked
    BY <1>0, RemoveAtType, ElementsRemove DEF Asked
  <2>3. PICK invalid \in BOOLEAN, st \in BOOLEAN : Loaded(open, initialized, FALSE, invalid, rest, st)
    <3>1. /\ (rest # <<>> \/ Deleting(rest)) \in BOOLEAN /\ (stale \/ ~didInvalidate) \in BOOLEAN
      BY <1>0 DEF Deleting
    <3>2. QED
      BY <1>0, <2>1, <3>1, FailedEffect
  <2> HIDE DEF rest
  <2>4. QED
    BY <2>1, <2>2, <2>3, LoadedOnly
<1>3. QED
  BY <1>1, <1>2

(* The answers of the server that the store takes. *)
LEMMA ReceiveU ==
    ASSUME IInv, UInv, NEW i \in DOMAIN requests,
           ReceiveList(i) \/ ReceiveOne(i) \/ ReceiveDeleted(i)
    PROVE  UInv'
<1> USE DEF IInv
<1> DEFINE rest == RemoveAt(requests, i)
           r == requests[i]
<1>0. /\ requests \in Seq(Request) /\ didInvalidate \in BOOLEAN /\ stale \in BOOLEAN
      /\ open \in BOOLEAN /\ initialized \in BOOLEAN /\ byId \in Dates /\ arrived \in Nat
      /\ listed \subseteq Discussions /\ total \in Int
  BY TimelineBoundsAssumption DEF TypeOK
<1>1. r \in Request /\ r \in Asked /\ rest \in Seq(Request) /\ Elements(rest) \subseteq Asked
  BY <1>0, RemoveAtType, ElementsRemove DEF Asked, Elements
<1>2. /\ r.dates \in Dates /\ \A d \in Discussions : r.dates[d] <= arrived
  BY <1>1 DEF Request, UInv, AnswerArrived
<1>3. UNCHANGED <<messages, arrived, open, openings>>
  BY DEF ReceiveList, ReceiveOne, ReceiveDeleted, server, bounds
<1>4. PICK invalid \in BOOLEAN, st \in BOOLEAN : Loaded(open, initialized, FALSE, invalid, rest, st)
  <2>1. /\ (stale \/ Deleting(requests)) \in BOOLEAN
        /\ (stale \/ r.stage = "answered" \/ r.discussion \notin listed) \in BOOLEAN
    BY <1>0 DEF Deleting
  <2>2. QED
    BY <1>0, <2>1, RefreshEffect DEF ReceiveList, ReceiveOne, ReceiveDeleted
<1>5. DatesArrived'
  <2>1. ASSUME NEW old \in Dates, \A d \in Discussions : old[d] <= arrived, byId' = Merge(old, r.dates)
        PROVE  DatesArrived'
    <3> HIDE DEF r
    <3>1. QED
      BY <1>2, <1>3, <2>1 DEF UInv, DatesArrived, Merge
  <2>2. \A d \in Discussions : byId[d] <= arrived
    BY DEF UInv, DatesArrived
  <2>3. CASE ReceiveList(i)
    <3> DEFINE kept == IF didInvalidate THEN [d \in Discussions |-> 0] ELSE byId
    <3>1. kept \in Dates /\ \A d \in Discussions : kept[d] <= arrived
      BY <1>0, <2>2, TimelineBoundsAssumption DEF Dates
    <3>2. byId' = Merge(kept, r.dates)
      BY <2>3 DEF ReceiveList
    <3> HIDE DEF kept, r
    <3>3. QED
      BY <2>1, <3>1, <3>2
  <2>4. CASE ReceiveOne(i)
    BY <1>0, <2>1, <2>2, <2>4 DEF ReceiveOne
  <2>5. CASE ReceiveDeleted(i)
    <3>1. byId' = [byId EXCEPT ![r.discussion] = 0]
      BY <2>5 DEF ReceiveDeleted
    <3>2. \A d \in Discussions : byId'[d] \in {0, byId[d]}
      BY <1>0, <3>1 DEF Dates
    <3>3. QED
      BY <1>0, <1>3, <2>2, <3>2 DEF UInv, DatesArrived
  <2>6. QED
    BY <2>3, <2>4, <2>5
<1>6. \A q \in Elements(rest) : AnswerArrived(q)'
  <2> HIDE DEF rest, r
  <2>1. QED
    BY <1>1, <1>3 DEF UInv, AnswerArrived
<1>7. openings' = 0 \/ (openings' = 1 /\ open /\ ~initialized) =>
         listed' = {} /\ total' <= 0 /\ \A q \in Elements(rest) : q.kind # "list"
  <2> SUFFICES ASSUME openings' = 0 \/ (openings' = 1 /\ open /\ ~initialized)
               PROVE  listed' = {} /\ total' <= 0 /\ \A q \in Elements(rest) : q.kind # "list"
    OBVIOUS
  <2>1. listed = {} /\ total <= 0 /\ ~Listing
    BY <1>3 DEF UInv, NothingLoaded, Unloaded
  <2>2. r.kind # "list" /\ \A q \in Elements(rest) : q.kind # "list"
    BY <1>1, <2>1 DEF Listing
  <2>3. CASE ReceiveOne(i)
    BY <2>1, <2>2, <2>3 DEF ReceiveOne
  <2>4. CASE ReceiveDeleted(i)
    BY <1>0, <2>1, <2>2, <2>4 DEF ReceiveDeleted, Without
  <2>5. QED
    BY <2>2, <2>3, <2>4 DEF ReceiveList
<1>8. openings' = 0 => ~open /\ ~initialized
  BY <1>3 DEF UInv, NothingLoaded
<1> HIDE DEF rest, r
<1>9. arrived' \in Nat /\ open' = open
  BY <1>0, <1>3
<1>10. PICK fetching \in BOOLEAN : ~fetching /\ Loaded(open, initialized, fetching, invalid, rest, st)
  BY <1>4
<1>11. fetching => rest # <<>>
  BY <1>10
<1>12. QED
  BY <1>10, <1>11, <1>0, <1>1, <1>4, <1>5, <1>6, <1>7, <1>8, <1>9, LoadedKeeps, ZenonT(60)

(* Every step keeps what always holds, and the first state has it. *)
LEMMA UInvStep == ASSUME IInv, UInv, [Next]_vars PROVE UInv'
<1>1. CASE UNCHANGED vars
  BY <1>1, UnchangedU DEF vars, server, store, scene, bounds
<1>2. CASE \/ \E d \in Discussions : Arrive(d) \/ OpenDiscussion(d)
           \/ \E d \in Discussions, n \in Numbers : Delete(d, n)
           \/ Notifying
  BY <1>2, ServerU, RequestsU
<1>3. CASE Open \/ Close \/ LoadMore \/ DeleteAnswered
  BY <1>3, RequestsU
<1>4. ASSUME NEW i \in DOMAIN requests, Reply(i) \/ Fail(i) PROVE UInv'
  BY <1>4, ServerU, ReceiveU, FailureU DEF Reply
<1>5. CASE DeleteFails
  BY <1>5, FailureU
<1>6. CASE Polling \/ \E i \in DOMAIN polls : PollFails(i)
  BY <1>6, PollerU
<1>7. QED
  BY <1>1, <1>2, <1>3, <1>4, <1>5, <1>6 DEF Next, Replies

LEMMA InitU == Init => UInv
<1> SUFFICES ASSUME Init PROVE UInv
  OBVIOUS
<1>1. IInv
  BY InitIInv
<1>2. DatesArrived
  <2>1. arrived \in Nat /\ arrived = LastOld
    BY <1>1, TimelineBoundsAssumption DEF IInv, TypeOK, Init
  <2>2. \A d \in Discussions : Mailbox[d] \subseteq 1..MaxMessages /\ Mailbox[d] \subseteq Old
    BY MailboxAssumption DEF Old
  <2>3. \A n \in Old : n <= arrived
    BY <2>1, OldType
  <2>4. MaxMessages \in Nat /\ messages = Mailbox /\ \A d \in Discussions : byId[d] = 0
    BY TimelineBoundsAssumption DEF Init
  <2>5. ASSUME NEW d \in Discussions PROVE messages[d] \subseteq 1..arrived /\ byId[d] <= arrived
    BY ONLY <2>1, <2>2, <2>3, <2>4, <2>5
  <2>6. QED
    BY <2>5 DEF DatesArrived
<1>3. Asked = {}
  BY DEF Init, Asked, Elements
<1>4. QED
  BY <1>2, <1>3 DEF Init, UInv, Fetches, NothingLoaded, Unloaded, Listing
-----------------------------------------------------------------------------
(***************************************************************************)
(* What holds as long as nothing has overlapped since the last refresh.    *)
(***************************************************************************)
\* The last message that a notification, or the mailbox at first (0), tells of; the poller has been
\* told of the last message of all; no poll has been answered and the scene is open, or was closed,
\* for the first time; some discussion of the list then shows the last message.
Told(k) == IF k = 0 THEN LastOld ELSE Notices[k]
Heard == Told(from) = arrived
First == ~firstPollDone /\ openings = 1
Newest == First /\ \E d \in listed : byId[d] >= arrived

(* What the poller knows of has arrived. *)
LEMMA ToldType == IInv => Told(from) \in 0..arrived
<1> SUFFICES ASSUME IInv PROVE Told(from) \in 0..arrived
  OBVIOUS
<1>1. from \in {0} \cup notified /\ notified \subseteq DOMAIN Notices /\ arrived \in Nat
  BY TimelineBoundsAssumption DEF IInv, TypeOK
<1>2. QED
  BY <1>1, OldType, NoticesType DEF IInv, KnownHaveArrived, Told

\* The discussion of a message that is being deleted.
Gone == {d \in Discussions : \/ deletion = d
                             \/ \E r \in Asked : r.kind = "deleted" /\ r.discussion = d}

\* The list is the beginning of what the server would list, but for the discussion of the message
\* that is being deleted; once it is asked for and answered, the discussions are counted.
Faithful ==
    /\ listed \ Gone \subseteq Existing
    /\ \A d \in listed \ Gone : byId[d] = Latest(d)
    /\ \A d \in listed \ Gone, e \in Existing \ listed : Latest(d) > Latest(e)
    /\ initialized /\ ~Listing => total = Cardinality(Existing \cup Gone)
ListFaithful == ~didInvalidate /\ (Heard \/ Newest) => Faithful

\* A page is asked for at the end of the list or at its beginning: there, when the list will be
\* replaced and, before the first poll, when there is none.
FitsOffset(r) ==
    r.kind = "list" =>
        /\ r.offset \in {0, Cardinality(listed)}
        /\ didInvalidate => r.offset = 0
        /\ First /\ ~didInvalidate /\ r.offset = 0 => listed = {}

\* A page that is answered is what the server would answer now.
FitsPage(r) ==
    /\ r.kind = "list" /\ r.stage = "answered" /\ deletion = None
    /\ Heard \/ Newest \/ (First /\ \E d \in Discussions : r.dates[d] >= arrived)
    => r.dates = DatesOf(Page(r.offset)) /\ r.total = Cardinality(Existing)

\* A discussion that is asked for is not in the list; one that is not found is gone.
FitsDiscussion(r) ==
    /\ r.kind = "one" => r.discussion \notin listed
    /\ r.kind = "deleted" =>
           /\ deletion = None
           /\ r.stage = "refused" /\ (Heard \/ Newest) /\ r.discussion \in listed =>
                  r.discussion \notin Existing

Fits(r) == FitsOffset(r) /\ FitsPage(r) /\ FitsDiscussion(r)

\* One request at most is in flight.
Alone == requests = <<>> \/ \E r \in Request : requests = <<r>>

Steady == Alone /\ (\A r \in Asked : Fits(r)) /\ ListFaithful
SInv == IInv /\ UInv /\ (~stale => Steady)

(* A list that is invalidated will be replaced. *)
LEMMA ReloadInvalid ==
    ASSUME didInvalidate', requests' = <<>> \/ requests' = <<Reload>> PROVE Steady'
<1>1. Asked' \subseteq {Reload} /\ Alone'
  BY ReloadIs, Single DEF Asked, Alone
<1>2. Fits(Reload)'
  BY ReloadIs DEF Fits, FitsOffset, FitsPage, FitsDiscussion
<1>3. ListFaithful'
  BY DEF ListFaithful
<1>4. QED
  BY <1>1, <1>2, <1>3 DEF Steady

(* The first page fits before the first poll only when there is no list yet. *)
LEMMA ReloadFits ==
    ASSUME First' /\ ~didInvalidate' => listed' = {} PROVE Fits(Reload)'
BY ReloadIs DEF Fits, FitsOffset, FitsPage, FitsDiscussion

(* Only a request that nothing disturbs leaves the list right. *)
LEMMA LoadedAlone ==
    ASSUME NEW mounted \in BOOLEAN, NEW started \in BOOLEAN, NEW fetching \in BOOLEAN,
           NEW invalid \in BOOLEAN, NEW reqs, NEW st \in BOOLEAN,
           Loaded(mounted, started, fetching, invalid, reqs, st), ~stale'
    PROVE  /\ ~st /\ (didInvalidate' <=> invalid)
           /\ \/ /\ requests' = reqs /\ (initialized' <=> started)
                 /\ ~(mounted /\ (~started \/ invalid) /\ ~fetching)
              \/ /\ reqs = <<>> /\ requests' = <<Reload>> /\ initialized'
                 /\ mounted /\ (~started \/ invalid) /\ ~fetching
<1>1. ~st /\ (didInvalidate' <=> invalid)
  BY DEF Loaded
<1>2. CASE requests' = reqs /\ initialized' = started /\ ~(mounted /\ (~started \/ invalid) /\ ~fetching)
  BY <1>1, <1>2
<1>3. CASE /\ mounted /\ (~started \/ invalid) /\ ~fetching
           /\ requests' = Append(reqs, Reload) /\ initialized' = TRUE
           /\ stale' = (st \/ reqs # <<>>)
  <2>1. reqs = <<>>
    BY <1>3
  <2>2. Append(<<>>, Reload) = <<Reload>>
    BY ReloadIs, Single
  <2>3. QED
    BY <1>1, <1>3, <2>1, <2>2
<1>4. QED
  BY <1>2, <1>3 DEF Loaded

(* The requests, when there is none and when there is one. *)
LEMMA NoneAsked == requests = <<>> => Asked = {}
BY DEF Asked, Elements

LEMMA OneAsked ==
    ASSUME Alone, NEW i \in DOMAIN requests
    PROVE  /\ requests[i] \in Request /\ requests = <<requests[i]>>
           /\ Asked = {requests[i]} /\ RemoveAt(requests, i) = <<>>
<1>1. PICK r \in Request : requests = <<r>>
  BY DEF Alone
<1>2. i = 1 /\ requests[i] = r
  BY <1>1
<1>3. QED
  BY <1>1, <1>2, Single, SingleRemoved DEF Asked

(* The list stays right when nothing changes what it shows. *)
LEMMA FaithfulKept ==
    ASSUME Faithful, UNCHANGED <<messages, listed, total>>,
           \A d \in listed : byId'[d] = byId[d], Gone' = Gone,
           initialized' /\ ~Listing' => initialized /\ ~Listing
    PROVE  Faithful'
BY DEF Faithful, Existing, Latest

(* Nothing that this is about changes, or the scene is closed. *)
LEMMA SteadyKept ==
    ASSUME Steady,
           UNCHANGED <<messages, arrived, listed, byId, total, requests, deletion, didInvalidate,
                       openings, firstPollDone, from>>,
           initialized' => initialized
    PROVE  Steady'
<1>1. /\ Asked' = Asked /\ Alone' = Alone
      /\ Heard' = Heard /\ First' = First /\ Newest' = Newest
  BY DEF Asked, Alone, Heard, First, Newest
<1>2. Gone' = Gone /\ Listing' = Listing
  BY <1>1 DEF Gone, Listing
<1>3. Faithful => Faithful'
  BY <1>2, FaithfulKept
<1>4. ListFaithful'
  BY <1>1, <1>3 DEF Steady, ListFaithful
<1>5. ASSUME NEW r, Fits(r) PROVE Fits(r)'
  BY <1>1, <1>5
  DEF Fits, FitsOffset, FitsPage, FitsDiscussion, DatesOf, Page, Rank, Existing, Latest
<1>6. QED
  BY <1>1, <1>4, <1>5 DEF Steady

(* The user: opens the scene, closes it, loads more, opens a discussion. *)
LEMMA SceneSteady ==
    ASSUME IInv, UInv, Steady, ~stale',
           Open \/ Close \/ LoadMore \/ \E d \in Discussions : OpenDiscussion(d)
    PROVE  Steady'
<1>0. /\ requests \in Seq(Request) /\ stale \in BOOLEAN /\ isFetching \in BOOLEAN
      /\ didInvalidate \in BOOLEAN /\ initialized \in BOOLEAN /\ open \in BOOLEAN
      /\ openings \in Nat /\ total \in Int /\ listed \subseteq Discussions
  BY DEF IInv, TypeOK
<1>1. CASE Open
  <2>1. Loaded(TRUE, FALSE, isFetching, didInvalidate, requests, stale)
    BY <1>0, <1>1, LoadEffect DEF Open
  <2>2. /\ UNCHANGED <<messages, arrived, byId, listed, total, deletion, firstPollDone, from>>
        /\ openings' = openings + 1
    BY <1>1 DEF Open, server, poller
  <2>3. /\ didInvalidate' <=> didInvalidate
        /\ \/ requests' = requests /\ ~initialized'
           \/ requests = <<>> /\ requests' = <<Reload>> /\ initialized'
    <3>1. PICK mounted \in BOOLEAN, started \in BOOLEAN :
             ~started /\ Loaded(mounted, started, isFetching, didInvalidate, requests, stale)
      BY <2>1
    <3>2. QED
      BY <1>0, <3>1, LoadedAlone
  <2>4. First' => listed' = {} /\ ~Listing
    <3>1. First' => openings = 0
      BY <1>0, <2>2 DEF First
    <3>2. QED
      BY <2>2, <3>1 DEF UInv, NothingLoaded, Unloaded
  <2>5. ~Newest' /\ Heard' = Heard
    BY <2>2, <2>4 DEF Newest, Heard
  <2>6. ASSUME NEW r \in Asked PROVE Fits(r)'
    <3>1. Fits(r)
      BY DEF Steady
    <3>2. First' => r.kind # "list"
      BY <2>4 DEF Listing
    <3>3. QED
      BY <2>2, <2>3, <2>5, <3>1, <3>2
      DEF Fits, FitsOffset, FitsPage, FitsDiscussion, DatesOf, Page, Rank, Existing, Latest
  <2>7. Fits(Reload)'
    BY <2>4, ReloadFits
  <2>8. Asked' = Asked \/ (Asked = {} /\ Asked' = {Reload})
    BY <2>3, ReloadIs, Single DEF Asked
  <2>9. Alone'
    BY <2>3, ReloadIs DEF Alone, Steady
  <2>10. Gone' = Gone
    BY <2>2, <2>8, ReloadIs DEF Gone
  <2>11. ~(initialized' /\ ~Listing')
    BY <2>3, ReloadIs, Single DEF Listing, Asked
  <2>12. ListFaithful'
    BY <2>2, <2>3, <2>5, <2>10, <2>11, FaithfulKept DEF ListFaithful, Steady
  <2>13. QED
    BY <2>6, <2>7, <2>8, <2>9, <2>12 DEF Steady
<1>2. CASE Close
  BY <1>2, SteadyKept DEF Close, server, store, poller, bounds
<1>3. ASSUME NEW q \in Request, q.stage = "sent", q.kind \in {"list", "one"},
             Loaded(open, initialized, TRUE, didInvalidate, Append(requests, q), stale \/ requests # <<>>),
             UNCHANGED <<messages, arrived, byId, listed, total, deletion, firstPollDone, from, openings>>,
             requests = <<>> => FitsOffset(q) /\ FitsDiscussion(q)
      PROVE  Steady'
  <2>1. /\ requests = <<>> /\ (didInvalidate' <=> didInvalidate)
        /\ requests' = Append(requests, q) /\ (initialized' <=> initialized)
    <3>1. /\ didInvalidate' = didInvalidate /\ requests' = Append(requests, q)
          /\ initialized' = initialized /\ stale' = (stale \/ requests # <<>>)
      BY <1>3 DEF Loaded
    <3>2. requests = <<>>
      BY <3>1
    <3>3. QED
      BY <3>1, <3>2
  <2>2. requests' = <<q>> /\ Asked = {} /\ Asked' = {q}
    BY <2>1, Single DEF Asked
  <2>3. /\ Heard' = Heard /\ First' = First /\ Newest' = Newest
    BY <1>3 DEF Heard, First, Newest
  <2>4. Fits(q)'
    BY <1>3, <2>1, <2>3 DEF Fits, FitsOffset, FitsPage, FitsDiscussion, Existing
  <2>5. Gone' = Gone
    BY <1>3, <2>2 DEF Gone
  <2>6. ListFaithful'
    <3>1. initialized' /\ ~Listing' => initialized /\ ~Listing
      BY <2>1, <2>2 DEF Listing
    <3>2. QED
      BY <1>3, <2>1, <2>3, <2>5, <3>1, FaithfulKept DEF ListFaithful, Steady
  <2>7. QED
    BY <2>2, <2>4, <2>6 DEF Steady, Alone
<1>4. CASE LoadMore
  <2> DEFINE q == NewRequest("list", NextOffset, None)
  <2>1. NextOffset \in Nat
    BY <1>0, OffsetType
  <2>2. q \in Request /\ q.kind = "list" /\ q.stage = "sent" /\ q.offset = NextOffset
    BY <2>1, NewRequestIs
  <2> HIDE DEF q
  <2>3. UNCHANGED <<messages, arrived, byId, listed, total, deletion, firstPollDone, from, openings>>
        /\ open
    BY <1>4 DEF LoadMore, server, poller
  <2>4. Loaded(open, initialized, TRUE, didInvalidate, Append(requests, q), stale \/ requests # <<>>)
    <3>1. (stale \/ requests # <<>>) \in BOOLEAN /\ open = TRUE
      BY <1>0, <2>3
    <3>2. LoadDiscussions(TRUE, initialized, TRUE, didInvalidate, Append(requests, q), stale \/ requests # <<>>)
      BY <1>4 DEF LoadMore, q
    <3>3. QED
      BY <1>0, <3>1, <3>2, LoadEffect
  <2>5. ASSUME requests = <<>> PROVE FitsOffset(q) /\ FitsDiscussion(q)
    <3>1. ~didInvalidate
      BY <2>3, <2>5 DEF UInv, Fetches
    <3>2. NextOffset = 0 => listed = {}
      BY <1>0, DiscussionsAssumption, FS_Subset, FS_EmptySet DEF NextOffset
    <3>3. QED
      BY <2>2, <3>1, <3>2 DEF FitsOffset, FitsDiscussion, NextOffset
  <2>6. QED
    BY <1>3, <2>2, <2>3, <2>4, <2>5
<1>5. ASSUME NEW d \in Discussions, OpenDiscussion(d) PROVE Steady'
  <2> DEFINE q == NewRequest("one", 0, d)
  <2>1. q \in Request /\ q.kind = "one" /\ q.stage = "sent" /\ q.discussion = d
    BY NewRequestIs
  <2>2. Loaded(open, initialized, TRUE, didInvalidate, Append(requests, q), stale \/ requests # <<>>)
    <3>1. (stale \/ requests # <<>>) \in BOOLEAN
      BY <1>0
    <3>2. QED
      BY <1>0, <1>5, <3>1, RefreshEffect DEF OpenDiscussion, IInv
  <2> HIDE DEF q
  <2>3. UNCHANGED <<messages, arrived, byId, listed, total, deletion, firstPollDone, from, openings>>
    BY <1>5 DEF OpenDiscussion, server, poller
  <2>4. FitsOffset(q) /\ FitsDiscussion(q)
    BY <1>5, <2>1 DEF FitsOffset, FitsDiscussion, OpenDiscussion, IInv, ListedIsKnown
  <2>5. QED
    BY <1>3, <2>1, <2>2, <2>3, <2>4
<1>6. QED
  BY <1>1, <1>2, <1>4, <1>5

(* A message arrives: what the browser knows is no longer the last one. *)
LEMMA ArriveSteady ==
    ASSUME IInv, UInv, Steady, NEW d \in Discussions, Arrive(d) PROVE Steady'
<1>1. /\ arrived' = arrived + 1 /\ arrived \in Nat /\ Told(from) \in 0..arrived
      /\ UNCHANGED <<listed, byId, total, requests, deletion, didInvalidate, openings,
                     firstPollDone, from, initialized>>
  BY TimelineBoundsAssumption, ToldType DEF Arrive, store, scene, poller, bounds, IInv, TypeOK
<1>2. ~Heard'
  BY <1>1 DEF Heard
<1>3. ~Newest'
  <2>1. \A e \in Discussions : byId[e] \in Nat /\ byId[e] <= arrived
    BY TimelineBoundsAssumption DEF IInv, TypeOK, Dates, UInv, DatesArrived
  <2>2. listed \subseteq Discussions
    BY DEF IInv, TypeOK
  <2>3. QED
    BY <1>1, <2>1, <2>2 DEF Newest
<1>4. ASSUME NEW r \in Asked PROVE Fits(r)'
  <2>1. r \in Request
    BY DEF Asked, Elements, IInv, TypeOK
  <2>2. \A e \in Discussions : r.dates[e] \in Nat /\ r.dates[e] <= arrived
    BY <2>1, TimelineBoundsAssumption DEF Request, Dates, UInv, AnswerArrived
  <2>3. ~(\E e \in Discussions : r.dates[e] >= arrived')
    BY <1>1, <2>2
  <2>4. Fits(r) /\ First' = First
    BY <1>1 DEF Steady, First
  <2>5. QED
    BY <1>1, <1>2, <1>3, <2>3, <2>4 DEF Fits, FitsOffset, FitsPage, FitsDiscussion
<1>5. Asked' = Asked /\ Alone'
  BY <1>1 DEF Asked, Alone, Steady
<1>6. QED
  BY <1>2, <1>3, <1>4, <1>5 DEF Steady, ListFaithful

(* The server answers with what it has. *)
LEMMA ServeSteady ==
    ASSUME IInv, Steady, NEW i \in DOMAIN requests, Serve(i) PROVE Steady'
<1>1. PICK r \in Request :
        r = requests[i] /\ requests = <<r>> /\ Asked = {r} /\ Fits(r)
  BY OneAsked DEF Steady
<1>2. PICK q \in Request :
        /\ q = Answer(r)
        /\ q.kind = r.kind /\ q.offset = r.offset /\ q.discussion = r.discussion
        /\ q.kind = "list" => q.dates = DatesOf(Page(q.offset)) /\ q.total = Cardinality(Existing)
        /\ q.kind # "list" /\ q.stage = "refused" => q.discussion \notin Existing
  BY AnswerIs DEF IInv
<1>3. /\ requests' = [requests EXCEPT ![i] = q]
      /\ UNCHANGED <<messages, arrived, listed, byId, total, deletion, didInvalidate, openings,
                     firstPollDone, from, initialized>>
  BY <1>1, <1>2 DEF Serve, server, store, scene, poller, bounds
<1>4. requests' = <<q>> /\ Asked' = {q}
  <2>1. [<<r>> EXCEPT ![i] = q] = <<q>>
    <3>1. i \in DOMAIN <<r>> /\ DOMAIN <<r>> = {1}
      BY <1>1
    <3>2. QED
      BY <3>1
  <2>2. QED
    <3>1. requests' = [<<r>> EXCEPT ![i] = q]
      BY <1>1, <1>3
    <3>2. requests' = <<q>>
      BY <2>1, <3>1
    <3>3. QED
      BY <3>2, Single DEF Asked
<1>5. /\ Heard' = Heard /\ First' = First /\ Newest' = Newest
      /\ Gone' = Gone /\ Listing' = Listing
  BY <1>1, <1>2, <1>3, <1>4 DEF Heard, First, Newest, Gone, Listing
<1>6. ListFaithful'
  BY <1>3, <1>5, FaithfulKept DEF ListFaithful, Steady
<1>7. Fits(q)'
  <2>1. FitsOffset(q)'
    BY <1>1, <1>2, <1>3, <1>5 DEF Fits, FitsOffset
  <2>2. FitsPage(q)'
    BY <1>2, <1>3 DEF FitsPage, DatesOf, Page, Rank, Existing, Latest
  <2>3. FitsDiscussion(q)'
    BY <1>1, <1>2, <1>3 DEF Fits, FitsDiscussion, Existing
  <2>4. QED
    BY <2>1, <2>2, <2>3 DEF Fits
<1>8. QED
  BY <1>2, <1>4, <1>6, <1>7 DEF Steady, Alone

(* A message is deleted: its discussion leaves what the list is compared with. *)
LEMMA DeleteSteady ==
    ASSUME IInv, UInv, Steady, ~stale', NEW d \in Discussions, NEW n \in Numbers, Delete(d, n)
    PROVE  Steady'
<1>0. messages \in [Discussions -> SUBSET Numbers] /\ stale \in BOOLEAN
  BY DEF IInv, TypeOK
<1>1. /\ requests = <<>> /\ deletion = None /\ deletion' = d /\ n \in messages[d]
      /\ messages' = [messages EXCEPT ![d] = @ \ {n}]
      /\ UNCHANGED <<arrived, listed, byId, total, requests, didInvalidate, openings,
                     firstPollDone, from, initialized>>
  BY <1>0 DEF Delete, store, scene, poller
<1>2. Asked = {} /\ Asked' = {}
  BY <1>1, NoneAsked DEF Asked
<1>3. Heard' = Heard /\ Newest' = Newest
  BY <1>1 DEF Heard, Newest, First
<1>4. Gone = {} /\ Gone' = {d}
  BY <1>1, <1>2, DiscussionsAssumption DEF Gone
<1>5. \A e \in Discussions : e # d => messages'[e] = messages[e]
  BY <1>0, <1>1
<1>6. ASSUME Faithful PROVE Faithful'
  <2>1. \A e \in Discussions : e # d => Latest(e)' = Latest(e)
    BY <1>5 DEF Latest
  <2>2. d \in Existing /\ Existing' \subseteq Existing /\ Existing \ {d} \subseteq Existing'
    BY <1>0, <1>1, <1>5 DEF Existing
  <2>3. d \in Existing' => Latest(d)' <= Latest(d)
    <3> SUFFICES ASSUME d \in Existing' PROVE Latest(d)' <= Latest(d)
      OBVIOUS
    <3>1. messages'[d] # {} /\ messages'[d] \subseteq messages[d] /\ messages[d] \subseteq 0..MaxMessages
      BY <1>0, <1>1 DEF Existing, Numbers
    <3>2. messages'[d] \subseteq 0..MaxMessages
      BY <3>1
    <3>3. Max(messages'[d]) \in messages'[d]
      BY <3>1, <3>2, TimelineBoundsAssumption, MaxOfBounded
    <3>4. Latest(d)' \in messages[d]
      BY <3>1, <3>3 DEF Latest
    <3>5. QED
      BY <1>0, <2>2, <3>4, LatestOfExisting
  <2>4. listed \subseteq Discussions /\ \A e \in Existing : Latest(e) \in Nat
    BY <1>0, LatestOfExisting, TimelineBoundsAssumption DEF IInv, TypeOK
  <2>5. \A x \in listed : x \in Existing /\ byId[x] = Latest(x) /\ \A e \in Existing \ listed : Latest(x) > Latest(e)
    BY <1>4, <1>6 DEF Faithful
  <2>6. ASSUME NEW x \in listed', x # d
        PROVE  /\ x \in Existing' /\ byId'[x] = Latest(x)'
               /\ \A e \in Existing' : e \notin listed' => Latest(x)' > Latest(e)'
    <3>1. /\ x \in Discussions /\ x \in listed /\ Latest(x)' = Latest(x)
      BY <1>1, <2>1, <2>4, <2>6
    <3>2. ASSUME NEW e \in Existing', e \notin listed' PROVE Latest(x)' > Latest(e)'
      <4>1. e \in Existing \ listed /\ Latest(x) > Latest(e) /\ Latest(x) \in Nat /\ Latest(e) \in Nat
        BY <1>1, <2>2, <2>4, <2>5, <3>1, <3>2
      <4>2. CASE e = d
        <5>1. Latest(d)' \in Nat
          <6>1. messages'[d] # {} /\ messages'[d] \subseteq 0..MaxMessages
            BY <1>0, <1>1, <3>2, <4>2 DEF Existing, Numbers
          <6>2. Max(messages'[d]) \in messages'[d]
            BY <6>1, TimelineBoundsAssumption, MaxOfBounded
          <6>3. QED
            BY <6>1, <6>2, TimelineBoundsAssumption DEF Latest
        <5>2. Latest(d)' <= Latest(d) /\ Latest(x) > Latest(d) /\ Latest(d) \in Nat
          BY <2>3, <3>2, <4>1, <4>2
        <5>3. QED
          BY <3>1, <4>1, <4>2, <5>1, <5>2
      <4>3. CASE e # d
        <5>1. e \in Discussions
          BY <4>1 DEF Existing
        <5>2. QED
          BY <2>1, <3>1, <4>1, <4>3, <5>1
      <4>4. QED
        BY <4>2, <4>3
    <3>3. QED
      BY <1>1, <2>2, <2>5, <2>6, <3>1, <3>2
  <2>7. initialized' => total' = Cardinality(Existing' \cup Gone')
    <3>1. ~Listing
      BY <1>2 DEF Listing
    <3>2. Existing' \cup Gone' = Existing \cup Gone
      BY <1>4, <2>2
    <3>3. QED
      BY <1>1, <1>6, <3>1, <3>2 DEF Faithful
  <2>8. QED
    BY <1>4, <2>6, <2>7 DEF Faithful
<1>7. QED
  BY <1>1, <1>2, <1>3, <1>6 DEF Steady, ListFaithful, Alone

(* Its deletion is answered: the discussion is asked for, alone. *)
LEMMA DeleteAnsweredSteady ==
    ASSUME IInv, Steady, ~stale', DeleteAnswered PROVE Steady'
<1>0. /\ stale \in BOOLEAN /\ didInvalidate \in BOOLEAN /\ deletion \in Discussions \cup {None}
      /\ TypeOK
  BY DEF IInv, TypeOK
<1>1. PICK q \in Request :
        /\ q = NewRequest("deleted", 0, deletion)
        /\ q.kind = "deleted" /\ q.stage = "sent" /\ q.discussion = deletion
  BY <1>0, NewRequestIs
<1>2. Loaded(open, initialized, TRUE, didInvalidate, Append(requests, q), stale \/ requests # <<>>)
  <2>1. (stale \/ requests # <<>>) \in BOOLEAN
    BY <1>0
  <2>2. QED
    BY <1>0, <1>1, <2>1, RefreshEffect DEF DeleteAnswered
<1>3. /\ deletion # None /\ deletion' = None
      /\ UNCHANGED <<messages, arrived, byId, listed, total, firstPollDone, from, openings>>
  BY DEF DeleteAnswered, server, poller, bounds
<1>4. /\ didInvalidate' = didInvalidate /\ initialized' = initialized
      /\ requests = <<>> /\ requests' = <<q>>
  <2>1. /\ didInvalidate' = didInvalidate /\ requests' = Append(requests, q)
        /\ initialized' = initialized /\ stale' = (stale \/ requests # <<>>)
    BY <1>2 DEF Loaded
  <2>2. requests = <<>>
    BY <2>1
  <2>3. QED
    BY <1>1, <2>1, <2>2, Single
<1>5. Asked = {} /\ Asked' = {q}
  BY <1>1, <1>4, Single DEF Asked
<1>6. Heard' = Heard /\ Newest' = Newest
  BY <1>3 DEF Heard, Newest, First
<1>7. Gone' = Gone
  BY <1>1, <1>3, <1>5, DiscussionsAssumption DEF Gone
<1>8. Listing' = Listing
  BY <1>1, <1>5 DEF Listing
<1>9. ListFaithful'
  BY <1>3, <1>4, <1>6, <1>7, <1>8, FaithfulKept DEF ListFaithful, Steady
<1>10. Fits(q)'
  BY <1>1, <1>3 DEF Fits, FitsOffset, FitsPage, FitsDiscussion
<1>11. QED
  BY <1>1, <1>4, <1>5, <1>9, <1>10 DEF Steady, Alone

(* What the store makes of the only request that is in flight. *)
LEMMA ReceivedAlone ==
    ASSUME TypeOK, Steady, ~stale', NEW i \in DOMAIN requests, NEW invalid \in BOOLEAN,
           NEW st \in BOOLEAN,
           Loaded(open, initialized, FALSE, invalid, RemoveAt(requests, i), st)
    PROVE  /\ ~st /\ (didInvalidate' <=> invalid)
           /\ \/ requests' = <<>> /\ Asked' = {} /\ (initialized' <=> initialized)
                 /\ ~(open /\ (~initialized \/ invalid))
              \/ /\ requests' = <<Reload>> /\ Asked' = {Reload} /\ initialized'
                 /\ open /\ (~initialized \/ invalid)
<1>1. RemoveAt(requests, i) = <<>>
  BY OneAsked DEF Steady
<1>2. PICK fetching \in BOOLEAN : ~fetching /\ Loaded(open, initialized, fetching, invalid, <<>>, st)
  BY <1>1
<1>3. open \in BOOLEAN /\ initialized \in BOOLEAN
  BY DEF TypeOK
<1>4. /\ ~st /\ (didInvalidate' <=> invalid)
      /\ \/ /\ requests' = <<>> /\ (initialized' <=> initialized)
            /\ ~(open /\ (~initialized \/ invalid) /\ ~fetching)
         \/ /\ requests' = <<Reload>> /\ initialized'
            /\ open /\ (~initialized \/ invalid) /\ ~fetching
  BY <1>2, <1>3, LoadedAlone
<1>5. /\ requests' = <<>> => Asked' = {}
      /\ requests' = <<Reload>> => Asked' = {Reload}
  BY Single, ReloadIs DEF Asked
<1>6. QED
  BY <1>2, <1>4, <1>5

(* A page that is received extends the list, or replaces it. *)
LEMMA ReceiveListSteady ==
    ASSUME IInv, UInv, Steady, ~stale', NEW i \in DOMAIN requests, ReceiveList(i)
    PROVE  Steady'
<1>0. /\ TypeOK /\ messages \in [Discussions -> SUBSET Numbers] /\ stale \in BOOLEAN
      /\ didInvalidate \in BOOLEAN /\ listed \subseteq Discussions /\ byId \in Dates
      /\ arrived \in Nat
  BY TimelineBoundsAssumption DEF IInv, TypeOK
<1>1. PICK r \in Request :
        r = requests[i] /\ requests = <<r>> /\ Asked = {r} /\ Fits(r) /\ AnswerArrived(r)
  BY OneAsked DEF Steady, UInv
<1>2. r.kind = "list" /\ r.stage = "answered"
  BY <1>1 DEF ReceiveList
<1>3. UNCHANGED <<messages, arrived, deletion, openings, from, firstPollDone>>
  BY DEF ReceiveList, server, poller, bounds
<1>4. /\ ~stale /\ ~Deleting(requests) /\ ~didInvalidate'
      /\ \/ requests' = <<>> /\ Asked' = {} /\ (initialized' <=> initialized)
         \/ requests' = <<Reload>> /\ Asked' = {Reload} /\ initialized' /\ open /\ ~initialized
  <2>1. PICK invalid \in BOOLEAN, st \in BOOLEAN :
           /\ ~invalid /\ st = (stale \/ Deleting(requests))
           /\ Loaded(open, initialized, FALSE, invalid, RemoveAt(requests, i), st)
    <3>1. (stale \/ Deleting(requests)) \in BOOLEAN
      BY <1>0 DEF Deleting
    <3>2. Refresh(FALSE, FALSE, RemoveAt(requests, i), stale \/ Deleting(requests))
      BY DEF ReceiveList
    <3>3. QED
      BY <1>0, <3>1, <3>2, RefreshEffect
  <2>2. /\ ~st /\ ~didInvalidate'
        /\ \/ requests' = <<>> /\ Asked' = {} /\ (initialized' <=> initialized)
           \/ requests' = <<Reload>> /\ Asked' = {Reload} /\ initialized' /\ open /\ ~initialized
    BY <1>0, <2>1, ReceivedAlone
  <2>3. QED
    BY <1>0, <2>1, <2>2
<1>5. deletion = None /\ Gone = {} /\ Gone' = {}
  <2>1. deletion = None
    BY <1>4 DEF Deleting
  <2>2. Gone = {}
    BY <1>1, <1>2, <2>1, DiscussionsAssumption DEF Gone
  <2>3. Gone' = {}
    BY <1>3, <1>4, <2>1, ReloadIs, DiscussionsAssumption DEF Gone
  <2>4. QED
    BY <2>1, <2>2, <2>3
<1> DEFINE before == IF didInvalidate THEN {} ELSE listed
           kept == IF didInvalidate THEN [d \in Discussions |-> 0] ELSE byId
<1>6. /\ listed' = before \cup Dated(r.dates)
      /\ byId' = Merge(kept, r.dates) /\ total' = r.total
  BY <1>1 DEF ReceiveList, Kept
<1>7. Heard' = Heard /\ First' = First
  BY <1>3 DEF Heard, First
<1>8. didInvalidate => before = {} /\ r.offset = 0
  BY <1>1, <1>2 DEF Fits, FitsOffset
<1>9. ~didInvalidate => before = listed /\ kept = byId /\ r.offset \in {0, Cardinality(listed)}
  BY <1>1, <1>2 DEF Fits, FitsOffset
<1> DEFINE current == r.dates = DatesOf(Page(r.offset)) /\ r.total = Cardinality(Existing)
           right == Topmost(before) /\ \A d \in before : kept[d] = Latest(d)
<1>10. Heard \/ Newest => current
  BY <1>1, <1>2, <1>5 DEF Fits, FitsPage
<1>11. Heard \/ Newest => right
  <2>1. CASE didInvalidate
    BY <1>8, <2>1 DEF Topmost
  <2>2. CASE ~didInvalidate
    <3>1. Heard \/ Newest => Faithful
      BY <2>2 DEF Steady, ListFaithful
    <3>2. QED
      BY <1>5, <1>9, <2>2, <3>1 DEF Faithful, Topmost
  <2>3. QED
    BY <2>1, <2>2
<1> HIDE DEF before, kept
<1>12. Heard' \/ Newest' => current /\ right
  <2>1. CASE Heard
    BY <1>10, <1>11, <2>1
  <2>2. ASSUME Newest', ~Newest PROVE current /\ right
    <3>1. PICK d \in listed' : byId'[d] >= arrived
      BY <1>3, <2>2 DEF Newest
    <3>2. First /\ d \in Discussions
      BY <1>0, <1>6, <1>7, <1>8, <1>9, <2>2, <3>1 DEF Newest, Dated
    <3>3. r.dates[d] # 0
      <4> SUFFICES ASSUME r.dates[d] = 0 PROVE FALSE
        OBVIOUS
      <4>1. d \in before /\ byId'[d] = kept[d]
        BY <1>6, <3>1, <3>2 DEF Dated, Merge
      <4>2. d \in listed /\ byId[d] >= arrived
        BY <1>8, <1>9, <3>1, <4>1
      <4>3. QED
        BY <2>2, <3>2, <4>2 DEF Newest
    <3>4. r.dates[d] >= arrived
      BY <1>6, <3>1, <3>2, <3>3 DEF Merge
    <3>5. current
      BY <1>1, <1>2, <1>5, <3>2, <3>4 DEF Fits, FitsPage
    <3>6. d \in Page(r.offset) /\ d \in Existing /\ Latest(d) >= arrived
      BY <3>2, <3>3, <3>4, <3>5 DEF DatesOf, Page
    <3>7. Rank(d) = 0
      <4>1. \A e \in Existing : Latest(e) \in Nat /\ Latest(e) <= arrived
        BY <1>0, LatestArrived DEF UInv, Existing
      <4>2. \A e \in Existing : Latest(e) <= Latest(d)
        BY <1>0, <3>6, <4>1
      <4>3. QED
        BY <1>0, <3>6, <4>2, LastRanksFirst
    <3>8. r.offset = 0
      <4>1. r.offset \in Nat /\ r.offset <= Rank(d)
        BY <3>6 DEF Page, Request
      <4>2. QED
        BY <3>7, <4>1
    <3>9. before = {}
      <4>1. ~didInvalidate => listed = {}
        BY <1>1, <1>2, <3>2, <3>8 DEF Fits, FitsOffset
      <4>2. QED
        BY <1>8, <1>9, <4>1
    <3>10. QED
      BY <3>5, <3>9 DEF Topmost
  <2>3. QED
    BY <1>7, <1>10, <1>11, <2>1, <2>2
<1>13. ASSUME current, right PROVE Faithful'
  <2> DEFINE page == Page(r.offset)
  <2>1. Dated(r.dates) = page /\ page \subseteq Existing
    BY <1>0, <1>13, DatedIsFound DEF Page
  <2>2. listed' = before \cup page
    BY <1>6, <2>1
  <2>3. r.offset \in {0, Cardinality(before)}
    <3>1. Cardinality({}) = 0
      BY FS_EmptySet
    <3>2. QED
      BY <1>8, <1>9, <3>1
  <2>4. Topmost(listed')
    BY <1>0, <1>13, <2>2, <2>3, PageExtends
  <2>5. ASSUME NEW d \in listed' PROVE byId'[d] = Latest(d)
    <3>1. d \in Existing /\ d \in Discussions /\ Latest(d) # 0
      BY <1>0, <2>4, LatestOfExisting, TimelineBoundsAssumption DEF Topmost
    <3>2. byId'[d] = IF r.dates[d] # 0 THEN r.dates[d] ELSE kept[d]
      BY <1>6, <3>1 DEF Merge
    <3>3. r.dates[d] = IF d \in page THEN Latest(d) ELSE 0
      BY <1>13, <3>1 DEF DatesOf
    <3>4. QED
      BY <1>13, <2>2, <3>1, <3>2, <3>3
  <2>6. total' = Cardinality(Existing)
    BY <1>6, <1>13
  <2>7. Existing' = Existing /\ \A d : Latest(d)' = Latest(d)
    BY <1>3 DEF Existing, Latest
  <2> HIDE DEF page
  <2>8. QED
    BY <1>5, <2>4, <2>5, <2>6, <2>7 DEF Faithful, Topmost
<1>14. ListFaithful'
  BY <1>12, <1>13 DEF ListFaithful
<1>15. Asked' # {} => Fits(Reload)'
  <2> SUFFICES ASSUME Asked' # {} PROVE Fits(Reload)'
    OBVIOUS
  <2>1. open /\ ~initialized
    BY <1>4
  <2>2. ~First
    BY <1>1, <1>2, <2>1 DEF UInv, NothingLoaded, Unloaded, First, Listing
  <2>3. QED
    BY <1>7, <2>2, ReloadFits
<1>16. QED
  BY <1>4, <1>14, <1>15, ReloadIs DEF Steady, Alone

(* A discussion that is received is not in the list. *)
LEMMA ReceiveOneSteady ==
    ASSUME IInv, UInv, Steady, ~stale', NEW i \in DOMAIN requests, ReceiveOne(i)
    PROVE  Steady'
<1>0. /\ TypeOK /\ stale \in BOOLEAN /\ didInvalidate \in BOOLEAN /\ listed \subseteq Discussions
  BY DEF IInv, TypeOK
<1>1. PICK r \in Request :
        r = requests[i] /\ requests = <<r>> /\ Asked = {r} /\ Fits(r) /\ AnswerArrived(r)
  BY OneAsked DEF Steady, UInv
<1>2. r.kind = "one" /\ byId' = Merge(byId, r.dates)
  BY <1>1 DEF ReceiveOne
<1>3. UNCHANGED <<messages, arrived, listed, total, deletion, openings, from, firstPollDone>>
  BY DEF ReceiveOne, server, poller, bounds
<1>4. /\ (didInvalidate' <=> didInvalidate)
      /\ \/ requests' = <<>> /\ Asked' = {} /\ (initialized' <=> initialized)
         \/ /\ requests' = <<Reload>> /\ Asked' = {Reload} /\ initialized'
            /\ open /\ (~initialized \/ didInvalidate)
  <2>1. Loaded(open, initialized, FALSE, didInvalidate, RemoveAt(requests, i), stale)
    BY <1>0, RefreshEffect DEF ReceiveOne
  <2>2. QED
    BY <1>0, <2>1, ReceivedAlone
<1>5. \A d \in listed : byId'[d] = byId[d]
  <2>1. r.discussion \notin listed
    BY <1>1, <1>2 DEF Fits, FitsDiscussion
  <2>2. \A d \in listed : r.dates[d] = 0
    BY <1>0, <1>1, <1>2, <2>1 DEF AnswerArrived
  <2>3. QED
    BY <1>0, <1>2, <2>2 DEF Merge
<1>6. /\ Heard' = Heard /\ First' = First /\ Newest' = Newest
  BY <1>3, <1>5 DEF Heard, First, Newest
<1>7. Gone' = Gone
  BY <1>1, <1>2, <1>3, <1>4, ReloadIs DEF Gone
<1>8. initialized' /\ ~Listing' => initialized /\ ~Listing
  BY <1>1, <1>2, <1>4, ReloadIs DEF Listing
<1>9. ListFaithful'
  BY <1>3, <1>4, <1>5, <1>6, <1>7, <1>8, FaithfulKept DEF ListFaithful, Steady
<1>10. Asked' # {} => Fits(Reload)'
  <2>1. Asked' # {} /\ First /\ ~didInvalidate => listed = {}
    BY <1>4 DEF UInv, NothingLoaded, Unloaded, First
  <2>2. QED
    BY <1>3, <1>4, <1>6, <2>1, ReloadFits
<1>11. QED
  BY <1>4, <1>9, <1>10, ReloadIs DEF Steady, Alone

(* A discussion whose last message was deleted leaves the list, and the count. *)
LEMMA ReceiveDeletedSteady ==
    ASSUME IInv, UInv, Steady, ~stale', NEW i \in DOMAIN requests, ReceiveDeleted(i)
    PROVE  Steady'
<1>0. /\ TypeOK /\ stale \in BOOLEAN /\ didInvalidate \in BOOLEAN /\ listed \subseteq Discussions
      /\ byId \in Dates /\ total \in Int
  BY DEF IInv, TypeOK
<1>1. PICK r \in Request : r = requests[i] /\ requests = <<r>> /\ Asked = {r} /\ Fits(r)
  BY OneAsked DEF Steady
<1> DEFINE d == r.discussion
<1>2. /\ r.kind = "deleted" /\ r.stage # "sent" /\ deletion = None
      /\ listed' = listed \ {d} /\ byId' = [byId EXCEPT ![d] = 0] /\ total' = total - 1
  BY <1>1 DEF ReceiveDeleted, Without, Fits, FitsDiscussion
<1>3. UNCHANGED <<messages, arrived, deletion, openings, from, firstPollDone>>
  BY DEF ReceiveDeleted, server, poller, bounds
<1>4. /\ r.stage # "answered" /\ d \in listed
      /\ (didInvalidate' <=> didInvalidate)
      /\ \/ requests' = <<>> /\ Asked' = {} /\ (initialized' <=> initialized)
         \/ /\ requests' = <<Reload>> /\ Asked' = {Reload} /\ initialized'
            /\ open /\ (~initialized \/ didInvalidate)
  <2>1. PICK st \in BOOLEAN :
           /\ st = (stale \/ r.stage = "answered" \/ d \notin listed)
           /\ Loaded(open, initialized, FALSE, didInvalidate, RemoveAt(requests, i), st)
    <3>1. (stale \/ r.stage = "answered" \/ d \notin listed) \in BOOLEAN
      BY <1>0
    <3>2. Refresh(FALSE, didInvalidate, RemoveAt(requests, i),
                  stale \/ r.stage = "answered" \/ d \notin listed)
      BY <1>1 DEF ReceiveDeleted
    <3>3. QED
      BY <1>0, <3>1, <3>2, RefreshEffect
  <2>2. /\ ~st /\ (didInvalidate' <=> didInvalidate)
        /\ \/ requests' = <<>> /\ Asked' = {} /\ (initialized' <=> initialized)
           \/ /\ requests' = <<Reload>> /\ Asked' = {Reload} /\ initialized'
              /\ open /\ (~initialized \/ didInvalidate)
    BY <1>0, <2>1, ReceivedAlone
  <2>3. r.stage # "answered" /\ d \in listed
    BY <2>1, <2>2
  <2>4. QED
    BY <2>2, <2>3
<1>5. r.stage = "refused" /\ d \in Discussions
  BY <1>0, <1>2, <1>4 DEF Request
<1>6. Gone = {d} /\ Gone' = {}
  <2>1. Gone = {d}
    BY <1>1, <1>2, <1>5, DiscussionsAssumption DEF Gone
  <2>2. Gone' = {}
    BY <1>2, <1>3, <1>4, ReloadIs, DiscussionsAssumption DEF Gone
  <2>3. QED
    BY <2>1, <2>2
<1>7. /\ Heard' = Heard /\ First' = First
      /\ \A e \in listed' : e \in listed /\ e # d /\ byId'[e] = byId[e]
  BY <1>0, <1>2, <1>3 DEF Heard, First, Dates
<1>8. Newest' => Newest
  BY <1>3, <1>7 DEF Newest
<1>9. ListFaithful'
  <2> SUFFICES ASSUME ~didInvalidate', Heard' \/ Newest' PROVE Faithful'
    BY DEF ListFaithful
  <2>1. Faithful /\ d \notin Existing
    <3>1. ~didInvalidate /\ (Heard \/ Newest)
      BY <1>4, <1>7, <1>8
    <3>2. d \notin Existing
      BY <1>1, <1>2, <1>4, <1>5, <3>1 DEF Fits, FitsDiscussion
    <3>3. QED
      BY <3>1, <3>2 DEF Steady, ListFaithful
  <2>2. Existing' = Existing /\ \A e : Latest(e)' = Latest(e)
    BY <1>3 DEF Existing, Latest
  <2>3. initialized' /\ ~Listing' => total' = Cardinality(Existing)
    <3> SUFFICES ASSUME initialized', ~Listing' PROVE total' = Cardinality(Existing)
      OBVIOUS
    <3>1. initialized /\ ~Listing
      BY <1>1, <1>2, <1>4, ReloadIs DEF Listing
    <3>2. total = Cardinality(Existing \cup {d})
      BY <1>6, <2>1, <3>1 DEF Faithful
    <3>3. Cardinality(Existing \cup {d}) = Cardinality(Existing) + 1 /\ Cardinality(Existing) \in Nat
      BY <2>1, ExistingIsFinite, FS_AddElement, FS_CardinalityType
    <3>4. QED
      BY <1>2, <3>2, <3>3
  <2>4. \A e \in Existing : e \notin listed' => e \notin listed
    BY <1>2, <2>1
  <2> HIDE DEF d
  <2>5. QED
    BY <1>2, <1>6, <1>7, <2>1, <2>2, <2>3, <2>4 DEF Faithful
<1>10. Asked' # {} => Fits(Reload)'
  <2>1. Asked' # {} /\ First /\ ~didInvalidate => listed = {}
    BY <1>4 DEF UInv, NothingLoaded, Unloaded, First
  <2>2. QED
    BY <1>4, <1>7, <2>1, ReloadFits
<1>11. QED
  BY <1>4, <1>9, <1>10, ReloadIs DEF Steady, Alone

(* A list that is invalidated while nothing is in flight is right again when it is replaced. *)
LEMMA InvalidatedSteady ==
    ASSUME TypeOK, NEW fetching \in BOOLEAN, NEW reqs, NEW st \in BOOLEAN, ~stale',
           Loaded(open, initialized, fetching, TRUE, reqs, st), reqs # <<>> => st
    PROVE  Steady'
<1>1. didInvalidate' /\ ~st
  BY DEF Loaded
<1>2. reqs = <<>>
  BY <1>1
<1>3. requests' = <<>> \/ requests' = Append(<<>>, Reload)
  BY <1>2 DEF Loaded
<1>4. Append(<<>>, Reload) = <<Reload>>
  BY ReloadIs, Single
<1>5. QED
  BY <1>1, <1>3, <1>4, ReloadInvalid

(* The failures: what they leave undisturbed is a list that is being replaced. *)
LEMMA FailureSteady ==
    ASSUME IInv, ~stale => Steady, ~stale',
           DeleteFails \/ \E i \in DOMAIN requests : Refused(i) \/ Fail(i)
    PROVE  Steady'
<1>0. /\ TypeOK /\ requests \in Seq(Request) /\ stale \in BOOLEAN /\ didInvalidate \in BOOLEAN
      /\ isFetching \in BOOLEAN
  BY DEF IInv, TypeOK
<1>1. CASE DeleteFails
  <2>1. (requests # <<>>) \in BOOLEAN
    OBVIOUS
  <2>2. Loaded(open, initialized, isFetching, TRUE, requests, requests # <<>>)
    BY <1>0, <1>1, <2>1, RefreshEffect DEF DeleteFails
  <2>3. QED
    BY <1>0, <2>1, <2>2, InvalidatedSteady
<1>2. ASSUME NEW i \in DOMAIN requests, Refused(i) \/ Fail(i) PROVE Steady'
  <2> DEFINE rest == RemoveAt(requests, i)
  <2>1. Failed(i)
    BY <1>2 DEF Refused, Fail
  <2>2. CASE Loaded(open, initialized, FALSE, TRUE, rest, rest # <<>> \/ Deleting(rest))
    <3>1. (rest # <<>> \/ Deleting(rest)) \in BOOLEAN
      BY DEF Deleting
    <3>2. QED
      BY <1>0, <2>2, <3>1, InvalidatedSteady
  <2>3. CASE Loaded(open, initialized, FALSE, didInvalidate, rest, stale \/ ~didInvalidate)
    <3>1. PICK st \in BOOLEAN :
             /\ st = (stale \/ ~didInvalidate)
             /\ Loaded(open, initialized, FALSE, didInvalidate, rest, st)
      <4>1. (stale \/ ~didInvalidate) \in BOOLEAN
        BY <1>0
      <4>2. QED
        BY <2>3, <4>1
    <3>2. ~st
      BY <3>1 DEF Loaded
    <3>3. ~stale /\ didInvalidate
      BY <1>0, <3>1, <3>2
    <3>4. /\ didInvalidate'
          /\ requests' = <<>> \/ requests' = <<Reload>>
      BY <1>0, <1>2, <3>1, <3>3, ReceivedAlone
    <3>5. QED
      BY <3>4, ReloadInvalid
  <2>4. QED
    BY <1>0, <2>1, <2>2, <2>3, FailedEffect
<1>3. QED
  BY <1>1, <1>2

(* The poller learns of the last message: then the list is invalidated, or, by the first poll,
   shows the message already. *)
LEMMA ReceivePollSteady ==
    ASSUME IInv, UInv, ~stale => Steady, ~stale', NEW i \in DOMAIN polls, ReceivePoll(i)
    PROVE  Steady'
<1> DEFINE ns == polls[i]
<1>0. /\ TypeOK /\ requests \in Seq(Request) /\ stale \in BOOLEAN /\ isFetching \in BOOLEAN
      /\ openings \in Nat /\ arrived \in Nat
      /\ listed \subseteq Discussions /\ byId \in Dates
  BY TimelineBoundsAssumption DEF IInv, TypeOK
<1>1. CASE ns # notifications /\ ns # {} /\ firstPollDone
  <2>1. (requests # <<>> \/ Deleting(requests)) \in BOOLEAN
    BY DEF Deleting
  <2>2. Loaded(open, initialized, isFetching, TRUE, requests, requests # <<>> \/ Deleting(requests))
    BY <1>0, <1>1, <2>1, InvalidateEffect DEF ReceivePoll
  <2>3. QED
    BY <1>0, <2>1, <2>2, InvalidatedSteady
<1>2. CASE ~(ns # notifications /\ ns # {} /\ firstPollDone)
  <2>1. /\ stale' = (stale \/ Missed(ns)) /\ from' = LastNotification(ns) /\ firstPollDone'
        /\ UNCHANGED <<messages, arrived, listed, byId, total, requests, deletion, didInvalidate,
                       openings, initialized, open>>
    BY <1>2 DEF ReceivePoll, server, bounds
  <2>2. ~stale /\ Steady /\ ~Missed(ns)
    BY <1>0, <2>1
  <2>3. ~First' /\ ~Newest'
    BY <2>1 DEF First, Newest
  <2>4. Asked' = Asked /\ Gone' = Gone /\ Listing' = Listing /\ Alone' = Alone
    BY <2>1 DEF Asked, Gone, Listing, Alone
  <2>5. Heard' => Heard \/ Newest \/ openings = 0
    <3> SUFFICES ASSUME Heard', ~Heard, openings # 0 PROVE Newest
      OBVIOUS
    <3>1. ns # notifications /\ ns # {} /\ from' = Max(ns)
      BY <2>1 DEF LastNotification, Heard
    <3>2. ~firstPollDone
      BY <1>2, <3>1
    <3>3. ns \in SUBSET DOMAIN Notices
      <4>1. polls[i] \in SUBSET DOMAIN Notices
        BY <1>0 DEF TypeOK
      <4>2. QED
        BY <4>1
    <3> HIDE DEF ns
    <3>4. Max(ns) \in ns /\ Notices[Max(ns)] = arrived
      <4>1. Max(ns) \in ns
        BY <3>1, <3>3, MaxOfNotices
      <4>2. Max(ns) # 0
        BY <3>3, <4>1, NoticesType
      <4>3. QED
        BY <2>1, <3>1, <4>1, <4>2 DEF Heard, Told
    <3>5. openings = 1 /\ ~(\A d \in listed : byId[d] < arrived)
      BY <1>0, <2>2, <3>1, <3>2, <3>4 DEF Missed
    <3>6. \A d \in listed : byId[d] \in Nat
      BY <1>0, TimelineBoundsAssumption DEF Dates
    <3>7. QED
      BY <1>0, <3>2, <3>5, <3>6 DEF Newest, First
  <2>6. openings = 0 => listed = {} /\ ~Listing /\ ~initialized
    BY <1>0 DEF UInv, NothingLoaded, Unloaded, Fetches
  <2>7. Existing' = Existing /\ \A d : Latest(d)' = Latest(d)
    BY <2>1 DEF Existing, Latest
  <2>8. ListFaithful'
    <3> SUFFICES ASSUME ~didInvalidate', Heard' PROVE Faithful'
      BY <2>3 DEF ListFaithful
    <3>1. CASE Heard \/ Newest
      <4>1. Faithful
        BY <2>1, <2>2, <3>1 DEF Steady, ListFaithful
      <4>2. QED
        BY <2>1, <2>4, <4>1, FaithfulKept
    <3>2. CASE openings = 0
      BY <2>1, <2>6, <3>2 DEF Faithful
    <3>3. QED
      BY <2>5, <3>1, <3>2
  <2>9. ASSUME NEW r \in Asked PROVE Fits(r)'
    <3>1. Fits(r) /\ (openings = 0 => r.kind # "list" /\ r.discussion \notin listed)
      BY <2>2, <2>6 DEF Steady, Listing
    <3>2. FitsOffset(r)'
      BY <2>1, <2>3, <3>1 DEF Fits, FitsOffset
    <3>3. FitsPage(r)'
      <4>1. /\ r.kind = "list" /\ r.stage = "answered" /\ deletion = None /\ Heard' =>
                r.dates = DatesOf(Page(r.offset)) /\ r.total = Cardinality(Existing)
        BY <2>5, <3>1 DEF Fits, FitsPage
      <4>2. QED
        BY <2>1, <2>3, <4>1 DEF FitsPage, DatesOf, Page, Rank, Existing, Latest
    <3>4. FitsDiscussion(r)'
      BY <2>1, <2>3, <2>5, <2>7, <3>1 DEF Fits, FitsDiscussion
    <3>5. QED
      BY <3>2, <3>3, <3>4 DEF Fits
  <2>10. QED
    BY <2>2, <2>4, <2>8, <2>9 DEF Steady
<1>3. QED
  BY <1>1, <1>2

(* The poller, whatever becomes of its requests. *)
LEMMA PollerSteady ==
    ASSUME IInv, UInv, ~stale => Steady, ~stale',
           Polling \/ \E i \in DOMAIN polls : PollFails(i)
    PROVE  Steady'
<1>1. CASE Poll
  BY <1>1, SteadyKept DEF Poll, server, store, scene, bounds
<1>2. CASE Restart
  BY <1>2, SteadyKept DEF Restart, server, store, scene, bounds
<1>3. ASSUME NEW i \in DOMAIN polls, PollFails(i) PROVE Steady'
  BY <1>3, SteadyKept DEF PollFails, server, store, scene
<1>4. QED
  BY <1>1, <1>2, <1>3, ReceivePollSteady DEF Polling

(* Every step, once the types and what always holds are known. *)
LEMMA SInvStep == SInv /\ [Next]_vars => SInv'
<1> SUFFICES ASSUME SInv, [Next]_vars PROVE SInv'
  OBVIOUS
<1>1. IInv /\ UInv /\ IInv' /\ UInv'
  BY IInvStep, UInvStep DEF SInv
<1>2. ASSUME ~stale' PROVE Steady'
  <2>0. ~stale => Steady
    BY DEF SInv
  <2>1. stale \in BOOLEAN
    BY <1>1 DEF IInv, TypeOK
  <2>2. CASE UNCHANGED vars
    BY <1>2, <2>0, <2>2, SteadyKept DEF vars, server, store, scene, poller, bounds
  <2>3. CASE Open \/ Close \/ LoadMore \/ \E d \in Discussions : OpenDiscussion(d)
    <3>1. ~stale
      <4>1. CASE Open
        <5>1. stale' = (stale \/ (~isFetching /\ requests # <<>>))
          BY <4>1 DEF Open, LoadDiscussions
        <5>2. QED
          BY <1>2, <2>1, <5>1
      <4>2. CASE Close
        BY <1>2, <4>2 DEF Close
      <4>3. CASE LoadMore \/ \E d \in Discussions : OpenDiscussion(d)
        BY <1>2, <2>1, <4>3 DEF LoadMore, OpenDiscussion, Refresh, LoadDiscussions
      <4>4. QED
        BY <2>3, <4>1, <4>2, <4>3
    <3>2. QED
      BY <1>1, <1>2, <2>0, <2>3, <3>1, SceneSteady
  <2>4. ASSUME NEW d \in Discussions, Arrive(d) PROVE Steady'
    BY <1>1, <1>2, <2>0, <2>4, ArriveSteady DEF Arrive
  <2>5. ASSUME NEW d \in Discussions, NEW n \in Numbers, Delete(d, n) PROVE Steady'
    <3>1. ~stale
      BY <1>2, <2>1, <2>5 DEF Delete
    <3>2. QED
      BY <1>1, <1>2, <2>0, <2>5, <3>1, DeleteSteady
  <2>6. CASE Notifying
    BY <1>2, <2>0, <2>6, SteadyKept DEF Notifying, ByNotifQueue, store, scene, poller, bounds
  <2>7. CASE DeleteAnswered
    <3>1. ~stale
      BY <1>2, <2>1, <2>7 DEF DeleteAnswered, Refresh, LoadDiscussions
    <3>2. QED
      BY <1>1, <1>2, <2>0, <2>7, <3>1, DeleteAnsweredSteady
  <2>8. ASSUME NEW i \in DOMAIN requests, Reply(i) PROVE Steady'
    <3>1. CASE Serve(i)
      BY <1>1, <1>2, <2>0, <3>1, ServeSteady DEF Serve
    <3>2. CASE ReceiveList(i) \/ ReceiveOne(i) \/ ReceiveDeleted(i)
      <4>1. ~stale
        BY <1>2, <2>1, <3>2
        DEF ReceiveList, ReceiveOne, ReceiveDeleted, Refresh, LoadDiscussions
      <4>2. QED
        BY <1>1, <1>2, <2>0, <3>2, <4>1, ReceiveListSteady, ReceiveOneSteady, ReceiveDeletedSteady
    <3>3. CASE Refused(i)
      BY <1>1, <1>2, <2>0, <3>3, FailureSteady
    <3>4. QED
      BY <2>8, <3>1, <3>2, <3>3 DEF Reply
  <2>9. CASE DeleteFails \/ \E i \in DOMAIN requests : Fail(i)
    BY <1>1, <1>2, <2>0, <2>9, FailureSteady
  <2>10. CASE Polling \/ \E i \in DOMAIN polls : PollFails(i)
    BY <1>1, <1>2, <2>0, <2>10, PollerSteady
  <2>11. QED
    BY <2>2, <2>3, <2>4, <2>5, <2>6, <2>7, <2>8, <2>9, <2>10 DEF Next, Replies
<1>3. QED
  BY <1>1, <1>2 DEF SInv

(* Nothing is listed at first. *)
LEMMA InitSInv == Init => SInv
<1> SUFFICES ASSUME Init PROVE SInv
  OBVIOUS
<1>1. requests = <<>> /\ Asked = {}
  BY NoneAsked DEF Init
<1>2. ListFaithful
  BY DEF Init, ListFaithful, Faithful
<1>3. QED
  BY <1>1, <1>2, InitIInv, InitU DEF SInv, Steady, Alone

(* Nothing more to come: the poller has heard of the last message. *)
LEMMA SInvServed == SInv => ShownIsServed
<1> SUFFICES ASSUME SInv, Quiet, open, ~stale
             PROVE  /\ listed = {d \in Existing : Rank(d) < Cardinality(listed)}
                    /\ \A d \in listed : byId[d] = Latest(d)
                    /\ total = Cardinality(Existing)
  BY DEF ShownIsServed
<1>1. messages \in [Discussions -> SUBSET Numbers] /\ arrived \in Nat
  BY TimelineBoundsAssumption DEF SInv, IInv, TypeOK
<1>2. Heard
  <2>1. /\ from \in {0} \cup notified /\ notified \subseteq DOMAIN Notices
        /\ \A k \in notified : Notices[k] <= arrived
    BY DEF SInv, IInv, TypeOK, KnownHaveArrived
  <2>2. CASE arrived = LastOld
    BY <2>1, <2>2, OldType, NoticesType DEF Heard, Told
  <2>3. ASSUME NEW k \in notified, Notices[k] = arrived PROVE Heard
    <3>1. k <= from
      BY DEF Quiet
    <3>2. from # 0 /\ from \in DOMAIN Notices /\ Notices[from] \in Nat
      BY <2>1, <3>1, NoticesType
    <3>3. Notices[from] >= arrived /\ Notices[from] <= arrived
      BY <2>1, <2>3, <3>1, <3>2, NoticesAssumption
    <3>4. QED
      BY <1>1, <3>2, <3>3 DEF Heard, Told
  <2>4. QED
    BY <2>2, <2>3 DEF Quiet
<1>3. Asked = {} /\ Gone = {}
  BY NoneAsked, DiscussionsAssumption DEF Quiet, Gone
<1>4. initialized /\ ~Listing
  BY <1>3 DEF SInv, UInv, Fetches, Quiet, Listing
<1>5. Faithful
  BY <1>2 DEF SInv, Steady, ListFaithful, Quiet
<1>6. Topmost(listed)
  BY <1>3, <1>5 DEF Faithful, Topmost
<1>7. listed = {d \in Existing : Rank(d) < Cardinality(listed)}
  BY <1>1, <1>6, TopmostRanks
<1>8. QED
  BY <1>3, <1>4, <1>5, <1>7 DEF Faithful

(* Once everything is quiet, an open timeline that nothing has disturbed shows the latest discussions
   as the server has them, dated as the server dates them, and counts them all: hasMore then offers
   the others and getNextOffset asks for the next of them. *)
THEOREM ServedCorrect == Spec => []ShownIsServed
BY InitSInv, SInvStep, SInvServed, PTL DEF Spec

\* The part of InvalidatedIsFetched that is no liveness: whenever the timeline is open and
\* its list is invalidated or was never loaded, the store says that it is being fetched, and
\* the store never says so with no request left that could end it. No answer, failure or
\* invalidation, in any order, leaves a timeline that waits for nothing (loadDiscussions and
\* the single flag isFetching).
THEOREM FetchesCorrect == Spec => []Fetches
<1>1. Init => IInv /\ UInv
  BY InitIInv, InitU
<1>2. IInv /\ UInv /\ [Next]_vars => (IInv /\ UInv)'
  BY IInvStep, UInvStep
<1>3. IInv /\ UInv => Fetches
  BY DEF UInv
<1>4. QED
  BY <1>1, <1>2, <1>3, PTL DEF Spec
=============================================================================

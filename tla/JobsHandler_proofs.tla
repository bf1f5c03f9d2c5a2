------------------------- MODULE JobsHandler_proofs -------------------------
(***************************************************************************)
(* Proofs about the pending jobs, for every set of workers, jobs and       *)
(* processes and every bound on the failures of the network.               *)
(***************************************************************************)
EXTENDS JobsHandler, SequenceTheorems, TLAPS

\* The part of the state the queue invariant is about.
QueueTypeOK ==
    /\ pendingJobs \in [Workers -> SUBSET Jobs]
    /\ jobsSequence \in [Workers -> Seq(Jobs)]

(* Every step preserves the type invariant. *)
LEMMA TypeStep == TypeOK /\ [Next]_vars => TypeOK'
<1> USE WorkerOfAssumption, ServesAssumption, NoJobAssumption, MaxLossesAssumption
<1> SUFFICES ASSUME TypeOK, [Next]_vars PROVE TypeOK'
  OBVIOUS
<1> USE DEF TypeOK, queueVars
<1>1. ASSUME NEW k \in Jobs, AddPendingJob(k) PROVE TypeOK'
  <2>1. WorkerOf[k] \in Workers
    OBVIOUS
  <2>2. CASE k \in pendingJobs[WorkerOf[k]]
    BY <1>1, <2>2 DEF AddPendingJob
  <2>3. CASE k \notin pendingJobs[WorkerOf[k]]
    <3>1. Append(jobsSequence[WorkerOf[k]], k) \in Seq(Jobs)
      BY <2>1
    <3>2. /\ pendingJobs' = [pendingJobs EXCEPT ![WorkerOf[k]] = @ \cup {k}]
          /\ jobsSequence' = [jobsSequence EXCEPT ![WorkerOf[k]] = Append(@, k)]
          /\ UNCHANGED <<requests, waiting, working, losses>>
      BY <1>1, <2>3 DEF AddPendingJob
    <3>3. QueueTypeOK'
      BY <2>1, <3>1, <3>2 DEF QueueTypeOK
    <3>4. QED
      BY <3>2, <3>3 DEF QueueTypeOK
  <2>4. QED
    BY <2>2, <2>3
<1>2. ASSUME NEW w \in Workers, NEW k \in Jobs, ConsumePendingJobFor(w, k)
      PROVE QueueTypeOK'
  <2>1. Tail(jobsSequence[w]) \in Seq(Jobs)
    BY <1>2 DEF ConsumePendingJobFor
  <2>2. QED
    BY <1>2, <2>1 DEF ConsumePendingJobFor, QueueTypeOK
<1>a. \A p \in Procs : Live(p) \in Requests /\ Stale(p) \in Requests /\ Live(p).live
  BY DEF Live, Stale, Requests
<1>3. ASSUME NEW p \in Procs, Ask(p) PROVE TypeOK'
  BY <1>3, <1>a DEF Ask
<1>4. ASSUME NEW p \in Procs, GiveUpInFlight(p) PROVE TypeOK'
  BY <1>4, <1>a DEF GiveUpInFlight, Fail
<1>5. ASSUME NEW p \in Procs, GiveUpLost(p) PROVE TypeOK'
  BY <1>5 DEF GiveUpLost
<1>6. ASSUME NEW p \in Procs, FinishJob(p) PROVE TypeOK'
  BY <1>6 DEF FinishJob
<1>7. ASSUME NEW p \in Procs, NEW k \in Jobs, ReplyJob(p, k) PROVE TypeOK'
  BY <1>7, <1>2 DEF ReplyJob, QueueTypeOK
<1>8. ASSUME NEW r \in Requests, NEW k \in Jobs, ReplyJobInVain(r, k) PROVE TypeOK'
  <2>1. Serves[r.from] \in Workers
    BY DEF Requests
  <2>2. QueueTypeOK'
    BY <1>8, <1>2, <2>1 DEF ReplyJobInVain
  <2>3. QED
    BY <1>8, <2>2 DEF ReplyJobInVain, QueueTypeOK, Fail
<1>9. ASSUME NEW r \in Requests, ReplyNoPendingJob(r) PROVE TypeOK'
  BY <1>9 DEF ReplyNoPendingJob
<1>10. ASSUME NEW r \in Requests, LoseRequest(r) PROVE TypeOK'
  BY <1>10 DEF LoseRequest, Fail
<1>11. CASE UNCHANGED vars
  BY <1>11 DEF vars
<1>12. QED
  BY <1>1, <1>3, <1>4, <1>5, <1>6, <1>7, <1>8, <1>9, <1>10, <1>11 DEF Next

(***************************************************************************)
(* The type invariant holds in every state.                                *)
(***************************************************************************)
THEOREM TypeCorrect == Spec => []TypeOK
<1>1. Init => TypeOK
  BY MaxLossesAssumption DEF Init, TypeOK
<1>2. QED
  BY <1>1, TypeStep, PTL DEF Spec
-----------------------------------------------------------------------------
(***************************************************************************)
(* Appending an element a sequence does not contain keeps it without       *)
(* duplicates; removing its head removes exactly that element.             *)
(***************************************************************************)
LEMMA AppendFresh ==
  ASSUME NEW S, NEW s \in Seq(S), NEW k \in S, k \notin Range(s), IsInjective(s)
  PROVE  /\ Range(Append(s, k)) = Range(s) \cup {k}
         /\ IsInjective(Append(s, k))
<1>1. /\ Append(s, k) \in Seq(S)
      /\ Len(Append(s, k)) = Len(s) + 1
      /\ \A i \in 1 .. Len(s) : Append(s, k)[i] = s[i]
      /\ Append(s, k)[Len(s) + 1] = k
  BY AppendProperties
<1>2. /\ DOMAIN s = 1 .. Len(s)
      /\ DOMAIN Append(s, k) = 1 .. Len(s) + 1
      /\ Len(s) \in Nat
  BY <1>1, LenProperties
<1>3. QED
  BY <1>1, <1>2 DEF Range, IsInjective

(* Removing the head of a sequence without duplicates removes exactly its element. *)
LEMMA TailWithoutDuplicates ==
  ASSUME NEW S, NEW s \in Seq(S), s # <<>>, IsInjective(s)
  PROVE  /\ Range(Tail(s)) = Range(s) \ {Head(s)}
         /\ IsInjective(Tail(s))
<1>1. /\ Tail(s) \in Seq(S)
      /\ Len(Tail(s)) = Len(s) - 1
      /\ \A i \in 1 .. Len(Tail(s)) : Tail(s)[i] = s[i + 1]
      /\ Head(s) = s[1]
  BY HeadTailProperties
<1>2. /\ DOMAIN s = 1 .. Len(s)
      /\ DOMAIN Tail(s) = 1 .. Len(s) - 1
      /\ Len(s) \in Nat \ {0}
  BY <1>1, LenProperties, EmptySeq
<1>3. IsInjective(Tail(s))
  BY <1>1, <1>2 DEF IsInjective
<1>4. ASSUME NEW x \in Range(Tail(s)) PROVE x \in Range(s) \ {Head(s)}
  <2>1. PICK i \in 1 .. Len(s) - 1 : x = s[i + 1]
    BY <1>1, <1>2 DEF Range
  <2>2. i + 1 \in 1 .. Len(s) /\ 1 \in 1 .. Len(s) /\ i + 1 # 1
    BY <1>2
  <2>3. QED
    BY <1>1, <1>2, <2>1, <2>2 DEF Range, IsInjective
<1>5. ASSUME NEW x \in Range(s) \ {Head(s)} PROVE x \in Range(Tail(s))
  <2>1. PICK i \in 1 .. Len(s) : x = s[i]
    BY <1>2 DEF Range
  <2>2. i - 1 \in 1 .. Len(s) - 1 /\ (i - 1) + 1 = i
    BY <1>1, <1>2, <2>1
  <2>3. x = Tail(s)[i - 1]
    BY <1>1, <1>2, <2>1, <2>2
  <2>4. QED
    BY <1>2, <2>2, <2>3 DEF Range
<1>6. QED
  BY <1>3, <1>4, <1>5
-----------------------------------------------------------------------------
(***************************************************************************)
(* The queue invariant is preserved by every step: only AddPendingJob and  *)
(* ConsumePendingJobFor touch the queue.                                   *)
(***************************************************************************)
LEMMA AddKeepsQueue ==
  ASSUME TypeOK, QueueMatchesMap, NEW k \in Jobs, AddPendingJob(k)
  PROVE  QueueMatchesMap'
<1> DEFINE w == WorkerOf[k]
<1>1. w \in Workers
  BY WorkerOfAssumption
<1>2. CASE k \in pendingJobs[w]
  BY <1>2 DEF AddPendingJob, QueueMatchesMap, queueVars
<1>3. CASE k \notin pendingJobs[w]
  <2>1. /\ pendingJobs' = [pendingJobs EXCEPT ![w] = @ \cup {k}]
        /\ jobsSequence' = [jobsSequence EXCEPT ![w] = Append(@, k)]
    BY <1>3 DEF AddPendingJob
  <2>2. /\ jobsSequence[w] \in Seq(Jobs)
        /\ Range(jobsSequence[w]) = pendingJobs[w]
        /\ IsInjective(jobsSequence[w])
    BY <1>1 DEF TypeOK, QueueMatchesMap
  <2>3. /\ Range(Append(jobsSequence[w], k)) = pendingJobs[w] \cup {k}
        /\ IsInjective(Append(jobsSequence[w], k))
    BY <1>3, <2>2, AppendFresh
  <2>4. /\ jobsSequence'[w] = Append(jobsSequence[w], k)
        /\ pendingJobs'[w] = pendingJobs[w] \cup {k}
        /\ \A v \in Workers \ {w} : /\ jobsSequence'[v] = jobsSequence[v]
                                    /\ pendingJobs'[v] = pendingJobs[v]
    BY <1>1, <2>1 DEF TypeOK
  <2> HIDE DEF w
  <2>5. ASSUME NEW v \in Workers
        PROVE  /\ Range(jobsSequence'[v]) = pendingJobs'[v]
               /\ IsInjective(jobsSequence'[v])
               /\ \A j \in pendingJobs'[v] : WorkerOf[j] = v
    <3>1. CASE v = w
      <4>1. \A j \in pendingJobs'[v] : WorkerOf[j] = v
        BY <1>1, <2>4, <3>1 DEF QueueMatchesMap, w
      <4>2. QED
        BY <2>3, <2>4, <3>1, <4>1
    <3>2. CASE v # w
      BY <2>4, <3>2 DEF QueueMatchesMap
    <3>3. QED
      BY <3>1, <3>2
  <2>6. QED
    BY <2>5 DEF QueueMatchesMap
<1>4. QED
  BY <1>2, <1>3

(* A consumption keeps the queue and hands out a pending job of its worker. *)
LEMMA ConsumeKeepsQueue ==
  ASSUME TypeOK, QueueMatchesMap,
         NEW w \in Workers, NEW k \in Jobs, ConsumePendingJobFor(w, k)
  PROVE  /\ QueueMatchesMap'
         /\ k \in pendingJobs[w]
         /\ WorkerOf[k] = w
<1>1. /\ jobsSequence[w] \in Seq(Jobs)
      /\ jobsSequence[w] # <<>>
      /\ Range(jobsSequence[w]) = pendingJobs[w]
      /\ IsInjective(jobsSequence[w])
      /\ k = Head(jobsSequence[w])
  BY DEF TypeOK, QueueMatchesMap, ConsumePendingJobFor
<1>2. /\ Range(Tail(jobsSequence[w])) = pendingJobs[w] \ {k}
      /\ IsInjective(Tail(jobsSequence[w]))
  BY <1>1, TailWithoutDuplicates
<1>3. k \in Range(jobsSequence[w])
  <2>1. Head(jobsSequence[w]) = jobsSequence[w][1] /\ 1 \in DOMAIN jobsSequence[w]
    BY <1>1, LenProperties, EmptySeq
  <2>2. QED
    BY <1>1, <2>1 DEF Range
<1>4. /\ jobsSequence'[w] = Tail(jobsSequence[w])
      /\ pendingJobs'[w] = pendingJobs[w] \ {k}
      /\ \A v \in Workers \ {w} : /\ jobsSequence'[v] = jobsSequence[v]
                                  /\ pendingJobs'[v] = pendingJobs[v]
  BY DEF TypeOK, ConsumePendingJobFor
<1>5. ASSUME NEW v \in Workers
      PROVE  /\ Range(jobsSequence'[v]) = pendingJobs'[v]
             /\ IsInjective(jobsSequence'[v])
             /\ \A j \in pendingJobs'[v] : WorkerOf[j] = v
  <2>1. CASE v = w
    BY <1>2, <1>4, <2>1 DEF QueueMatchesMap
  <2>2. CASE v # w
    BY <1>4, <2>2 DEF QueueMatchesMap
  <2>3. QED
    BY <2>1, <2>2
<1>6. QED
  BY <1>1, <1>3, <1>5 DEF QueueMatchesMap
-----------------------------------------------------------------------------
(***************************************************************************)
(* A process that has a request in flight is waiting for its answer, and a *)
(* process that waits has no job.  With the queue invariant this makes     *)
(* WorksOnOwnJobs inductive.                                               *)
(***************************************************************************)
RequestsOpen ==
    \A p \in Procs :
        /\ Live(p) \in requests => p \in waiting
        /\ p \in waiting => working[p] = NoJob

IInv == TypeOK /\ QueueMatchesMap /\ RequestsOpen /\ WorksOnOwnJobs

(* A live request determines its sender and is never a stale one. *)
LEMMA LiveProps ==
  \A p, q \in Procs :
     /\ Live(p) \in Requests /\ Stale(p) \in Requests
     /\ Live(p) # Stale(q)
     /\ Live(p) = Live(q) => p = q
     /\ Live(p).live /\ Live(p).from = p
BY DEF Live, Stale, Requests

(* Every live request is the one its sender has in flight. *)
LEMMA LiveRequest ==
  ASSUME NEW r \in Requests, r.live
  PROVE  r.from \in Procs /\ r = Live(r.from)
BY DEF Live, Requests

(* The inductive invariant holds of an empty queue and idle processes. *)
LEMMA InitIInv == Init => IInv
<1> SUFFICES ASSUME Init PROVE IInv
  OBVIOUS
<1>1. TypeOK
  BY MaxLossesAssumption DEF Init, TypeOK
<1>2. QueueMatchesMap
  BY DEF Init, QueueMatchesMap, Range, IsInjective
<1>3. RequestsOpen /\ WorksOnOwnJobs
  BY DEF Init, RequestsOpen, WorksOnOwnJobs
<1>4. QED
  BY <1>1, <1>2, <1>3 DEF IInv

(* Every step of the queue, the network and the processes preserves it. *)
LEMMA StepIInv == IInv /\ [Next]_vars /\ TypeOK' => IInv'
<1> SUFFICES ASSUME IInv, [Next]_vars, TypeOK' PROVE IInv'
  OBVIOUS
<1> USE DEF IInv, TypeOK
<1>1. ASSUME NEW k \in Jobs, AddPendingJob(k) PROVE IInv'
  <2>1. QueueMatchesMap'
    BY <1>1, AddKeepsQueue
  <2>2. RequestsOpen' /\ WorksOnOwnJobs'
    BY <1>1 DEF AddPendingJob, RequestsOpen, WorksOnOwnJobs
  <2>3. QED
    BY <2>1, <2>2
<1>2. ASSUME NEW p \in Procs, Ask(p) PROVE IInv'
  <2>1. QueueMatchesMap'
    BY <1>2 DEF Ask, queueVars, QueueMatchesMap
  <2>2. RequestsOpen' /\ WorksOnOwnJobs'
    BY <1>2, LiveProps DEF Ask, RequestsOpen, WorksOnOwnJobs
  <2>3. QED
    BY <2>1, <2>2
<1>3. ASSUME NEW p \in Procs, GiveUpInFlight(p) PROVE IInv'
  <2>1. QueueMatchesMap'
    BY <1>3 DEF GiveUpInFlight, queueVars, QueueMatchesMap
  <2>2. RequestsOpen' /\ WorksOnOwnJobs'
    BY <1>3, LiveProps DEF GiveUpInFlight, RequestsOpen, WorksOnOwnJobs
  <2>3. QED
    BY <2>1, <2>2
<1>4. ASSUME NEW p \in Procs, GiveUpLost(p) PROVE IInv'
  <2>1. QueueMatchesMap'
    BY <1>4 DEF GiveUpLost, queueVars, QueueMatchesMap
  <2>2. RequestsOpen' /\ WorksOnOwnJobs'
    BY <1>4, LiveProps DEF GiveUpLost, RequestsOpen, WorksOnOwnJobs
  <2>3. QED
    BY <2>1, <2>2
<1>5. ASSUME NEW p \in Procs, FinishJob(p) PROVE IInv'
  <2>1. QueueMatchesMap'
    BY <1>5 DEF FinishJob, queueVars, QueueMatchesMap
  <2>2. RequestsOpen' /\ WorksOnOwnJobs'
    BY <1>5 DEF FinishJob, RequestsOpen, WorksOnOwnJobs
  <2>3. QED
    BY <2>1, <2>2
<1>6. ASSUME NEW p \in Procs, NEW k \in Jobs, ReplyJob(p, k) PROVE IInv'
  <2>1. Serves[p] \in Workers /\ ConsumePendingJobFor(Serves[p], k)
    BY <1>6, ServesAssumption DEF ReplyJob
  <2>2. QueueMatchesMap' /\ WorkerOf[k] = Serves[p]
    BY <2>1, ConsumeKeepsQueue
  <2>3. RequestsOpen'
    BY <1>6, LiveProps DEF ReplyJob, RequestsOpen
  <2>4. WorksOnOwnJobs'
    BY <1>6, <2>2, LiveProps DEF ReplyJob, RequestsOpen, WorksOnOwnJobs
  <2>5. QED
    BY <2>2, <2>3, <2>4
<1>7. ASSUME NEW r \in Requests, NEW k \in Jobs, ReplyJobInVain(r, k) PROVE IInv'
  <2>1. Serves[r.from] \in Workers /\ ConsumePendingJobFor(Serves[r.from], k)
    BY <1>7, ServesAssumption DEF ReplyJobInVain, Requests
  <2>2. QueueMatchesMap'
    BY <2>1, ConsumeKeepsQueue
  <2>3. RequestsOpen' /\ WorksOnOwnJobs'
    BY <1>7 DEF ReplyJobInVain, RequestsOpen, WorksOnOwnJobs
  <2>4. QED
    BY <2>2, <2>3
<1>8. ASSUME NEW r \in Requests, ReplyNoPendingJob(r) PROVE IInv'
  <2>1. QueueMatchesMap'
    BY <1>8 DEF ReplyNoPendingJob, queueVars, QueueMatchesMap
  <2>2. RequestsOpen' /\ WorksOnOwnJobs'
    <3>1. \A p \in Procs : Live(p) \in requests' => Live(p) \in requests /\ Live(p) # r
      BY <1>8 DEF ReplyNoPendingJob
    <3>2. \A p \in Procs : p \in waiting /\ p \notin waiting' => r = Live(p)
      BY <1>8, LiveRequest DEF ReplyNoPendingJob
    <3>3. waiting' \subseteq waiting /\ working' = working
      BY <1>8 DEF ReplyNoPendingJob
    <3>4. QED
      BY <3>1, <3>2, <3>3 DEF RequestsOpen, WorksOnOwnJobs
  <2>3. QED
    BY <2>1, <2>2
<1>9. ASSUME NEW r \in Requests, LoseRequest(r) PROVE IInv'
  <2>1. QueueMatchesMap'
    BY <1>9 DEF LoseRequest, queueVars, QueueMatchesMap
  <2>2. RequestsOpen' /\ WorksOnOwnJobs'
    BY <1>9 DEF LoseRequest, RequestsOpen, WorksOnOwnJobs
  <2>3. QED
    BY <2>1, <2>2
<1>10. CASE UNCHANGED vars
  BY <1>10 DEF vars, QueueMatchesMap, RequestsOpen, WorksOnOwnJobs
<1>11. QED
  BY <1>1, <1>2, <1>3, <1>4, <1>5, <1>6, <1>7, <1>8, <1>9, <1>10 DEF Next

(* Hence it holds in every reachable state. *)
LEMMA Invariance == Spec => []IInv
<1>1. IInv /\ [Next]_vars => IInv'
  BY StepIInv, TypeStep DEF IInv
<1>2. QED
  BY InitIInv, <1>1, PTL DEF Spec

(***************************************************************************)
(* The map of pending jobs and the FIFO list of every worker agree.        *)
(***************************************************************************)
THEOREM QueueCorrect == Spec => []QueueMatchesMap
BY Invariance, PTL DEF IInv

(***************************************************************************)
(* No process works on a job of another worker, or on the answer to a      *)
(* request while it has another one open.                                  *)
(***************************************************************************)
THEOREM WorkersCorrect == Spec => []WorksOnOwnJobs
BY Invariance, PTL DEF IInv
-----------------------------------------------------------------------------
(***************************************************************************)
(* The queue changes by a posting or by a consumption, or not at all.      *)
(***************************************************************************)
LEMMA QueueSteps ==
  ASSUME IInv, [Next]_vars
  PROVE  \/ \E k \in Jobs : AddPendingJob(k)
         \/ \E w \in Workers, k \in Jobs : ConsumePendingJobFor(w, k)
         \/ UNCHANGED queueVars
<1>1. \A p \in Procs : Serves[p] \in Workers
  BY ServesAssumption
<1>2. \A r \in Requests : Serves[r.from] \in Workers
  BY <1>1 DEF Requests
<1>3. QED
  BY <1>1, <1>2 DEF Next, Ask, GiveUpInFlight, GiveUpLost, FinishJob, ReplyJob,
     ReplyJobInVain, ReplyNoPendingJob, LoseRequest, vars, queueVars

(* A posting adds its job to the map of its worker and to no other map. *)
LEMMA AddGrows ==
  ASSUME IInv, NEW k \in Jobs, AddPendingJob(k)
  PROVE  \A v \in Workers :
            pendingJobs'[v] = IF v = WorkerOf[k] THEN pendingJobs[v] \cup {k} ELSE pendingJobs[v]
<1>1. WorkerOf[k] \in Workers
  BY WorkerOfAssumption
<1>2. CASE k \in pendingJobs[WorkerOf[k]]
  BY <1>2 DEF AddPendingJob, queueVars
<1>3. CASE k \notin pendingJobs[WorkerOf[k]]
  <2>1. pendingJobs' = [pendingJobs EXCEPT ![WorkerOf[k]] = @ \cup {k}]
    BY <1>3 DEF AddPendingJob
  <2>2. QED
    BY <1>1, <2>1 DEF IInv, TypeOK
<1>4. QED
  BY <1>2, <1>3

(***************************************************************************)
(* Jobs leave the queue of a worker in the order in which they entered it. *)
(***************************************************************************)
THEOREM FifoCorrect == Spec => FirstInFirstOut
<1>1. ASSUME IInv, [Next]_vars PROVE StaysIfOlderStays
  <2> SUFFICES ASSUME NEW w \in Workers, NEW i \in DOMAIN jobsSequence[w],
                      NEW j \in DOMAIN jobsSequence[w], i < j,
                      jobsSequence[w][i] \in pendingJobs'[w]
               PROVE  jobsSequence[w][j] \in pendingJobs'[w]
    BY DEF StaysIfOlderStays
  <2>1. jobsSequence[w][j] \in pendingJobs[w]
    BY <1>1 DEF IInv, QueueMatchesMap, Range
  <2>2. CASE \E k \in Jobs : AddPendingJob(k)
    <3>1. pendingJobs[w] \subseteq pendingJobs'[w]
      BY <1>1, <2>2, AddGrows
    <3>2. QED
      BY <2>1, <3>1
  <2>3. ASSUME NEW v \in Workers, NEW k \in Jobs, ConsumePendingJobFor(v, k)
        PROVE  jobsSequence[w][j] \in pendingJobs'[w]
    <3>1. CASE v # w
      BY <1>1, <2>1, <2>3, <3>1 DEF ConsumePendingJobFor, IInv, TypeOK
    <3>2. CASE v = w
      <4>1. /\ jobsSequence[w] \in Seq(Jobs)
            /\ IsInjective(jobsSequence[w])
        BY <1>1 DEF IInv, TypeOK, QueueMatchesMap
      <4>2. /\ DOMAIN jobsSequence[w] = 1 .. Len(jobsSequence[w])
            /\ Len(jobsSequence[w]) \in Nat
        BY <4>1, LenProperties
      <4>3. k = jobsSequence[w][1] /\ pendingJobs'[w] = pendingJobs[w] \ {k}
        BY <1>1, <2>3, <3>2, <4>1 DEF ConsumePendingJobFor, IInv, TypeOK
      <4>4. 1 \in DOMAIN jobsSequence[w] /\ j # 1
        BY <4>2
      <4>5. jobsSequence[w][j] # k
        BY <4>1, <4>3, <4>4 DEF IsInjective
      <4>6. QED
        BY <2>1, <4>3, <4>5
    <3>3. QED
      BY <3>1, <3>2
  <2>4. CASE UNCHANGED queueVars
    BY <2>1, <2>4 DEF queueVars
  <2>5. QED
    BY <1>1, <2>2, <2>3, <2>4, QueueSteps
<1>2. QED
  BY <1>1, Invariance, PTL DEF FirstInFirstOut, Spec
-----------------------------------------------------------------------------
(***************************************************************************)
(* Seen through the refinement mapping, a posting adds its job and a       *)
(* consumption removes exactly the job it hands out.                       *)
(***************************************************************************)
LEMMA AddPosts ==
  ASSUME IInv, NEW k \in Jobs, AddPendingJob(k)
  PROVE  Abstract!Post(k)
<1>1. WorkerOf[k] \in Workers
  BY WorkerOfAssumption
<1>2. Pending' = Pending \cup {k}
  <2>1. \A v \in Workers : pendingJobs'[v] =
           IF v = WorkerOf[k] THEN pendingJobs[v] \cup {k} ELSE pendingJobs[v]
    BY AddGrows
  <2>2. \A x : x \in Pending' <=> \E v \in Workers : x \in pendingJobs'[v]
    BY DEF Pending
  <2>3. \A x : x \in Pending <=> \E v \in Workers : x \in pendingJobs[v]
    BY DEF Pending
  <2>4. ASSUME NEW x PROVE x \in Pending' <=> x \in Pending \/ x = k
    <3>1. \A v \in Workers : x \in pendingJobs'[v]
             <=> x \in pendingJobs[v] \/ (v = WorkerOf[k] /\ x = k)
      BY <2>1
    <3>2. QED
      BY <1>1, <2>2, <2>3, <3>1
  <2>5. QED
    BY <2>4
<1>3. QED
  BY <1>2 DEF Abstract!Post, AddPendingJob

(* A consumption removes from the pending jobs the one it hands out. *)
LEMMA ConsumeRemoves ==
  ASSUME IInv, NEW w \in Workers, NEW k \in Jobs, ConsumePendingJobFor(w, k)
  PROVE  /\ k \in Pending
         /\ Pending' = Pending \ {k}
<1>1. k \in pendingJobs[w] /\ WorkerOf[k] = w
  BY ConsumeKeepsQueue DEF IInv
<1>2. \A v \in Workers \ {w} : k \notin pendingJobs[v]
  BY <1>1 DEF IInv, QueueMatchesMap
<1>3. pendingJobs'[w] = pendingJobs[w] \ {k}
  BY DEF ConsumePendingJobFor, IInv, TypeOK
<1>4. \A v \in Workers \ {w} : pendingJobs'[v] = pendingJobs[v]
  BY DEF ConsumePendingJobFor, IInv, TypeOK
<1>5. QED
  BY <1>1, <1>2, <1>3, <1>4 DEF Pending

(* What leaves the queue alone leaves the abstract set of pending jobs alone. *)
LEMMA PendingUnchanged == UNCHANGED queueVars => Pending' = Pending
BY DEF queueVars, Pending

(***************************************************************************)
(* The queue, its two structures and the request protocol implement the    *)
(* set of pending jobs: initial states map to initial states and every     *)
(* step to a step or a stutter.                                            *)
(***************************************************************************)
THEOREM Implements == Spec => Abstract!Init /\ [][Abstract!Next]_(Abstract!vars)
<1>1. Init => Abstract!Init
  BY DEF Init, Abstract!Init, Pending
<1>2. IInv /\ [Next]_vars => [Abstract!Next]_(Abstract!vars)
  <2> SUFFICES ASSUME IInv, [Next]_vars PROVE [Abstract!Next]_(Abstract!vars)
    OBVIOUS
  <2>1. ASSUME NEW k \in Jobs, AddPendingJob(k) PROVE Abstract!Next
    BY <2>1, AddPosts DEF Abstract!Next
  <2>2. ASSUME NEW p \in Procs, NEW k \in Jobs, ReplyJob(p, k) PROVE Abstract!Next
    <3>1. Serves[p] \in Workers
      BY ServesAssumption
    <3>2. k \in Pending /\ Pending' = Pending \ {k}
      BY <2>2, <3>1, ConsumeRemoves DEF ReplyJob
    <3>3. working[p] = NoJob
      BY <2>2 DEF ReplyJob, IInv, RequestsOpen
    <3>4. Abstract!Take(p, k)
      BY <2>2, <3>2, <3>3 DEF ReplyJob, Abstract!Take
    <3>5. QED
      BY <3>4 DEF Abstract!Next
  <2>3. ASSUME NEW r \in Requests, NEW k \in Jobs, ReplyJobInVain(r, k) PROVE Abstract!Next
    <3>1. Serves[r.from] \in Workers
      BY ServesAssumption DEF Requests
    <3>2. k \in Pending /\ Pending' = Pending \ {k}
      BY <2>3, <3>1, ConsumeRemoves DEF ReplyJobInVain
    <3>3. Abstract!Lose(k)
      BY <2>3, <3>2 DEF ReplyJobInVain, Abstract!Lose
    <3>4. QED
      BY <3>3 DEF Abstract!Next
  <2>4. ASSUME NEW p \in Procs, FinishJob(p) PROVE Abstract!Next
    <3>1. Abstract!Finish(p)
      BY <2>4, PendingUnchanged DEF FinishJob, Abstract!Finish
    <3>2. QED
      BY <3>1 DEF Abstract!Next
  <2>5. ASSUME UNCHANGED <<queueVars, working>> PROVE UNCHANGED Abstract!vars
    BY <2>5, PendingUnchanged DEF Abstract!vars
  <2>6. ASSUME NEW p \in Procs, Ask(p) \/ GiveUpInFlight(p) \/ GiveUpLost(p)
        PROVE UNCHANGED Abstract!vars
    BY <2>5, <2>6 DEF Ask, GiveUpInFlight, GiveUpLost
  <2>7. ASSUME NEW r \in Requests, ReplyNoPendingJob(r) \/ LoseRequest(r)
        PROVE UNCHANGED Abstract!vars
    BY <2>5, <2>7 DEF ReplyNoPendingJob, LoseRequest
  <2>8. CASE UNCHANGED vars
    BY <2>5, <2>8 DEF vars, queueVars
  <2>9. QED
    BY <2>1, <2>2, <2>3, <2>4, <2>6, <2>7, <2>8 DEF Next
<1>3. QED
  BY <1>1, <1>2, Invariance, PTL DEF Spec
=============================================================================

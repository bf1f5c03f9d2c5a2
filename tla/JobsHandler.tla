---------------------------- MODULE JobsHandler ----------------------------
(***************************************************************************)
(* The pending synchronisation jobs of the idpoller                        *)
(* (backend/workers/go.remoteIDs/jobs.go) and the request/reply protocol   *)
(* with which the imap, twitter and mastodon worker processes fetch them   *)
(* (messaging.go, protocols/go.imap/worker.go).                            *)
(*                                                                         *)
(* A cron entry posts its job (Job.Run); a process asks for one with a     *)
(* NATS request that times out after a minute; the idpoller removes the    *)
(* oldest job of that worker's queue and sends it as the reply.  Core NATS *)
(* delivers at most once, so a request or a reply may be lost, and a       *)
(* request may be handled after the process that sent it gave up on it.    *)
(***************************************************************************)
EXTENDS Naturals, Sequences, Functions

CONSTANTS Workers,   \* the kinds of worker: "imap", "twitter", "mastodon"
          Jobs,      \* the jobs, one per identity: the hash of user, identity and order
          WorkerOf,  \* the worker a job is for (buildSyncJob)
          Procs,     \* the worker processes
          Serves,    \* the kind of worker each process is
          NoJob,
          MaxLosses  \* bound: how many requests are lost, late or answered in vain

ASSUME WorkerOfAssumption == WorkerOf \in [Jobs -> Workers]
ASSUME ServesAssumption == Serves \in [Procs -> Workers]
ASSUME NoJobAssumption == NoJob \notin Jobs
ASSUME MaxLossesAssumption == MaxLosses \in Nat

VARIABLES
    pendingJobs,   \* worker -> the keys of its map of pending jobs
    jobsSequence,  \* worker -> its FIFO list of job hashes
    requests,      \* the need_job requests in flight; one is live until its sender gives up
    waiting,       \* the processes blocked in NatsConn.Request
    working,       \* process -> the job natsMsgHandler is working on
    losses         \* how many times the network or the timeout has failed a request

queueVars == <<pendingJobs, jobsSequence>>
vars == <<pendingJobs, jobsSequence, requests, waiting, working, losses>>

Requests == [from : Procs, live : BOOLEAN]
Live(p) == [from |-> p, live |-> TRUE]
Stale(p) == [from |-> p, live |-> FALSE]

Init ==
    /\ pendingJobs = [w \in Workers |-> {}]
    /\ jobsSequence = [w \in Workers |-> <<>>]
    /\ requests = {}
    /\ waiting = {}
    /\ working = [p \in Procs |-> NoJob]
    /\ losses = 0
-----------------------------------------------------------------------------
(***************************************************************************)
(* The queue.                                                              *)
(***************************************************************************)

\* Mutant of AddPendingJob: the job is appended without the look-up in the map.
AddWithoutLookup(k) ==
    LET w == WorkerOf[k] IN
    /\ pendingJobs' = [pendingJobs EXCEPT ![w] = @ \cup {k}]
    /\ jobsSequence' = [jobsSequence EXCEPT ![w] = Append(@, k)]
    /\ UNCHANGED <<requests, waiting, working, losses>>

AddPendingJob(k) ==
    LET w == WorkerOf[k] IN
    /\ IF k \in pendingJobs[w]
       THEN UNCHANGED queueVars
       ELSE /\ pendingJobs' = [pendingJobs EXCEPT ![w] = @ \cup {k}]
            /\ jobsSequence' = [jobsSequence EXCEPT ![w] = Append(@, k)]
    /\ UNCHANGED <<requests, waiting, working, losses>>

\* Mutant of ConsumePendingJobFor: the list is truncated at the wrong end.
ConsumeLastIn(w, k) ==
    /\ jobsSequence[w] # <<>>
    /\ k = jobsSequence[w][Len(jobsSequence[w])]
    /\ pendingJobs' = [pendingJobs EXCEPT ![w] = @ \ {k}]
    /\ jobsSequence' = [jobsSequence EXCEPT ![w] = SubSeq(@, 1, Len(@) - 1)]

\* Mutant of ConsumePendingJobFor: the job is not deleted from the map.
ConsumeWithoutDelete(w, k) ==
    /\ jobsSequence[w] # <<>>
    /\ k = Head(jobsSequence[w])
    /\ jobsSequence' = [jobsSequence EXCEPT ![w] = Tail(@)]
    /\ UNCHANGED pendingJobs

\* Removes k, the first-in job of worker w; disabled when w has no job.
ConsumePendingJobFor(w, k) ==
    /\ jobsSequence[w] # <<>>
    /\ k = Head(jobsSequence[w])
    /\ pendingJobs' = [pendingJobs EXCEPT ![w] = @ \ {k}]
    /\ jobsSequence' = [jobsSequence EXCEPT ![w] = Tail(@)]
-----------------------------------------------------------------------------
(***************************************************************************)
(* The worker's polling loop.                                              *)
(***************************************************************************)
Ask(p) ==
    /\ working[p] = NoJob
    /\ p \notin waiting
    /\ waiting' = waiting \cup {p}
    /\ requests' = requests \cup {Live(p)}
    /\ UNCHANGED <<queueVars, working, losses>>

\* A failure the bound counts: of a request whose sender still awaits the answer.
Fail(r) ==
    IF r.live THEN losses < MaxLosses /\ losses' = losses + 1 ELSE UNCHANGED losses

\* The request times out while it is in flight: its answer will reach nobody.
GiveUpInFlight(p) ==
    /\ p \in waiting
    /\ Live(p) \in requests
    /\ Fail(Live(p))
    /\ waiting' = waiting \ {p}
    /\ requests' = (requests \ {Live(p)}) \cup {Stale(p)}
    /\ UNCHANGED <<queueVars, working>>

\* The request times out because it, or its answer, was lost.
GiveUpLost(p) ==
    /\ p \in waiting
    /\ Live(p) \notin requests
    /\ waiting' = waiting \ {p}
    /\ UNCHANGED <<queueVars, requests, working, losses>>

FinishJob(p) ==
    /\ working[p] # NoJob
    /\ working' = [working EXCEPT ![p] = NoJob]
    /\ UNCHANGED <<queueVars, requests, waiting, losses>>
-----------------------------------------------------------------------------
(***************************************************************************)
(* nats{Imap,Twitter,Mastodon}Handler on a need_job request.               *)
(***************************************************************************)
\* Mutant of ReplyJob: the handler of one worker consumes from another one's queue.
ReplyJobOfAnyWorker(p, k) ==
    /\ Live(p) \in requests
    /\ \E w \in Workers : ConsumePendingJobFor(w, k)
    /\ requests' = requests \ {Live(p)}
    /\ waiting' = waiting \ {p}
    /\ working' = [working EXCEPT ![p] = k]
    /\ UNCHANGED losses

ReplyJob(p, k) ==
    /\ Live(p) \in requests
    /\ ConsumePendingJobFor(Serves[p], k)
    /\ requests' = requests \ {Live(p)}
    /\ waiting' = waiting \ {p}
    /\ working' = [working EXCEPT ![p] = k]
    /\ UNCHANGED losses

\* The job is removed from the queue, but its reply is lost or nobody awaits it.
ReplyJobInVain(r, k) ==
    /\ r \in requests
    /\ Fail(r)
    /\ ConsumePendingJobFor(Serves[r.from], k)
    /\ requests' = requests \ {r}
    /\ UNCHANGED <<waiting, working>>

\* Mutant of ReplyNoPendingJob: the error is ignored and the zero Job is replied.
ReplyZeroJob(r) ==
    /\ r \in requests
    /\ jobsSequence[Serves[r.from]] = <<>>
    /\ requests' = requests \ {r}
    /\ waiting' = IF r.live THEN waiting \ {r.from} ELSE waiting
    /\ working' = IF r.live THEN [working EXCEPT ![r.from] = "zero Job"] ELSE working
    /\ UNCHANGED <<queueVars, losses>>

ReplyNoPendingJob(r) ==
    /\ r \in requests
    /\ jobsSequence[Serves[r.from]] = <<>>
    /\ requests' = requests \ {r}
    /\ waiting' = IF r.live THEN waiting \ {r.from} ELSE waiting
    /\ UNCHANGED <<queueVars, working, losses>>

LoseRequest(r) ==
    /\ r \in requests
    /\ Fail(r)
    /\ requests' = requests \ {r}
    /\ UNCHANGED <<queueVars, waiting, working>>
-----------------------------------------------------------------------------
Next ==
    \/ \E k \in Jobs : AddPendingJob(k)
    \/ \E p \in Procs : Ask(p)
    \/ \E p \in Procs : GiveUpInFlight(p)
    \/ \E p \in Procs : GiveUpLost(p)
    \/ \E p \in Procs : FinishJob(p)
    \/ \E p \in Procs, k \in Jobs : ReplyJob(p, k)
    \/ \E r \in Requests, k \in Jobs : ReplyJobInVain(r, k)
    \/ \E r \in Requests : ReplyNoPendingJob(r)
    \/ \E r \in Requests : LoseRequest(r)

HandleNeedJob(p) == ReplyNoPendingJob(Live(p)) \/ \E k \in Jobs : ReplyJob(p, k)

(***************************************************************************)
(* The cron table keeps posting every job it holds, a process that is idle *)
(* asks again (the loop of Worker.Start), a request that is lost times     *)
(* out, the idpoller handles a request it has received, and natsMsgHandler *)
(* returns.  Nothing is assumed of losses, late requests and late answers  *)
(* beyond their bound.                                                     *)
(***************************************************************************)
Fairness ==
    /\ \A k \in Jobs : WF_vars(AddPendingJob(k))
    /\ \A p \in Procs :
        /\ WF_vars(Ask(p))
        /\ WF_vars(HandleNeedJob(p))
        /\ WF_vars(GiveUpLost(p))
        /\ WF_vars(FinishJob(p))

Spec == Init /\ [][Next]_vars /\ Fairness
-----------------------------------------------------------------------------
(***************************************************************************)
(* Properties.                                                             *)
(***************************************************************************)
TypeOK ==
    /\ pendingJobs \in [Workers -> SUBSET Jobs]
    /\ jobsSequence \in [Workers -> Seq(Jobs)]
    /\ requests \subseteq Requests
    /\ waiting \subseteq Procs
    /\ working \in [Procs -> Jobs \cup {NoJob}]
    /\ losses \in 0..MaxLosses

(***************************************************************************)
(* The two structures of the handler agree: the list of a worker holds     *)
(* exactly the keys of its map, each of them once, and only jobs of that   *)
(* worker.  Otherwise ConsumePendingJobFor would hand out an empty job for *)
(* a hash without one, or a job would stay in the map for ever and never   *)
(* be posted again.                                                        *)
(***************************************************************************)
QueueMatchesMap ==
    \A w \in Workers :
        /\ Range(jobsSequence[w]) = pendingJobs[w]
        /\ IsInjective(jobsSequence[w])
        /\ \A k \in pendingJobs[w] : WorkerOf[k] = w

(***************************************************************************)
(* A process works on jobs of its own kind only, and never while a request *)
(* of its own is still open: a reply that comes late is not picked up.     *)
(***************************************************************************)
WorksOnOwnJobs ==
    \A p \in Procs : working[p] # NoJob =>
        /\ WorkerOf[working[p]] = Serves[p]
        /\ p \notin waiting
        /\ Live(p) \notin requests

(***************************************************************************)
(* "pending jobs are ordered in a FIFO list per each worker": no job       *)
(* leaves the queue while a job posted before it for the same worker stays.*)
(***************************************************************************)
StaysIfOlderStays ==
    \A w \in Workers : \A i, j \in DOMAIN jobsSequence[w] :
        i < j /\ jobsSequence[w][i] \in pendingJobs'[w]
          => jobsSequence[w][j] \in pendingJobs'[w]

FirstInFirstOut == [][StaysIfOlderStays]_vars

Pending == UNION {pendingJobs[w] : w \in Workers}
Abstract == INSTANCE PendingJobs WITH pending <- Pending

(***************************************************************************)
(* The queue, the request protocol and its failures implement the set of   *)
(* pending jobs, its fairness included: no job is starved by jobs that are *)
(* posted again and again before it is taken.                              *)
(***************************************************************************)
ImplementsPendingJobs == Abstract!Spec

(***************************************************************************)
(* Every identity that stays in the cron table is synchronised again and   *)
(* again, whatever the interleaving of ticks, requests, timeouts and lost  *)
(* replies.                                                                *)
(***************************************************************************)
EverySyncHappens == \A k \in Jobs : []<>(\E p \in Procs : working[p] = k)
=============================================================================

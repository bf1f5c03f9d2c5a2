---------------------------- MODULE PendingJobs ----------------------------
(***************************************************************************)
(* What the idpoller promises its protocol workers about the synchronisation *)
(* jobs its cron table posts: a job is pending or it is not (posting it    *)
(* twice before it is taken is posting it once), a process works on a job  *)
(* only if that job was pending, one posting is worked on at most once,    *)
(* and a pending job does not stay pending for ever.  Nothing is said of   *)
(* the order in which jobs are taken.                                      *)
(*                                                                         *)
(* JobsHandler implements this specification.                              *)
(***************************************************************************)
CONSTANTS Jobs,   \* the synchronisation jobs, one per remote identity
          Procs,  \* the processes that work on them
          NoJob   \* what a process that has no job works on

VARIABLES pending,  \* the posted jobs nobody has taken yet
          working   \* the job each process is working on

vars == <<pending, working>>

Init ==
    /\ pending = {}
    /\ working = [p \in Procs |-> NoJob]

Post(k) ==
    /\ pending' = pending \cup {k}
    /\ UNCHANGED working

Take(p, k) ==
    /\ k \in pending
    /\ working[p] = NoJob
    /\ pending' = pending \ {k}
    /\ working' = [working EXCEPT ![p] = k]

\* The answer that carried the job did not reach the process that asked.
Lose(k) ==
    /\ k \in pending
    /\ pending' = pending \ {k}
    /\ UNCHANGED working

Finish(p) ==
    /\ working[p] # NoJob
    /\ working' = [working EXCEPT ![p] = NoJob]
    /\ UNCHANGED pending

Next ==
    \/ \E k \in Jobs : Post(k) \/ Lose(k)
    \/ \E p \in Procs : Finish(p) \/ \E k \in Jobs : Take(p, k)

Leave(k) == Lose(k) \/ \E p \in Procs : Take(p, k)

Spec == Init /\ [][Next]_vars /\ \A k \in Jobs : WF_vars(Leave(k))
=============================================================================

--------------------------- MODULE MCJobsHandler ---------------------------
(* Two kinds of worker; two processes compete for the jobs of the first.   *)
EXTENDS JobsHandler, TLC

CONSTANTS imap, twitter, j1, j2, j3, p1, p2, p3

MCWorkers == {imap, twitter}
MCJobs == {j1, j2, j3}
MCWorkerOf == (j1 :> imap) @@ (j2 :> imap) @@ (j3 :> twitter)
MCProcs == {p1, p2, p3}
MCServes == (p1 :> imap) @@ (p2 :> imap) @@ (p3 :> twitter)
=============================================================================

----------------------------- MODULE MCTimeline -----------------------------
EXTENDS Timeline, TLC

CONSTANTS d1, d2

MCDiscussions == {d1, d2}

\* One message to begin with and two new ones, each with a notification of its own: the
\* second may be written, and read, before the first.
MCMailbox == d1 :> {1} @@ d2 :> {}
MCNotices == <<2, 3>>
=============================================================================

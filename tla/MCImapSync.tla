----------------------------- MODULE MCImapSync -----------------------------
EXTENDS ImapSync

CONSTANTS w1, w2, m1, m2

MCWorkers == {w1, w2}
MCMails == {m1, m2}
MCOneMail == {m1}
=============================================================================

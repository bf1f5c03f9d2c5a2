-------------------------- MODULE MCTwitterWorker --------------------------
EXTENDS TwitterWorker

CONSTANT t1

MCMessages == {t1}
MCTwice == <<t1, t1>>
=============================================================================

--------------------------- MODULE MCDraftMessage ---------------------------
EXTENDS DraftMessage

CONSTANTS t1, t2

MCTexts == {t1, t2}
=============================================================================

SPECIFICATION Spec
CONSTANTS
    t1 = t1
    t2 = t2
    Texts <- MCTexts
    Blank = Blank
    None = None
    MaxEdits = 2
    MaxCalls = 2
    MaxMounts = 2
    MaxFailures = 1
\* The user may close the scene and never open it again.
CHECK_DEADLOCK FALSE
INVARIANTS
    TypeOK
    SentIsClicked
    MailedOnce
    ShownIsStored
PROPERTIES
    DeletedStaysDeleted
    EditIsSaved
    SendSettles

SPECIFICATION Spec
CONSTANTS
    d1 = d1
    d2 = d2
    Discussions <- MCDiscussions
    Mailbox <- MCMailbox
    Notices <- MCNotices
    PageSize = 1
    None = None
    MaxMessages = 3
    MaxPolls = 1
    MaxOpenings = 2
    MaxClicks = 1
    MaxFailures = 1
INVARIANTS
    TypeOK
    ListedIsKnown
    ShownIsServed
PROPERTIES
    InvalidatedIsFetched
    NewMailIsShown

SPECIFICATION Spec
CONSTANTS
    t1 = t1
    Messages <- MCMessages
    MessageOf <- MCTwice
    Nobody = Nobody
    EgressSize = 1
    DeskSize = 1
    MaxHandlers = 2
    MaxFailures = 1
INVARIANTS
    TypeOK
    RegisteredIsOpen
    SentOnce
PROPERTIES
    DeliveriesAreAnswered
    PollsGoOn

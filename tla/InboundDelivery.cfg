SPECIFICATION Spec
CONSTANTS
    u1 = u1
    d1 = d1
    d2 = d2
    Users <- MCUsers
    Deliveries <- MCDeliveries
    Smtp = {d1}
    Rcpts <- MCRcpts
    LdaTimeout = 2
    AckLimit = 1
    Threshold = 20
    Processes = 1
    MaxFailures = 1
CHECK_DEADLOCK FALSE
INVARIANTS
    TypeOK
    AckedIsStored
    StoredOnce
    PanicIsSmtp
PROPERTY
    DeliveryEnds

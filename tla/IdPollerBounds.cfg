SPECIFICATION Spec
CONSTANTS
    a = a
    s1 = s1
    i0 = i0
    i10 = i10
    i15 = i15
    bad = bad
    Ids <- MCIds
    Pollable <- MCIds
    Intervals <- MCIntervals
    Unparsable <- MCUnparsable
    OutOfRange <- MCOutOfRange
    DefaultInterval = i15
    RateLimited = i10
    Zero = i0
    FullSync = FullSync
    Syncers <- MCSyncers
    Unset = Unset
    Nobody = Nobody
    None = None
    MaxOps = 1
    MaxFailures = 0
INVARIANT
    PollsWithinBounds

SPECIFICATION FairSpec
CONSTANTS
    Orgs = {o1, o2}
    NULL = NULL
    LastDay = 2
    MaxInFlight = 1
    MaxRequests = 4
    MaxFailures = 1
INVARIANT IInv
INVARIANT NotLost
INVARIANT Once
PROPERTY Reminded

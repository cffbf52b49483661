SPECIFICATION FairSpec
CONSTANTS
    NULL = NULL
    Idle = 2
    b1 = b1
    b2 = b2
    r1 = r1
    r2 = r2
    r3 = r3
    Branches <- MCBranches
    Requests <- MCRequests
INVARIANTS IInv InUse NoOtherLeak
PROPERTY Closed

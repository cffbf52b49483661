SPECIFICATION Spec
CONSTANTS
    Blocks = {b1, b2}
    Floors = {f1, f2, f3}
    Apartments = {a1, a2, a3, a4}
    b1=b1
    b2=b2
    f1=f1
    f2=f2
    f3=f3
    a1=a1
    a2=a2
    a3=a3
    a4=a4
    s1=s1
    s2=s2
    NULL = NULL
    Workloads <- MCWorkloads
    Slots = {s1, s2}
    Levels = {0, 1}
    Plans <- MCPlans
    Numbers = {0, 1, 2}
    MaxBulk = 2
    MaxDumps = 1
    Multiplier = 1
INVARIANT IInv
INVARIANT OneFloorPerLevel
INVARIANT HotspotHome
INVARIANT NumbersFree
INVARIANT DumpClosed
INVARIANT Restorable
PROPERTY RestoredWhole
CHECK_DEADLOCK FALSE

SPECIFICATION FairSpec
CONSTANTS
    NFiles = 2
    NTables = 2
    Boot = Boot
    m1 = m1
    m2 = m2
    MaxCrashes = 1
    MaxFailures = 1
    Size <- MCSize
    TableOf <- MCTableOf
    Guarded <- MCGuarded
    Refusable <- MCRefusable
    Manual <- MCManual
INVARIANT IInv
PROPERTIES Implements InOrder Converges
CHECK_DEADLOCK FALSE

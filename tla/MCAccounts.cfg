SPECIFICATION Spec
CONSTANTS
    Users = {adm, stf}
    Staff = {stf}
    adm = adm
    stf = stf
    Root = root
    NULL = NULL
    Notes = {n1, n2}
    Workloads <- MCWorkloads
    Slots = {s1, s2}
    MaxPasswords = 2
SYMMETRY MCSymmetry
INVARIANT IInv
INVARIANT GrantedOnce
INVARIANT OneOpen
INVARIANT ShutOut
INVARIANT OldPasswordDead
INVARIANT RightsKept
CHECK_DEADLOCK FALSE

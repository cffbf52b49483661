SPECIFICATION Spec
CONSTANTS
    Sockets = {s1, s2, s3}
    Branches = {b1}
    Apartments = {a1, a2}
    Users = {u1, u2}
    NULL = NULL
SYMMETRY MCSymmetry
INVARIANT IInv
INVARIANT NoGhost
INVARIANT Listed

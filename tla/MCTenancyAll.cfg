SPECIFICATION Spec
CONSTANTS
    Orgs = {o1}
    Branches = {b1}
    Blocks = {k1}
    Apartments = {a1}
    Clients = {c1}
    Users = {root, u1}
    Contracts = {x1}
    Root = root
    NULL = NULL
    Endpoints <- OneRowEndpoints
    MaxInFlight = 2
SYMMETRY MCSymmetry
INVARIANT IInv
\* The system may stop: every id has been given to a row and no request is left.
CHECK_DEADLOCK FALSE

SPECIFICATION Spec
CONSTANTS
    Orgs = {o1, o2}
    Branches = {b1, b2}
    Blocks = {k1}
    Apartments = {a1}
    Clients = {c1}
    Users = {root, u1, u2}
    Contracts = {x1}
    Root = root
    NULL = NULL
    Endpoints <- ContractEndpoints
    MaxInFlight = 2
SYMMETRY MCSymmetry
INVARIANT OrgRemovable
\* The system may stop: every id has been given to a row and no request is left.
CHECK_DEADLOCK FALSE

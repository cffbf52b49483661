SPECIFICATION Spec
CONSTANTS
    Orgs = {o1, o2}
    Branches = {b1, b2}
    Blocks = {}
    Apartments = {}
    Clients = {}
    Users = {root, u1, u2, u3}
    Contracts = {}
    Root = root
    NULL = NULL
    Endpoints <- UserEndpoints
    MaxInFlight = 2
SYMMETRY MCSymmetry
INVARIANT StaffHome
INVARIANT SuperadminFixed
PROPERTY Isolation
\* The system may stop: every id has been given to a row and no request is left.
CHECK_DEADLOCK FALSE

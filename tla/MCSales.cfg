SPECIFICATION Spec
CONSTANTS
    h = h
    o = o
    s1 = s1
    m2 = m2
    Apartments = {a1}
    Contracts = {x1}
    Orgs = {h, o}
    Staff = {s1}
    Admins = {m2}
    Supers = {r1}
    OrgOf <- MCOrgOf
    NULL = NULL
    Asked = {"for_sale", "sold"}
    MaxInFlight = 2
INVARIANT IInv
INVARIANT SellerFromHouse
INVARIANT LastTold
PROPERTY SaleKept
\* Every user and apartment may have been deleted.
CHECK_DEADLOCK FALSE

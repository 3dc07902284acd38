CONSTANTS
    k1 = k1  k2 = k2  alice = alice  bob = bob
    None = None  Absent = Absent
    Tabs = {"A", "B"}
    Tokens = {k1, k2}
    Owner <- TwoOwners
    Admins = {alice}
    MaxLoads = 2
    MaxReturns = 2
    Revisited = {"oauth_success", "login"}
SPECIFICATION Spec
CHECK_DEADLOCK FALSE
INVARIANTS
    TypeOK
    AuthenticatedHasBoth
PROPERTIES
    WritesAgree
    LoadingEnds

CONSTANTS
    Users = {1, 2}
    Admins = {1}
    Self = 1
    Found = {1}
    Sizes = {1}
    DefaultSize = 1
    MaxPage = 2
    MaxCalls = 3
    SessionIds = {1, 2}
    PageSize = 1
    MaxRemovals = 1
    None = None
SPECIFICATION Spec
CHECK_DEADLOCK FALSE
INVARIANTS
    TableIsAsked
    DeletedNotListed

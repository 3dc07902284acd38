CONSTANTS
    r1 = r1  r2 = r2  c1 = c1  c2 = c2  x1 = x1
    a1 = a1  a2 = a2  m1 = m1  m2 = m2
    None = None
    Requests = {r1}
    Cancels = {}
    Conns = {c1, c2}
    Admins = {a1, a2}
    Responses <- TwoHosts
    Meetings = {m1, m2}
    MeetingOf <- MCMeetingOf
    AdminMeeting <- TwoMeetings
    About <- MCAbout
    By <- MCBy
    Act <- MCAct
    MaxFaults = 1
    MaxCrashes = 1
SPECIFICATION Spec
SYMMETRY SocketSymmetry
CHECK_DEADLOCK FALSE
INVARIANTS
    HubHoldsLiveHandlers
    VerdictFromOwnHost
PROPERTY
    FollowsWaitingRoom

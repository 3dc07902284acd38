CONSTANTS
    r1 = r1  r2 = r2  c1 = c1  c2 = c2  x1 = x1
    a1 = a1  a2 = a2  m1 = m1  m2 = m2
    None = None
    Requests = {r1}
    Cancels = {}
    Conns = {c1}
    Admins = {a1, a2}
    Responses <- TwoTabs
    Meetings = {m1}
    MeetingOf <- MCMeetingOf
    AdminMeeting <- OneMeeting
    About <- MCAbout
    By <- MCBy
    Act <- MCAct
    MaxFaults = 0
    MaxCrashes = 0
SPECIFICATION Spec
CHECK_DEADLOCK FALSE
INVARIANTS
    TypeOK
    IndexComplete
    EveryWaitingWasSent

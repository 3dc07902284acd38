CONSTANTS
    s1 = s1  s2 = s2  t1 = t1  t2 = t2  u1 = u1  u2 = u2
    st1 = st1  st2 = st2  d1 = d1  m1 = m1  m2 = m2
    p1 = p1  p2 = p2  p3 = p3
    None = None
    Sessions = {s1}
    Tracks = {t1}
    Users = {u1}
    Meetings = {m1, m2}
    Stops = {st1}
    Ends = {}
    Runs = {p1}
    Deletes = {d1}
    MaxIndex = 2
    MaxFaults = 1
    MaxCrashes = 1
    SessionOf <- MCSessionOf
    UserOf <- OneUser
    MeetingOf <- OneMeeting
    Doomed <- MCDoomed
SPECIFICATION FairSpec
CHECK_DEADLOCK FALSE
INVARIANT
    DeletedLeavesNoRows
PROPERTY
    CapturedMovesOn
    TranscribedMovesOn

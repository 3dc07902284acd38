CONSTANTS
    c1 = c1  c2 = c2  m1 = m1  m2 = m2
    None = None
    CamList <- TwoCameras
    MicList <- TwoMics
    MaxCalls = 3
SPECIFICATION Spec
CHECK_DEADLOCK FALSE
INVARIANTS
    TypeOK
    PreviewIsLive
    AskedOnlyAfterConsent
    OneAudioContext
    OnlyStraysRun
    HandsOverDevices
PROPERTY
    JoinSettles

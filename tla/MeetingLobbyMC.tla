--------------------------- MODULE MeetingLobbyMC ----------------------------
(* Small instances of the lobby page: two cameras, two microphones.        *)
EXTENDS MeetingLobby

CONSTANTS c1, c2, m1, m2

TwoCameras == <<c1, c2>>
TwoMics == <<m1, m2>>
=============================================================================

---------------------------- MODULE SummarizerMC -----------------------------
(***************************************************************************)
(* Small summarizers for TLC.                                              *)
(***************************************************************************)
EXTENDS SummarizerProperties

CONSTANTS s1, s2, t1, t2, u1, u2, st1, st2, d1, m1, m2, p1, p2, p3

(* The first track belongs to the first session, a second one to s2 if     *)
(* there is such a session.                                                *)
MCSessionOf == [t \in Tracks |-> IF t = t2 /\ s2 \in Sessions THEN s2 ELSE s1]

OneUser == [t \in Tracks |-> u1]

TwoUsers == [t \in Tracks |-> IF t = t2 THEN u2 ELSE u1]

OneMeeting == [h \in Sessions \cup Stops |-> m1]

(* The second session is of another meeting that nobody stops.             *)
TwoMeetings == [h \in Sessions \cup Stops |-> IF h = s2 THEN m2 ELSE m1]

(* Where no goroutines have met yet: the properties of such a run promise  *)
(* nothing beyond the state in which they do.                              *)
Unshared == shared = {}

MCDoomed == [d \in Deletes |-> s1]
=============================================================================

------------------------------- MODULE LobbyMC -------------------------------
(***************************************************************************)
(* Small lobbies for TLC.  A response is a record: the socket it came over,*)
(* the request it names and the decision it asks for.                      *)
(***************************************************************************)
EXTENDS LobbyProperties, TLC

CONSTANTS r1, r2, c1, c2, x1, a1, a2, m1, m2

Respond(a, r, d) == [by |-> a, about |-> r, act |-> d]

(* Two admin tabs of one meeting that decide differently on one request.   *)
TwoTabs == {Respond(a1, r1, "approved"), Respond(a2, r1, "rejected")}

(* One admin approves the one request.                                     *)
OneApproval == {Respond(a1, r1, "approved")}

(* The admin of r1's meeting approves it, that of another one rejects it.  *)
TwoHosts == {Respond(a1, r1, "approved"), Respond(a2, r1, "rejected")}

NoResponse == {}

MCMeetingOf == [r \in Requests |-> m1]

MCAbout == [p \in Workers |->
              CASE p \in Requests -> p
                [] p \in Responses -> p.about
                [] OTHER -> r1]

MCBy == [t \in Responses |-> t.by]

MCAct == [t \in Responses |-> t.act]

OneMeeting == [a \in Admins |-> m1]

(* The sockets of one visitor differ in nothing but their names.           *)
SocketSymmetry == Permutations(Conns)

TwoMeetings == [a \in Admins |-> IF a = a1 THEN m1 ELSE m2]
=============================================================================

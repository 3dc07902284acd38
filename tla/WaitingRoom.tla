----------------------------- MODULE WaitingRoom -----------------------------
(***************************************************************************)
(* What the lobby promises, without Redis, sockets or goroutines: someone  *)
(* asks to join and waits until the host of the meeting has answered.  An  *)
(* answer is heard, stored and told in that order, each at most once, and  *)
(* the answer of another host is never heard.                              *)
(***************************************************************************)
CONSTANTS
    Requests, Answers,
    About,  \* the request an answer is about
    Act,    \* what it answers, "approved" or "rejected"
    Own     \* the answers given by the host of the request's own meeting

VARIABLES
    stage,  \* of a request
    phase,  \* of an answer
    told    \* the answers the visitor of a request has been given

room == <<stage, phase, told>>

(* LobbyRequestStatus, for a request the store knows.                      *)
Statuses == {"pending", "approved", "rejected"}

RoomInit ==
    /\ stage = [r \in Requests |-> "new"]
    /\ phase = [t \in Answers |-> "none"]
    /\ told = [r \in Requests |-> {}]

(* A request is asked for once, and taken or refused.                      *)
Ask(r) ==
    /\ stage[r] = "new"
    /\ \E s \in {"pending", "absent"} : stage' = [stage EXCEPT ![r] = s]
    /\ UNCHANGED <<phase, told>>

Pass(t, p, q) == phase[t] = p /\ phase' = [phase EXCEPT ![t] = q]

(* An answer is heard if it is the host's and about a request in store.    *)
Hear(t) ==
    /\ Pass(t, "none", "heard")
    /\ t \in Own
    /\ stage[About[t]] \in Statuses
    /\ UNCHANGED <<stage, told>>

Ignore(t) == Pass(t, "none", "over") /\ UNCHANGED <<stage, told>>

(* The answer is stored, whatever has become of the request meanwhile.     *)
Store(t) ==
    /\ Pass(t, "heard", "stored")
    /\ stage[About[t]] # "new"
    /\ stage' = [stage EXCEPT ![About[t]] = Act[t]]
    /\ UNCHANGED told

GiveUp(t) == Pass(t, "heard", "over") /\ UNCHANGED <<stage, told>>

(* A stored answer is told to the visitor, or does not reach one.          *)
Tell(t) ==
    /\ Pass(t, "stored", "over")
    /\ told' = [told EXCEPT ![About[t]] = @ \cup {Act[t]}]
    /\ UNCHANGED stage

Miss(t) == Pass(t, "stored", "over") /\ UNCHANGED <<stage, told>>

(* A request leaves the store: cleaned up, cancelled or expired.           *)
Forget(r) ==
    /\ stage[r] \in Statuses
    /\ stage' = [stage EXCEPT ![r] = "absent"]
    /\ UNCHANGED <<phase, told>>

(* A crash ends every answer that is on its way.                           *)
Crash ==
    /\ phase' = [t \in Answers |->
                   IF phase[t] = "none" THEN "none" ELSE "over"]
    /\ UNCHANGED <<stage, told>>

RoomNext ==
    \/ \E r \in Requests : Ask(r) \/ Forget(r)
    \/ \E t \in Answers : Hear(t) \/ Ignore(t) \/ Store(t) \/ GiveUp(t)
                          \/ Tell(t) \/ Miss(t)
    \/ Crash

RoomSpec == RoomInit /\ [][RoomNext]_room
=============================================================================

----------------------------- MODULE SessionFlow -----------------------------
(***************************************************************************)
(* What the model of a session promises: "Status flow: STARTED -> CAPTURED *)
(* -> TRANSCRIBED -> NORMALIZED -> SUMMARIZED; on failure, status remains  *)
(* at the failed stage and the Error field is populated".  Nothing keeps   *)
(* two goroutines off one session; one they share is no longer bound.      *)
(***************************************************************************)
EXTENDS FiniteSets

CONSTANT Sessions

VARIABLES status, err

flow == <<status, err>>

(* The stage that follows.                                                 *)
After == [STARTED |-> "CAPTURED", CAPTURED |-> "TRANSCRIBED",
          TRANSCRIBED |-> "NORMALIZED", NORMALIZED |-> "SUMMARIZED"]

FlowInit == status = [s \in Sessions |-> "none"] /\ err = {}

Create(s) == /\ status[s] = "none"
             /\ status' = [status EXCEPT ![s] = "STARTED"]
             /\ UNCHANGED err

Advance(s) == /\ status[s] \in DOMAIN After
              /\ status' = [status EXCEPT ![s] = After[@]]
              /\ UNCHANGED err

Fail(s) == /\ status[s] \in DOMAIN After
           /\ err' = err \cup {s}
           /\ UNCHANGED status

Delete(s) == /\ status[s] \notin {"none", "shared"}
             /\ status' = [status EXCEPT ![s] = "none"]
             /\ err' = err \ {s}

Share(s) == /\ status' = [status EXCEPT ![s] = "shared"]
            /\ err' = err \ {s}

FlowNext == \E s \in Sessions :
    Create(s) \/ Advance(s) \/ Fail(s) \/ Delete(s) \/ Share(s)

FlowSpec == FlowInit /\ [][FlowNext]_flow
=============================================================================

------------------------------ MODULE DataPages ------------------------------
(***************************************************************************)
(* The pages that show stored rows, in one tab: one of them at a time is   *)
(* shown, and what the others asked for is still answered.                 *)
(***************************************************************************)
EXTENDS UsersPage, SessionPages

vars == <<users, sessions>>

Init == UsersInit /\ SessionsInit

(* The table is mounted when its page is opened and forgotten when another *)
(* page is, by a link or by a late deletion of a session.                  *)
ShowTable ==
    table' = IF at' # "users" THEN None ELSE IF at = "users" THEN table ELSE NewTable

Turn ==
    \/ \E page \in {"sessions", "users", "elsewhere"} : Visit(page, None)
    \/ at # "session" /\ \E id \in SessionIds : Visit("session", id)

Next ==
    \/ (Turn \/ SessionsStep) /\ ShowTable /\ UNCHANGED <<accounts, doomed>>
    \/ UsersStep /\ UNCHANGED sessions

Spec == Init /\ [][Next]_vars

-----------------------------------------------------------------------------
(* What was deleted is not listed again, neither by the table, once its    *)
(* last request was answered in turn, nor by the list that the deletion of *)
(* a session opens.                                                        *)
DeletedNotListed == DeletedUserNotListed /\ BroughtToFreshList
=============================================================================

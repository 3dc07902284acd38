----------------------------- MODULE LobbyProofs -----------------------------
(***************************************************************************)
(* Theorems about the lobby, for every number of requests, sockets, admins *)
(* and responses, refused commands and crashes included.                   *)
(***************************************************************************)
EXTENDS LobbyProperties, TLAPS

(* The initial state is well typed.                                        *)
LEMMA InitTypeOK == Init => TypeOK
  BY LobbyAssumption
     DEF Init, TypeOK, Procs, Workers, Cleaners, Labels, Decisions

USE DEF redis, hub, local, pages, env

(* Moving one handler to a label keeps pc well typed.                      *)
LEMMA GotoType ==
  ASSUME TypeOK, NEW p \in Procs, NEW l \in Labels, Goto(p, l)
  PROVE  pc' \in [Procs -> Labels]
  BY DEF TypeOK, Goto

(* So does moving a response and the admin's handler it runs in.           *)
LEMMA ReturnType ==
  ASSUME TypeOK, NEW t \in Responses, NEW k \in Labels, NEW l \in Labels,
         pc' = [pc EXCEPT ![t] = k, ![By[t]] = l]
  PROVE  pc' \in [Procs -> Labels]
  BY LobbyAssumption DEF TypeOK, Procs, Workers

(* A command that Redis takes or refuses keeps the count of faults typed.  *)
LEMMA RedisType ==
  ASSUME TypeOK, NEW ok \in BOOLEAN, Redis(ok)
  PROVE  faults' \in 0..MaxFaults
  BY LobbyAssumption DEF TypeOK, Redis

(* The POST handler keeps the state well typed.                            *)
LEMMA PostType ==
  ASSUME TypeOK, NEW r \in Requests, PostStep(r)
  PROVE  TypeOK'
<1>0. r \in Procs /\ {"sadd", "failed", "copy"} \subseteq Labels
  BY DEF Procs, Workers, Labels
<1>1. CASE PostSet(r)
  <2>1. PICK ok \in BOOLEAN :
          /\ Redis(ok)
          /\ status' = IF ok THEN [status EXCEPT ![r] = "pending"] ELSE status
          /\ Goto(r, IF ok THEN "sadd" ELSE "failed")
    BY <1>1 DEF PostSet
  <2>2. pc' \in [Procs -> Labels] /\ faults' \in 0..MaxFaults
    BY <1>0, <2>1, GotoType, RedisType
  <2> QED BY <1>1, <2>1, <2>2 DEF PostSet, TypeOK
<1>2. CASE PostAdd(r)
  <2>1. PICK ok \in BOOLEAN :
          /\ Redis(ok)
          /\ members' = IF ok THEN members \cup {r} ELSE members
          /\ Goto(r, IF ok THEN "copy" ELSE "failed")
    BY <1>2 DEF PostAdd
  <2>2. pc' \in [Procs -> Labels] /\ faults' \in 0..MaxFaults
    BY <1>0, <2>1, GotoType, RedisType
  <2> QED BY <1>2, <2>1, <2>2 DEF PostAdd, TypeOK
<1> QED BY <1>1, <1>2 DEF PostStep

(* CleanupLobbyRequest keeps the state well typed.  *)
LEMMA CleanupType ==
  ASSUME TypeOK, NEW p \in Cleaners, CleanupStep(p)
  PROVE  TypeOK'
<1>1. CASE CleanupGet(p)
  BY <1>1, LobbyAssumption
     DEF CleanupGet, TypeOK, Goto, Redis, Read, Procs, Workers, Cleaners, Labels, Decisions
<1>2. CASE CleanupSRem(p)
  BY <1>2, LobbyAssumption
     DEF CleanupSRem, TypeOK, Goto, Redis, Read, Procs, Workers, Cleaners, Labels, Decisions
<1>3. CASE CleanupDel(p)
  BY <1>3, LobbyAssumption
     DEF CleanupDel, TypeOK, Goto, Redis, Read, Procs, Workers, Cleaners, Labels, Decisions
<1> QED BY <1>1, <1>2, <1>3 DEF CleanupStep

(* HandleVisitor keeps the state well typed.  *)
LEMMA VisitorType ==
  ASSUME TypeOK, NEW c \in Conns, VisitorStep(c)
  PROVE  TypeOK'
<1>1. CASE VisitorGet(c)
  <2>1. pc' \in [Procs -> Labels]
    BY <1>1 DEF VisitorGet, TypeOK, Goto, Labels
  <2>2. sock' \in [Conns \cup Admins -> {"idle", "up", "down"}]
    BY <1>1 DEF VisitorGet, TypeOK
  <2>3. faults' \in 0..MaxFaults
    BY <1>1, RedisType DEF VisitorGet
  <2> QED BY <1>1, <2>1, <2>2, <2>3 DEF VisitorGet, TypeOK
<1>2. CASE VisitorRegister(c)
  BY <1>2, LobbyAssumption
     DEF VisitorRegister, TypeOK, Goto, Redis, Read, Procs, Workers, Cleaners, Labels, Decisions
<1>3. CASE VisitorUnregister(c)
  BY <1>3, LobbyAssumption
     DEF VisitorUnregister, TypeOK, Goto, Redis, Read, Procs, Workers, Cleaners, Labels, Decisions
<1>4. CASE VisitorRecheck(c)
  BY <1>4, LobbyAssumption
     DEF VisitorRecheck, TypeOK, Goto, Redis, Read, Procs, Workers, Cleaners, Labels, Decisions
<1> QED BY <1>1, <1>2, <1>3, <1>4 DEF VisitorStep

(* handleAdminRespond keeps the state well typed.  *)
LEMMA RespondType ==
  ASSUME TypeOK, NEW t \in Responses, RespondStep(t)
  PROVE  TypeOK'
<1>1. CASE UpdateGet(t)
  <2>1. PICK ok \in BOOLEAN :
          /\ Redis(ok)
          /\ IF Read(About[t], ok) # "absent"
             THEN Goto(t, "uset")
             ELSE pc' = [pc EXCEPT ![t] = "done", ![By[t]] = "reading"]
    BY <1>1 DEF UpdateGet
  <2>2. t \in Procs /\ {"uset", "done", "reading"} \subseteq Labels
    BY DEF Procs, Workers, Labels
  <2>3. pc' \in [Procs -> Labels]
    BY <2>1, <2>2, GotoType, ReturnType
  <2>4. faults' \in 0..MaxFaults
    BY <2>1, RedisType
  <2> QED BY <1>1, <2>3, <2>4 DEF UpdateGet, TypeOK
<1>2. CASE UpdateSet(t)
  <2>1. PICK ok \in BOOLEAN :
          /\ Redis(ok)
          /\ status' = IF ok THEN [status EXCEPT ![About[t]] = Act[t]] ELSE status
          /\ IF ok
             THEN Goto(t, IF Act[t] = "rejected" THEN "usrem" ELSE "vlook")
             ELSE pc' = [pc EXCEPT ![t] = "done", ![By[t]] = "reading"]
    BY <1>2 DEF UpdateSet
  <2>2. t \in Procs /\ {"usrem", "vlook", "done", "reading"} \subseteq Labels
    BY DEF Procs, Workers, Labels
  <2>3. pc' \in [Procs -> Labels]
    BY <2>1, <2>2, GotoType, ReturnType
  <2>4. faults' \in 0..MaxFaults
    BY <2>1, RedisType
  <2>5. status' \in [Requests -> Decisions \cup {"absent", "pending"}]
    BY <2>1, LobbyAssumption DEF TypeOK
  <2> QED BY <1>2, <2>3, <2>4, <2>5 DEF UpdateSet, TypeOK
<1>3. CASE UpdateSRem(t)
  BY <1>3, LobbyAssumption
     DEF UpdateSRem, TypeOK, Goto, Redis, Read, Procs, Workers, Cleaners, Labels, Decisions
<1>4. CASE VisitorLook(t)
  BY <1>4, LobbyAssumption
     DEF VisitorLook, TypeOK, Goto, Redis, Read, Procs, Workers, Cleaners, Labels, Decisions
<1>5. CASE VisitorWrite(t)
  <2>1. t \in Procs /\ "copy" \in Labels /\ About[t] \in Requests
    BY LobbyAssumption DEF Procs, Workers, Labels
  <2>2. pc' \in [Procs -> Labels]
    BY <1>5, <2>1, GotoType DEF VisitorWrite
  <2>3. vconn' \in [Responses -> Conns \cup {None}]
    BY <1>5 DEF VisitorWrite, TypeOK
  <2>4. got' \in [Requests -> SUBSET Decisions]
    <3>1. Act[t] \in Decisions
      BY LobbyAssumption
    <3>2. got' \in {got, [got EXCEPT ![About[t]] = @ \cup {Act[t]}]}
      BY <1>5 DEF VisitorWrite
    <3> QED BY <2>1, <3>1, <3>2 DEF TypeOK
  <2>5. visitors' \in [Requests -> Conns \cup {None}]
    BY <1>5, <2>1 DEF VisitorWrite, TypeOK
  <2> QED BY <1>5, <2>2, <2>3, <2>4, <2>5 DEF VisitorWrite, TypeOK
<1>6. CASE SleepEnds(t)
  BY <1>6, LobbyAssumption
     DEF SleepEnds, TypeOK, Goto, Redis, Read, Procs, Workers, Cleaners, Labels, Decisions
<1> QED BY <1>1, <1>2, <1>3, <1>4, <1>5, <1>6 DEF RespondStep


(* NotifyAdmins keeps the state well typed.                                *)
LEMMA NotifyType ==
  ASSUME TypeOK, NEW p \in Workers, NotifyStep(p)
  PROVE  TypeOK'
<1>1. CASE NotifyCopy(p)
  BY <1>1, LobbyAssumption DEF NotifyCopy, TypeOK, Goto, Procs, Labels
<1>2. ASSUME NEW a \in Admins, NotifyWrite(p, a)
      PROVE  TypeOK'
  <2>0. About[p] \in Requests /\ view[a] \subseteq Requests /\ sent[a] \subseteq Requests
    BY LobbyAssumption DEF TypeOK
  <2>1. view' \in [Admins -> SUBSET Requests]
    <3>1. Tell(p, a) \in SUBSET Requests
      BY <2>0 DEF Tell
    <3>2. view' \in {view, [view EXCEPT ![a] = Tell(p, a)]}
      BY <1>2 DEF NotifyWrite
    <3> QED BY <3>1, <3>2 DEF TypeOK
  <2>2. sent' \in [Admins -> SUBSET Requests]
    <3>1. sent' \in {sent, [sent EXCEPT ![a] = @ \cup {About[p]}]}
      BY <1>2 DEF NotifyWrite
    <3> QED BY <2>0, <3>1 DEF TypeOK
  <2>3. targets' \in [Workers -> SUBSET Admins] /\ admins' \subseteq Admins
    BY <1>2 DEF NotifyWrite, TypeOK
  <2> QED BY <1>2, <2>1, <2>2, <2>3 DEF NotifyWrite, TypeOK
<1>3. CASE NotifyEnd(p)
  <2>1. p \in Procs /\ {"done", "closed", "sleep", "cget", "reading"} \subseteq Labels
    BY DEF Procs, Labels
  <2>2. pc' \in [Procs -> Labels]
    <3>1. CASE p \in Requests \cup Cancels /\ Goto(p, "done")
      BY <3>1, <2>1, GotoType
    <3>2. CASE p \in Conns /\ Goto(p, "closed")
      BY <3>2, <2>1, GotoType
    <3>3. CASE p \in Responses /\ pc' = [pc EXCEPT
                 ![p] = IF Act[p] = "approved" THEN "sleep" ELSE "cget",
                 ![By[p]] = "reading"]
      BY <3>3, <2>1, ReturnType
    <3> QED BY <1>3, <3>1, <3>2, <3>3 DEF NotifyEnd
  <2> QED BY <1>3, <2>2 DEF NotifyEnd, TypeOK
<1> QED BY <1>1, <1>2, <1>3 DEF NotifyStep

(* HandleAdmin keeps the state well typed.                                 *)
LEMMA AdminType ==
  ASSUME TypeOK, NEW a \in Admins, AdminStep(a)
  PROVE  TypeOK'
<1>1. CASE AdminRegister(a)
  BY <1>1, LobbyAssumption
     DEF AdminRegister, TypeOK, Goto, Redis, Read, Procs, Workers, Cleaners, Labels, Decisions
<1>2. CASE AdminSMembers(a)
  BY <1>2, LobbyAssumption
     DEF AdminSMembers, TypeOK, Goto, Redis, Read, Procs, Workers, Cleaners, Labels, Decisions
<1>3. ASSUME NEW r \in Requests, AdminGet(a, r)
      PROVE  TypeOK'
  <2>1. faults' \in 0..MaxFaults
    BY <1>3, RedisType DEF AdminGet
  <2> QED BY <1>3, <2>1 DEF AdminGet, TypeOK
<1>4. CASE AdminSnapshot(a)
  BY <1>4, LobbyAssumption
     DEF AdminSnapshot, TypeOK, Goto, Redis, Read, Procs, Workers, Cleaners, Labels, Decisions
<1>5. CASE AdminUnregister(a)
  BY <1>5, LobbyAssumption
     DEF AdminUnregister, TypeOK, Goto, Redis, Read, Procs, Workers, Cleaners, Labels, Decisions
<1> QED BY <1>1, <1>2, <1>3, <1>4, <1>5 DEF AdminStep

(* The pages keep the state well typed.                                    *)
LEMMA PageType ==
  ASSUME TypeOK, PageStep
  PROVE  TypeOK'
<1>1. ASSUME NEW x \in Cancels, CancelGet(x)
      PROVE  TypeOK'
  <2>1. x \in Procs /\ "cget" \in Labels
    BY DEF Procs, Workers, Labels
  <2>2. pc' \in [Procs -> Labels] /\ faults' \in 0..MaxFaults
    BY <1>1, <2>1, GotoType, RedisType DEF CancelGet
  <2> QED BY <1>1, <2>2 DEF CancelGet, TypeOK
<1>2. ASSUME NEW c \in Conns, VisitorConnect(c)
      PROVE  TypeOK'
  BY <1>2 DEF VisitorConnect, TypeOK, Goto, Procs, Workers, Labels
<1>3. ASSUME NEW a \in Admins, AdminConnect(a)
      PROVE  TypeOK'
  BY <1>3 DEF AdminConnect, TypeOK, Goto, Procs, Labels
<1>4. ASSUME NEW s \in Conns \cup Admins, Drop(s)
      PROVE  TypeOK'
  BY <1>4 DEF Drop, TypeOK
<1>5. ASSUME NEW t \in Responses, RespondGet(t)
      PROVE  TypeOK'
  <2>1. t \in Procs /\ {"uget", "busy", "done"} \subseteq Labels
    BY DEF Procs, Workers, Labels
  <2>2. pc' \in [Procs -> Labels]
    BY <1>5, <2>1, GotoType, ReturnType DEF RespondGet
  <2>3. faults' \in 0..MaxFaults
    BY <1>5, RedisType DEF RespondGet
  <2>4. view' \in [Admins -> SUBSET Requests]
    BY <1>5, LobbyAssumption DEF RespondGet, TypeOK
  <2> QED BY <1>5, <2>2, <2>3, <2>4 DEF RespondGet, TypeOK
<1> QED BY <1>1, <1>2, <1>3, <1>4, <1>5 DEF PageStep

(* Every step keeps the state well typed.                                  *)
LEMMA NextTypeOK == TypeOK /\ [Next]_vars => TypeOK'
<1> SUFFICES ASSUME TypeOK, [Next]_vars
             PROVE  TypeOK'
  OBVIOUS
<1>1. CASE ServerStep
  BY <1>1, PostType, CleanupType, NotifyType, VisitorType, AdminType, RespondType
     DEF ServerStep
<1>2. CASE PageStep
  BY <1>2, PageType
<1>3. ASSUME NEW r \in Requests, KeyExpires(r)
      PROVE  TypeOK'
  BY <1>3 DEF KeyExpires, TypeOK
<1>4. ASSUME NEW m \in Meetings, SetExpires(m)
      PROVE  TypeOK'
  BY <1>4 DEF SetExpires, TypeOK
<1>5. CASE Crash
  BY <1>5, LobbyAssumption DEF Crash, TypeOK, Ended, Labels
<1>6. CASE UNCHANGED vars
  BY <1>6 DEF vars, TypeOK
<1> QED BY <1>1, <1>2, <1>3, <1>4, <1>5, <1>6 DEF Next

(* The state of the lobby is well typed in every reachable state.          *)
THEOREM TypeCorrect == Spec => []TypeOK
  BY InitTypeOK, NextTypeOK, PTL DEF Spec

-----------------------------------------------------------------------------
(* The stages of HandleAdmin between RegisterAdmin and UnregisterAdmin.    *)
Registered == {"smembers", "listing", "reading", "busy"}

(* A socket no page has opened has no handler.                             *)
IdleHasNoHandler ==
    \A s \in Conns \cup Admins : sock[s] = "idle" => pc[s] = "init"

(* A response is handled only once the handler of its socket has started.  *)
RespondingHasHandler ==
    \A t \in Responses : pc[t] # "init" => pc[By[t]] # "init"

HubInv == IdleHasNoHandler /\ RespondingHasHandler /\ HubHoldsLiveHandlers

(* The response t and the handler of its socket move together.             *)
Moves(t, k, l) == pc' = [pc EXCEPT ![t] = k, ![By[t]] = l]

(* What entering a response and returning from it to the read loop moves.  *)
LEMMA ReturnMoves ==
  ASSUME TypeOK, NEW t \in Responses, NEW k, NEW l, Moves(t, k, l)
  PROVE  /\ \A u \in Responses : pc'[u] = IF u = t THEN k ELSE pc[u]
         /\ \A p \in Requests \cup Cancels \cup Conns : pc'[p] = pc[p]
         /\ \A a \in Admins : pc'[a] = IF a = By[t] THEN l ELSE pc[a]
<1>1. /\ t \in Procs /\ By[t] \in Admins /\ By[t] \in Procs /\ t # By[t]
      /\ t \notin Requests \cup Cancels \cup Conns \cup Admins
      /\ By[t] \notin Workers
  BY LobbyAssumption DEF Procs, Workers
<1>2. /\ pc'[t] = k /\ pc'[By[t]] = l
      /\ \A p \in Procs \ {t, By[t]} : pc'[p] = pc[p]
  BY <1>1 DEF TypeOK, Moves
<1>3. ASSUME NEW u \in Responses
      PROVE  pc'[u] = IF u = t THEN k ELSE pc[u]
  BY <1>1, <1>2 DEF Procs, Workers
<1>4. ASSUME NEW p \in Requests \cup Cancels \cup Conns
      PROVE  pc'[p] = pc[p]
  BY <1>1, <1>2 DEF Procs, Workers
<1>5. ASSUME NEW a \in Admins
      PROVE  pc'[a] = IF a = By[t] THEN l ELSE pc[a]
  BY <1>1, <1>2 DEF Procs
<1> QED BY <1>3, <1>4, <1>5

(* A step keeps HubInv when it only empties the hub, opens no socket, and  *)
(* no handler starts or leaves the stages in which it is registered.       *)
LEMMA HubFrame ==
  ASSUME TypeOK, HubInv,
         \A r \in Requests : visitors'[r] \in {visitors[r], None},
         admins' \subseteq admins,
         \A s \in Conns \cup Admins : sock'[s] = "idle" => sock[s] = "idle",
         \A s \in Conns \cup Admins : pc[s] = "init" <=> pc'[s] = "init",
         \A t \in Responses : pc'[t] # "init" =>
            pc[t] # "init" \/ pc[By[t]] # "init",
         \A c \in Conns : pc[c] = "reading" => pc'[c] = "reading",
         \A a \in Admins : pc[a] \in Registered => pc'[a] \in Registered
  PROVE  HubInv'
<1>1. IdleHasNoHandler'
  BY DEF HubInv, IdleHasNoHandler
<1>2. RespondingHasHandler'
  BY LobbyAssumption DEF HubInv, RespondingHasHandler
<1>3. ASSUME NEW r \in Requests, visitors'[r] # None
      PROVE  About[visitors'[r]] = r /\ pc'[visitors'[r]] = "reading"
  <2>1. visitors'[r] = visitors[r] /\ visitors[r] \in Conns
    BY <1>3 DEF TypeOK
  <2> QED BY <1>3, <2>1 DEF HubInv, HubHoldsLiveHandlers
<1>4. ASSUME NEW a \in admins'
      PROVE  pc'[a] \in Registered
  BY DEF HubInv, HubHoldsLiveHandlers, Registered, TypeOK
<1> QED
  BY <1>1, <1>2, <1>3, <1>4 DEF HubInv, HubHoldsLiveHandlers, Registered

(* Entering handleAdminRespond and returning from it keep HubInv.          *)
LEMMA HubReturn ==
  ASSUME TypeOK, HubInv, NEW t \in Responses, NEW k,
         NEW l \in {"reading", "busy"},
         pc[By[t]] # "init",
         Moves(t, k, l),
         visitors' = visitors, admins' = admins, sock' = sock
  PROVE  HubInv'
<1>1. \A c \in Conns : pc'[c] = pc[c]
  BY ReturnMoves
<1>2. \A a \in Admins : pc'[a] \in {pc[a], l} /\ (pc[a] = "init" <=> pc'[a] = "init")
  BY ReturnMoves
<1>3. \A u \in Responses : pc'[u] # "init" => pc[u] # "init" \/ pc[By[u]] # "init"
  BY ReturnMoves
<1>4. \A r \in Requests : visitors'[r] \in {visitors[r], None}
  OBVIOUS
<1> QED
  BY <1>1, <1>2, <1>3, <1>4, HubFrame DEF Registered

(* Every step keeps the hub free of handlers that have ended: a connection *)
(* leaves the map in the very step its handler leaves the read loop, and   *)
(* eviction only removes.                                                  *)
LEMMA NextHubInv == TypeOK /\ HubInv /\ [Next]_vars => HubInv'
<1> SUFFICES ASSUME TypeOK, HubInv, [Next]_vars
             PROVE  HubInv'
  OBVIOUS
<1> USE LobbyAssumption
<1>1. ASSUME NEW r \in Requests, PostSet(r)
      PROVE  HubInv'
  BY <1>1, HubFrame
     DEF PostSet, Goto, TypeOK, Registered, Procs, Workers, Cleaners
<1>2. ASSUME NEW r \in Requests, PostAdd(r)
      PROVE  HubInv'
  BY <1>2, HubFrame
     DEF PostAdd, Goto, TypeOK, Registered, Procs, Workers, Cleaners
<1>3. ASSUME NEW p \in Cleaners, CleanupGet(p)
      PROVE  HubInv'
  BY <1>3, HubFrame
     DEF CleanupGet, Goto, TypeOK, Registered, Procs, Workers, Cleaners
<1>4. ASSUME NEW p \in Cleaners, CleanupSRem(p)
      PROVE  HubInv'
  BY <1>4, HubFrame
     DEF CleanupSRem, Goto, TypeOK, Registered, Procs, Workers, Cleaners
<1>5. ASSUME NEW p \in Cleaners, CleanupDel(p)
      PROVE  HubInv'
  BY <1>5, HubFrame
     DEF CleanupDel, Goto, TypeOK, Registered, Procs, Workers, Cleaners
<1>6. ASSUME NEW p \in Workers, NotifyCopy(p)
      PROVE  HubInv'
  BY <1>6, HubFrame
     DEF NotifyCopy, Goto, TypeOK, Registered, Procs, Workers, Cleaners
<1>7. ASSUME NEW p \in Workers, NEW a \in Admins, NotifyWrite(p, a)
      PROVE  HubInv'
  BY <1>7, HubFrame
     DEF NotifyWrite, Goto, TypeOK, Registered, Procs, Workers, Cleaners
<1>8. ASSUME NEW p \in Workers, NotifyEnd(p)
      PROVE  HubInv'
  <2>1. CASE p \in Responses
    <3>1. Moves(p, IF Act[p] = "approved" THEN "sleep" ELSE "cget", "reading")
      BY <1>8, <2>1 DEF NotifyEnd, Moves, Workers
    <3>2. pc[By[p]] # "init"
      BY <1>8, <2>1 DEF NotifyEnd, HubInv, RespondingHasHandler
    <3> QED BY <1>8, <2>1, <3>1, <3>2, HubReturn DEF NotifyEnd
  <2>2. CASE p \notin Responses
    BY <1>8, <2>2, HubFrame
       DEF NotifyEnd, Goto, TypeOK, Registered, Procs, Workers
  <2> QED BY <2>1, <2>2
<1>9. ASSUME NEW c \in Conns, VisitorGet(c)
      PROVE  HubInv'
  BY <1>9, HubFrame
     DEF VisitorGet, Goto, TypeOK, Registered, Procs, Workers, Cleaners
<1>10. ASSUME NEW c \in Conns, VisitorRegister(c)
      PROVE  HubInv'
  BY <1>10
     DEF VisitorRegister, HubInv, IdleHasNoHandler, RespondingHasHandler,
         HubHoldsLiveHandlers, TypeOK, Goto, Procs, Workers, Cleaners
<1>11. ASSUME NEW c \in Conns, VisitorUnregister(c)
      PROVE  HubInv'
  BY <1>11
     DEF VisitorUnregister, HubInv, IdleHasNoHandler, RespondingHasHandler,
         HubHoldsLiveHandlers, TypeOK, Goto, Procs, Workers, Cleaners
<1>12. ASSUME NEW c \in Conns, VisitorRecheck(c)
      PROVE  HubInv'
  BY <1>12, HubFrame
     DEF VisitorRecheck, Goto, TypeOK, Registered, Procs, Workers, Cleaners
<1>13. ASSUME NEW a \in Admins, AdminRegister(a)
      PROVE  HubInv'
  BY <1>13
     DEF AdminRegister, HubInv, IdleHasNoHandler, RespondingHasHandler,
         HubHoldsLiveHandlers, TypeOK, Goto, Procs, Workers, Cleaners
<1>14. ASSUME NEW a \in Admins, AdminSMembers(a)
      PROVE  HubInv'
  BY <1>14, HubFrame
     DEF AdminSMembers, Goto, TypeOK, Registered, Procs, Workers, Cleaners
<1>15. ASSUME NEW a \in Admins, NEW r \in Requests, AdminGet(a, r)
      PROVE  HubInv'
  BY <1>15, HubFrame
     DEF AdminGet, Goto, TypeOK, Registered, Procs, Workers, Cleaners
<1>16. ASSUME NEW a \in Admins, AdminSnapshot(a)
      PROVE  HubInv'
  BY <1>16, HubFrame
     DEF AdminSnapshot, Goto, TypeOK, Registered, Procs, Workers, Cleaners
<1>17. ASSUME NEW a \in Admins, AdminUnregister(a)
      PROVE  HubInv'
  BY <1>17
     DEF AdminUnregister, HubInv, IdleHasNoHandler, RespondingHasHandler,
         HubHoldsLiveHandlers, TypeOK, Goto, Procs, Workers, Cleaners
<1>18. ASSUME NEW t \in Responses, UpdateGet(t)
      PROVE  HubInv'
  <2>1. pc[t] # "init" /\ pc[By[t]] # "init"
    BY <1>18 DEF UpdateGet, HubInv, RespondingHasHandler
  <2>2. CASE Moves(t, "done", "reading")
    BY <1>18, <2>1, <2>2, HubReturn DEF UpdateGet
  <2>3. ASSUME NEW k, Goto(t, k)
        PROVE  HubInv'
    BY <1>18, <2>1, <2>3, HubFrame
       DEF UpdateGet, Goto, TypeOK, Registered, Procs, Workers
  <2> QED BY <1>18, <2>2, <2>3 DEF UpdateGet, Moves
<1>19. ASSUME NEW t \in Responses, UpdateSet(t)
      PROVE  HubInv'
  <2>1. pc[t] # "init" /\ pc[By[t]] # "init"
    BY <1>19 DEF UpdateSet, HubInv, RespondingHasHandler
  <2>2. CASE Moves(t, "done", "reading")
    BY <1>19, <2>1, <2>2, HubReturn DEF UpdateSet
  <2>3. ASSUME NEW k, Goto(t, k)
        PROVE  HubInv'
    BY <1>19, <2>1, <2>3, HubFrame
       DEF UpdateSet, Goto, TypeOK, Registered, Procs, Workers
  <2> QED BY <1>19, <2>2, <2>3 DEF UpdateSet, Moves
<1>20. ASSUME NEW t \in Responses, UpdateSRem(t)
      PROVE  HubInv'
  BY <1>20, HubFrame
     DEF UpdateSRem, Goto, TypeOK, Registered, Procs, Workers, Cleaners
<1>21. ASSUME NEW t \in Responses, VisitorLook(t)
      PROVE  HubInv'
  BY <1>21, HubFrame
     DEF VisitorLook, Goto, TypeOK, Registered, Procs, Workers, Cleaners
<1>22. ASSUME NEW t \in Responses, VisitorWrite(t)
      PROVE  HubInv'
  BY <1>22, HubFrame
     DEF VisitorWrite, Goto, TypeOK, Registered, Procs, Workers, Cleaners
<1>23. ASSUME NEW t \in Responses, SleepEnds(t)
      PROVE  HubInv'
  BY <1>23, HubFrame
     DEF SleepEnds, Goto, TypeOK, Registered, Procs, Workers, Cleaners
<1>24. ASSUME NEW x \in Cancels, CancelGet(x)
      PROVE  HubInv'
  BY <1>24, HubFrame
     DEF CancelGet, Goto, TypeOK, Registered, Procs, Workers, Cleaners
<1>25. ASSUME NEW c \in Conns, VisitorConnect(c)
      PROVE  HubInv'
  BY <1>25
     DEF VisitorConnect, HubInv, IdleHasNoHandler, RespondingHasHandler,
         HubHoldsLiveHandlers, TypeOK, Goto, Procs, Workers, Cleaners
<1>26. ASSUME NEW a \in Admins, AdminConnect(a)
      PROVE  HubInv'
  BY <1>26
     DEF AdminConnect, HubInv, IdleHasNoHandler, RespondingHasHandler,
         HubHoldsLiveHandlers, TypeOK, Goto, Procs, Workers, Cleaners
<1>27. ASSUME NEW s \in Conns \cup Admins, Drop(s)
      PROVE  HubInv'
  BY <1>27, HubFrame
     DEF Drop, Goto, TypeOK, Registered, Procs, Workers, Cleaners
<1>28. ASSUME NEW t \in Responses, RespondGet(t)
      PROVE  HubInv'
  <2>1. pc[t] = "init" /\ pc[By[t]] = "reading"
    BY <1>28 DEF RespondGet
  <2>2. CASE Moves(t, "uget", "busy")
    BY <1>28, <2>1, <2>2, HubReturn DEF RespondGet
  <2>3. CASE Goto(t, "done")
    BY <1>28, <2>1, <2>3, HubFrame
       DEF RespondGet, Goto, TypeOK, Registered, Procs, Workers
  <2> QED BY <1>28, <2>2, <2>3 DEF RespondGet, Moves
<1>29. ASSUME NEW r \in Requests, KeyExpires(r)
      PROVE  HubInv'
  BY <1>29, HubFrame
     DEF KeyExpires, Goto, TypeOK, Registered, Procs, Workers, Cleaners
<1>30. ASSUME NEW m \in Meetings, SetExpires(m)
      PROVE  HubInv'
  BY <1>30, HubFrame
     DEF SetExpires, Goto, TypeOK, Registered, Procs, Workers, Cleaners
<1>31. CASE Crash
  BY <1>31
     DEF Crash, Ended, HubInv, IdleHasNoHandler, RespondingHasHandler,
         HubHoldsLiveHandlers, TypeOK, Procs, Workers
<1>32. CASE UNCHANGED vars
  BY <1>32
     DEF vars, HubInv, IdleHasNoHandler, RespondingHasHandler,
         HubHoldsLiveHandlers
<1> QED
  BY <1>1, <1>2, <1>3, <1>4, <1>5, <1>6, <1>7, <1>8, <1>9, <1>10, <1>11, <1>12, <1>13,
     <1>14, <1>15, <1>16, <1>17, <1>18, <1>19, <1>20, <1>21, <1>22, <1>23, <1>24, <1>25,
     <1>26, <1>27, <1>28, <1>29, <1>30, <1>31, <1>32
     DEF Next, ServerStep, PageStep, PostStep, CleanupStep, NotifyStep, VisitorStep,
         AdminStep, RespondStep

(* HubInv holds in every reachable state.                                  *)
LEMMA HubInvariant == Spec => []HubInv
<1>1. Init => HubInv
  BY LobbyAssumption
     DEF Init, HubInv, IdleHasNoHandler, RespondingHasHandler,
         HubHoldsLiveHandlers, Procs, Workers, Cleaners
<1> QED
  BY <1>1, TypeCorrect, NextHubInv, PTL DEF Spec

(* In every reachable state the hub's maps hold only connections whose     *)
(* handler is still in its read loop: LobbyHub leaks no closed socket.     *)
THEOREM HubSafe == Spec => []HubHoldsLiveHandlers
<1>1. HubInv => HubHoldsLiveHandlers
  BY DEF HubInv
<1> QED
  BY <1>1, HubInvariant, PTL

-----------------------------------------------------------------------------
(* The stages in which a response is still to deliver its verdict.         *)
Deciding == {"uget", "uset", "usrem", "vlook", "vwrite"}

(* handleAdminRespond has compared the meetings of such a response.        *)
DecidersOwnRequest ==
    \A t \in Responses : pc[t] \in Deciding =>
        AdminMeeting[By[t]] = MeetingOf[About[t]]

VerdictInv == DecidersOwnRequest /\ VerdictFromOwnHost

(* A step keeps VerdictInv when no verdict is delivered and no response    *)
(* becomes one that decides.                                               *)
LEMMA VerdictFrame ==
  ASSUME VerdictInv, got' = got,
         \A t \in Responses : pc'[t] \in Deciding => pc[t] \in Deciding,
         \A t \in Responses : pc[t] # "init" => pc'[t] # "init"
  PROVE  VerdictInv'
  BY DEF VerdictInv, DecidersOwnRequest, VerdictFromOwnHost

(* Every step keeps VerdictInv: only a respond whose meetings match goes   *)
(* on, and only such a respond writes to the visitor.                      *)
LEMMA NextVerdictInv == TypeOK /\ VerdictInv /\ [Next]_vars => VerdictInv'
<1> SUFFICES ASSUME TypeOK, VerdictInv, [Next]_vars
             PROVE  VerdictInv'
  OBVIOUS
<1> USE LobbyAssumption DEF Deciding
<1>1. ASSUME NEW r \in Requests, PostStep(r)
      PROVE  VerdictInv'
  BY <1>1, VerdictFrame
     DEF PostStep, PostSet, PostAdd, Goto, TypeOK, Procs, Workers, Cleaners
<1>2. ASSUME NEW p \in Cleaners, CleanupStep(p)
      PROVE  VerdictInv'
  BY <1>2, VerdictFrame
     DEF CleanupStep, CleanupGet, CleanupSRem, CleanupDel, Goto, TypeOK, Procs, Workers, Cleaners
<1>3. ASSUME NEW p \in Workers, NotifyCopy(p)
      PROVE  VerdictInv'
  BY <1>3, VerdictFrame
     DEF NotifyCopy, Goto, TypeOK, Procs, Workers, Cleaners
<1>4. ASSUME NEW p \in Workers, NEW a \in Admins, NotifyWrite(p, a)
      PROVE  VerdictInv'
  BY <1>4, VerdictFrame
     DEF NotifyWrite, Goto, TypeOK, Procs, Workers, Cleaners
<1>5. ASSUME NEW p \in Workers, NotifyEnd(p)
      PROVE  VerdictInv'
  <2>1. CASE p \in Responses
    <3>1. Moves(p, IF Act[p] = "approved" THEN "sleep" ELSE "cget", "reading")
      BY <1>5, <2>1 DEF NotifyEnd, Moves, Workers
    <3>2. \A t \in Responses : pc'[t] \in {pc[t], "sleep", "cget"}
      BY <2>1, <3>1, ReturnMoves
    <3> QED BY <1>5, <3>2, VerdictFrame DEF NotifyEnd
  <2>2. CASE p \notin Responses
    BY <1>5, <2>2, VerdictFrame DEF NotifyEnd, Goto, TypeOK, Procs, Workers
  <2> QED BY <2>1, <2>2
<1>6. ASSUME NEW c \in Conns, VisitorStep(c)
      PROVE  VerdictInv'
  BY <1>6, VerdictFrame
     DEF VisitorStep, VisitorGet, VisitorRegister, VisitorUnregister,
         VisitorRecheck, Goto, TypeOK, Procs, Workers, Cleaners
<1>7. ASSUME NEW a \in Admins, AdminStep(a)
      PROVE  VerdictInv'
  BY <1>7, VerdictFrame
     DEF AdminStep, AdminRegister, AdminSMembers, AdminGet,
         AdminSnapshot, AdminUnregister, Goto, TypeOK, Procs, Workers, Cleaners
<1>8. ASSUME NEW t \in Responses, UpdateGet(t)
      PROVE  VerdictInv'
  <2>1. CASE Moves(t, "done", "reading")
    BY <1>8, <2>1, VerdictFrame, ReturnMoves DEF UpdateGet
  <2>2. CASE Goto(t, "uset")
    BY <1>8, <2>2, VerdictFrame DEF UpdateGet, Goto, TypeOK, Procs, Workers
  <2> QED BY <1>8, <2>1, <2>2 DEF UpdateGet, Moves
<1>9. ASSUME NEW t \in Responses, UpdateSet(t)
      PROVE  VerdictInv'
  <2>1. CASE Moves(t, "done", "reading")
    BY <1>9, <2>1, VerdictFrame, ReturnMoves DEF UpdateSet
  <2>2. CASE Goto(t, IF Act[t] = "rejected" THEN "usrem" ELSE "vlook")
    BY <1>9, <2>2, VerdictFrame DEF UpdateSet, Goto, TypeOK, Procs, Workers
  <2> QED BY <1>9, <2>1, <2>2 DEF UpdateSet, Moves
<1>10. ASSUME NEW t \in Responses, UpdateSRem(t)
      PROVE  VerdictInv'
  BY <1>10, VerdictFrame
     DEF UpdateSRem, Goto, TypeOK, Procs, Workers, Cleaners
<1>11. ASSUME NEW t \in Responses, VisitorLook(t)
      PROVE  VerdictInv'
  BY <1>11, VerdictFrame
     DEF VisitorLook, Goto, TypeOK, Procs, Workers, Cleaners
<1>12. ASSUME NEW t \in Responses, VisitorWrite(t)
      PROVE  VerdictInv'
  <2>1. About[t] \in Requests /\ pc[t] \in Deciding
        /\ AdminMeeting[By[t]] = MeetingOf[About[t]]
    BY <1>12 DEF VisitorWrite, VerdictInv, DecidersOwnRequest, Workers
  <2>2. \A u \in Responses : pc'[u] = IF u = t THEN "copy" ELSE pc[u]
    BY <1>12 DEF VisitorWrite, Goto, TypeOK, Procs, Workers
  <2>3. \A r \in Requests : \A d \in got'[r] :
          d \in got[r] \/ (r = About[t] /\ d = Act[t])
    BY <1>12, <2>1 DEF VisitorWrite, TypeOK
  <2>4. VerdictFromOwnHost'
    BY <1>12, <2>1, <2>2, <2>3
       DEF VisitorWrite, VerdictInv, VerdictFromOwnHost
  <2> QED BY <2>2, <2>4 DEF VerdictInv, DecidersOwnRequest
<1>13. ASSUME NEW t \in Responses, SleepEnds(t)
      PROVE  VerdictInv'
  BY <1>13, VerdictFrame
     DEF SleepEnds, Goto, TypeOK, Procs, Workers, Cleaners
<1>14. ASSUME NEW x \in Cancels, CancelGet(x)
      PROVE  VerdictInv'
  BY <1>14, VerdictFrame
     DEF CancelGet, Goto, TypeOK, Procs, Workers, Cleaners
<1>15. ASSUME NEW c \in Conns, VisitorConnect(c)
      PROVE  VerdictInv'
  BY <1>15, VerdictFrame
     DEF VisitorConnect, Goto, TypeOK, Procs, Workers, Cleaners
<1>16. ASSUME NEW a \in Admins, AdminConnect(a)
      PROVE  VerdictInv'
  BY <1>16, VerdictFrame
     DEF AdminConnect, Goto, TypeOK, Procs, Workers, Cleaners
<1>17. ASSUME NEW s \in Conns \cup Admins, Drop(s)
      PROVE  VerdictInv'
  BY <1>17, VerdictFrame
     DEF Drop, Goto, TypeOK, Procs, Workers, Cleaners
<1>18. ASSUME NEW t \in Responses, RespondGet(t)
      PROVE  VerdictInv'
  <2>1. CASE /\ Moves(t, "uget", "busy")
             /\ AdminMeeting[By[t]] = MeetingOf[About[t]]
    <3>1. \A u \in Responses : pc'[u] = IF u = t THEN "uget" ELSE pc[u]
      BY <2>1, ReturnMoves
    <3> QED
      BY <1>18, <2>1, <3>1
         DEF RespondGet, VerdictInv, DecidersOwnRequest, VerdictFromOwnHost
  <2>2. CASE Goto(t, "done")
    BY <1>18, <2>2, VerdictFrame DEF RespondGet, Goto, TypeOK, Procs, Workers
  <2> QED BY <1>18, <2>1, <2>2 DEF RespondGet, Moves
<1>19. ASSUME NEW r \in Requests, KeyExpires(r)
      PROVE  VerdictInv'
  BY <1>19, VerdictFrame
     DEF KeyExpires, Goto, TypeOK, Procs, Workers, Cleaners
<1>20. ASSUME NEW m \in Meetings, SetExpires(m)
      PROVE  VerdictInv'
  BY <1>20, VerdictFrame
     DEF SetExpires, Goto, TypeOK, Procs, Workers, Cleaners
<1>21. CASE Crash
  BY <1>21, VerdictFrame DEF Crash, Ended, TypeOK, Procs, Workers
<1>22. CASE UNCHANGED vars
  BY <1>22, VerdictFrame DEF vars
<1> QED
  BY <1>1, <1>2, <1>3, <1>4, <1>5, <1>6, <1>7, <1>8, <1>9, <1>10, <1>11,
     <1>12, <1>13, <1>14, <1>15, <1>16, <1>17, <1>18, <1>19, <1>20, <1>21,
     <1>22
     DEF Next, ServerStep, PageStep, NotifyStep, RespondStep

(* Whatever identifiers the admins' messages name, every verdict a visitor *)
(* receives comes from an admin of the meeting it asked to join.           *)
THEOREM VerdictSafe == Spec => []VerdictFromOwnHost
<1>1. Init => VerdictInv
  BY DEF Init, VerdictInv, DecidersOwnRequest, VerdictFromOwnHost, Deciding,
         Procs, Workers
<1>2. VerdictInv => VerdictFromOwnHost
  BY DEF VerdictInv
<1> QED
  BY <1>1, <1>2, TypeCorrect, NextVerdictInv, PTL DEF Spec

-----------------------------------------------------------------------------
(* The keys and the index in Redis, and what the admins' sockets are told.  *)

(* In no step does a decided or deleted request become pending: the only   *)
(* SET after the first one, in UpdateLobbyRequestStatus, writes a decision.*)
LEMMA NextNeverPending ==
  ASSUME TypeOK, [Next]_vars, NEW r \in Requests,
         pc[r] # "init", status[r] # "pending"
  PROVE  status'[r] # "pending"
<1>1. ASSUME NEW q \in Requests, PostSet(q)
      PROVE  status'[r] # "pending"
  BY <1>1 DEF PostSet, TypeOK
<1>2. ASSUME NEW p \in Cleaners, CleanupDel(p)
      PROVE  status'[r] # "pending"
  BY <1>2 DEF CleanupDel, TypeOK
<1>3. ASSUME NEW t \in Responses, UpdateSet(t)
      PROVE  status'[r] # "pending"
  BY <1>3, LobbyAssumption DEF UpdateSet, TypeOK, Decisions
<1>4. ASSUME NEW q \in Requests, KeyExpires(q)
      PROVE  status'[r] # "pending"
  BY <1>4 DEF KeyExpires, TypeOK
<1>5. CASE status' = status
  BY <1>5
<1> QED
  BY <1>1, <1>2, <1>3, <1>4, <1>5
     DEF Next, ServerStep, PageStep, PostStep, PostAdd, CleanupStep, CleanupGet,
         CleanupSRem, NotifyStep, NotifyCopy, NotifyWrite, NotifyEnd,
         VisitorStep, VisitorGet, VisitorRegister, VisitorUnregister,
         VisitorRecheck, AdminStep, AdminRegister, AdminSMembers, AdminGet,
         AdminSnapshot, AdminUnregister, RespondStep, UpdateGet, UpdateSRem,
         VisitorLook, VisitorWrite, SleepEnds, CancelGet, VisitorConnect,
         AdminConnect, Drop, RespondGet, SetExpires, Crash, vars

(* A request that was decided or deleted never waits again.                *)
THEOREM NeverPendingAgainHolds == Spec => NeverPendingAgain
<1>1. TypeOK /\ [Next]_vars =>
        [\A r \in Requests :
           pc[r] # "init" /\ status[r] # "pending" => status'[r] # "pending"]_vars
  BY NextNeverPending
<1> QED
  BY <1>1, TypeCorrect, PTL DEF Spec, NeverPendingAgain

-----------------------------------------------------------------------------
(* A step keeps DecidedHasCleanup when only a response of the request      *)
(* decides it, and no response past its SET ends before the key is gone.   *)
LEMMA CleanupFrame ==
  ASSUME DecidedHasCleanup,
         Untroubled' => Untroubled,
         \A r \in Requests : Untroubled' /\ status'[r] \in Decisions =>
            status[r] \in Decisions \/ At(r, Responses, AfterSet)',
         \A t \in Responses : Untroubled' /\ pc[t] \in AfterSet =>
            pc'[t] \in AfterSet \/ status'[About[t]] = "absent"
  PROVE  DecidedHasCleanup'
  BY DEF DecidedHasCleanup, At, Decisions

(* A refused command or a crash is never forgotten.                        *)
LEMMA TroubleStays ==
  ASSUME TypeOK, [Next]_vars
  PROVE  Untroubled' => Untroubled
<1>1. ASSUME NEW ok \in BOOLEAN, Redis(ok)
      PROVE  faults' >= faults
  BY <1>1 DEF Redis, TypeOK
<1>2. faults' >= faults /\ crashes' >= crashes
  BY <1>1
     DEF Next, ServerStep, PageStep, PostStep, PostSet, PostAdd, CleanupStep,
         CleanupGet, CleanupSRem, CleanupDel, NotifyStep, NotifyCopy,
         NotifyWrite, NotifyEnd, VisitorStep, VisitorGet, VisitorRegister,
         VisitorUnregister, VisitorRecheck, AdminStep, AdminRegister,
         AdminSMembers, AdminGet, AdminSnapshot, AdminUnregister, RespondStep,
         UpdateGet, UpdateSet, UpdateSRem, VisitorLook, VisitorWrite,
         SleepEnds, CancelGet, VisitorConnect, AdminConnect, Drop, RespondGet,
         KeyExpires, SetExpires, Crash, vars, TypeOK
<1> QED BY <1>2 DEF Untroubled, TypeOK

(* Every step keeps DecidedHasCleanup.                                     *)
LEMMA NextCleanup ==
  TypeOK /\ DecidedHasCleanup /\ [Next]_vars => DecidedHasCleanup'
<1> SUFFICES ASSUME TypeOK, DecidedHasCleanup, [Next]_vars
             PROVE  DecidedHasCleanup'
  OBVIOUS
<1>0. Untroubled' => Untroubled
  BY TroubleStays
<1> USE LobbyAssumption DEF AfterSet
<1>1. ASSUME NEW r \in Requests, PostSet(r)
      PROVE  DecidedHasCleanup'
  <2>1. \A q \in Requests : status'[q] \in Decisions => status[q] \in Decisions
    BY <1>1 DEF PostSet, TypeOK, Decisions
  <2>2. \A t \in Responses : pc'[t] = pc[t]
    BY <1>1 DEF PostSet, Goto, TypeOK, Procs, Workers
  <2> QED BY <1>0, <2>1, <2>2, CleanupFrame
<1>2. ASSUME NEW r \in Requests, PostAdd(r)
      PROVE  DecidedHasCleanup'
  BY <1>2, <1>0, CleanupFrame
     DEF PostAdd, Goto, TypeOK, Procs, Workers, Cleaners
<1>3. ASSUME NEW p \in Cleaners, CleanupGet(p)
      PROVE  DecidedHasCleanup'
  BY <1>3, <1>0, CleanupFrame
     DEF CleanupGet, Goto, TypeOK, Procs, Workers, Cleaners
<1>4. ASSUME NEW p \in Cleaners, CleanupSRem(p)
      PROVE  DecidedHasCleanup'
  BY <1>4, <1>0, CleanupFrame
     DEF CleanupSRem, Goto, TypeOK, Procs, Workers, Cleaners
<1>5. ASSUME NEW p \in Cleaners, CleanupDel(p)
      PROVE  DecidedHasCleanup'
  <2>1. \A q \in Requests : status'[q] \in Decisions => status[q] \in Decisions
    BY <1>5 DEF CleanupDel, TypeOK, Decisions
  <2>2. Untroubled' => status'[About[p]] = "absent"
    BY <1>5 DEF CleanupDel, Redis, Untroubled, TypeOK, Workers, Cleaners
  <2>3. \A t \in Responses \ {p} : pc'[t] = pc[t]
    BY <1>5 DEF CleanupDel, Goto, TypeOK, Procs, Workers
  <2> QED BY <1>0, <2>1, <2>2, <2>3, CleanupFrame
<1>6. ASSUME NEW p \in Workers, NotifyCopy(p)
      PROVE  DecidedHasCleanup'
  BY <1>6, <1>0, CleanupFrame
     DEF NotifyCopy, Goto, TypeOK, Procs, Workers, Cleaners
<1>7. ASSUME NEW p \in Workers, NEW a \in Admins, NotifyWrite(p, a)
      PROVE  DecidedHasCleanup'
  BY <1>7, <1>0, CleanupFrame
     DEF NotifyWrite, Goto, TypeOK, Procs, Workers, Cleaners
<1>8. ASSUME NEW p \in Workers, NotifyEnd(p)
      PROVE  DecidedHasCleanup'
  <2>1. CASE p \in Responses
    <3>1. Moves(p, IF Act[p] = "approved" THEN "sleep" ELSE "cget", "reading")
      BY <1>8, <2>1 DEF NotifyEnd, Moves, Workers
    <3>2. \A t \in Responses : pc'[t] \in {pc[t], "sleep", "cget"}
      BY <2>1, <3>1, ReturnMoves
    <3> QED BY <1>8, <1>0, <3>2, CleanupFrame DEF NotifyEnd
  <2>2. CASE p \notin Responses
    BY <1>8, <1>0, <2>2, CleanupFrame
       DEF NotifyEnd, Goto, TypeOK, Procs, Workers
  <2> QED BY <2>1, <2>2
<1>9. ASSUME NEW c \in Conns, VisitorStep(c)
      PROVE  DecidedHasCleanup'
  BY <1>9, <1>0, CleanupFrame
     DEF VisitorStep, VisitorGet, VisitorRegister, VisitorUnregister,
         VisitorRecheck, Goto, TypeOK, Procs, Workers, Cleaners
<1>10. ASSUME NEW a \in Admins, AdminStep(a)
      PROVE  DecidedHasCleanup'
  BY <1>10, <1>0, CleanupFrame
     DEF AdminStep, AdminRegister, AdminSMembers, AdminGet,
         AdminSnapshot, AdminUnregister, Goto, TypeOK, Procs, Workers, Cleaners
<1>11. ASSUME NEW t \in Responses, UpdateGet(t)
      PROVE  DecidedHasCleanup'
  <2>1. CASE Moves(t, "done", "reading")
    BY <1>11, <1>0, <2>1, CleanupFrame, ReturnMoves DEF UpdateGet
  <2>2. CASE Goto(t, "uset")
    BY <1>11, <1>0, <2>2, CleanupFrame DEF UpdateGet, Goto, TypeOK, Procs, Workers
  <2> QED BY <1>11, <2>1, <2>2 DEF UpdateGet, Moves
<1>12. ASSUME NEW t \in Responses, UpdateSet(t)
      PROVE  DecidedHasCleanup'
  <2>1. CASE Untroubled'
    <3>1. /\ status' = [status EXCEPT ![About[t]] = Act[t]]
          /\ Goto(t, IF Act[t] = "rejected" THEN "usrem" ELSE "vlook")
      BY <1>12, <2>1 DEF UpdateSet, Redis, Untroubled, TypeOK
    <3>2. \A u \in Responses : pc'[u] = IF u # t THEN pc[u]
             ELSE IF Act[t] = "rejected" THEN "usrem" ELSE "vlook"
      BY <3>1 DEF Goto, TypeOK, Procs, Workers
    <3>3. \A r \in Requests : status'[r] \in Decisions =>
             status[r] \in Decisions \/ r = About[t]
      BY <3>1 DEF TypeOK
    <3>4. At(About[t], Responses, AfterSet)'
      BY <3>2 DEF At
    <3> QED BY <1>12, <1>0, <3>2, <3>3, <3>4, CleanupFrame DEF UpdateSet
  <2>2. CASE ~ Untroubled'
    BY <2>2 DEF DecidedHasCleanup
  <2> QED BY <2>1, <2>2
<1>13. ASSUME NEW t \in Responses, UpdateSRem(t)
      PROVE  DecidedHasCleanup'
  BY <1>13, <1>0, CleanupFrame
     DEF UpdateSRem, Goto, TypeOK, Procs, Workers, Cleaners
<1>14. ASSUME NEW t \in Responses, VisitorLook(t)
      PROVE  DecidedHasCleanup'
  BY <1>14, <1>0, CleanupFrame
     DEF VisitorLook, Goto, TypeOK, Procs, Workers, Cleaners
<1>15. ASSUME NEW t \in Responses, VisitorWrite(t)
      PROVE  DecidedHasCleanup'
  BY <1>15, <1>0, CleanupFrame
     DEF VisitorWrite, Goto, TypeOK, Procs, Workers, Cleaners
<1>16. ASSUME NEW t \in Responses, SleepEnds(t)
      PROVE  DecidedHasCleanup'
  BY <1>16, <1>0, CleanupFrame
     DEF SleepEnds, Goto, TypeOK, Procs, Workers, Cleaners
<1>17. ASSUME NEW x \in Cancels, CancelGet(x)
      PROVE  DecidedHasCleanup'
  BY <1>17, <1>0, CleanupFrame
     DEF CancelGet, Goto, TypeOK, Procs, Workers, Cleaners
<1>18. ASSUME NEW c \in Conns, VisitorConnect(c)
      PROVE  DecidedHasCleanup'
  BY <1>18, <1>0, CleanupFrame
     DEF VisitorConnect, Goto, TypeOK, Procs, Workers, Cleaners
<1>19. ASSUME NEW a \in Admins, AdminConnect(a)
      PROVE  DecidedHasCleanup'
  BY <1>19, <1>0, CleanupFrame
     DEF AdminConnect, Goto, TypeOK, Procs, Workers, Cleaners
<1>20. ASSUME NEW s \in Conns \cup Admins, Drop(s)
      PROVE  DecidedHasCleanup'
  BY <1>20, <1>0, CleanupFrame
     DEF Drop, Goto, TypeOK, Procs, Workers, Cleaners
<1>21. ASSUME NEW t \in Responses, RespondGet(t)
      PROVE  DecidedHasCleanup'
  <2>1. CASE Moves(t, "uget", "busy")
    BY <1>21, <1>0, <2>1, CleanupFrame, ReturnMoves DEF RespondGet
  <2>2. CASE Goto(t, "done")
    BY <1>21, <1>0, <2>2, CleanupFrame DEF RespondGet, Goto, TypeOK, Procs, Workers
  <2> QED BY <1>21, <2>1, <2>2 DEF RespondGet, Moves
<1>22. ASSUME NEW r \in Requests, KeyExpires(r)
      PROVE  DecidedHasCleanup'
  BY <1>22, <1>0, CleanupFrame
     DEF KeyExpires, Goto, TypeOK, Procs, Workers, Cleaners, Decisions
<1>23. ASSUME NEW m \in Meetings, SetExpires(m)
      PROVE  DecidedHasCleanup'
  BY <1>23, <1>0, CleanupFrame
     DEF SetExpires, Goto, TypeOK, Procs, Workers, Cleaners
<1>24. CASE Crash
  BY <1>24, <1>0 DEF Crash, TypeOK, Untroubled, DecidedHasCleanup
<1>25. CASE UNCHANGED vars
  BY <1>25, <1>0, CleanupFrame DEF vars
<1> QED
  BY <1>1, <1>2, <1>3, <1>4, <1>5, <1>6, <1>7, <1>8, <1>9, <1>10, <1>11,
     <1>12, <1>13, <1>14, <1>15, <1>16, <1>17, <1>18, <1>19, <1>20, <1>21,
     <1>22, <1>23, <1>24, <1>25
     DEF Next, ServerStep, PageStep, PostStep, CleanupStep, NotifyStep, RespondStep

(* While nothing has failed, a key left approved or rejected always has    *)
(* the cleanup of a response still to come.                                *)
THEOREM DecidedHasCleanupHolds == Spec => []DecidedHasCleanup
<1>1. Init => DecidedHasCleanup
  BY DEF Init, DecidedHasCleanup, Decisions
<1> QED
  BY <1>1, TypeCorrect, NextCleanup, PTL DEF Spec

-----------------------------------------------------------------------------
(* A response names a request that exists.                                 *)
RespondersKnow ==
    \A t \in Responses : pc[t] # "init" => pc[About[t]] # "init"

(* The SREM of a rejection comes after its SET.                            *)
SRemSettled ==
    \A t \in Responses : pc[t] = "usrem" => status[About[t]] # "pending"

IndexInv == RespondersKnow /\ SRemSettled /\ IndexComplete

(* A step keeps IndexInv when no request becomes pending, the set loses    *)
(* only requests that are about to be deleted, and no cleanup that is      *)
(* about to delete one ends otherwise.                                     *)
LEMMA IndexFrame ==
  ASSUME IndexInv,
         Untroubled' => Untroubled,
         \A r \in Requests : status'[r] = "pending" => status[r] = "pending",
         \A r \in Requests : pc[r] # "init" => pc'[r] # "init",
         \A t \in Responses : pc'[t] # "init" =>
            pc[t] # "init" \/ pc[About[t]] # "init",
         \A t \in Responses : pc'[t] = "usrem" =>
            pc[t] = "usrem" \/ status'[About[t]] # "pending",
         \A r \in Requests : Untroubled' /\ status'[r] = "pending" =>
            (r \in members => r \in members' \/ Leaving(r)'),
         \A r \in Requests : Untroubled' /\ pc[r] = "sadd" =>
            pc'[r] = "sadd" \/ r \in members',
         \A p \in Cleaners : Untroubled' /\ pc[p] = "cdel" =>
            pc'[p] = "cdel" \/ status'[About[p]] # "pending"
  PROVE  IndexInv'
<1> USE LobbyAssumption
<1>1. RespondersKnow'
  BY DEF IndexInv, RespondersKnow, Workers
<1>2. SRemSettled'
  BY DEF IndexInv, SRemSettled, Workers
<1>3. ASSUME NEW r \in Requests, Untroubled', status'[r] = "pending"
      PROVE  r \in members' \/ pc'[r] = "sadd" \/ Leaving(r)'
  BY <1>3 DEF IndexInv, IndexComplete, Leaving, At
<1> QED BY <1>1, <1>2, <1>3 DEF IndexInv, IndexComplete

(* Every step keeps IndexInv.                                              *)
LEMMA NextIndexInv == TypeOK /\ HubInv /\ IndexInv /\ [Next]_vars => IndexInv'
<1> SUFFICES ASSUME TypeOK, HubInv, IndexInv, [Next]_vars
             PROVE  IndexInv'
  OBVIOUS
<1>0. Untroubled' => Untroubled
  BY TroubleStays
<1> USE LobbyAssumption
<1>1. ASSUME NEW r \in Requests, PostSet(r)
      PROVE  IndexInv'
  <2>1. \A p \in Procs \ {r} : pc'[p] = pc[p]
    BY <1>1 DEF PostSet, Goto, TypeOK
  <2>2. pc'[r] # "init" /\ (Untroubled' => pc'[r] = "sadd")
    BY <1>1 DEF PostSet, Goto, Redis, Untroubled, TypeOK, Procs, Workers
  <2>3. pc[r] = "init" /\ members' = members
        /\ \A q \in Requests \ {r} : status'[q] = status[q]
    BY <1>1 DEF PostSet, TypeOK
  <2>4. RespondersKnow'
    BY <2>1, <2>2 DEF IndexInv, RespondersKnow, Procs, Workers
  <2>5. SRemSettled'
    BY <2>1, <2>3 DEF IndexInv, SRemSettled, RespondersKnow, Procs, Workers
  <2>6. IndexComplete'
    BY <1>0, <2>1, <2>2, <2>3
       DEF IndexInv, IndexComplete, Leaving, At, Procs, Workers, Cleaners
  <2> QED BY <2>4, <2>5, <2>6 DEF IndexInv
<1>2. ASSUME NEW r \in Requests, PostAdd(r)
      PROVE  IndexInv'
  <2>1. \A p \in Procs \ {r} : pc'[p] = pc[p]
    BY <1>2 DEF PostAdd, Goto, TypeOK
  <2>2. pc[r] = "sadd" /\ pc'[r] # "init" /\ status' = status
    BY <1>2 DEF PostAdd, Goto, TypeOK, Procs, Workers
  <2>3. members \subseteq members' /\ (Untroubled' => r \in members')
    BY <1>2 DEF PostAdd, Redis, Untroubled, TypeOK
  <2> QED
    BY <1>0, <2>1, <2>2, <2>3, IndexFrame DEF Procs, Workers, Cleaners
<1>3. ASSUME NEW p \in Cleaners, CleanupGet(p)
      PROVE  IndexInv'
  BY <1>3, <1>0, IndexFrame
     DEF CleanupGet, Goto, TypeOK, Procs, Workers, Cleaners
<1>4. ASSUME NEW p \in Cleaners, CleanupSRem(p)
      PROVE  IndexInv'
  <2>1. /\ About[p] \in Requests /\ pc[p] = "csrem" /\ pc'[p] = "cdel"
        /\ \A q \in Procs \ {p} : pc'[q] = pc[q]
    BY <1>4 DEF CleanupSRem, Goto, TypeOK, Procs, Workers, Cleaners
  <2>2. status' = status /\ members \ {About[p]} \subseteq members'
    BY <1>4 DEF CleanupSRem
  <2>3. Leaving(About[p])'
    BY <2>1 DEF Leaving, At
  <2> QED
    BY <1>0, <2>1, <2>2, <2>3, IndexFrame DEF Procs, Workers, Cleaners
<1>5. ASSUME NEW p \in Cleaners, CleanupDel(p)
      PROVE  IndexInv'
  <2>1. /\ pc[p] = "cdel" /\ pc'[p] \in {"copy", "done"}
        /\ \A q \in Procs \ {p} : pc'[q] = pc[q]
    BY <1>5 DEF CleanupDel, Goto, TypeOK, Procs, Workers, Cleaners
  <2>2. /\ members' = members
        /\ \A r \in Requests : status'[r] \in {status[r], "absent"}
        /\ Untroubled' => status'[About[p]] = "absent"
    BY <1>5 DEF CleanupDel, Redis, Untroubled, TypeOK, Workers, Cleaners
  <2>3. p \notin Requests
    BY DEF Cleaners
  <2> QED
    BY <1>0, <2>1, <2>2, <2>3, IndexFrame
       DEF IndexInv, SRemSettled, Procs, Workers, Cleaners
<1>6. ASSUME NEW p \in Workers, NotifyCopy(p)
      PROVE  IndexInv'
  BY <1>6, <1>0, IndexFrame
     DEF NotifyCopy, Goto, TypeOK, Procs, Workers, Cleaners
<1>7. ASSUME NEW p \in Workers, NEW a \in Admins, NotifyWrite(p, a)
      PROVE  IndexInv'
  BY <1>7, <1>0, IndexFrame
     DEF NotifyWrite, Goto, TypeOK, Procs, Workers, Cleaners
<1>8. ASSUME NEW p \in Workers, NotifyEnd(p)
      PROVE  IndexInv'
  <2>1. CASE p \in Responses
    <3>1. Moves(p, IF Act[p] = "approved" THEN "sleep" ELSE "cget", "reading")
      BY <1>8, <2>1 DEF NotifyEnd, Moves, Workers
    <3>2. /\ pc[p] = "write"
          /\ \A t \in Responses \ {p} : pc'[t] = pc[t]
          /\ pc'[p] \in {"sleep", "cget"}
          /\ \A q \in Requests \cup Cancels \cup Conns : pc'[q] = pc[q]
      BY <1>8, <2>1, <3>1, ReturnMoves DEF NotifyEnd
    <3> QED BY <1>8, <1>0, <3>2, IndexFrame DEF NotifyEnd, Cleaners
  <2>2. CASE p \notin Responses
    BY <1>8, <1>0, <2>2, IndexFrame
       DEF NotifyEnd, Goto, TypeOK, Procs, Workers, Cleaners
  <2> QED BY <2>1, <2>2
<1>9. ASSUME NEW c \in Conns, VisitorStep(c)
      PROVE  IndexInv'
  BY <1>9, <1>0, IndexFrame
     DEF VisitorStep, VisitorGet, VisitorRegister, VisitorUnregister,
         VisitorRecheck, Goto, TypeOK, Procs, Workers, Cleaners
<1>10. ASSUME NEW a \in Admins, AdminRegister(a)
      PROVE  IndexInv'
  BY <1>10, <1>0, IndexFrame
     DEF AdminRegister, Goto, TypeOK, Procs, Workers, Cleaners
<1>11. ASSUME NEW a \in Admins, AdminSMembers(a)
      PROVE  IndexInv'
  BY <1>11, <1>0, IndexFrame
     DEF AdminSMembers, Goto, TypeOK, Procs, Workers, Cleaners
<1>12. ASSUME NEW a \in Admins, NEW r \in Requests, AdminGet(a, r)
      PROVE  IndexInv'
  <2>1. Untroubled' => faults' = faults
    BY <1>12 DEF AdminGet, Redis, Untroubled, TypeOK
  <2>2. /\ members \ {r} \subseteq members'
        /\ Untroubled' /\ r \notin members' => r \notin members \/ status[r] = "absent"
    BY <1>12, <2>1 DEF AdminGet, Redis, Read, TypeOK
  <2>3. status' = status /\ pc' = pc
    BY <1>12 DEF AdminGet
  <2> QED BY <1>0, <2>2, <2>3, IndexFrame
<1>13. ASSUME NEW a \in Admins, AdminSnapshot(a)
      PROVE  IndexInv'
  BY <1>13, <1>0, IndexFrame
     DEF AdminSnapshot, Goto, TypeOK, Procs, Workers, Cleaners
<1>14. ASSUME NEW a \in Admins, AdminUnregister(a)
      PROVE  IndexInv'
  BY <1>14, <1>0, IndexFrame
     DEF AdminUnregister, Goto, TypeOK, Procs, Workers, Cleaners
<1>15. ASSUME NEW t \in Responses, UpdateGet(t)
      PROVE  IndexInv'
  <2>1. CASE Moves(t, "done", "reading")
    <3>1. /\ pc[t] = "uget"
          /\ \A u \in Responses : pc'[u] = IF u = t THEN "done" ELSE pc[u]
          /\ \A q \in Requests \cup Cancels \cup Conns : pc'[q] = pc[q]
      BY <1>15, <2>1, ReturnMoves DEF UpdateGet
    <3> QED BY <1>15, <1>0, <3>1, IndexFrame DEF UpdateGet, Cleaners
  <2>2. CASE Goto(t, "uset")
    BY <1>15, <1>0, <2>2, IndexFrame
       DEF UpdateGet, Goto, TypeOK, Procs, Workers, Cleaners
  <2> QED BY <1>15, <2>1, <2>2 DEF UpdateGet, Moves
<1>16. ASSUME NEW t \in Responses, UpdateSet(t)
      PROVE  IndexInv'
  <2>0. /\ pc[t] = "uset" /\ members' = members
        /\ About[t] \in Requests /\ Act[t] # "pending"
        /\ \A r \in Requests : status'[r] = "pending" => status[r] = "pending"
    BY <1>16 DEF UpdateSet, TypeOK, Workers, Decisions
  <2>1. CASE Moves(t, "done", "reading")
    <3>1. /\ \A u \in Responses : pc'[u] = IF u = t THEN "done" ELSE pc[u]
          /\ \A q \in Requests \cup Cancels \cup Conns : pc'[q] = pc[q]
      BY <2>1, ReturnMoves
    <3> QED BY <1>0, <2>0, <3>1, IndexFrame DEF Cleaners
  <2>2. CASE /\ Goto(t, IF Act[t] = "rejected" THEN "usrem" ELSE "vlook")
             /\ status' = [status EXCEPT ![About[t]] = Act[t]]
    <3>1. /\ \A u \in Responses \ {t} : pc'[u] = pc[u]
          /\ pc'[t] \in {"usrem", "vlook"}
          /\ \A q \in Requests \cup Cancels \cup Conns : pc'[q] = pc[q]
      BY <2>2 DEF Goto, TypeOK, Procs, Workers
    <3>2. status'[About[t]] # "pending"
      BY <2>0, <2>2 DEF TypeOK
    <3> QED BY <1>0, <2>0, <3>1, <3>2, IndexFrame DEF Cleaners
  <2> QED BY <1>16, <2>1, <2>2 DEF UpdateSet, Moves
<1>17. ASSUME NEW t \in Responses, UpdateSRem(t)
      PROVE  IndexInv'
  <2>1. /\ status[About[t]] # "pending" /\ status' = status
        /\ members \ {About[t]} \subseteq members'
    BY <1>17 DEF UpdateSRem, IndexInv, SRemSettled
  <2>2. /\ pc[t] = "usrem" /\ pc'[t] = "vlook"
        /\ \A q \in Procs \ {t} : pc'[q] = pc[q]
    BY <1>17 DEF UpdateSRem, Goto, TypeOK, Procs, Workers
  <2> QED
    BY <1>0, <2>1, <2>2, IndexFrame DEF Procs, Workers, Cleaners
<1>18. ASSUME NEW t \in Responses, VisitorLook(t)
      PROVE  IndexInv'
  BY <1>18, <1>0, IndexFrame
     DEF VisitorLook, Goto, TypeOK, Procs, Workers, Cleaners
<1>19. ASSUME NEW t \in Responses, VisitorWrite(t)
      PROVE  IndexInv'
  BY <1>19, <1>0, IndexFrame
     DEF VisitorWrite, Goto, TypeOK, Procs, Workers, Cleaners
<1>20. ASSUME NEW t \in Responses, SleepEnds(t)
      PROVE  IndexInv'
  BY <1>20, <1>0, IndexFrame
     DEF SleepEnds, Goto, TypeOK, Procs, Workers, Cleaners
<1>21. ASSUME NEW x \in Cancels, CancelGet(x)
      PROVE  IndexInv'
  BY <1>21, <1>0, IndexFrame
     DEF CancelGet, Goto, TypeOK, Procs, Workers, Cleaners
<1>22. ASSUME NEW c \in Conns, VisitorConnect(c)
      PROVE  IndexInv'
  <2>1. /\ status' = status /\ members' = members
        /\ pc'[c] = "get" /\ \A q \in Procs \ {c} : pc'[q] = pc[q]
    BY <1>22 DEF VisitorConnect, Goto, TypeOK, Procs, Workers
  <2>2. pc[c] # "cdel"
    BY <1>22 DEF VisitorConnect, HubInv, IdleHasNoHandler
  <2> QED
    BY <1>0, <2>1, <2>2, IndexFrame DEF Procs, Workers, Cleaners
<1>23. ASSUME NEW a \in Admins, AdminConnect(a)
      PROVE  IndexInv'
  BY <1>23, <1>0, IndexFrame
     DEF AdminConnect, Goto, TypeOK, Procs, Workers, Cleaners
<1>24. ASSUME NEW s \in Conns \cup Admins, Drop(s)
      PROVE  IndexInv'
  BY <1>24, <1>0, IndexFrame
     DEF Drop, Goto, TypeOK, Procs, Workers, Cleaners
<1>25. ASSUME NEW t \in Responses, RespondGet(t)
      PROVE  IndexInv'
  <2>1. CASE Moves(t, "uget", "busy")
    <3>1. /\ pc[t] = "init" /\ pc[About[t]] # "init"
          /\ \A u \in Responses : pc'[u] = IF u = t THEN "uget" ELSE pc[u]
          /\ \A q \in Requests \cup Cancels \cup Conns : pc'[q] = pc[q]
      BY <1>25, <2>1, ReturnMoves DEF RespondGet
    <3> QED BY <1>25, <1>0, <3>1, IndexFrame DEF RespondGet, Cleaners
  <2>2. CASE Goto(t, "done")
    BY <1>25, <1>0, <2>2, IndexFrame
       DEF RespondGet, Goto, TypeOK, Procs, Workers, Cleaners
  <2> QED BY <1>25, <2>1, <2>2 DEF RespondGet, Moves
<1>26. ASSUME NEW r \in Requests, KeyExpires(r)
      PROVE  IndexInv'
  BY <1>26, <1>0, IndexFrame
     DEF KeyExpires, Goto, TypeOK, Procs, Workers, Cleaners
<1>27. ASSUME NEW m \in Meetings, SetExpires(m)
      PROVE  IndexInv'
  BY <1>27, <1>0, IndexFrame
     DEF SetExpires, Goto, TypeOK, Procs, Workers, Cleaners
<1>28. CASE Crash
  <2>1. ~ Untroubled' /\ status' = status
    BY <1>28 DEF Crash, TypeOK, Untroubled
  <2>2. \A p \in Workers : pc'[p] = pc[p] \/ pc'[p] = "dead"
    BY <1>28 DEF Crash, Procs
  <2>3. \A p \in Workers : pc[p] = "init" <=> pc'[p] = "init"
    BY <1>28 DEF Crash, Ended, Procs
  <2> QED BY <2>1, <2>2, <2>3, IndexFrame DEF Workers
<1>29. CASE UNCHANGED vars
  BY <1>29, <1>0, IndexFrame DEF vars
<1> QED
  BY <1>1, <1>2, <1>3, <1>4, <1>5, <1>6, <1>7, <1>8, <1>9, <1>10, <1>11,
     <1>12, <1>13, <1>14, <1>15, <1>16, <1>17, <1>18, <1>19, <1>20, <1>21,
     <1>22, <1>23, <1>24, <1>25, <1>26, <1>27, <1>28, <1>29
     DEF Next, ServerStep, PageStep, PostStep, CleanupStep, NotifyStep, AdminStep,
         RespondStep

(* IndexInv holds in every reachable state.                                *)
LEMMA IndexInvariant == Spec => []IndexInv
<1>1. Init => IndexInv
  BY LobbyAssumption
     DEF Init, IndexInv, RespondersKnow, SRemSettled, IndexComplete, Procs,
         Workers
<1> QED
  BY <1>1, TypeCorrect, HubInvariant, NextIndexInv, PTL DEF Spec

(* While nothing has failed, a pending request is reachable through the    *)
(* set of its meeting, but for the moments its POST or a cleanup names.    *)
THEOREM IndexCompleteHolds == Spec => []IndexComplete
<1>1. IndexInv => IndexComplete
  BY DEF IndexInv
<1> QED
  BY <1>1, IndexInvariant, PTL

-----------------------------------------------------------------------------
(* The stages of a response inside the handler of its socket.              *)
Running == {"uget", "uset", "usrem", "vlook", "vwrite", "copy", "write"}

(* A socket's handler works on one response at a time and waits for it.    *)
OneResponse ==
    /\ \A t \in Responses : pc[t] \in Running => pc[By[t]] = "busy"
    /\ \A t, u \in Responses :
          pc[t] \in Running /\ pc[u] \in Running /\ By[t] = By[u] => t = u

(* The steps of an admin's handler leave it alone while it is busy.        *)
LEMMA OneResponseFrame ==
  ASSUME OneResponse,
         \A t \in Responses : pc'[t] \in Running => pc[t] \in Running,
         \A a \in Admins : pc[a] = "busy" => pc'[a] = "busy"
  PROVE  OneResponse'
  BY LobbyAssumption DEF OneResponse

(* Entering and leaving a response keep OneResponse.                       *)
LEMMA OneResponseMoves ==
  ASSUME TypeOK, OneResponse, NEW t \in Responses,
         NEW k, NEW l, Moves(t, k, l),
         \/ k \notin Running /\ pc[t] \in Running
         \/ l = "busy" /\ pc[By[t]] = "reading"
  PROVE  OneResponse'
<1>1. /\ \A u \in Responses : pc'[u] = IF u = t THEN k ELSE pc[u]
      /\ \A a \in Admins : pc'[a] = IF a = By[t] THEN l ELSE pc[a]
  BY ReturnMoves
<1>2. \A u \in Responses : By[u] \in Admins
  BY LobbyAssumption
<1>3. CASE k \notin Running /\ pc[t] \in Running
  BY <1>1, <1>2, <1>3 DEF OneResponse
<1>4. CASE l = "busy" /\ pc[By[t]] = "reading"
  BY <1>1, <1>2, <1>4 DEF OneResponse
<1> QED BY <1>3, <1>4

(* Every step keeps OneResponse.                                           *)
LEMMA NextOneResponse ==
  TypeOK /\ HubInv /\ OneResponse /\ [Next]_vars => OneResponse'
<1> SUFFICES ASSUME TypeOK, HubInv, OneResponse, [Next]_vars
             PROVE  OneResponse'
  OBVIOUS
<1> USE LobbyAssumption
<1>1. ASSUME NEW r \in Requests, PostStep(r)
      PROVE  OneResponse'
  BY <1>1, OneResponseFrame
     DEF PostStep, PostSet, PostAdd, Running, Goto, TypeOK, Procs, Workers, Cleaners
<1>2. ASSUME NEW p \in Cleaners, CleanupGet(p)
      PROVE  OneResponse'
  BY <1>2, OneResponseFrame
     DEF CleanupGet, Running, Goto, TypeOK, Procs, Workers, Cleaners
<1>3. ASSUME NEW p \in Cleaners, CleanupSRem(p)
      PROVE  OneResponse'
  BY <1>3, OneResponseFrame
     DEF CleanupSRem, Running, Goto, TypeOK, Procs, Workers, Cleaners
<1>4. ASSUME NEW p \in Cleaners, CleanupDel(p)
      PROVE  OneResponse'
  <2>1. CASE p \in Responses
    <3>1. pc'[p] = "done"
      BY <1>4, <2>1 DEF CleanupDel, Goto, TypeOK, Procs, Workers
    <3> QED
      BY <1>4, <2>1, <3>1, OneResponseFrame
         DEF CleanupDel, Running, Goto, TypeOK, Procs, Workers
  <2>2. CASE p \notin Responses
    BY <1>4, <2>2, OneResponseFrame
       DEF CleanupDel, Goto, TypeOK, Procs, Workers, Cleaners
  <2> QED BY <2>1, <2>2
<1>5. ASSUME NEW p \in Workers, NotifyCopy(p)
      PROVE  OneResponse'
  BY <1>5, OneResponseFrame
     DEF NotifyCopy, Running, Goto, TypeOK, Procs, Workers, Cleaners
<1>6. ASSUME NEW p \in Workers, NEW a \in Admins, NotifyWrite(p, a)
      PROVE  OneResponse'
  BY <1>6, OneResponseFrame
     DEF NotifyWrite, Running, Goto, TypeOK, Procs, Workers, Cleaners
<1>7. ASSUME NEW p \in Workers, NotifyEnd(p)
      PROVE  OneResponse'
  <2>1. CASE p \in Responses
    <3>1. Moves(p, IF Act[p] = "approved" THEN "sleep" ELSE "cget", "reading")
      BY <1>7, <2>1 DEF NotifyEnd, Moves, Workers
    <3> QED BY <1>7, <2>1, <3>1, OneResponseMoves DEF NotifyEnd, Running
  <2>2. CASE p \notin Responses
    BY <1>7, <2>2, OneResponseFrame
       DEF NotifyEnd, Goto, TypeOK, Procs, Workers
  <2> QED BY <2>1, <2>2
<1>8. ASSUME NEW c \in Conns, VisitorStep(c)
      PROVE  OneResponse'
  BY <1>8, OneResponseFrame
     DEF VisitorStep, VisitorGet, VisitorRegister, VisitorUnregister,
         VisitorRecheck, Running, Goto, TypeOK, Procs, Workers, Cleaners
<1>9. ASSUME NEW a \in Admins, AdminStep(a)
      PROVE  OneResponse'
  BY <1>9, OneResponseFrame
     DEF AdminStep, AdminRegister, AdminSMembers, AdminGet,
         AdminSnapshot, AdminUnregister, Running, Goto, TypeOK, Procs, Workers, Cleaners
<1>10. ASSUME NEW t \in Responses, UpdateGet(t)
      PROVE  OneResponse'
  <2>1. CASE Moves(t, "done", "reading")
    BY <1>10, <2>1, OneResponseMoves DEF UpdateGet, Running
  <2>2. CASE Goto(t, "uset")
    BY <1>10, <2>2, OneResponseFrame
       DEF UpdateGet, Running, Goto, TypeOK, Procs, Workers
  <2> QED BY <1>10, <2>1, <2>2 DEF UpdateGet, Moves
<1>11. ASSUME NEW t \in Responses, UpdateSet(t)
      PROVE  OneResponse'
  <2>1. CASE Moves(t, "done", "reading")
    BY <1>11, <2>1, OneResponseMoves DEF UpdateSet, Running
  <2>2. CASE Goto(t, IF Act[t] = "rejected" THEN "usrem" ELSE "vlook")
    BY <1>11, <2>2, OneResponseFrame
       DEF UpdateSet, Running, Goto, TypeOK, Procs, Workers
  <2> QED BY <1>11, <2>1, <2>2 DEF UpdateSet, Moves
<1>12. ASSUME NEW t \in Responses, UpdateSRem(t)
      PROVE  OneResponse'
  BY <1>12, OneResponseFrame
     DEF UpdateSRem, Running, Goto, TypeOK, Procs, Workers, Cleaners
<1>13. ASSUME NEW t \in Responses, VisitorLook(t)
      PROVE  OneResponse'
  BY <1>13, OneResponseFrame
     DEF VisitorLook, Running, Goto, TypeOK, Procs, Workers, Cleaners
<1>14. ASSUME NEW t \in Responses, VisitorWrite(t)
      PROVE  OneResponse'
  BY <1>14, OneResponseFrame
     DEF VisitorWrite, Running, Goto, TypeOK, Procs, Workers, Cleaners
<1>15. ASSUME NEW t \in Responses, SleepEnds(t)
      PROVE  OneResponse'
  BY <1>15, OneResponseFrame
     DEF SleepEnds, Running, Goto, TypeOK, Procs, Workers, Cleaners
<1>16. ASSUME NEW x \in Cancels, CancelGet(x)
      PROVE  OneResponse'
  BY <1>16, OneResponseFrame
     DEF CancelGet, Running, Goto, TypeOK, Procs, Workers, Cleaners
<1>17. ASSUME NEW c \in Conns, VisitorConnect(c)
      PROVE  OneResponse'
  BY <1>17, OneResponseFrame
     DEF VisitorConnect, Running, Goto, TypeOK, Procs, Workers, Cleaners
<1>18. ASSUME NEW a \in Admins, AdminConnect(a)
      PROVE  OneResponse'
  BY <1>18, OneResponseFrame
     DEF AdminConnect, Running, Goto, TypeOK, Procs, Workers, HubInv,
         IdleHasNoHandler
<1>19. ASSUME NEW s \in Conns \cup Admins, Drop(s)
      PROVE  OneResponse'
  BY <1>19, OneResponseFrame
     DEF Drop, Running, Goto, TypeOK, Procs, Workers, Cleaners
<1>20. ASSUME NEW t \in Responses, RespondGet(t)
      PROVE  OneResponse'
  <2>1. CASE Moves(t, "uget", "busy")
    BY <1>20, <2>1, OneResponseMoves DEF RespondGet
  <2>2. CASE Goto(t, "done")
    BY <1>20, <2>2, OneResponseFrame
       DEF RespondGet, Running, Goto, TypeOK, Procs, Workers
  <2> QED BY <1>20, <2>1, <2>2 DEF RespondGet, Moves
<1>21. ASSUME NEW r \in Requests, KeyExpires(r)
      PROVE  OneResponse'
  BY <1>21, OneResponseFrame
     DEF KeyExpires, Running, Goto, TypeOK, Procs, Workers, Cleaners
<1>22. ASSUME NEW m \in Meetings, SetExpires(m)
      PROVE  OneResponse'
  BY <1>22, OneResponseFrame
     DEF SetExpires, Running, Goto, TypeOK, Procs, Workers, Cleaners
<1>23. CASE Crash
  <2>1. \A t \in Responses : pc'[t] \notin Running
    BY <1>23 DEF Crash, Ended, Running, TypeOK, Procs, Workers
  <2> QED BY <2>1 DEF OneResponse
<1>24. CASE UNCHANGED vars
  BY <1>24, OneResponseFrame DEF vars
<1> QED
  BY <1>1, <1>2, <1>3, <1>4, <1>5, <1>6, <1>7, <1>8, <1>9, <1>10, <1>11,
     <1>12, <1>13, <1>14, <1>15, <1>16, <1>17, <1>18, <1>19, <1>20, <1>21,
     <1>22, <1>23, <1>24
     DEF Next, ServerStep, PageStep, CleanupStep, NotifyStep, RespondStep

-----------------------------------------------------------------------------
(* A socket that is up stays in the hub while its handler is registered:   *)
(* only failed writes evict.                                               *)
UpIsRegistered ==
    \A a \in Admins : sock[a] = "up" /\ pc[a] \in Registered => a \in admins

(* What is left of r's way to the socket a: its POST will copy the hub, or *)
(* has a among the sockets it still writes to.                             *)
OnItsWay(r, a) ==
    \/ pc[r] \in {"sadd", "copy"}
    \/ pc[r] = "write" /\ a \in targets[r]

Informed(r, a) == r \in sent[a] \/ Leaving(r) \/ OnItsWay(r, a)

(* Once the socket a has listed the set, it was told of r, has r still to  *)
(* read or to send, or r is on its way.                                    *)
ListedOrInformed ==
    \A r \in Requests, a \in Admins :
        /\ Untroubled /\ status[r] = "pending"
        /\ sock[a] = "up" /\ AdminMeeting[a] = MeetingOf[r]
        => /\ pc[a] = "listing" =>
                r \in ids[a] \/ r \in entries[a] \/ Informed(r, a)
           /\ pc[a] \in {"reading", "busy"} => Informed(r, a)

SentInv == UpIsRegistered /\ ListedOrInformed

(* A step keeps SentInv when no request becomes pending or loses its way,  *)
(* and no admin's handler moves but between reading and busy.              *)
LEMMA SentFrame ==
  ASSUME SentInv,
         Untroubled' => Untroubled,
         \A r \in Requests : status'[r] = "pending" => status[r] = "pending",
         \A a \in Admins : sock'[a] = "up" => sock[a] = "up",
         \A a \in Admins : \/ pc'[a] = pc[a]
                           \/ /\ pc[a] \in {"reading", "busy"}
                              /\ pc'[a] \in {"reading", "busy"},
         \A a \in Admins : a \in admins /\ sock[a] = "up" => a \in admins',
         ids' = ids, entries' = entries,
         \A a \in Admins : sent[a] \subseteq sent'[a],
         \A r \in Requests, a \in Admins :
            Untroubled' /\ OnItsWay(r, a) /\ sock[a] = "up" =>
               OnItsWay(r, a)' \/ r \in sent'[a]
               \/ (pc[r] = "copy" /\ a \notin admins)
               \/ (pc[r] = "copy" /\ AdminMeeting[a] # MeetingOf[r]),
         \A p \in Cleaners : Untroubled' /\ pc[p] = "cdel" =>
            pc'[p] = "cdel" \/ status'[About[p]] # "pending"
  PROVE  SentInv'
<1>1. UpIsRegistered'
  BY DEF SentInv, UpIsRegistered, Registered
<1>2. ASSUME NEW r \in Requests, NEW a \in Admins,
             Untroubled', status'[r] = "pending", sock'[a] = "up",
             AdminMeeting[a] = MeetingOf[r], Informed(r, a),
             pc[a] \in Registered
      PROVE  Informed(r, a)'
  <2>1. a \in admins
    BY <1>2 DEF SentInv, UpIsRegistered
  <2>2. CASE Leaving(r)
    BY <1>2, <2>2 DEF Informed, Leaving, At
  <2>3. CASE OnItsWay(r, a)
    BY <1>2, <2>1, <2>3 DEF Informed
  <2>4. CASE r \in sent[a]
    BY <1>2, <2>4 DEF Informed
  <2> QED BY <1>2, <2>2, <2>3, <2>4 DEF Informed
<1>3. ListedOrInformed'
  BY <1>2 DEF SentInv, ListedOrInformed, Registered
<1> QED BY <1>1, <1>3 DEF SentInv

(* Every step keeps SentInv.  The listing is sound because the set is      *)
(* complete (IndexInv) when it is read, and because the socket is in the   *)
(* hub before that, so that a later POST copies it.                        *)
LEMMA NextSentInv ==
  TypeOK /\ HubInv /\ IndexInv /\ OneResponse /\ SentInv /\ [Next]_vars
  => SentInv'
<1> SUFFICES ASSUME TypeOK, HubInv, IndexInv, OneResponse, SentInv, [Next]_vars
             PROVE  SentInv'
  OBVIOUS
<1>0. Untroubled' => Untroubled
  BY TroubleStays
<1> USE LobbyAssumption
<1>1. ASSUME NEW r \in Requests, PostSet(r)
      PROVE  SentInv'
  <2>1. \A p \in Procs \ {r} : pc'[p] = pc[p]
    BY <1>1 DEF PostSet, Goto, TypeOK
  <2>2. pc[r] = "init" /\ (Untroubled' => pc'[r] = "sadd")
    BY <1>1 DEF PostSet, Goto, Redis, Untroubled, TypeOK, Procs, Workers
  <2>3. \A q \in Requests \ {r} : status'[q] = status[q]
    BY <1>1 DEF PostSet, TypeOK
  <2>4. /\ admins' = admins /\ sock' = sock /\ ids' = ids /\ entries' = entries
        /\ sent' = sent /\ targets' = targets
    BY <1>1 DEF PostSet
  <2>5. \A a \in Admins : pc'[a] = pc[a]
    BY <2>1 DEF Procs
  <2>6. UpIsRegistered'
    BY <2>4, <2>5 DEF SentInv, UpIsRegistered
  <2>7. ASSUME NEW q \in Requests, NEW a \in Admins, q # r, Informed(q, a)
        PROVE  Informed(q, a)'
    BY <2>1, <2>4, <2>7
       DEF Informed, Leaving, At, OnItsWay, Procs, Workers, Cleaners
  <2>8. ASSUME NEW a \in Admins, Untroubled'
        PROVE  Informed(r, a)'
    BY <2>2, <2>8 DEF Informed, OnItsWay
  <2>9. ListedOrInformed'
    BY <1>0, <2>3, <2>4, <2>5, <2>7, <2>8 DEF SentInv, ListedOrInformed
  <2> QED BY <2>6, <2>9 DEF SentInv
<1>2. ASSUME NEW r \in Requests, PostAdd(r)
      PROVE  SentInv'
  <2>1. Untroubled' => pc'[r] = "copy"
    BY <1>2 DEF PostAdd, Redis, Untroubled, Goto, TypeOK, Procs, Workers
  <2>2. \A p \in Procs \ {r} : pc'[p] = pc[p]
    BY <1>2 DEF PostAdd, Goto, TypeOK
  <2> QED
    BY <1>2, <1>0, <2>1, <2>2, SentFrame
       DEF PostAdd, OnItsWay, Procs, Workers, Cleaners
<1>3. ASSUME NEW p \in Cleaners, CleanupGet(p)
      PROVE  SentInv'
  BY <1>3, <1>0, SentFrame
     DEF CleanupGet, OnItsWay, Goto, TypeOK, Procs, Workers, Cleaners
<1>4. ASSUME NEW p \in Cleaners, CleanupSRem(p)
      PROVE  SentInv'
  BY <1>4, <1>0, SentFrame
     DEF CleanupSRem, OnItsWay, Goto, TypeOK, Procs, Workers, Cleaners
<1>5. ASSUME NEW p \in Cleaners, CleanupDel(p)
      PROVE  SentInv'
  <2>1. /\ pc[p] = "cdel" /\ \A q \in Procs \ {p} : pc'[q] = pc[q]
    BY <1>5 DEF CleanupDel, Goto, TypeOK
  <2>2. /\ \A r \in Requests : status'[r] \in {status[r], "absent"}
        /\ Untroubled' => status'[About[p]] = "absent"
    BY <1>5 DEF CleanupDel, Redis, Untroubled, TypeOK, Workers, Cleaners
  <2>3. p \notin Requests \cup Admins
    BY DEF Cleaners
  <2> QED
    BY <1>5, <1>0, <2>1, <2>2, <2>3, SentFrame
       DEF CleanupDel, OnItsWay, Procs, Workers, Cleaners
<1>6. ASSUME NEW p \in Workers, NotifyCopy(p)
      PROVE  SentInv'
  <2>1. /\ pc[p] = "copy" /\ pc'[p] = "write"
        /\ \A q \in Procs \ {p} : pc'[q] = pc[q]
    BY <1>6 DEF NotifyCopy, Goto, TypeOK, Procs
  <2>2. /\ targets'[p] = {a \in admins : AdminMeeting[a] = MeetingOf[About[p]]}
        /\ \A q \in Workers \ {p} : targets'[q] = targets[q]
    BY <1>6 DEF NotifyCopy, TypeOK
  <2>3. \A r \in Requests, a \in Admins :
          OnItsWay(r, a) =>
            OnItsWay(r, a)' \/ (pc[r] = "copy" /\ a \notin admins)
            \/ (pc[r] = "copy" /\ AdminMeeting[a] # MeetingOf[r])
    BY <2>1, <2>2 DEF OnItsWay, Procs, Workers
  <2>4. p \notin Admins
    BY DEF Workers
  <2> QED
    BY <1>6, <1>0, <2>1, <2>3, <2>4, SentFrame
       DEF NotifyCopy, Procs, Workers, Cleaners
<1>7. ASSUME NEW p \in Workers, NEW a \in Admins, NotifyWrite(p, a)
      PROVE  SentInv'
  <2>1. /\ pc[p] = "write" /\ a \in targets[p]
        /\ targets'[p] = targets[p] \ {a}
        /\ \A q \in Workers \ {p} : targets'[q] = targets[q]
    BY <1>7 DEF NotifyWrite, TypeOK
  <2>2. /\ \A b \in Admins : sent[b] \subseteq sent'[b]
        /\ p \in Requests /\ sock[a] = "up" => p \in sent'[a]
    BY <1>7 DEF NotifyWrite, TypeOK
  <2>3. /\ pc' = pc /\ status' = status /\ sock' = sock
        /\ ids' = ids /\ entries' = entries
        /\ \A b \in Admins : b \in admins /\ sock[b] = "up" => b \in admins'
    BY <1>7 DEF NotifyWrite
  <2>4. \A r \in Requests, b \in Admins :
          OnItsWay(r, b) /\ sock[b] = "up" => OnItsWay(r, b)' \/ r \in sent'[b]
    BY <2>1, <2>2, <2>3 DEF OnItsWay, Workers
  <2> QED BY <1>0, <2>2, <2>3, <2>4, SentFrame
<1>8. ASSUME NEW p \in Workers, NotifyEnd(p)
      PROVE  SentInv'
  <2>1. CASE p \in Responses
    <3>1. Moves(p, IF Act[p] = "approved" THEN "sleep" ELSE "cget", "reading")
      BY <1>8, <2>1 DEF NotifyEnd, Moves, Workers
    <3>2. /\ \A q \in Requests \cup Cancels \cup Conns : pc'[q] = pc[q]
          /\ \A u \in Responses \ {p} : pc'[u] = pc[u]
          /\ \A a \in Admins : pc'[a] = IF a = By[p] THEN "reading" ELSE pc[a]
      BY <2>1, <3>1, ReturnMoves
    <3>3. pc[By[p]] = "busy" /\ pc[p] = "write"
      BY <1>8, <2>1 DEF NotifyEnd, OneResponse, Running
    <3> QED
      BY <1>8, <1>0, <3>2, <3>3, SentFrame DEF NotifyEnd, OnItsWay, Cleaners
  <2>2. CASE p \notin Responses
    <3>1. /\ pc[p] = "write" /\ targets[p] = {}
          /\ \A q \in Procs \ {p} : pc'[q] = pc[q]
      BY <1>8, <2>2 DEF NotifyEnd, Goto, TypeOK
    <3> QED
      BY <1>8, <1>0, <3>1, SentFrame
         DEF NotifyEnd, OnItsWay, Procs, Workers, Cleaners
  <2> QED BY <2>1, <2>2
<1>9. ASSUME NEW c \in Conns, VisitorGet(c)
      PROVE  SentInv'
  BY <1>9, <1>0, SentFrame
     DEF VisitorGet, OnItsWay, Goto, TypeOK, Procs, Workers, Cleaners
<1>10. ASSUME NEW c \in Conns, VisitorRegister(c)
      PROVE  SentInv'
  BY <1>10, <1>0, SentFrame
     DEF VisitorRegister, OnItsWay, Goto, TypeOK, Procs, Workers, Cleaners
<1>11. ASSUME NEW c \in Conns, VisitorUnregister(c)
      PROVE  SentInv'
  BY <1>11, <1>0, SentFrame
     DEF VisitorUnregister, OnItsWay, Goto, TypeOK, Procs, Workers, Cleaners
<1>12. ASSUME NEW c \in Conns, VisitorRecheck(c)
      PROVE  SentInv'
  BY <1>12, <1>0, SentFrame
     DEF VisitorRecheck, OnItsWay, Goto, TypeOK, Procs, Workers, Cleaners
<1>13. ASSUME NEW a \in Admins, AdminRegister(a)
      PROVE  SentInv'
  <2>1. /\ pc[a] = "register" /\ pc'[a] = "smembers"
        /\ \A q \in Procs \ {a} : pc'[q] = pc[q]
    BY <1>13 DEF AdminRegister, Goto, TypeOK, Procs
  <2>2. UpIsRegistered'
    BY <1>13, <2>1 DEF AdminRegister, SentInv, UpIsRegistered, Registered, Procs
  <2>3. ASSUME NEW r \in Requests, NEW b \in Admins, Informed(r, b)
        PROVE  Informed(r, b)'
    BY <1>13, <2>1, <2>3
       DEF AdminRegister, Informed, Leaving, At, OnItsWay, Procs, Workers,
           Cleaners
  <2>4. ListedOrInformed'
    BY <1>13, <1>0, <2>1, <2>3
       DEF AdminRegister, SentInv, ListedOrInformed, Procs
  <2> QED BY <2>2, <2>4 DEF SentInv
<1>14. ASSUME NEW a \in Admins, AdminSMembers(a)
      PROVE  SentInv'
  <2>1. /\ pc[a] = "smembers" /\ pc'[a] = "listing"
        /\ \A q \in Procs \ {a} : pc'[q] = pc[q]
    BY <1>14 DEF AdminSMembers, Goto, TypeOK, Procs
  <2>2. /\ \A b \in Admins \ {a} : ids'[b] = ids[b]
        /\ Untroubled' =>
             ids'[a] = {r \in members : MeetingOf[r] = AdminMeeting[a]}
    BY <1>14 DEF AdminSMembers, Redis, Untroubled, TypeOK
  <2>3. UpIsRegistered'
    BY <1>14, <2>1 DEF AdminSMembers, SentInv, UpIsRegistered, Registered, Procs
  <2>4. ASSUME NEW r \in Requests, NEW b \in Admins, Informed(r, b)
        PROVE  Informed(r, b)'
    BY <1>14, <2>1, <2>4
       DEF AdminSMembers, Informed, Leaving, At, OnItsWay, Procs, Workers,
           Cleaners
  <2>5. ASSUME NEW r \in Requests, Untroubled', status[r] = "pending",
               AdminMeeting[a] = MeetingOf[r]
        PROVE  r \in ids'[a] \/ Informed(r, a)'
    <3>1. r \in members \/ pc[r] = "sadd" \/ Leaving(r)
      BY <1>0, <2>5 DEF IndexInv, IndexComplete
    <3>2. r \in ids'[a] \/ Informed(r, a)
      BY <2>2, <2>5, <3>1 DEF Informed, OnItsWay
    <3> QED BY <2>4, <3>2
  <2>6. ListedOrInformed'
    BY <1>14, <1>0, <2>1, <2>2, <2>4, <2>5
       DEF AdminSMembers, SentInv, ListedOrInformed, Procs
  <2> QED BY <2>3, <2>6 DEF SentInv
<1>15. ASSUME NEW a \in Admins, NEW r \in Requests, AdminGet(a, r)
      PROVE  SentInv'
  <2>1. /\ pc' = pc /\ status' = status /\ admins' = admins /\ sock' = sock
        /\ sent' = sent /\ targets' = targets
    BY <1>15 DEF AdminGet
  <2>2. /\ \A b \in Admins \ {a} : ids'[b] = ids[b] /\ entries'[b] = entries[b]
        /\ ids'[a] = ids[a] \ {r} /\ entries[a] \subseteq entries'[a]
    BY <1>15 DEF AdminGet, TypeOK
  <2>3. Untroubled' /\ status[r] = "pending" => r \in entries'[a]
    BY <1>15 DEF AdminGet, Redis, Read, Untroubled, TypeOK
  <2>4. \A q \in Requests, b \in Admins : Informed(q, b) => Informed(q, b)'
    BY <2>1 DEF Informed, Leaving, At, OnItsWay
  <2> QED
    BY <1>0, <2>1, <2>2, <2>3, <2>4
       DEF SentInv, UpIsRegistered, ListedOrInformed
<1>16. ASSUME NEW a \in Admins, AdminSnapshot(a)
      PROVE  SentInv'
  <2>1. /\ pc[a] = "listing" /\ pc'[a] = "reading" /\ ids[a] = {}
        /\ \A q \in Procs \ {a} : pc'[q] = pc[q]
    BY <1>16 DEF AdminSnapshot, Goto, TypeOK, Procs
  <2>2. /\ sent'[a] = sent[a] \cup entries[a]
        /\ \A b \in Admins \ {a} : sent'[b] = sent[b] /\ entries'[b] = entries[b]
    BY <1>16 DEF AdminSnapshot, TypeOK
  <2>3. /\ status' = status /\ admins' = admins /\ sock' = sock /\ ids' = ids
        /\ targets' = targets
    BY <1>16 DEF AdminSnapshot
  <2>4. UpIsRegistered'
    BY <2>1, <2>3 DEF SentInv, UpIsRegistered, Registered, Procs
  <2>5. ASSUME NEW r \in Requests, NEW b \in Admins, Informed(r, b)
        PROVE  Informed(r, b)'
    BY <2>1, <2>2, <2>3, <2>5
       DEF Informed, Leaving, At, OnItsWay, Procs, Workers, Cleaners
  <2>6. ASSUME NEW r \in Requests, r \in entries[a]
        PROVE  Informed(r, a)'
    BY <2>2, <2>6 DEF Informed
  <2>7. ListedOrInformed'
    BY <1>0, <2>1, <2>2, <2>3, <2>5, <2>6
       DEF SentInv, ListedOrInformed, Procs
  <2> QED BY <2>4, <2>7 DEF SentInv
<1>17. ASSUME NEW a \in Admins, AdminUnregister(a)
      PROVE  SentInv'
  <2>1. /\ sock[a] = "down" /\ pc'[a] = "closed" /\ admins' = admins \ {a}
        /\ \A q \in Procs \ {a} : pc'[q] = pc[q]
    BY <1>17 DEF AdminUnregister, Goto, TypeOK, Procs
  <2>2. /\ status' = status /\ sock' = sock /\ ids' = ids /\ targets' = targets
        /\ sent' = sent /\ entries' = entries
    BY <1>17 DEF AdminUnregister
  <2>3. \A r \in Requests, b \in Admins : Informed(r, b) => Informed(r, b)'
    BY <2>1, <2>2 DEF Informed, Leaving, At, OnItsWay, Procs, Workers, Cleaners
  <2>4. UpIsRegistered'
    BY <2>1, <2>2 DEF SentInv, UpIsRegistered, Procs
  <2>5. ListedOrInformed'
    BY <1>0, <2>1, <2>2, <2>3 DEF SentInv, ListedOrInformed, Procs
  <2> QED BY <2>4, <2>5 DEF SentInv
<1>18. ASSUME NEW t \in Responses, UpdateGet(t)
      PROVE  SentInv'
  <2>1. \A r \in Requests : status'[r] = "pending" => status[r] = "pending"
    BY <1>18 DEF UpdateGet, TypeOK
  <2>2. CASE Moves(t, "done", "reading")
    <3>1. /\ \A q \in Requests \cup Cancels \cup Conns : pc'[q] = pc[q]
          /\ \A u \in Responses \ {t} : pc'[u] = pc[u]
          /\ \A a \in Admins : pc'[a] = IF a = By[t] THEN "reading" ELSE pc[a]
      BY <2>2, ReturnMoves
    <3>2. pc[By[t]] = "busy" /\ pc[t] # "cdel"
      BY <1>18 DEF UpdateGet, OneResponse, Running
    <3> QED
      BY <1>18, <1>0, <2>1, <3>1, <3>2, SentFrame DEF UpdateGet, OnItsWay, Cleaners
  <2>3. CASE Goto(t, "uset")
    BY <1>18, <1>0, <2>1, <2>3, SentFrame
       DEF UpdateGet, OnItsWay, Goto, TypeOK, Procs, Workers, Cleaners
  <2> QED BY <1>18, <2>2, <2>3 DEF UpdateGet, Moves
<1>19. ASSUME NEW t \in Responses, UpdateSet(t)
      PROVE  SentInv'
  <2>1. \A r \in Requests : status'[r] = "pending" => status[r] = "pending"
    BY <1>19 DEF UpdateSet, TypeOK, Decisions
  <2>2. CASE Moves(t, "done", "reading")
    <3>1. /\ \A q \in Requests \cup Cancels \cup Conns : pc'[q] = pc[q]
          /\ \A u \in Responses \ {t} : pc'[u] = pc[u]
          /\ \A a \in Admins : pc'[a] = IF a = By[t] THEN "reading" ELSE pc[a]
      BY <2>2, ReturnMoves
    <3>2. pc[By[t]] = "busy" /\ pc[t] # "cdel"
      BY <1>19 DEF UpdateSet, OneResponse, Running
    <3> QED
      BY <1>19, <1>0, <2>1, <3>1, <3>2, SentFrame DEF UpdateSet, OnItsWay, Cleaners
  <2>3. CASE Goto(t, IF Act[t] = "rejected" THEN "usrem" ELSE "vlook")
    BY <1>19, <1>0, <2>1, <2>3, SentFrame
       DEF UpdateSet, OnItsWay, Goto, TypeOK, Procs, Workers, Cleaners
  <2> QED BY <1>19, <2>2, <2>3 DEF UpdateSet, Moves
<1>20. ASSUME NEW t \in Responses, UpdateSRem(t)
      PROVE  SentInv'
  BY <1>20, <1>0, SentFrame
     DEF UpdateSRem, OnItsWay, Goto, TypeOK, Procs, Workers, Cleaners
<1>21. ASSUME NEW t \in Responses, VisitorLook(t)
      PROVE  SentInv'
  BY <1>21, <1>0, SentFrame
     DEF VisitorLook, OnItsWay, Goto, TypeOK, Procs, Workers, Cleaners
<1>22. ASSUME NEW t \in Responses, VisitorWrite(t)
      PROVE  SentInv'
  BY <1>22, <1>0, SentFrame
     DEF VisitorWrite, OnItsWay, Goto, TypeOK, Procs, Workers, Cleaners
<1>23. ASSUME NEW t \in Responses, SleepEnds(t)
      PROVE  SentInv'
  BY <1>23, <1>0, SentFrame
     DEF SleepEnds, OnItsWay, Goto, TypeOK, Procs, Workers, Cleaners
<1>24. ASSUME NEW x \in Cancels, CancelGet(x)
      PROVE  SentInv'
  BY <1>24, <1>0, SentFrame
     DEF CancelGet, OnItsWay, Goto, TypeOK, Procs, Workers, Cleaners
<1>25. ASSUME NEW c \in Conns, VisitorConnect(c)
      PROVE  SentInv'
  <2>1. pc[c] = "init"
    BY <1>25 DEF VisitorConnect, HubInv, IdleHasNoHandler
  <2>2. \A q \in Procs \ {c} : pc'[q] = pc[q]
    BY <1>25 DEF VisitorConnect, Goto, TypeOK
  <2>3. \A a \in Admins : sock'[a] = sock[a]
    BY <1>25 DEF VisitorConnect, TypeOK
  <2> QED
    BY <1>25, <1>0, <2>1, <2>2, <2>3, SentFrame
       DEF VisitorConnect, OnItsWay, Procs, Workers, Cleaners
<1>26. ASSUME NEW a \in Admins, AdminConnect(a)
      PROVE  SentInv'
  <2>1. /\ pc'[a] = "register" /\ \A q \in Procs \ {a} : pc'[q] = pc[q]
    BY <1>26 DEF AdminConnect, Goto, TypeOK, Procs
  <2>2. /\ status' = status /\ admins' = admins /\ ids' = ids /\ sent' = sent
        /\ entries' = entries /\ targets' = targets
        /\ \A b \in Admins \ {a} : sock'[b] = sock[b]
    BY <1>26 DEF AdminConnect, TypeOK
  <2>3. \A r \in Requests, b \in Admins : Informed(r, b) => Informed(r, b)'
    BY <2>1, <2>2 DEF Informed, Leaving, At, OnItsWay, Procs, Workers, Cleaners
  <2>4. UpIsRegistered'
    BY <2>1, <2>2 DEF SentInv, UpIsRegistered, Registered, Procs
  <2>5. ListedOrInformed'
    BY <1>0, <2>1, <2>2, <2>3 DEF SentInv, ListedOrInformed, Procs
  <2> QED BY <2>4, <2>5 DEF SentInv
<1>27. ASSUME NEW s \in Conns \cup Admins, Drop(s)
      PROVE  SentInv'
  BY <1>27, <1>0, SentFrame
     DEF Drop, OnItsWay, Goto, TypeOK, Procs, Workers, Cleaners
<1>28. ASSUME NEW t \in Responses, RespondGet(t)
      PROVE  SentInv'
  <2>1. CASE Moves(t, "uget", "busy")
    <3>1. /\ \A q \in Requests \cup Cancels \cup Conns : pc'[q] = pc[q]
          /\ \A u \in Responses \ {t} : pc'[u] = pc[u]
          /\ \A a \in Admins : pc'[a] = IF a = By[t] THEN "busy" ELSE pc[a]
      BY <2>1, ReturnMoves
    <3>2. pc[By[t]] = "reading" /\ pc[t] = "init"
      BY <1>28 DEF RespondGet
    <3> QED
      BY <1>28, <1>0, <3>1, <3>2, SentFrame DEF RespondGet, OnItsWay, Cleaners
  <2>2. CASE Goto(t, "done")
    BY <1>28, <1>0, <2>2, SentFrame
       DEF RespondGet, OnItsWay, Goto, TypeOK, Procs, Workers, Cleaners
  <2> QED BY <1>28, <2>1, <2>2 DEF RespondGet, Moves
<1>29. ASSUME NEW r \in Requests, KeyExpires(r)
      PROVE  SentInv'
  BY <1>29, <1>0, SentFrame
     DEF KeyExpires, OnItsWay, Goto, TypeOK, Procs, Workers, Cleaners
<1>30. ASSUME NEW m \in Meetings, SetExpires(m)
      PROVE  SentInv'
  BY <1>30, <1>0, SentFrame
     DEF SetExpires, OnItsWay, Goto, TypeOK, Procs, Workers, Cleaners
<1>31. CASE Crash
  <2>1. ~ Untroubled' /\ \A a \in Admins : sock'[a] # "up"
    BY <1>31 DEF Crash, TypeOK, Untroubled
  <2> QED BY <2>1 DEF SentInv, UpIsRegistered, ListedOrInformed
<1>32. CASE UNCHANGED vars
  BY <1>32, <1>0, SentFrame DEF vars, OnItsWay
<1> QED
  BY <1>1, <1>2, <1>3, <1>4, <1>5, <1>6, <1>7, <1>8, <1>9, <1>10, <1>11,
     <1>12, <1>13, <1>14, <1>15, <1>16, <1>17, <1>18, <1>19, <1>20, <1>21,
     <1>22, <1>23, <1>24, <1>25, <1>26, <1>27, <1>28, <1>29, <1>30, <1>31,
     <1>32
     DEF Next, ServerStep, PageStep, PostStep, CleanupStep, NotifyStep, VisitorStep,
         AdminStep, RespondStep

(* While nothing has failed, an admin socket in its read loop was told of  *)
(* every request that waits, however its connect overlaps the POSTs.       *)
THEOREM EveryWaitingWasSentHolds == Spec => []EveryWaitingWasSent
<1>1. Init => OneResponse /\ SentInv
  BY DEF Init, OneResponse, Running, SentInv, UpIsRegistered, ListedOrInformed,
         Procs, Workers
<1>2. SentInv => EveryWaitingWasSent
  BY DEF SentInv, ListedOrInformed, Informed, OnItsWay, EveryWaitingWasSent,
         Waiting, Watching
<1>3. Spec => []OneResponse
  BY <1>1, TypeCorrect, HubInvariant, NextOneResponse, PTL DEF Spec
<1>4. Spec => []SentInv
  BY <1>1, <1>3, TypeCorrect, HubInvariant, IndexInvariant, NextSentInv, PTL
     DEF Spec
<1> QED
  BY <1>2, <1>4, PTL
-----------------------------------------------------------------------------
(* No key is written for a request before its POST.                        *)
NewIsUnstored == \A r \in Requests : pc[r] = "init" => status[r] = "absent"

(* A step that leaves the keys, the verdicts shown, the beginning of the   *)
(* POSTs and the phases of the responses alone.                            *)
Quiet ==
    /\ status' = status /\ got' = got
    /\ \A r \in Requests : pc'[r] = "init" <=> pc[r] = "init"
    /\ \A t \in Responses : PhaseAt(pc'[t]) = PhaseAt(pc[t])

(* Such a step is none of the waiting room.                                *)
LEMMA RoomStands == Quiet => UNCHANGED Room!room
<1> SUFFICES ASSUME Quiet
             PROVE  UNCHANGED Room!room
  OBVIOUS
<1>1. Stage' = Stage
  BY DEF Quiet, Stage
<1>2. Phase' = Phase
  BY DEF Quiet, Phase
<1> QED BY <1>1, <1>2 DEF Quiet, Room!room

(* When no POST begins, the stages change with the keys.                   *)
LEMMA StageMoves ==
  ASSUME TypeOK, NEW r \in Requests, NEW s, pc[r] # "init",
         status' = [status EXCEPT ![r] = s],
         \A q \in Requests : pc'[q] = "init" <=> pc[q] = "init"
  PROVE  Stage' = [Stage EXCEPT ![r] = s] /\ Stage[r] = status[r]
<1>1. \A q \in Requests : status'[q] = IF q = r THEN s ELSE status[q]
  BY DEF TypeOK
<1> QED BY <1>1 DEF Stage

(* A response that moves takes its answer to the phase of the new label.   *)
LEMMA PhaseMoves ==
  ASSUME NEW t \in Responses, NEW l,
         pc'[t] = l, \A u \in Responses \ {t} : pc'[u] = pc[u]
  PROVE  Phase' = [Phase EXCEPT ![t] = PhaseAt(l)] /\ Phase[t] = PhaseAt(pc[t])
  BY DEF Phase

(* What a move of the response t alone leaves as it was.                   *)
LEMMA GotoMoves ==
  ASSUME TypeOK, NEW t \in Responses, NEW l, Goto(t, l)
  PROVE  /\ pc'[t] = l
         /\ \A u \in Responses \ {t} : pc'[u] = pc[u]
         /\ \A r \in Requests : pc'[r] = pc[r]
  BY LobbyAssumption DEF Goto, TypeOK, Procs, Workers

(* The steps of the responses that the waiting room sees.                  *)
SeenStep(t) == RespondGet(t) \/ UpdateGet(t) \/ UpdateSet(t)
               \/ VisitorLook(t) \/ VisitorWrite(t)

(* NotifyAdmins does not concern the waiting room.                         *)
LEMMA NotifyQuiet ==
  ASSUME TypeOK, NEW p \in Workers, NotifyStep(p)
  PROVE  Quiet
<1> USE LobbyAssumption
<1>1. CASE NotifyCopy(p)
  BY <1>1 DEF NotifyCopy, Goto, TypeOK, Quiet, PhaseAt, Procs, Workers
<1>2. ASSUME NEW a \in Admins, NotifyWrite(p, a)
      PROVE  Quiet
  BY <1>2 DEF NotifyWrite, Quiet
<1>3. CASE NotifyEnd(p)
  <2>1. CASE p \in Responses
    <3>1. Moves(p, IF Act[p] = "approved" THEN "sleep" ELSE "cget", "reading")
      BY <1>3, <2>1 DEF NotifyEnd, Moves, Workers
    <3>2. /\ pc[p] = "write"
          /\ \A t \in Responses \ {p} : pc'[t] = pc[t]
          /\ pc'[p] \in {"sleep", "cget"}
          /\ \A q \in Requests : pc'[q] = pc[q]
      BY <1>3, <2>1, <3>1, ReturnMoves DEF NotifyEnd
    <3> QED BY <1>3, <3>2 DEF NotifyEnd, Quiet, PhaseAt
  <2>2. CASE p \notin Responses
    BY <1>3, <2>2 DEF NotifyEnd, Goto, TypeOK, Quiet, Procs, Workers
  <2> QED BY <2>1, <2>2
<1> QED BY <1>1, <1>2, <1>3 DEF NotifyStep

(* Of the other steps only a few do.                                       *)
LEMMA MostStepsQuiet ==
  TypeOK /\ [Next]_vars =>
    \/ Quiet \/ Crash
    \/ \E r \in Requests : PostSet(r) \/ KeyExpires(r)
    \/ \E p \in Cleaners : CleanupDel(p)
    \/ \E t \in Responses : SeenStep(t)
<1> SUFFICES ASSUME TypeOK, [Next]_vars
             PROVE  \/ Quiet \/ Crash
                    \/ \E r \in Requests : PostSet(r) \/ KeyExpires(r)
                    \/ \E p \in Cleaners : CleanupDel(p)
                    \/ \E t \in Responses : SeenStep(t)
  OBVIOUS
<1> USE LobbyAssumption
<1>1. ASSUME NEW r \in Requests, PostAdd(r)
      PROVE  Quiet
  BY <1>1 DEF PostAdd, Goto, TypeOK, Quiet, Procs, Workers
<1>2. ASSUME NEW p \in Cleaners, CleanupGet(p)
      PROVE  Quiet
  BY <1>2 DEF CleanupGet, Goto, TypeOK, Quiet, PhaseAt, Procs, Workers, Cleaners
<1>3. ASSUME NEW p \in Cleaners, CleanupSRem(p)
      PROVE  Quiet
  BY <1>3 DEF CleanupSRem, Goto, TypeOK, Quiet, PhaseAt, Procs, Workers, Cleaners
<1>4. ASSUME NEW c \in Conns, VisitorStep(c)
      PROVE  Quiet
  <2>1. status' = status /\ got' = got /\ \E l : Goto(c, l)
    BY <1>4 DEF VisitorStep, VisitorGet, VisitorRegister, VisitorUnregister,
                VisitorRecheck
  <2>2. \A p \in Requests \cup Responses : pc'[p] = pc[p]
    BY <2>1 DEF Goto, TypeOK, Procs, Workers
  <2> QED BY <2>1, <2>2 DEF Quiet
<1>5. ASSUME NEW a \in Admins, AdminStep(a)
      PROVE  Quiet
  BY <1>5 DEF AdminStep, AdminRegister, AdminSMembers, AdminGet, AdminSnapshot,
              AdminUnregister, Goto, TypeOK, Quiet, Procs, Workers
<1>6. ASSUME NEW t \in Responses, UpdateSRem(t) \/ SleepEnds(t)
      PROVE  Quiet
  BY <1>6 DEF UpdateSRem, SleepEnds, Goto, TypeOK, Quiet, PhaseAt, Procs, Workers
<1>7. ASSUME NEW x \in Cancels, CancelGet(x)
      PROVE  Quiet
  BY <1>7 DEF CancelGet, Goto, TypeOK, Quiet, Procs, Workers
<1>8. ASSUME NEW c \in Conns, VisitorConnect(c)
      PROVE  Quiet
  BY <1>8 DEF VisitorConnect, Goto, TypeOK, Quiet, Procs, Workers
<1>9. ASSUME NEW a \in Admins, AdminConnect(a)
      PROVE  Quiet
  BY <1>9 DEF AdminConnect, Goto, TypeOK, Quiet, Procs, Workers
<1>10. ASSUME NEW s \in Conns \cup Admins, Drop(s)
       PROVE  Quiet
  BY <1>10 DEF Drop, Quiet
<1>11. ASSUME NEW m \in Meetings, SetExpires(m)
       PROVE  Quiet
  BY <1>11 DEF SetExpires, Quiet
<1>12. CASE UNCHANGED vars
  BY <1>12 DEF vars, Quiet
<1> QED
  BY <1>1, <1>2, <1>3, <1>4, <1>5, <1>6, <1>7, <1>8, <1>9, <1>10, <1>11,
     <1>12, NotifyQuiet
     DEF Next, ServerStep, PageStep, PostStep, CleanupStep, RespondStep, SeenStep

(* A response that moves with its socket, or alone, moves no request.      *)
LEMMA SeenMoves ==
  ASSUME TypeOK, NEW t \in Responses, SeenStep(t)
  PROVE  /\ \A u \in Responses \ {t} : pc'[u] = pc[u]
         /\ \A r \in Requests : pc'[r] = pc[r]
<1>1. CASE \E l : Goto(t, l)
  BY <1>1, GotoMoves
<1>2. CASE \E k, l : Moves(t, k, l)
  BY <1>2, ReturnMoves
<1> QED
  BY <1>1, <1>2
     DEF SeenStep, RespondGet, UpdateGet, UpdateSet, VisitorLook, VisitorWrite,
         Moves

(* Every step keeps a request without POST without a key.                  *)
LEMMA NextNew ==
  TypeOK /\ RespondersKnow /\ NewIsUnstored /\ [Next]_vars => NewIsUnstored'
<1> SUFFICES ASSUME TypeOK, RespondersKnow, NewIsUnstored, [Next]_vars
             PROVE  NewIsUnstored'
  OBVIOUS
<1> USE LobbyAssumption
<1>1. CASE Quiet
  BY <1>1 DEF Quiet, NewIsUnstored
<1>2. CASE Crash
  BY <1>2 DEF Crash, NewIsUnstored, Ended, Procs, Workers
<1>3. ASSUME NEW r \in Requests, PostSet(r) \/ KeyExpires(r)
      PROVE  NewIsUnstored'
  BY <1>3 DEF PostSet, KeyExpires, Goto, TypeOK, NewIsUnstored, Procs, Workers
<1>4. ASSUME NEW p \in Cleaners, CleanupDel(p)
      PROVE  NewIsUnstored'
  BY <1>4 DEF CleanupDel, Goto, TypeOK, NewIsUnstored, Procs, Workers, Cleaners
<1>5. ASSUME NEW t \in Responses, SeenStep(t)
      PROVE  NewIsUnstored'
  <2>1. \A r \in Requests : pc'[r] = pc[r]
    BY <1>5, SeenMoves
  <2>2. CASE status' = status
    BY <2>1, <2>2 DEF NewIsUnstored
  <2>3. CASE UpdateSet(t)
    BY <2>1, <2>3
       DEF UpdateSet, TypeOK, NewIsUnstored, RespondersKnow, Workers
  <2> QED
    BY <1>5, <2>2, <2>3
       DEF SeenStep, RespondGet, UpdateGet, VisitorLook, VisitorWrite
<1> QED BY <1>1, <1>2, <1>3, <1>4, <1>5, MostStepsQuiet

(* Each step of a response is one of its answer.                           *)
LEMMA SeenIsRoom ==
  ASSUME TypeOK, RespondersKnow, NEW t \in Responses, SeenStep(t)
  PROVE  [Room!RoomNext]_(Room!room)
<1> USE LobbyAssumption
<1>0. /\ About[t] \in Requests /\ t \in Procs
      /\ \A u \in Responses \ {t} : pc'[u] = pc[u]
      /\ \A r \in Requests : pc'[r] = pc[r]
  BY SeenMoves DEF Procs, Workers
<1>1. ASSUME NEW l, pc'[t] = l
      PROVE  /\ Phase' = [Phase EXCEPT ![t] = PhaseAt(l)]
             /\ Phase[t] = PhaseAt(pc[t])
  BY <1>0, <1>1, PhaseMoves
<1>2. ASSUME status' = status
      PROVE  Stage' = Stage
  BY <1>0, <1>2 DEF Stage
<1>3. CASE RespondGet(t)
  <2>1. CASE pc'[t] = "uget"
    <3>1. /\ t \in OwnAnswers /\ status[About[t]] \in Room!Statuses
          /\ pc[About[t]] # "init"
      BY <1>0, <1>3, <2>1
         DEF RespondGet, OwnAnswers, Read, TypeOK, Goto, Decisions, Room!Statuses
    <3> QED
      BY <1>0, <1>1, <1>2, <1>3, <2>1, <3>1
         DEF RespondGet, Stage, PhaseAt, Room!Hear, Room!Pass, Room!RoomNext
  <2>2. CASE pc'[t] = "done"
    BY <1>1, <1>2, <1>3, <2>2
       DEF RespondGet, PhaseAt, Room!Ignore, Room!Pass, Room!RoomNext
  <2>3. pc'[t] \in {"uget", "done"}
    <3>1. CASE Goto(t, "done")
      BY <3>1, GotoMoves
    <3>2. CASE Moves(t, "uget", "busy")
      BY <3>2, ReturnMoves
    <3> QED BY <1>3, <3>1, <3>2 DEF RespondGet, Moves
  <2> QED BY <2>1, <2>2, <2>3
<1>4. CASE UpdateGet(t)
  <2>1. CASE Goto(t, "uset")
    <3>1. pc'[t] = "uset"
      BY <2>1, GotoMoves
    <3>2. Quiet
      BY <1>0, <1>4, <3>1 DEF UpdateGet, Quiet, PhaseAt
    <3> QED BY <3>2, RoomStands
  <2>2. CASE Moves(t, "done", "reading")
    <3>1. pc'[t] = "done"
      BY <2>2, ReturnMoves
    <3> QED
      BY <1>1, <1>2, <1>4, <3>1
         DEF UpdateGet, PhaseAt, Room!GiveUp, Room!Pass, Room!RoomNext
  <2> QED BY <1>4, <2>1, <2>2 DEF UpdateGet, Moves
<1>5. CASE UpdateSet(t)
  <2>1. CASE /\ Goto(t, IF Act[t] = "rejected" THEN "usrem" ELSE "vlook")
             /\ status' = [status EXCEPT ![About[t]] = Act[t]]
    <3>1. pc'[t] \in {"usrem", "vlook"}
      BY <2>1, GotoMoves
    <3>2. pc[About[t]] # "init"
      BY <1>5 DEF UpdateSet, RespondersKnow
    <3>3. Stage' = [Stage EXCEPT ![About[t]] = Act[t]]
          /\ Stage[About[t]] = status[About[t]]
      BY <1>0, <2>1, <3>2, StageMoves
    <3>4. Stage[About[t]] # "new"
      BY <1>0, <3>3 DEF TypeOK, Decisions
    <3>5. Phase' = [Phase EXCEPT ![t] = "stored"] /\ Phase[t] = "heard"
      BY <1>1, <1>5, <3>1 DEF UpdateSet, PhaseAt
    <3> QED
      BY <1>5, <3>3, <3>4, <3>5
         DEF UpdateSet, Room!Store, Room!Pass, Room!RoomNext
  <2>2. CASE Moves(t, "done", "reading") /\ status' = status
    <3>1. pc'[t] = "done"
      BY <2>2, ReturnMoves
    <3> QED
      BY <1>1, <1>2, <1>5, <2>2, <3>1
         DEF UpdateSet, PhaseAt, Room!GiveUp, Room!Pass, Room!RoomNext
  <2> QED BY <1>5, <2>1, <2>2 DEF UpdateSet, Moves
<1>6. CASE VisitorLook(t)
  <2>1. pc'[t] \in {"copy", "vwrite"}
    BY <1>6, GotoMoves DEF VisitorLook
  <2>2. CASE pc'[t] = "copy"
    BY <1>1, <1>2, <1>6, <2>2
       DEF VisitorLook, PhaseAt, Room!Miss, Room!Pass, Room!RoomNext
  <2>3. CASE pc'[t] = "vwrite"
    <3>1. Quiet
      BY <1>0, <1>6, <2>3 DEF VisitorLook, Quiet, PhaseAt
    <3> QED BY <3>1, RoomStands
  <2> QED BY <2>1, <2>2, <2>3
<1>7. CASE VisitorWrite(t)
  <2>1. pc'[t] = "copy"
    BY <1>7, GotoMoves DEF VisitorWrite
  <2>2. Phase' = [Phase EXCEPT ![t] = "over"] /\ Phase[t] = "stored"
    BY <1>1, <1>7, <2>1 DEF VisitorWrite, PhaseAt
  <2>3. CASE got' = got
    BY <1>2, <1>7, <2>2, <2>3
       DEF VisitorWrite, Room!Miss, Room!Pass, Room!RoomNext
  <2>4. CASE got' = [got EXCEPT ![About[t]] = @ \cup {Act[t]}]
    BY <1>2, <1>7, <2>2, <2>4
       DEF VisitorWrite, Room!Tell, Room!Pass, Room!RoomNext
  <2> QED BY <1>7, <2>3, <2>4 DEF VisitorWrite
<1> QED BY <1>3, <1>4, <1>5, <1>6, <1>7 DEF SeenStep

(* Every step of the lobby is one of the waiting room, or none.            *)
LEMMA NextIsRoom ==
  TypeOK /\ RespondersKnow /\ NewIsUnstored /\ [Next]_vars
    => [Room!RoomNext]_(Room!room)
<1> SUFFICES ASSUME TypeOK, RespondersKnow, NewIsUnstored, [Next]_vars
             PROVE  [Room!RoomNext]_(Room!room)
  OBVIOUS
<1> USE LobbyAssumption
<1>1. CASE Quiet
  BY <1>1, RoomStands
<1>2. CASE Crash
  <2>1. /\ \A r \in Requests : pc'[r] = "init" <=> pc[r] = "init"
        /\ status' = status /\ got' = got
    BY <1>2 DEF Crash, Ended, Procs, Workers
  <2>2. Stage' = Stage
    BY <2>1 DEF Stage
  <2>3. \A t \in Responses :
           PhaseAt(pc'[t]) = IF PhaseAt(pc[t]) = "none" THEN "none" ELSE "over"
    BY <1>2 DEF Crash, Ended, PhaseAt, Procs, Workers
  <2>4. Phase' = [t \in Responses |-> IF Phase[t] = "none" THEN "none" ELSE "over"]
    BY <2>3 DEF Phase
  <2> QED BY <2>1, <2>2, <2>4 DEF Room!Crash, Room!RoomNext
<1>3. ASSUME NEW r \in Requests, PostSet(r)
      PROVE  Room!RoomNext
  <2>1. /\ pc[r] = "init" /\ pc'[r] # "init" /\ status[r] = "absent"
        /\ \A p \in Procs \ {r} : pc'[p] = pc[p]
        /\ \A q \in Requests \ {r} : status'[q] = status[q]
        /\ status'[r] \in {"pending", "absent"}
    BY <1>3 DEF PostSet, Goto, TypeOK, NewIsUnstored, Procs, Workers
  <2>2. Stage' = [Stage EXCEPT ![r] = status'[r]] /\ Stage[r] = "new"
    BY <2>1 DEF Stage, Procs, Workers
  <2>3. Phase' = Phase
    BY <2>1 DEF Phase, Procs, Workers
  <2> QED BY <1>3, <2>1, <2>2, <2>3 DEF PostSet, Room!Ask, Room!RoomNext
<1>4. ASSUME NEW r \in Requests, status' = [status EXCEPT ![r] = "absent"],
             got' = got,
             \A q \in Requests : pc'[q] = pc[q],
             \A t \in Responses : PhaseAt(pc'[t]) = PhaseAt(pc[t])
      PROVE  [Room!RoomNext]_(Room!room)
  <2>1. Phase' = Phase
    BY <1>4 DEF Phase
  <2>2. CASE pc[r] = "init" \/ status[r] = "absent"
    <3>1. Stage' = Stage
      BY <1>4, <2>2 DEF Stage, TypeOK
    <3> QED BY <1>4, <2>1, <3>1 DEF Room!room
  <2>3. CASE pc[r] # "init" /\ status[r] # "absent"
    <3>1. Stage' = [Stage EXCEPT ![r] = "absent"] /\ Stage[r] = status[r]
      BY <1>4, <2>3, StageMoves
    <3>2. Stage[r] \in Room!Statuses
      BY <2>3, <3>1 DEF TypeOK, Decisions, Room!Statuses
    <3> QED BY <1>4, <2>1, <3>1, <3>2 DEF Room!Forget, Room!RoomNext
  <2> QED BY <2>2, <2>3
<1>5. ASSUME NEW r \in Requests, KeyExpires(r)
      PROVE  [Room!RoomNext]_(Room!room)
  BY <1>4, <1>5 DEF KeyExpires
<1>6. ASSUME NEW p \in Cleaners, CleanupDel(p)
      PROVE  [Room!RoomNext]_(Room!room)
  <2>1. /\ About[p] \in Requests /\ got' = got
        /\ \A q \in Requests : pc'[q] = pc[q]
        /\ \A t \in Responses : PhaseAt(pc'[t]) = PhaseAt(pc[t])
    BY <1>6 DEF CleanupDel, Goto, TypeOK, PhaseAt, Procs, Workers, Cleaners
  <2>2. CASE status' = status
    BY <2>1, <2>2, RoomStands DEF Quiet
  <2>3. CASE status' = [status EXCEPT ![About[p]] = "absent"]
    BY <1>4, <2>1, <2>3
  <2> QED BY <1>6, <2>2, <2>3 DEF CleanupDel
<1> QED BY <1>1, <1>2, <1>3, <1>5, <1>6, SeenIsRoom, MostStepsQuiet

(* The lobby implements the waiting room, for any number of requests,      *)
(* sockets, responses, refused commands and crashes.                       *)
THEOREM FollowsWaitingRoomHolds == Spec => FollowsWaitingRoom
<1>1. Init => NewIsUnstored /\ Room!RoomInit
  BY LobbyAssumption
     DEF Init, NewIsUnstored, Room!RoomInit, Stage, Phase, PhaseAt, Procs, Workers
<1>2. IndexInv => RespondersKnow
  BY DEF IndexInv
<1> QED
  BY <1>1, <1>2, TypeCorrect, IndexInvariant, NextNew, NextIsRoom, PTL
     DEF Spec, FollowsWaitingRoom, Room!RoomSpec
=============================================================================

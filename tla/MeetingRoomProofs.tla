-------------------------- MODULE MeetingRoomProofs --------------------------
(***************************************************************************)
(* Proofs about the meeting room, for any number of tabs, rooms entered,   *)
(* recordings, calls under way and refused commands.                       *)
(***************************************************************************)
EXTENDS MeetingRoom, FiniteSetTheorems, TLAPS

USE RoomAssumption

Messages == {GetDisconnectMessage(r) : r \in Reasons} \cup {"none"}

Session == [id : Nat, status : {"none", "STARTED", "CAPTURED"}]

TabType ==
    [place : {"away", "room", "message"}, why : Messages, cut : Reasons \cup {"none"},
     known : BOOLEAN, chat : BOOLEAN, panel : BOOLEAN, confirm : BOOLEAN, ending : BOOLEAN,
     session : Session, busy : BOOLEAN, toast : BOOLEAN]

CallType ==
    [tab : Tabs, kind : Kinds, visit : Nat, own : BOOLEAN,
     stage : {"sent", "ok", "failed"}, id : Nat]

Typed ==
    /\ tab \in [Tabs -> TabType]
    /\ calls \in SUBSET CallType /\ IsFiniteSet(calls)
    /\ starts \in 0..MaxStarts /\ active \in 0..starts
    /\ joins \in Nat /\ faults \in Nat /\ slipped \in BOOLEAN

Toggles == {"start", "stop"}

(* What tab t shows is in order: only a host whose meeting is known has    *)
(* used the summarizer's button, and a page that is left shows nothing.    *)
Sound(t, r) ==
    /\ ~(r.chat /\ r.panel)
    /\ r.ending => r.confirm
    /\ r.place = "room" \/ (~r.busy /\ ~r.ending /\ r.session = NoSession)
    /\ r.busy \/ r.session.status = "STARTED" => t \in Hosts /\ r.known

(* The session that is running is shown as running.                        *)
Shows(r) ==
    /\ r.session.id <= starts
    /\ active # 0 /\ r.session.id = active => r.session.status = "STARTED"

(* Whatever a tab waits for is under way.                                  *)
Awaited(t) ==
    /\ tab[t].busy => \E c \in calls : c.tab = t /\ c.own /\ c.kind \in Toggles
    /\ tab[t].ending => \E c \in calls : c.tab = t /\ c.own /\ c.kind = "end"

(* A call that is waited for has its tab waiting; those of earlier visits  *)
(* were made before the last room was entered.                             *)
InOrder(c) ==
    /\ c.visit <= joins /\ c.id <= starts
    /\ c.own /\ c.kind \in Toggles => tab[c.tab].busy
    /\ c.own /\ c.kind = "stop" => IsActive(c.tab)
    /\ c.kind = "stop" /\ c.stage = "ok" => c.id # 0 /\ c.id # active
    /\ InRoom(c.tab) /\ (c.kind = "leave" \/ (c.kind \in Toggles /\ ~c.own)) => c.visit < joins

(* A tab waits for one toggle at a time, and sends one start or stop for a *)
(* visit.                                                                  *)
Apart(c, d) ==
    c.tab = d.tab =>
        /\ c.own /\ d.own /\ c.kind \in Toggles /\ d.kind \in Toggles => c = d
        /\ c.kind \in {"start", "leave"} /\ d.kind = c.kind /\ c.visit = d.visit
           /\ c.stage = "sent" /\ d.stage = "sent" => c = d

(* Calls the server has not handled, told apart without their owners.      *)
Pending(kind, cs) == {c \in cs : c.kind = kind /\ c.stage = "sent"}
Sent(kind, cs) == {<<c.tab, c.visit>> : c \in Pending(kind, cs)}

(* An answer after which its tab neither records nor waits.                *)
Settled(c) == c.own /\ <<c.kind, c.stage>> \in {<<"stop", "ok">>, <<"start", "failed">>}

(* The tabs that will stop what is running, if only by leaving.            *)
Engaged ==
    {t \in Tabs : /\ tab[t].busy \/ IsActive(t)
                  /\ ~\E c \in calls : c.tab = t /\ Settled(c)}

Running == IF active = 0 THEN 0 ELSE 1

(* Each session that runs or may still be started has a stop of its own to *)
(* come: as many tabs are engaged, or have sent their parting stop.        *)
Covered ==
    Running + Cardinality(Sent("start", calls))
        <= Cardinality(Engaged) + Cardinality(Sent("leave", calls))

Orderly ==
    /\ Typed
    /\ \A t \in Tabs : Sound(t, tab[t]) /\ Shows(tab[t]) /\ Awaited(t)
    /\ \A c \in calls : InOrder(c)
    /\ \A c, d \in calls : Apart(c, d)

(* The inductive invariant.                                                *)
Inv == Orderly /\ (slipped \/ Covered)

-----------------------------------------------------------------------------
(* Counting.                                                               *)

LEMMA MappedFinite ==
    ASSUME NEW S, IsFiniteSet(S), NEW T, NEW f \in [S -> T], \A y \in T : \E x \in S : f[x] = y
    PROVE  IsFiniteSet(T)
  <1>1. f \in Surjection(S, T)
    BY DEF Surjection
  <1> QED
    BY <1>1, FS_Surjection

LEMMA SentFinite ==
    ASSUME NEW cs \in SUBSET CallType, IsFiniteSet(cs), NEW kind
    PROVE  IsFiniteSet(Sent(kind, cs)) /\ Cardinality(Sent(kind, cs)) \in Nat
  <1> DEFINE f == [c \in Pending(kind, cs) |-> <<c.tab, c.visit>>]
  <1>1. IsFiniteSet(Pending(kind, cs))
    <2>1. Pending(kind, cs) \subseteq cs
      BY DEF Pending
    <2> QED
      BY <2>1, FS_Subset
  <1>2. f \in [Pending(kind, cs) -> Sent(kind, cs)]
    BY DEF Sent
  <1>3. \A y \in Sent(kind, cs) : \E c \in Pending(kind, cs) : f[c] = y
    BY DEF Sent
  <1> HIDE DEF f
  <1>4. IsFiniteSet(Sent(kind, cs))
    BY <1>1, <1>2, <1>3, MappedFinite
  <1> QED
    BY <1>4, FS_CardinalityType

LEMMA EngagedFinite ==
    IsFiniteSet(Engaged) /\ Cardinality(Engaged) \in Nat
  <1>1. Engaged \subseteq Tabs
    BY DEF Engaged
  <1> QED
    BY <1>1, FS_Subset, FS_CardinalityType

(* What counts is a comparison of sets of keys.                            *)
LEMMA CoverStays ==
    ASSUME Typed, Typed', Covered, Running' <= Running,
           Sent("start", calls') \subseteq Sent("start", calls),
           Sent("leave", calls) \subseteq Sent("leave", calls'),
           Engaged \subseteq Engaged'
    PROVE  Covered'
  <1>1. /\ Cardinality(Sent("start", calls')) <= Cardinality(Sent("start", calls))
        /\ Cardinality(Sent("start", calls')) \in Nat /\ Cardinality(Sent("start", calls)) \in Nat
    BY SentFinite, FS_Subset DEF Typed
  <1>2. /\ Cardinality(Sent("leave", calls)) <= Cardinality(Sent("leave", calls'))
        /\ Cardinality(Sent("leave", calls')) \in Nat /\ Cardinality(Sent("leave", calls)) \in Nat
    BY SentFinite, FS_Subset DEF Typed
  <1>3. IsFiniteSet(Engaged') /\ Cardinality(Engaged') \in Nat
    <2>1. Engaged' \subseteq Tabs
      BY DEF Engaged
    <2> QED
      BY <2>1, FS_Subset, FS_CardinalityType
  <1>4. Cardinality(Engaged) <= Cardinality(Engaged') /\ Cardinality(Engaged) \in Nat
    BY <1>3, EngagedFinite, FS_Subset
  <1>5. Running \in Nat /\ Running' \in Nat
    BY DEF Running
  <1> QED
    BY <1>1, <1>2, <1>3, <1>4, <1>5 DEF Covered

LEMMA Sizes ==
    ASSUME NEW S, IsFiniteSet(S), NEW T, IsFiniteSet(T), NEW x
    PROVE  /\ Cardinality(S) \in Nat /\ Cardinality(T) \in Nat
           /\ S \subseteq T => Cardinality(S) <= Cardinality(T)
           /\ S \subseteq T \cup {x} => Cardinality(S) <= Cardinality(T) + 1
           /\ S \subseteq T \ {x} /\ x \in T => Cardinality(S) <= Cardinality(T) - 1
  <1>1. Cardinality(S) \in Nat /\ Cardinality(T) \in Nat
    BY FS_CardinalityType
  <1>2. S \subseteq T => Cardinality(S) <= Cardinality(T)
    BY FS_Subset
  <1>3. ASSUME S \subseteq T \cup {x}
        PROVE  Cardinality(S) <= Cardinality(T) + 1
    <2>1. /\ IsFiniteSet(T \cup {x})
          /\ Cardinality(T \cup {x}) = IF x \in T THEN Cardinality(T) ELSE Cardinality(T) + 1
      BY FS_AddElement
    <2>2. Cardinality(S) <= Cardinality(T \cup {x})
      BY <1>3, <2>1, FS_Subset
    <2> QED
      BY <1>1, <2>1, <2>2
  <1>4. ASSUME S \subseteq T \ {x}, x \in T
        PROVE  Cardinality(S) <= Cardinality(T) - 1
    <2>1. /\ IsFiniteSet(T \ {x})
          /\ Cardinality(T \ {x}) = IF x \in T THEN Cardinality(T) - 1 ELSE Cardinality(T)
      BY FS_RemoveElement
    <2>2. Cardinality(S) <= Cardinality(T \ {x})
      BY <1>4, <2>1, FS_Subset
    <2> QED
      BY <1>1, <1>4, <2>1, <2>2
  <1> QED
    BY <1>1, <1>2, <1>3, <1>4

-----------------------------------------------------------------------------
(* The calls of a component that is gone.                                  *)

LEMMA Disowned ==
    ASSUME NEW c \in CallType
    PROVE  LET d == [c EXCEPT !.own = FALSE] IN
           /\ d \in CallType /\ d.own = FALSE
           /\ d.tab = c.tab /\ d.kind = c.kind /\ d.visit = c.visit
           /\ d.stage = c.stage /\ d.id = c.id
  BY DEF CallType

LEMMA DetachedCalls ==
    ASSUME Orderly, NEW t \in Tabs, NEW ks \in SUBSET Kinds
    PROVE  /\ Detached(t, ks) \in SUBSET CallType /\ IsFiniteSet(Detached(t, ks))
           /\ \A kind : Sent(kind, Detached(t, ks)) = Sent(kind, calls)
           /\ \A d \in Detached(t, ks) : \E c \in calls :
                 /\ d.tab = c.tab /\ d.kind = c.kind /\ d.visit = c.visit
                 /\ d.stage = c.stage /\ d.id = c.id
                 /\ d.tab = t /\ d.kind \in ks => d.own = FALSE
                 /\ d.tab # t \/ d.kind \notin ks => d = c
           /\ \A c \in calls : c.tab # t \/ c.kind \notin ks => c \in Detached(t, ks)
           /\ \A d, e \in Detached(t, ks) : Apart(d, e)
  <1> DEFINE g(c) == IF c.tab = t /\ c.kind \in ks THEN [c EXCEPT !.own = FALSE] ELSE c
             cs == Detached(t, ks)
             f == [c \in calls |-> g(c)]
  <1>1. calls \in SUBSET CallType /\ IsFiniteSet(calls) /\ \A c, d \in calls : Apart(c, d)
    BY DEF Orderly, Typed
  <1>2. cs = {g(c) : c \in calls}
    BY DEF Detached
  <1>3. \A c \in calls :
           /\ g(c) \in CallType /\ g(c).tab = c.tab /\ g(c).kind = c.kind /\ g(c).visit = c.visit
           /\ g(c).stage = c.stage /\ g(c).id = c.id
           /\ c.tab = t /\ c.kind \in ks => g(c).own = FALSE
           /\ c.tab # t \/ c.kind \notin ks => g(c) = c
    BY <1>1, Disowned
  <1> HIDE DEF cs
  <1>4. f \in [calls -> cs] /\ \A d \in cs : \E c \in calls : f[c] = d
    BY <1>2
  <1> HIDE DEF g
  <1>5. IsFiniteSet(cs)
    <2> HIDE DEF f
    <2> QED
      BY <1>1, <1>4, MappedFinite
  <1>6. ASSUME NEW kind
        PROVE  Sent(kind, cs) = Sent(kind, calls)
    BY <1>2, <1>3 DEF Sent, Pending
  <1>7. ASSUME NEW d \in cs, NEW e \in cs
        PROVE  Apart(d, e)
    <2>1. PICK c \in calls : d = g(c)
      BY <1>2
    <2>2. PICK b \in calls : e = g(b)
      BY <1>2
    <2>3. Apart(c, b)
      BY <1>1
    <2> QED
      BY <1>3, <2>1, <2>2, <2>3 DEF Apart
  <1>8. /\ cs \in SUBSET CallType
        /\ \A d \in cs : \E c \in calls :
              /\ d.tab = c.tab /\ d.kind = c.kind /\ d.visit = c.visit
              /\ d.stage = c.stage /\ d.id = c.id
              /\ d.tab = t /\ d.kind \in ks => d.own = FALSE
              /\ d.tab # t \/ d.kind \notin ks => d = c
        /\ \A c \in calls : c.tab # t \/ c.kind \notin ks => c \in cs
    BY <1>2, <1>3
  <1> QED
    BY <1>5, <1>6, <1>7, <1>8 DEF cs

-----------------------------------------------------------------------------
(* Steps that only change what a tab shows.                                *)

LEMMA Before ==
    ASSUME Inv, NEW t \in Tabs
    PROVE  /\ tab[t] \in TabType /\ Sound(t, tab[t]) /\ Shows(tab[t]) /\ Awaited(t)
           /\ joins \in Nat /\ starts \in Nat /\ active \in Nat
  BY DEF Inv, Orderly, Typed

(* A tab without a room.                                                   *)
LEMMA AwayTyped ==
    /\ Away \in TabType /\ Away.place = "away" /\ Away.busy = FALSE
    /\ Away.ending = FALSE /\ Away.session = NoSession
    /\ \A t : Sound(t, Away)
  <1>1. NoSession \in Session /\ NoSession.status = "none"
    BY DEF NoSession, Session
  <1>2. Away \in TabType
    BY <1>1 DEF Away, TabType, Messages
  <1>3. /\ Away.place = "away" /\ Away.busy = FALSE /\ Away.chat = FALSE
        /\ Away.ending = FALSE /\ Away.session = NoSession
    BY DEF Away
  <1> QED
    BY <1>1, <1>2, <1>3 DEF Sound

LEMMA TabStep ==
    ASSUME Inv, NEW t \in Tabs, NEW r \in TabType, Sound(t, r),
           tab' = [tab EXCEPT ![t] = r], UNCHANGED <<calls, server, bounds, slipped>>,
           r.busy = tab[t].busy, r.session = tab[t].session,
           r.place = "room" => InRoom(t), r.ending => tab[t].ending
    PROVE  Inv'
  <1>1. Typed /\ tab \in [Tabs -> TabType]
    BY DEF Inv, Orderly, Typed
  <1>2. /\ tab' \in [Tabs -> TabType] /\ tab'[t] = r
        /\ \A u \in Tabs : u # t => tab'[u] = tab[u]
    BY <1>1
  <1>3. /\ calls' = calls /\ active' = active /\ starts' = starts /\ joins' = joins
        /\ faults' = faults /\ slipped' = slipped
    BY DEF server, bounds
  <1>4. Typed'
    BY <1>1, <1>2, <1>3 DEF Typed
  <1>5. \A u \in Tabs : /\ tab'[u].busy = tab[u].busy /\ tab'[u].session = tab[u].session
                        /\ (tab'[u].place = "room" => InRoom(u))
                        /\ (tab'[u].ending => tab[u].ending)
    BY <1>2 DEF InRoom
  <1>6. ASSUME NEW u \in Tabs
        PROVE  Sound(u, tab'[u]) /\ Shows(tab[u])' /\ Awaited(u)'
    <2>1. Sound(u, tab[u]) /\ Shows(tab[u]) /\ Awaited(u)
      BY Before
    <2>2. Sound(u, tab'[u])
      BY <1>2, <2>1
    <2> QED
      BY <1>3, <1>5, <2>1, <2>2 DEF Shows, Awaited
  <1>7. ASSUME NEW c \in calls'
        PROVE  InOrder(c)'
    <2>1. InOrder(c) /\ c.tab \in Tabs
      BY <1>1, <1>3 DEF Inv, Orderly, Typed, CallType
    <2> QED
      BY <1>3, <1>5, <2>1 DEF InOrder, InRoom, IsActive
  <1>8. Engaged' = Engaged
    BY <1>3, <1>5 DEF Engaged, IsActive
  <1>9. slipped' \/ Covered'
    BY <1>3, <1>8 DEF Inv, Covered, Running
  <1> QED
    BY <1>3, <1>4, <1>6, <1>7, <1>9 DEF Inv, Orderly

LEMMA MeetingArrivesStep ==
    ASSUME Inv, NEW t \in Tabs, MeetingArrives(t)
    PROVE  Inv'
  <1> DEFINE r == [tab[t] EXCEPT !.known = TRUE]
  <1>1. tab[t] \in TabType /\ Sound(t, tab[t])
    BY Before
  <1>2. /\ r \in TabType /\ r.known = TRUE /\ r.place = tab[t].place /\ r.busy = tab[t].busy
        /\ r.session = tab[t].session /\ r.ending = tab[t].ending /\ r.confirm = tab[t].confirm
        /\ r.chat = tab[t].chat /\ r.panel = tab[t].panel
    BY <1>1 DEF TabType
  <1>3. Sound(t, r)
    BY <1>1, <1>2 DEF Sound
  <1>4. tab' = [tab EXCEPT ![t] = r] /\ UNCHANGED <<calls, server, bounds, slipped>>
    BY DEF MeetingArrives, Update
  <1> HIDE DEF r
  <1> QED
    BY <1>2, <1>3, <1>4, TabStep DEF InRoom

LEMMA ToastEndsStep ==
    ASSUME Inv, NEW t \in Tabs, ToastEnds(t)
    PROVE  Inv'
  <1> DEFINE r == [tab[t] EXCEPT !.toast = FALSE]
  <1>1. tab[t] \in TabType /\ Sound(t, tab[t])
    BY Before
  <1>2. /\ r \in TabType /\ r.known = tab[t].known /\ r.place = tab[t].place /\ r.busy = tab[t].busy
        /\ r.session = tab[t].session /\ r.ending = tab[t].ending /\ r.confirm = tab[t].confirm
        /\ r.chat = tab[t].chat /\ r.panel = tab[t].panel
    BY <1>1 DEF TabType
  <1>3. Sound(t, r)
    BY <1>1, <1>2 DEF Sound
  <1>4. tab' = [tab EXCEPT ![t] = r] /\ UNCHANGED <<calls, server, bounds, slipped>>
    BY DEF ToastEnds, Update
  <1> HIDE DEF r
  <1> QED
    BY <1>2, <1>3, <1>4, TabStep DEF InRoom

LEMMA KickStep ==
    ASSUME Inv, NEW t \in Tabs, NEW u \in Tabs, Kick(t, u)
    PROVE  Inv'
  <1> DEFINE r == [tab[u] EXCEPT !.cut = "removed"]
  <1>1. tab[u] \in TabType /\ Sound(u, tab[u])
    BY Before
  <1>2. /\ r \in TabType /\ r.known = tab[u].known /\ r.place = tab[u].place /\ r.busy = tab[u].busy
        /\ r.session = tab[u].session /\ r.ending = tab[u].ending /\ r.confirm = tab[u].confirm
        /\ r.chat = tab[u].chat /\ r.panel = tab[u].panel
    BY <1>1 DEF TabType, Reasons
  <1>3. Sound(u, r)
    BY <1>1, <1>2 DEF Sound
  <1>4. tab' = [tab EXCEPT ![u] = r] /\ UNCHANGED <<calls, server, bounds, slipped>>
    BY DEF Kick, Update
  <1> HIDE DEF r
  <1> QED
    BY <1>2, <1>3, <1>4, TabStep DEF InRoom

(* Asking whether to end the meeting, and taking it back.                  *)
LEMMA ConfirmStep ==
    ASSUME Inv, NEW t \in Tabs, ClickEnd(t) \/ CancelEnd(t)
    PROVE  Inv'
  <1>1. tab[t] \in TabType /\ Sound(t, tab[t])
    BY Before
  <1>2. PICK b \in BOOLEAN : /\ tab' = [tab EXCEPT ![t] = [tab[t] EXCEPT !.confirm = b]]
                             /\ b \/ ~tab[t].ending
                             /\ UNCHANGED <<calls, server, bounds, slipped>>
    BY DEF ClickEnd, CancelEnd, ConfirmShown, Update
  <1> DEFINE r == [tab[t] EXCEPT !.confirm = b]
  <1>3. /\ r \in TabType /\ r.known = tab[t].known /\ r.place = tab[t].place /\ r.busy = tab[t].busy
        /\ r.session = tab[t].session /\ r.ending = tab[t].ending /\ r.confirm = b
        /\ r.chat = tab[t].chat /\ r.panel = tab[t].panel
    BY <1>1 DEF TabType
  <1>4. Sound(t, r)
    BY <1>1, <1>2, <1>3 DEF Sound
  <1>5. tab' = [tab EXCEPT ![t] = r] /\ UNCHANGED <<calls, server, bounds, slipped>>
    BY <1>2
  <1> HIDE DEF r
  <1> QED
    BY <1>2, <1>3, <1>4, <1>5, TabStep DEF InRoom

(* The message makes way for the dashboard.                                *)
LEMMA TimerLeavesStep ==
    ASSUME Inv, NEW t \in Tabs, TimerLeaves(t)
    PROVE  Inv'
  <1>1. tab[t] \in TabType /\ Sound(t, tab[t]) /\ tab[t].place = "message"
    BY Before DEF TimerLeaves, MessageShown
  <1>2. ~tab[t].busy /\ tab[t].session = NoSession
    BY <1>1 DEF Sound
  <1>3. tab' = [tab EXCEPT ![t] = Away] /\ UNCHANGED <<calls, server, bounds, slipped>>
    BY DEF TimerLeaves, HandleLeaveMeeting, Update
  <1>4. /\ Away \in TabType /\ Away.place = "away" /\ Away.busy = FALSE
        /\ Away.ending = FALSE /\ Away.session = NoSession /\ Sound(t, Away)
    BY AwayTyped
  <1>5. tab[t].busy = FALSE
    BY <1>1, <1>2 DEF TabType
  <1> QED
    BY <1>2, <1>3, <1>4, <1>5, TabStep

-----------------------------------------------------------------------------
(* A panel that is closed while the meeting is being ended.                *)

LEMMA ClosedStep ==
    ASSUME Inv, NEW t \in Tabs, NEW r \in TabType, Sound(t, r),
           tab' = [tab EXCEPT ![t] = r], calls' = Detached(t, {"end"}),
           UNCHANGED <<server, bounds, slipped>>,
           r.busy = tab[t].busy, r.session = tab[t].session, r.place = tab[t].place,
           r.ending = FALSE
    PROVE  Inv'
  <1>1. Orderly /\ Typed /\ tab \in [Tabs -> TabType] /\ {"end"} \in SUBSET Kinds
    BY DEF Inv, Orderly, Typed, Kinds
  <1>2. /\ tab' \in [Tabs -> TabType] /\ tab'[t] = r
        /\ \A u \in Tabs : u # t => tab'[u] = tab[u]
    BY <1>1
  <1>3. /\ active' = active /\ starts' = starts /\ joins' = joins
        /\ faults' = faults /\ slipped' = slipped
    BY DEF server, bounds
  <1> DEFINE ks == {"end"}
             cs == Detached(t, ks)
  <1> HIDE DEF ks
  <1>4. /\ cs \in SUBSET CallType /\ IsFiniteSet(cs)
        /\ \A kind : Sent(kind, cs) = Sent(kind, calls)
        /\ \A d \in cs : \E c \in calls :
              /\ d.tab = c.tab /\ d.kind = c.kind /\ d.visit = c.visit
              /\ d.stage = c.stage /\ d.id = c.id
              /\ d.tab = t /\ d.kind \in ks => d.own = FALSE
              /\ d.tab # t \/ d.kind \notin ks => d = c
        /\ \A c \in calls : c.tab # t \/ c.kind \notin ks => c \in cs
        /\ \A d, e \in cs : Apart(d, e)
    <2>1. ks \in SUBSET Kinds
      BY <1>1 DEF ks
    <2> QED
      BY <1>1, <2>1, DetachedCalls
  <1>11. calls' = cs /\ ks = {"end"}
    BY DEF ks
  <1> HIDE DEF cs
  <1>5. Typed'
    BY <1>1, <1>2, <1>3, <1>4, <1>11 DEF Typed
  <1>6. \A u \in Tabs : /\ tab'[u].busy = tab[u].busy /\ tab'[u].session = tab[u].session
                        /\ tab'[u].place = tab[u].place
    BY <1>2
  <1>7. ASSUME NEW u \in Tabs
        PROVE  Sound(u, tab'[u]) /\ Shows(tab[u])' /\ Awaited(u)'
    <2>1. Sound(u, tab[u]) /\ Shows(tab[u]) /\ Awaited(u)
      BY Before
    <2>2. Sound(u, tab'[u])
      BY <1>2, <2>1
    <2>3. Awaited(u)'
      BY <1>2, <1>4, <1>11, <1>6, <2>1 DEF Awaited, Toggles
    <2> QED
      BY <1>3, <1>6, <2>1, <2>2, <2>3 DEF Shows
  <1>8. ASSUME NEW d \in calls'
        PROVE  InOrder(d)'
    <2>1. PICK c \in calls :
              /\ d.tab = c.tab /\ d.kind = c.kind /\ d.visit = c.visit
              /\ d.stage = c.stage /\ d.id = c.id
              /\ d.kind # "end" => d = c
      BY <1>4, <1>11
    <2>2. InOrder(c) /\ c.tab \in Tabs
      BY <1>1 DEF Orderly, Typed, CallType
    <2> QED
      BY <1>3, <1>6, <2>1, <2>2 DEF InOrder, InRoom, IsActive, Toggles
  <1>9. Engaged' = Engaged
    BY <1>4, <1>11, <1>6 DEF Engaged, IsActive, Settled
  <1>10. slipped' \/ Covered'
    BY <1>3, <1>4, <1>11, <1>9 DEF Inv, Covered, Running
  <1> QED
    BY <1>4, <1>11, <1>5, <1>7, <1>8, <1>10 DEF Inv, Orderly

LEMMA ClosedPanel ==
    ASSUME NEW c \in TabType
    PROVE  LET r == PanelClosed(c) IN
           /\ r \in TabType /\ r.panel = FALSE /\ r.confirm = FALSE /\ r.ending = FALSE
           /\ r.known = c.known /\ r.place = c.place /\ r.busy = c.busy /\ r.session = c.session
           /\ r.chat = c.chat
  BY DEF PanelClosed, TabType

LEMMA ToggleAdminStep ==
    ASSUME Inv, NEW t \in Tabs, ToggleAdmin(t)
    PROVE  Inv'
  <1>1. tab[t] \in TabType /\ Sound(t, tab[t]) /\ UNCHANGED <<server, bounds, slipped>>
    BY Before DEF ToggleAdmin
  <1>2. CASE PanelShown(t)
    <2> DEFINE r == PanelClosed(tab[t])
    <2>1. tab' = [tab EXCEPT ![t] = r] /\ calls' = Detached(t, {"end"})
      BY <1>2 DEF ToggleAdmin, Update
    <2>2. /\ r \in TabType /\ r.panel = FALSE /\ r.confirm = FALSE /\ r.ending = FALSE
          /\ r.known = tab[t].known /\ r.place = tab[t].place /\ r.busy = tab[t].busy
          /\ r.session = tab[t].session /\ r.chat = tab[t].chat
      BY <1>1, ClosedPanel
    <2>3. Sound(t, r)
      BY <1>1, <2>2 DEF Sound
    <2> HIDE DEF r
    <2> QED
      BY <1>1, <2>1, <2>2, <2>3, ClosedStep
  <1>3. CASE ~PanelShown(t)
    <2> DEFINE r == [tab[t] EXCEPT !.chat = FALSE, !.panel = TRUE]
    <2>1. tab' = [tab EXCEPT ![t] = r] /\ UNCHANGED calls
      BY <1>3 DEF ToggleAdmin, Update
    <2>2. /\ r \in TabType /\ r.panel = TRUE /\ r.confirm = tab[t].confirm
          /\ r.ending = tab[t].ending /\ r.known = tab[t].known /\ r.place = tab[t].place
          /\ r.busy = tab[t].busy /\ r.session = tab[t].session /\ r.chat = FALSE
      BY <1>1 DEF TabType
    <2>3. Sound(t, r)
      BY <1>1, <2>2 DEF Sound
    <2> HIDE DEF r
    <2> QED
      BY <1>1, <2>1, <2>2, <2>3, TabStep DEF InRoom
  <1> QED
    BY <1>2, <1>3

LEMMA ToggleChatStep ==
    ASSUME Inv, NEW t \in Tabs, ToggleChat(t)
    PROVE  Inv'
  <1>1. tab[t] \in TabType /\ Sound(t, tab[t]) /\ UNCHANGED <<server, bounds, slipped>>
    BY Before DEF ToggleChat
  <1>2. CASE ~ChatShown(t)
    <2> DEFINE p == PanelClosed(tab[t])
               r == [p EXCEPT !.chat = TRUE]
    <2>1. tab' = [tab EXCEPT ![t] = r] /\ calls' = Detached(t, {"end"})
      BY <1>2 DEF ToggleChat, Update
    <2>2. /\ p \in TabType /\ p.panel = FALSE /\ p.confirm = FALSE /\ p.ending = FALSE
          /\ p.known = tab[t].known /\ p.place = tab[t].place /\ p.busy = tab[t].busy
          /\ p.session = tab[t].session
      BY <1>1, ClosedPanel
    <2> HIDE DEF p
    <2>3. /\ r \in TabType /\ r.panel = FALSE /\ r.confirm = FALSE /\ r.ending = FALSE
          /\ r.known = tab[t].known /\ r.place = tab[t].place /\ r.busy = tab[t].busy
          /\ r.session = tab[t].session
      BY <2>2 DEF TabType
    <2>4. Sound(t, r)
      BY <1>1, <2>3 DEF Sound
    <2> HIDE DEF r
    <2> QED
      BY <1>1, <2>1, <2>3, <2>4, ClosedStep
  <1>3. CASE ChatShown(t)
    <2> DEFINE r == [tab[t] EXCEPT !.chat = FALSE]
    <2>1. tab' = [tab EXCEPT ![t] = r] /\ UNCHANGED calls
      BY <1>3 DEF ToggleChat, Update
    <2>2. /\ r \in TabType /\ r.panel = tab[t].panel /\ r.confirm = tab[t].confirm
          /\ r.ending = tab[t].ending /\ r.known = tab[t].known /\ r.place = tab[t].place
          /\ r.busy = tab[t].busy /\ r.session = tab[t].session /\ r.chat = FALSE
      BY <1>1 DEF TabType
    <2>3. Sound(t, r)
      BY <1>1, <2>2 DEF Sound
    <2> HIDE DEF r
    <2> QED
      BY <1>1, <2>1, <2>2, <2>3, TabStep DEF InRoom
  <1> QED
    BY <1>2, <1>3

-----------------------------------------------------------------------------
(* The ways out of the room.                                               *)

LEMMA DetachedAll ==
    ASSUME Orderly, NEW t \in Tabs
    PROVE  /\ \A kind : Sent(kind, Detached(t, Kinds)) = Sent(kind, calls)
           /\ \A c \in calls : c.tab # t => c \in Detached(t, Kinds)
  <1> DEFINE ks == Kinds
  <1>1. ks \in SUBSET Kinds
    OBVIOUS
  <1> HIDE DEF ks
  <1>2. /\ \A kind : Sent(kind, Detached(t, ks)) = Sent(kind, calls)
        /\ \A c \in calls : c.tab # t => c \in Detached(t, ks)
    BY <1>1, DetachedCalls
  <1> QED
    BY <1>2 DEF ks

LEMMA PartingCall ==
    ASSUME Typed, NEW t \in Tabs
    PROVE  LET n == Call(t, "leave") IN
           /\ n \in CallType /\ n.tab = t /\ n.kind = "leave" /\ n.visit = joins
           /\ n.stage = "sent" /\ n.id = 0
  BY DEF Typed, Call, CallType, Kinds

LEMMA Gone ==
    ASSUME Inv, NEW t \in Tabs, NEW r \in TabType, Sound(t, r),
           r.place # "room", ~r.busy, ~r.ending, r.session = NoSession,
           tab' = [tab EXCEPT ![t] = r], UNCHANGED <<server, bounds>>, slipped' \in BOOLEAN,
           \A d \in calls' : d \in Detached(t, Kinds) \/ (InRoom(t) /\ d = Call(t, "leave")),
           \A c \in calls : c.tab # t => c \in calls'
    PROVE  Orderly' /\ Engaged' = Engaged \ {t}
  <1> DEFINE cs == Detached(t, Kinds)
             n == Call(t, "leave")
  <1>1. Orderly /\ Typed /\ tab \in [Tabs -> TabType]
    BY DEF Inv, Orderly, Typed
  <1>2. /\ tab' \in [Tabs -> TabType] /\ tab'[t] = r
        /\ \A u \in Tabs : u # t => tab'[u] = tab[u]
    BY <1>1
  <1>3. /\ active' = active /\ starts' = starts /\ joins' = joins /\ faults' = faults
    BY DEF server, bounds
  <1>4. /\ cs \in SUBSET CallType /\ IsFiniteSet(cs)
        /\ \A d \in cs : \E c \in calls :
              /\ d.tab = c.tab /\ d.kind = c.kind /\ d.visit = c.visit
              /\ d.stage = c.stage /\ d.id = c.id
              /\ d.tab = t /\ d.kind \in Kinds => d.own = FALSE
              /\ d.tab # t \/ d.kind \notin Kinds => d = c
        /\ \A d, e \in cs : Apart(d, e)
    BY <1>1, DetachedCalls
  <1>5. /\ n \in CallType /\ n.tab = t /\ n.kind = "leave" /\ n.visit = joins
        /\ n.stage = "sent" /\ n.id = 0
    BY <1>1, PartingCall
  <1>6. \A d \in calls' : d \in cs \/ (InRoom(t) /\ d = n)
    OBVIOUS
  <1> HIDE DEF cs, n
  <1>7. calls' \in SUBSET CallType /\ IsFiniteSet(calls')
    <2>1. calls' \subseteq cs \cup {n}
      BY <1>6
    <2>2. IsFiniteSet(cs \cup {n})
      BY <1>4, FS_AddElement
    <2>3. IsFiniteSet(calls')
      BY <2>1, <2>2, FS_Subset
    <2> QED
      BY <1>4, <1>5, <1>6, <2>3
  <1>8. Typed'
    BY <1>1, <1>2, <1>3, <1>7 DEF Typed
  <1>9. \A c \in cs : c.tab \in Tabs /\ c.kind \in Kinds
    BY <1>4 DEF CallType
  <1>10. /\ \A d \in cs : d.tab = t => ~d.own
         /\ \A d \in cs : d.tab # t => d \in calls
    BY <1>4, <1>9
  <1>11. ASSUME NEW u \in Tabs
         PROVE  Sound(u, tab'[u]) /\ Shows(tab[u])' /\ Awaited(u)'
    <2>1. Sound(u, tab[u]) /\ Shows(tab[u]) /\ Awaited(u) /\ starts \in Nat
      BY Before
    <2>2. CASE u = t
      <3>1. Shows(tab[u])'
        BY <1>2, <1>3, <2>1, <2>2 DEF Shows, NoSession
      <3> QED
        BY <1>2, <2>2, <3>1 DEF Awaited
    <2>3. CASE u # t
      <3>1. tab'[u] = tab[u]
        BY <1>2, <2>3
      <3>2. Awaited(u)'
        BY <2>1, <2>3, <3>1 DEF Awaited
      <3> QED
        BY <1>3, <2>1, <3>1, <3>2 DEF Shows
    <2> QED
      BY <2>2, <2>3
  <1>12. ASSUME NEW d \in calls'
         PROVE  InOrder(d)'
    <2>1. CASE d.tab = t
      <3>1. d.visit <= joins /\ d.id <= starts /\ (d.own => d.kind = "leave")
            /\ (d.kind = "stop" /\ d.stage = "ok" => d.id # 0 /\ d.id # active)
        <4>1. CASE d \in cs
          <5>1. PICK c \in calls : /\ d.kind = c.kind /\ d.visit = c.visit
                                   /\ d.stage = c.stage /\ d.id = c.id
            BY <1>4, <4>1
          <5>2. InOrder(c)
            BY <1>1 DEF Orderly
          <5> QED
            BY <1>10, <2>1, <4>1, <5>1, <5>2 DEF InOrder
        <4>2. CASE d = n
          BY <1>1, <1>5, <4>2 DEF Typed
        <4> QED
          BY <1>6, <4>1, <4>2
      <3>2. ~InRoom(d.tab)'
        BY <1>2, <2>1 DEF InRoom
      <3> QED
        BY <1>3, <3>1, <3>2 DEF InOrder, Toggles
    <2>2. CASE d.tab # t
      <3>1. d \in calls /\ d.tab \in Tabs /\ tab'[d.tab] = tab[d.tab]
        BY <1>2, <1>5, <1>6, <1>9, <1>10, <2>2
      <3>2. InOrder(d)
        BY <1>1, <3>1 DEF Orderly
      <3> QED
        BY <1>3, <3>1, <3>2 DEF InOrder, InRoom, IsActive
    <2> QED
      BY <2>1, <2>2
  <1>13. ASSUME NEW d \in calls', NEW e \in calls'
         PROVE  Apart(d, e)
    <2>1. \A c \in cs : c.tab = t /\ c.kind = "leave" /\ InRoom(t) => c.visit < joins
      <3> TAKE c \in cs
      <3>1. PICK b \in calls : c.tab = b.tab /\ c.kind = b.kind /\ c.visit = b.visit
        BY <1>4
      <3>2. InOrder(b)
        BY <1>1 DEF Orderly
      <3> QED
        BY <3>1, <3>2 DEF InOrder
    <2>2. \A c \in cs : InRoom(t) => Apart(c, n) /\ Apart(n, c)
      BY <1>1, <1>5, <2>1 DEF Apart, Toggles, Typed
    <2>3. Apart(n, n)
      BY DEF Apart
    <2> QED
      BY <1>4, <1>6, <2>2, <2>3
  <1>14. Engaged' = Engaged \ {t}
    <2>1. \A u \in Tabs : u # t => {c \in calls : c.tab = u} = {c \in calls' : c.tab = u}
      BY <1>5, <1>6, <1>10
    <2>2. t \notin Engaged'
      BY <1>2 DEF Engaged, IsActive, NoSession
    <2>3. ASSUME NEW u \in Tabs, u # t
          PROVE  u \in Engaged' <=> u \in Engaged
      <3>1. tab'[u] = tab[u]
        BY <1>2, <2>3
      <3>2. (\E c \in calls : c.tab = u /\ Settled(c)) <=> (\E c \in calls' : c.tab = u /\ Settled(c))
        BY <2>1, <2>3
      <3> QED
        BY <3>1, <3>2 DEF Engaged, IsActive
    <2>4. Engaged \subseteq Tabs /\ Engaged' \subseteq Tabs
      BY DEF Engaged
    <2> QED
      BY <2>2, <2>3, <2>4
  <1> QED
    BY <1>8, <1>11, <1>12, <1>13, <1>14 DEF Orderly

LEMMA MessageTyped ==
    ASSUME NEW reason \in Reasons
    PROVE  LET r == DisconnectMessage(reason) IN
           /\ r \in TabType /\ r.place = "message" /\ r.busy = FALSE /\ r.ending = FALSE
           /\ r.session = NoSession /\ \A t : Sound(t, r)
  <1> DEFINE m == GetDisconnectMessage(reason)
             r == DisconnectMessage(reason)
  <1>1. m \in Messages
    BY DEF Messages
  <1> HIDE DEF m
  <1>2. r = [Away EXCEPT !.place = "message", !.why = m]
    BY DEF DisconnectMessage, m
  <1>3. NoSession \in Session /\ NoSession.status = "none"
    BY DEF NoSession, Session
  <1> HIDE DEF r
  <1>4. r \in TabType
    BY <1>1, <1>2, <1>3 DEF Away, TabType, Messages
  <1>5. /\ r.place = "message" /\ r.busy = FALSE /\ r.chat = FALSE /\ r.ending = FALSE
        /\ r.session = NoSession
    BY <1>2 DEF Away
  <1>6. \A t : Sound(t, r)
    BY <1>3, <1>5 DEF Sound
  <1> QED
    BY <1>4, <1>5, <1>6 DEF r

(* The parting stop takes the place of the tab that left.                  *)
LEMMA DisconnectStep ==
    ASSUME Inv, NEW t \in Tabs, NEW reason \in Reasons, InRoom(t), HandleDisconnect(t, reason),
           UNCHANGED <<server, bounds, slipped>>
    PROVE  Inv'
  <1> DEFINE r == DisconnectMessage(reason)
             cs == Detached(t, Kinds)
             n == Call(t, "leave")
  <1>1. Orderly /\ Typed /\ tab[t] \in TabType /\ Sound(t, tab[t])
    BY Before DEF Inv, Orderly
  <1>2. /\ r \in TabType /\ r.place = "message" /\ r.busy = FALSE /\ r.ending = FALSE
        /\ r.session = NoSession /\ Sound(t, r)
    BY MessageTyped
  <1>3. /\ tab' = [tab EXCEPT ![t] = r]
        /\ calls' = cs \cup (IF IsAdmin(t) /\ tab[t].known THEN {n} ELSE {})
    BY DEF HandleDisconnect, Update
  <1>4. /\ \A kind : Sent(kind, cs) = Sent(kind, calls)
        /\ \A c \in calls : c.tab # t => c \in cs
    BY <1>1, DetachedAll
  <1>5. /\ n.tab = t /\ n.kind = "leave" /\ n.visit = joins /\ n.stage = "sent"
    BY <1>1, PartingCall
  <1>6. slipped' = slipped /\ slipped \in BOOLEAN
    BY <1>1 DEF Typed
  <1>7. Orderly' /\ Engaged' = Engaged \ {t}
    <2> HIDE DEF r
    <2>1. /\ \A d \in calls' : d \in Detached(t, Kinds) \/ (InRoom(t) /\ d = Call(t, "leave"))
          /\ \A c \in calls : c.tab # t => c \in calls'
      BY <1>3, <1>4
    <2> QED
      BY <1>2, <1>3, <1>6, <2>1, Gone
  <1>8. ASSUME Covered
        PROVE  Covered'
    <2> HIDE DEF cs, n
    <2>1. Running' = Running
      BY DEF server, Running
    <2>2. Sent("start", calls') = Sent("start", calls)
      BY <1>3, <1>4, <1>5 DEF Sent, Pending
    <2>3. Sent("leave", calls) \subseteq Sent("leave", calls')
      BY <1>3, <1>4 DEF Sent, Pending
    <2>4. CASE t \notin Engaged
      <3>1. Engaged' = Engaged
        BY <1>7, <2>4
      <3> QED
        BY <1>1, <1>7, <1>8, <2>1, <2>2, <2>3, <3>1, CoverStays DEF Orderly, Running
    <2>5. CASE t \in Engaged
      <3> DEFINE k == <<t, joins>>
      <3>1. IsAdmin(t) /\ tab[t].known
        BY <1>1, <2>5 DEF Engaged, IsActive, Sound, IsAdmin
      <3>2. n \in calls'
        BY <1>3, <3>1
      <3>3. k \in Sent("leave", calls')
        BY <1>5, <3>2 DEF Sent, Pending
      <3>4. k \notin Sent("leave", calls)
        <4> SUFFICES ASSUME k \in Sent("leave", calls)
                     PROVE  FALSE
          OBVIOUS
        <4>1. PICK c \in calls : c.kind = "leave" /\ c.tab = t /\ c.visit = joins
          BY DEF Sent, Pending
        <4>2. InOrder(c) /\ joins \in Nat
          BY <1>1 DEF Orderly, Typed
        <4> QED
          BY <4>1, <4>2 DEF InOrder
      <3> HIDE DEF k
      <3>5. Sent("leave", calls) \subseteq Sent("leave", calls') \ {k}
        BY <2>3, <3>4
      <3>6. /\ IsFiniteSet(Sent("leave", calls)) /\ IsFiniteSet(Sent("leave", calls'))
            /\ Cardinality(Sent("start", calls)) \in Nat
        BY <1>1, <1>7, SentFinite DEF Orderly, Typed
      <3>7. /\ Cardinality(Sent("leave", calls)) <= Cardinality(Sent("leave", calls')) - 1
            /\ Cardinality(Sent("leave", calls)) \in Nat
            /\ Cardinality(Sent("leave", calls')) \in Nat
        BY <3>3, <3>5, <3>6, Sizes
      <3>8. Cardinality(Engaged') = Cardinality(Engaged) - 1 /\ Cardinality(Engaged) \in Nat
        BY <1>7, <2>5, EngagedFinite, FS_RemoveElement
      <3> QED
        BY <1>8, <2>1, <2>2, <3>6, <3>7, <3>8 DEF Covered, Running
    <2> QED
      BY <2>4, <2>5
  <1> QED
    BY <1>6, <1>7, <1>8 DEF Inv

(* The leave button, a lost connection, and being cut off.                 *)
LEMMA LeaveStep ==
    ASSUME Inv, NEW t \in Tabs, Leave(t) \/ CutOff(t)
    PROVE  Inv'
  <1>1. CASE Leave(t)
    <2>1. "left" \in Reasons
      BY DEF Reasons
    <2> QED
      BY <1>1, <2>1, DisconnectStep DEF Leave
  <1>2. CASE CutOff(t)
    <2>1. tab[t].cut \in Reasons
      BY <1>2, Before DEF CutOff, TabType
    <2> QED
      BY <1>2, <2>1, DisconnectStep DEF CutOff
  <1> QED
    BY <1>1, <1>2

(* A tab outside of a room is not engaged.                                 *)
(* Nothing runs, and nothing is about to start.                            *)
LEMMA IdleCovered ==
    ASSUME Typed', active' = 0, Sent("start", calls') = {}
    PROVE  Covered'
  <1>1. Cardinality(Sent("start", calls')) = 0
    BY FS_EmptySet
  <1>2. Cardinality(Sent("leave", calls')) \in Nat
    BY SentFinite DEF Typed
  <1>3. Cardinality(Engaged') \in Nat
    <2>1. Engaged' \subseteq Tabs
      BY DEF Engaged
    <2> QED
      BY <2>1, FS_Subset, FS_CardinalityType
  <1> QED
    BY <1>1, <1>2, <1>3 DEF Covered, Running

LEMMA SlipTyped ==
    ASSUME NEW lost \in BOOLEAN, Slip(lost)
    PROVE  slipped' \in BOOLEAN
  BY DEF Slip

(* A step that takes no stop from what runs keeps the count; and nothing   *)
(* needs one when nothing runs and nothing is about to start.              *)
LEMMA SlipCovered ==
    ASSUME Inv, Typed', NEW lost \in BOOLEAN, Slip(lost), ~lost /\ Covered => Covered'
    PROVE  slipped' \/ Covered'
  <1>1. CASE active' = 0 /\ ~StartSent'
    <2>1. Sent("start", calls') = {}
      BY <1>1 DEF StartSent, Sent, Pending
    <2> QED
      BY <1>1, <2>1, IdleCovered
  <1>2. CASE slipped \/ lost
    <2>1. CASE active' # 0 \/ StartSent'
      BY <1>2, <2>1 DEF Slip
    <2> QED
      BY <1>1, <2>1
  <1>3. CASE ~slipped /\ ~lost
    BY <1>3 DEF Inv
  <1> QED
    BY <1>2, <1>3

LEMMA SilentTyped ==
    ASSUME Inv, NEW t \in Tabs
    PROVE  GoesSilently(t) \in BOOLEAN /\ (~GoesSilently(t) => t \notin Engaged)
  <1>1. tab[t] \in TabType
    BY Before
  <1> QED
    BY <1>1 DEF GoesSilently, TabType, Engaged, IsActive

LEMMA GoAwayStep ==
    ASSUME Inv, NEW t \in Tabs, GoAway(t)
    PROVE  Inv'
  <1>1. Orderly /\ Typed
    BY DEF Inv, Orderly
  <1>2. /\ Away \in TabType /\ Away.place = "away" /\ Away.busy = FALSE
        /\ Away.ending = FALSE /\ Away.session = NoSession /\ Sound(t, Away)
    BY AwayTyped
  <1>3. /\ tab' = [tab EXCEPT ![t] = Away] /\ calls' = Detached(t, Kinds)
        /\ Slip(GoesSilently(t)) /\ UNCHANGED <<server, bounds>>
    BY DEF GoAway, Update
  <1>4. /\ \A kind : Sent(kind, Detached(t, Kinds)) = Sent(kind, calls)
        /\ \A c \in calls : c.tab # t => c \in Detached(t, Kinds)
    BY <1>1, DetachedAll
  <1>5. slipped' \in BOOLEAN
    BY <1>3, SilentTyped, SlipTyped
  <1>6. Orderly' /\ Engaged' = Engaged \ {t}
    BY <1>2, <1>3, <1>4, <1>5, Gone
  <1>7. ASSUME ~GoesSilently(t), Covered
        PROVE  Covered'
    <2>1. Engaged' = Engaged
      BY <1>6, <1>7, SilentTyped
    <2>2. Running' = Running
      BY <1>3 DEF server, Running
    <2> QED
      BY <1>3, <1>4, <1>7, <2>1, <2>2 DEF Covered
  <1>8. slipped' \/ Covered'
    BY <1>3, <1>6, <1>7, SilentTyped, SlipCovered DEF Orderly
  <1> QED
    BY <1>6, <1>8 DEF Inv

LEMMA EndAnsweredStep ==
    ASSUME Inv, NEW c \in calls, EndAnswered(c)
    PROVE  Inv'
  <1> DEFINE t == c.tab
             cs == Detached(t, Kinds)
             d == [c EXCEPT !.own = FALSE]
  <1>1. Orderly /\ Typed /\ c \in CallType /\ t \in Tabs /\ calls \in SUBSET CallType
    BY DEF Inv, Orderly, Typed, CallType
  <1>2. /\ Away \in TabType /\ Away.place = "away" /\ Away.busy = FALSE
        /\ Away.ending = FALSE /\ Away.session = NoSession /\ Sound(t, Away)
    BY AwayTyped
  <1>3. /\ tab' = [tab EXCEPT ![t] = Away] /\ calls' = cs \ {c, d}
        /\ Slip(GoesSilently(t))
        /\ UNCHANGED <<server, bounds>> /\ c.kind = "end" /\ c.stage = "ok"
    BY DEF EndAnswered, HandleLeaveMeeting, Update
  <1>4. d.tab = t /\ d.kind = "end" /\ d.stage = "ok"
    BY <1>1, <1>3, Disowned
  <1>5. /\ \A kind : Sent(kind, cs) = Sent(kind, calls)
        /\ \A e \in calls : e.tab # t => e \in cs
    BY <1>1, DetachedAll
  <1>6. slipped' \in BOOLEAN
    BY <1>1, <1>3, SilentTyped, SlipTyped
  <1>7. Orderly' /\ Engaged' = Engaged \ {t}
    <2>1. /\ \A e \in calls' : e \in Detached(t, Kinds) \/ (InRoom(t) /\ e = Call(t, "leave"))
          /\ \A e \in calls : e.tab # t => e \in calls'
      BY <1>3, <1>4, <1>5
    <2> HIDE DEF t
    <2> QED
      BY <1>1, <1>2, <1>3, <1>6, <2>1, Gone
  <1>8. \A kind : Sent(kind, calls') = Sent(kind, calls)
    <2> HIDE DEF cs, d
    <2>1. \A kind : Pending(kind, calls') = Pending(kind, cs)
      BY <1>3, <1>4 DEF Pending
    <2> QED
      BY <1>5, <2>1 DEF Sent
  <1>9. ASSUME ~GoesSilently(t), Covered
        PROVE  Covered'
    <2>1. Engaged' = Engaged
      BY <1>1, <1>7, <1>9, SilentTyped
    <2>2. Running' = Running
      BY <1>3 DEF server, Running
    <2> QED
      BY <1>8, <1>9, <2>1, <2>2 DEF Covered
  <1>10. slipped' \/ Covered'
    BY <1>1, <1>3, <1>7, <1>9, SilentTyped, SlipCovered DEF Orderly
  <1> QED
    BY <1>7, <1>10 DEF Inv

-----------------------------------------------------------------------------
(* A call that the server has handled, or whose answer has arrived.        *)

LEMMA Handled ==
    ASSUME Orderly, NEW c \in calls, NEW d \in CallType, d.stage # "sent",
           d.tab = c.tab, d.kind = c.kind, d.visit = c.visit, d.own = c.own,
           \A e \in calls' : e \in calls \ {c} \/ e = d,
           \A e \in calls : e # c => e \in calls'
    PROVE  /\ calls' \in SUBSET CallType /\ IsFiniteSet(calls')
           /\ \A e, b \in calls' : Apart(e, b)
           /\ \A kind : /\ Sent(kind, calls') \subseteq Sent(kind, calls)
                        /\ Sent(kind, calls) \subseteq Sent(kind, calls') \cup {<<c.tab, c.visit>>}
           /\ \A kind : kind # c.kind \/ c.stage # "sent" => Sent(kind, calls') = Sent(kind, calls)
           /\ c.stage = "sent" /\ c.kind \in {"start", "leave"} =>
                 /\ <<c.tab, c.visit>> \in Sent(c.kind, calls)
                 /\ Sent(c.kind, calls') \subseteq Sent(c.kind, calls) \ {<<c.tab, c.visit>>}
  <1>1. calls \in SUBSET CallType /\ IsFiniteSet(calls) /\ \A e, b \in calls : Apart(e, b)
    BY DEF Orderly, Typed
  <1>2. calls' \in SUBSET CallType /\ IsFiniteSet(calls')
    <2>1. calls' \subseteq calls \cup {d}
      OBVIOUS
    <2>2. IsFiniteSet(calls \cup {d})
      BY <1>1, FS_AddElement
    <2>3. IsFiniteSet(calls')
      BY <2>1, <2>2, FS_Subset
    <2> QED
      BY <1>1, <2>1, <2>3
  <1>3. ASSUME NEW e \in calls', NEW b \in calls'
        PROVE  Apart(e, b)
    <2>1. \A x \in calls \ {c} : Apart(x, d) /\ Apart(d, x)
      <3> TAKE x \in calls \ {c}
      <3>1. Apart(x, c) /\ Apart(c, x) /\ x # c
        BY <1>1
      <3> QED
        BY <3>1 DEF Apart
    <2>2. Apart(d, d)
      BY DEF Apart
    <2> QED
      BY <1>1, <2>1, <2>2
  <1>4. \A kind : Pending(kind, calls') \subseteq Pending(kind, calls) \ {c}
    BY DEF Pending
  <1>5. \A kind : kind # c.kind \/ c.stage # "sent" => Pending(kind, calls') = Pending(kind, calls)
    BY DEF Pending
  <1>6. \A kind : /\ Sent(kind, calls') \subseteq Sent(kind, calls)
                  /\ Sent(kind, calls) \subseteq Sent(kind, calls') \cup {<<c.tab, c.visit>>}
    <2>1. \A kind : Pending(kind, calls) \subseteq Pending(kind, calls') \cup {c}
      BY DEF Pending
    <2> QED
      BY <1>4, <2>1 DEF Sent
  <1>7. \A kind : kind # c.kind \/ c.stage # "sent" => Sent(kind, calls') = Sent(kind, calls)
    BY <1>5 DEF Sent
  <1>8. ASSUME c.stage = "sent", c.kind \in {"start", "leave"}
        PROVE  /\ <<c.tab, c.visit>> \in Sent(c.kind, calls)
               /\ Sent(c.kind, calls') \subseteq Sent(c.kind, calls) \ {<<c.tab, c.visit>>}
    <2>1. <<c.tab, c.visit>> \in Sent(c.kind, calls)
      BY <1>8 DEF Sent, Pending
    <2>2. ASSUME NEW e \in Pending(c.kind, calls')
          PROVE  <<e.tab, e.visit>> # <<c.tab, c.visit>>
      <3>1. e \in calls /\ e # c /\ e.kind = c.kind /\ e.stage = "sent"
        BY <1>4 DEF Pending
      <3>2. Apart(e, c)
        BY <1>1, <3>1
      <3> QED
        BY <1>8, <3>1, <3>2 DEF Apart
    <2>3. <<c.tab, c.visit>> \notin Sent(c.kind, calls')
      BY <2>2 DEF Sent
    <2> QED
      BY <1>6, <2>1, <2>3
  <1> QED
    BY <1>2, <1>3, <1>6, <1>7, <1>8

(* A step of the server shows in no tab, but it may cut tabs off.          *)
LEMMA CutTabs ==
    ASSUME Inv, tab' \in [Tabs -> TabType],
           \A t \in Tabs : \E cut \in Reasons \cup {"none"} : tab'[t] = [tab[t] EXCEPT !.cut = cut],
           \A d \in calls : d.own => \E e \in calls' : e.own /\ e.tab = d.tab /\ e.kind = d.kind,
           starts <= starts', starts' \in Nat,
           active' \in {0, active, starts + 1}
    PROVE  /\ \A t \in Tabs : Sound(t, tab[t])' /\ Shows(tab[t])' /\ Awaited(t)'
           /\ \A t \in Tabs : /\ tab'[t].busy = tab[t].busy /\ (IsActive(t)' <=> IsActive(t))
                              /\ (InRoom(t)' <=> InRoom(t))
  <1>1. \A t \in Tabs : tab[t] \in TabType /\ Sound(t, tab[t]) /\ Shows(tab[t]) /\ Awaited(t)
                        /\ starts \in Nat
    BY Before
  <1>2. ASSUME NEW t \in Tabs
        PROVE  /\ tab'[t].place = tab[t].place /\ tab'[t].known = tab[t].known
               /\ tab'[t].chat = tab[t].chat /\ tab'[t].panel = tab[t].panel
               /\ tab'[t].confirm = tab[t].confirm /\ tab'[t].ending = tab[t].ending
               /\ tab'[t].session = tab[t].session /\ tab'[t].busy = tab[t].busy
    <2>1. PICK cut \in Reasons \cup {"none"} : tab'[t] = [tab[t] EXCEPT !.cut = cut]
      OBVIOUS
    <2> QED
      BY <1>1, <2>1 DEF TabType
  <1>3. ASSUME NEW t \in Tabs
        PROVE  Sound(t, tab[t])' /\ Shows(tab[t])' /\ Awaited(t)'
    <2>1. Sound(t, tab'[t])
      BY <1>1, <1>2 DEF Sound
    <2>2. Shows(tab[t])'
      <3>1. tab[t].session.id <= starts /\ tab[t].session.id \in Nat
        BY <1>1 DEF Shows, TabType, Session
      <3> QED
        BY <1>1, <1>2, <3>1 DEF Shows
    <2>3. Awaited(t)'
      BY <1>1, <1>2 DEF Awaited
    <2> QED
      BY <2>1, <2>2, <2>3
  <1> QED
    BY <1>2, <1>3 DEF IsActive, InRoom

LEMMA EndMeetingStep ==
    ASSUME Inv, NEW c \in calls, EndMeeting(c)
    PROVE  Inv'
  <1>1. Orderly /\ Typed /\ c \in CallType
    BY DEF Inv, Orderly, Typed
  <1>2. /\ c.kind = "end" /\ c.stage = "sent" /\ starts' = starts /\ joins' = joins
        /\ active' = 0 \/ active' = active
        /\ Slip(FALSE) /\ faults' \in Nat
    <2>1. Slip(FALSE)
      BY DEF EndMeeting
    <2>2. /\ c.kind = "end" /\ c.stage = "sent" /\ starts' = starts /\ joins' = joins
          /\ active' = 0 \/ active' = active
      BY DEF EndMeeting
    <2>3. faults \in Nat /\ (faults' = faults \/ faults' = faults + 1)
      BY <1>1 DEF EndMeeting, Typed
    <2>4. faults' \in Nat
      BY <2>3
    <2> QED
      BY <2>1, <2>2, <2>4
  <1>3. PICK d \in CallType :
           /\ d.stage # "sent" /\ d.tab = c.tab /\ d.kind = c.kind /\ d.visit = c.visit
           /\ d.own = c.own /\ d.id = c.id /\ calls' = (calls \ {c}) \cup {d}
    <2> DEFINE e(stage) == [c EXCEPT !.stage = stage]
    <2>1. \A stage \in {"ok", "failed"} :
             /\ e(stage) \in CallType /\ e(stage).stage # "sent" /\ e(stage).tab = c.tab
             /\ e(stage).kind = c.kind /\ e(stage).visit = c.visit
             /\ e(stage).own = c.own /\ e(stage).id = c.id
      BY <1>1 DEF CallType
    <2>2. \E stage \in {"ok", "failed"} : calls' = (calls \ {c}) \cup {e(stage)}
      BY DEF EndMeeting
    <2> QED
      BY <2>1, <2>2
  <1>4. /\ tab' \in [Tabs -> TabType]
        /\ \A t \in Tabs : \E cut \in Reasons \cup {"none"} : tab'[t] = [tab[t] EXCEPT !.cut = cut]
    <2>1. \A t \in Tabs : tab[t] \in TabType
      BY Before
    <2>2. \A t \in Tabs : tab[t] = [tab[t] EXCEPT !.cut = tab[t].cut]
                          /\ tab[t].cut \in Reasons \cup {"none"}
      BY <2>1 DEF TabType
    <2>3. \A t \in Tabs : [tab[t] EXCEPT !.cut = "ended"] \in TabType
      BY <2>1 DEF TabType, Reasons
    <2>4. "ended" \in Reasons \cup {"none"}
      BY DEF Reasons
    <2>5. \/ tab' = [t \in Tabs |-> IF InRoom(t) THEN [tab[t] EXCEPT !.cut = "ended"] ELSE tab[t]]
          \/ tab' = tab
      BY DEF EndMeeting
    <2> QED
      BY <1>1, <2>1, <2>2, <2>3, <2>4, <2>5 DEF Typed
  <1>5. /\ \A e \in calls' : e \in calls \ {c} \/ e = d
        /\ \A e \in calls : e # c => e \in calls'
        /\ \A x \in calls : \E e \in calls' : e.own = x.own /\ e.tab = x.tab /\ e.kind = x.kind
    BY <1>3
  <1>6. /\ calls' \in SUBSET CallType /\ IsFiniteSet(calls')
        /\ \A e, b \in calls' : Apart(e, b)
        /\ Sent("start", calls') = Sent("start", calls)
        /\ Sent("leave", calls') = Sent("leave", calls)
    BY <1>1, <1>2, <1>3, <1>5, Handled
  <1>7. /\ \A t \in Tabs : Sound(t, tab[t])' /\ Shows(tab[t])' /\ Awaited(t)'
        /\ \A t \in Tabs : /\ tab'[t].busy = tab[t].busy /\ (IsActive(t)' <=> IsActive(t))
                           /\ (InRoom(t)' <=> InRoom(t))
    BY <1>1, <1>2, <1>4, <1>5, CutTabs DEF Typed
  <1>8. Typed'
    <2>1. slipped' \in BOOLEAN
      BY <1>2, SlipTyped
    <2> QED
      BY <1>1, <1>2, <1>4, <1>6, <2>1 DEF Typed
  <1>9. ASSUME NEW e \in calls'
        PROVE  InOrder(e)'
    <2>1. PICK x \in calls : /\ e.own = x.own /\ e.tab = x.tab /\ e.kind = x.kind
                             /\ e.visit = x.visit /\ e.id = x.id
                             /\ (e.kind = "stop" => e.stage = x.stage)
      BY <1>2, <1>3
    <2>2. InOrder(x) /\ x.tab \in Tabs
      BY <1>1 DEF Orderly, Typed, CallType
    <2> QED
      BY <1>2, <1>7, <2>1, <2>2 DEF InOrder, Toggles
  <1>10. ASSUME Covered
         PROVE  Covered'
    <2>1. Running' <= Running
      BY <1>2 DEF Running
    <2>2. Engaged' = Engaged
      BY <1>2, <1>3, <1>7 DEF Engaged, Settled
    <2> QED
      BY <1>1, <1>6, <1>8, <1>10, <2>1, <2>2, CoverStays
  <1>11. slipped' \/ Covered'
    BY <1>2, <1>8, <1>10, SlipCovered
  <1> QED
    BY <1>6, <1>7, <1>8, <1>9, <1>11 DEF Inv, Orderly

(* Answers given, to calls about the recording; no tab has seen them yet.  *)
LEMMA Answer ==
    ASSUME NEW c \in CallType, NEW stage \in {"ok", "failed"}, NEW id \in Nat
    PROVE  LET d == [c EXCEPT !.stage = stage, !.id = id] IN
           /\ d \in CallType /\ d.stage = stage /\ d.id = id /\ d.tab = c.tab
           /\ d.kind = c.kind /\ d.visit = c.visit /\ d.own = c.own
  BY DEF CallType

LEMMA Answered ==
    ASSUME Inv, NEW c \in calls, c.stage = "sent", c.kind \in {"start", "stop", "leave"},
           NEW d \in CallType, d.stage # "sent",
           d.tab = c.tab, d.kind = c.kind, d.visit = c.visit, d.own = c.own, d.id <= starts',
           d.kind = "stop" /\ d.stage = "ok" => d.id # 0 /\ d.id # active',
           \A e \in calls' : e \in calls \ {c} \/ e = d,
           \A e \in calls : e # c => e \in calls',
           d \in calls' \/ c.kind = "leave",
           starts' \in starts..MaxStarts, active' \in {0, active, starts + 1}, active' <= starts',
           UNCHANGED <<tab, joins>>, faults' \in Nat, slipped' \in BOOLEAN
    PROVE  Orderly'
  <1>1. Orderly /\ Typed /\ calls \in SUBSET CallType /\ starts \in 0..MaxStarts
        /\ active \in 0..starts /\ joins \in Nat
    BY DEF Inv, Orderly, Typed
  <1>2. calls' \in SUBSET CallType /\ IsFiniteSet(calls') /\ \A e, b \in calls' : Apart(e, b)
    BY <1>1, Handled
  <1>3. Typed'
    BY <1>1, <1>2 DEF Typed
  <1>4. ASSUME NEW t \in Tabs
        PROVE  Sound(t, tab[t])' /\ Shows(tab[t])' /\ Awaited(t)'
    <2>1. Sound(t, tab[t]) /\ Shows(tab[t]) /\ Awaited(t) /\ tab[t] \in TabType
      BY Before
    <2>2. Shows(tab[t])'
      <3>1. tab[t].session.id <= starts /\ tab[t].session.id \in Nat
        BY <2>1 DEF Shows, TabType, Session
      <3> QED
        BY <1>1, <2>1, <3>1 DEF Shows
    <2>3. ASSUME NEW kinds \in {Toggles, {"end"}}, NEW x \in calls, x.own, x.tab = t, x.kind \in kinds
          PROVE  \E e \in calls' : e.own /\ e.tab = t /\ e.kind \in kinds
      BY <2>3 DEF Toggles
    <2>4. Awaited(t)'
      BY <2>1, <2>3 DEF Awaited
    <2> QED
      BY <2>1, <2>2, <2>4
  <1>5. ASSUME NEW e \in calls'
        PROVE  InOrder(e)'
    <2>1. CASE e \in calls \ {c}
      <3>1. InOrder(e) /\ e \in CallType
        BY <1>1, <2>1 DEF Orderly
      <3>2. e.id <= starts' /\ ((e.id # active => e.id # active') \/ e.id = 0)
        BY <1>1, <3>1 DEF InOrder, CallType
      <3> QED
        BY <1>1, <3>1, <3>2 DEF InOrder, CallType, InRoom, IsActive
    <2>2. CASE e = d
      <3>1. InOrder(c)
        BY <1>1 DEF Orderly
      <3> QED
        BY <1>1, <2>2, <3>1 DEF InOrder, InRoom, IsActive
    <2> QED
      BY <2>1, <2>2
  <1> QED
    BY <1>2, <1>3, <1>4, <1>5 DEF Orderly

(* A start in turn for a session; one that is refused frees its tab.       *)
LEMMA StartSummarizerStep ==
    ASSUME Inv, NEW c \in calls, StartSummarizer(c)
    PROVE  Inv'
  <1> DEFINE k == <<c.tab, c.visit>>
             S == Sent("start", calls)
             T == Sent("start", calls')
  <1>1. Orderly /\ Typed /\ c \in CallType /\ c.tab \in Tabs
        /\ c.kind = "start" /\ c.stage = "sent"
    BY DEF Inv, Orderly, Typed, CallType, StartSummarizer
  <1>2. /\ starts \in 0..MaxStarts /\ active \in 0..starts /\ joins \in Nat /\ faults \in Nat
        /\ slipped \in BOOLEAN /\ starts \in Nat /\ MaxStarts \in Nat
    BY <1>1 DEF Typed
  <1>3. \/ /\ active = 0 /\ starts < MaxStarts
           /\ active' = starts + 1 /\ starts' = starts + 1
           /\ calls' = (calls \ {c}) \cup {[c EXCEPT !.stage = "ok", !.id = starts + 1]}
        \/ /\ active' = active /\ starts' = starts
           /\ calls' = (calls \ {c}) \cup {[c EXCEPT !.stage = "failed", !.id = 0]}
    BY DEF StartSummarizer, Replied, server
  <1>4. UNCHANGED <<tab, joins>> /\ faults' \in Nat /\ Slip(FALSE) /\ slipped' \in BOOLEAN
    <2>1. Slip(FALSE)
      BY DEF StartSummarizer
    <2>2. slipped' \in BOOLEAN
      BY <2>1, SlipTyped
    <2>3. faults' = faults \/ faults' = faults + 1
      BY DEF StartSummarizer
    <2>4. UNCHANGED <<tab, joins>>
      BY DEF StartSummarizer
    <2>5. faults' \in Nat
      BY <1>2, <2>3
    <2> QED
      BY <2>1, <2>2, <2>4, <2>5
  <1>5. PICK d \in CallType :
           /\ d.stage # "sent" /\ d.tab = c.tab /\ d.kind = c.kind /\ d.visit = c.visit
           /\ d.own = c.own /\ d.id <= starts' /\ calls' = (calls \ {c}) \cup {d}
           /\ \/ active = 0 /\ active' = starts' /\ active' = starts + 1
                 /\ starts' \in starts..MaxStarts /\ d.stage = "ok"
              \/ active' = active /\ starts' = starts /\ d.stage = "failed"
    <2>1. CASE /\ active = 0 /\ starts < MaxStarts
               /\ active' = starts + 1 /\ starts' = starts + 1
               /\ calls' = (calls \ {c}) \cup {[c EXCEPT !.stage = "ok", !.id = starts + 1]}
      <3> DEFINE id == starts + 1
                 d == [c EXCEPT !.stage = "ok", !.id = id]
      <3>1. id \in Nat
        BY <1>2
      <3> HIDE DEF id
      <3>2. /\ d \in CallType /\ d.stage = "ok" /\ d.id = id /\ d.tab = c.tab
            /\ d.kind = c.kind /\ d.visit = c.visit /\ d.own = c.own
        BY <1>1, <3>1, Answer
      <3>3. calls' = (calls \ {c}) \cup {d} /\ id = starts + 1
        BY <2>1 DEF id
      <3> HIDE DEF d
      <3> QED
        BY <1>2, <2>1, <3>2, <3>3
    <2>2. CASE /\ active' = active /\ starts' = starts
               /\ calls' = (calls \ {c}) \cup {[c EXCEPT !.stage = "failed", !.id = 0]}
      <3> DEFINE d == [c EXCEPT !.stage = "failed", !.id = 0]
      <3>1. /\ d \in CallType /\ d.stage = "failed" /\ d.id = 0 /\ d.tab = c.tab
            /\ d.kind = c.kind /\ d.visit = c.visit /\ d.own = c.own
        BY <1>1, Answer
      <3> HIDE DEF d
      <3>2. calls' = (calls \ {c}) \cup {d}
        BY <2>2 DEF d
      <3> QED
        BY <1>2, <2>2, <3>1, <3>2
    <2> QED
      BY <1>3, <2>1, <2>2
  <1>6. /\ \A e \in calls' : e \in calls \ {c} \/ e = d
        /\ \A e \in calls : e # c => e \in calls'
        /\ d \in calls'
    BY <1>5
  <1>7. Orderly'
    <2>1. /\ starts' \in starts..MaxStarts /\ active' \in {0, active, starts + 1}
          /\ active' <= starts' /\ slipped' \in BOOLEAN
      BY <1>2, <1>4, <1>5
    <2> QED
      BY <1>1, <1>4, <1>5, <1>6, <2>1, Answered
  <1>8. /\ Sent("leave", calls') = Sent("leave", calls)
        /\ k \in S /\ T \subseteq S \ {k}
    BY <1>1, <1>5, <1>6, Handled
  <1>9. IsFiniteSet(S) /\ IsFiniteSet(T) /\ Cardinality(Sent("leave", calls)) \in Nat
    BY <1>1, <1>7, SentFinite DEF Orderly, Typed
  <1> HIDE DEF k, S, T
  <1>10. Cardinality(T) <= Cardinality(S) - 1 /\ Cardinality(S) \in Nat /\ Cardinality(T) \in Nat
    BY <1>8, <1>9, Sizes
  <1>11. ASSUME Covered
         PROVE  Covered'
    <2>1. CASE active = 0 /\ active' = starts + 1 /\ d.stage = "ok"
      <3>1. Engaged' = Engaged
        BY <1>1, <1>4, <1>5, <2>1 DEF Engaged, IsActive, Settled
      <3>2. Running = 0 /\ Running' = 1
        BY <1>2, <2>1 DEF Running
      <3> QED
        BY <1>8, <1>9, <1>10, <1>11, <3>1, <3>2, EngagedFinite DEF Covered, S, T
    <2>2. CASE active' = active /\ d.stage = "failed"
      <3>1. Engaged \subseteq Engaged' \cup {c.tab}
        BY <1>4, <1>5 DEF Engaged, IsActive
      <3>2. Running' = Running /\ Running \in {0, 1}
        BY <2>2 DEF Running
      <3>3. IsFiniteSet(Engaged') /\ IsFiniteSet(Engaged)
        <4>1. Engaged' \subseteq Tabs /\ Engaged \subseteq Tabs
          BY DEF Engaged
        <4> QED
          BY <4>1, FS_Subset
      <3>4. /\ Cardinality(Engaged) <= Cardinality(Engaged') + 1
            /\ Cardinality(Engaged) \in Nat /\ Cardinality(Engaged') \in Nat
        BY <3>1, <3>3, Sizes
      <3> QED
        BY <1>8, <1>9, <1>10, <1>11, <3>2, <3>4 DEF Covered, S, T
    <2> QED
      BY <1>5, <2>1, <2>2
  <1>12. slipped' \/ Covered'
    BY <1>4, <1>7, <1>11, SlipCovered DEF Orderly
  <1> QED
    BY <1>7, <1>12 DEF Inv

(* A stop that is obeyed, refused, or finds nothing to stop.               *)
LEMMA StopAnswer ==
    ASSUME Typed, NEW c \in calls, StopSummarizer(c)
    PROVE  \E d \in CallType :
              /\ d.stage # "sent" /\ d.tab = c.tab /\ d.kind = c.kind /\ d.visit = c.visit
              /\ d.own = c.own /\ d.id <= active
              /\ d.kind = "stop" /\ d.stage = "ok" => d.id # 0 /\ d.id # active'
              /\ d.stage = "ok" => active # 0 /\ active' = 0
              /\ calls' = (IF c.kind = "leave" THEN calls \ {c} ELSE (calls \ {c}) \cup {d})
  <1> DEFINE Reply(stage, id) ==
                calls' = (IF c.kind = "leave" THEN calls \ {c}
                          ELSE (calls \ {c}) \cup {[c EXCEPT !.stage = stage, !.id = id]})
  <1>1. c \in CallType /\ active \in Nat
    BY DEF Typed
  <1>2. \/ active # 0 /\ active' = 0 /\ Reply("ok", active)
        \/ Reply("failed", 0)
    BY DEF StopSummarizer, Replied
  <1>3. ASSUME NEW stage \in {"ok", "failed"}, NEW id \in Nat, Reply(stage, id), id <= active,
               stage = "ok" => id # 0 /\ id # active' /\ active # 0 /\ active' = 0
        PROVE  \E d \in CallType :
                  /\ d.stage # "sent" /\ d.tab = c.tab /\ d.kind = c.kind /\ d.visit = c.visit
                  /\ d.own = c.own /\ d.id <= active
                  /\ d.kind = "stop" /\ d.stage = "ok" => d.id # 0 /\ d.id # active'
                  /\ d.stage = "ok" => active # 0 /\ active' = 0
                  /\ calls' = (IF c.kind = "leave" THEN calls \ {c} ELSE (calls \ {c}) \cup {d})
    <2> DEFINE d == [c EXCEPT !.stage = stage, !.id = id]
    <2>1. /\ d \in CallType /\ d.stage = stage /\ d.id = id /\ d.tab = c.tab
          /\ d.kind = c.kind /\ d.visit = c.visit /\ d.own = c.own
      <3>1. stage \in {"ok", "failed"} /\ id \in Nat
        BY <1>3
      <3> QED
        BY <1>1, <3>1 DEF CallType
    <2>2. calls' = (IF c.kind = "leave" THEN calls \ {c} ELSE (calls \ {c}) \cup {d})
      BY <1>3
    <2> HIDE DEF d
    <2> QED
      BY <1>3, <2>1, <2>2
  <1>4. CASE active # 0 /\ active' = 0 /\ Reply("ok", active)
    <2> HIDE DEF Reply
    <2> QED
      BY <1>1, <1>3, <1>4
  <1>5. CASE Reply("failed", 0)
    <2> HIDE DEF Reply
    <2>1. 0 \in Nat /\ 0 <= active
      BY <1>1
    <2> QED
      BY <1>3, <1>5, <2>1
  <1> QED
    BY <1>2, <1>4, <1>5

LEMMA StopSummarizerStep ==
    ASSUME Inv, NEW c \in calls, StopSummarizer(c)
    PROVE  Inv'
  <1> DEFINE k == <<c.tab, c.visit>>
             S == Sent("leave", calls)
             T == Sent("leave", calls')
  <1>1. Orderly /\ Typed /\ c \in CallType /\ c.tab \in Tabs
        /\ c.kind \in {"stop", "leave"} /\ c.stage = "sent"
    BY DEF Inv, Orderly, Typed, CallType, StopSummarizer
  <1>2. /\ starts \in 0..MaxStarts /\ active \in 0..starts /\ joins \in Nat /\ faults \in Nat
        /\ slipped \in BOOLEAN /\ starts \in Nat /\ MaxStarts \in Nat
    BY <1>1 DEF Typed
  <1>3. PICK d \in CallType :
           /\ d.stage # "sent" /\ d.tab = c.tab /\ d.kind = c.kind /\ d.visit = c.visit
           /\ d.own = c.own /\ d.id <= active
           /\ d.kind = "stop" /\ d.stage = "ok" => d.id # 0 /\ d.id # active'
           /\ d.stage = "ok" => active # 0 /\ active' = 0
           /\ calls' = (IF c.kind = "leave" THEN calls \ {c} ELSE (calls \ {c}) \cup {d})
    BY <1>1, StopAnswer
  <1>4. /\ UNCHANGED <<tab, starts, joins>> /\ faults' \in Nat /\ slipped' \in BOOLEAN
        /\ \/ active # 0 /\ active' = 0 /\ Slip(FALSE)
           \/ active' = active /\ Slip(c.kind = "leave")
    <2>1. /\ UNCHANGED <<tab, starts, joins>>
          /\ faults' = faults \/ faults' = faults + 1
          /\ \/ active # 0 /\ active' = 0 /\ Slip(FALSE)
             \/ active' = active /\ Slip(c.kind = "leave")
      <3>1. /\ UNCHANGED <<tab, starts, joins>>
            /\ faults' = faults \/ faults' = faults + 1
        BY DEF StopSummarizer
      <3>2. \/ active # 0 /\ active' = 0 /\ Slip(FALSE)
            \/ active' = active /\ Slip(c.kind = "leave")
        BY Zenon DEF StopSummarizer
      <3> QED
        BY <3>1, <3>2
    <2>2. slipped' \in BOOLEAN
      BY <2>1, SlipTyped
    <2>3. faults' \in Nat
      BY <1>2, <2>1
    <2> QED
      BY <2>1, <2>2, <2>3
  <1>5. /\ \A e \in calls' : e \in calls \ {c} \/ e = d
        /\ \A e \in calls : e # c => e \in calls'
        /\ d \in calls' \/ c.kind = "leave"
    BY <1>3
  <1>6. Orderly'
    <2>1. /\ starts' \in starts..MaxStarts /\ active' \in {0, active, starts + 1}
          /\ active' <= starts' /\ d.id <= starts'
      <3>1. d.id \in Nat /\ d.id <= active
        BY <1>3 DEF CallType
      <3>2. starts' = starts /\ active' \in {0, active}
        BY <1>4
      <3> QED
        BY <1>2, <3>1, <3>2
    <2> QED
      BY <1>1, <1>3, <1>4, <1>5, <2>1, Answered
  <1>7. /\ Sent("start", calls') = Sent("start", calls) /\ T \subseteq S
        /\ c.kind = "stop" => T = S
        /\ S \subseteq T \cup {k}
    <2>1. "start" # c.kind
      BY <1>1
    <2> QED
      BY <1>1, <1>3, <1>5, <2>1, Handled
  <1>8. /\ IsFiniteSet(S) /\ IsFiniteSet(T) /\ Cardinality(Sent("start", calls)) \in Nat
        /\ IsFiniteSet(Engaged) /\ IsFiniteSet(Engaged')
    <2>1. Engaged \subseteq Tabs /\ Engaged' \subseteq Tabs
      BY DEF Engaged
    <2> QED
      BY <1>1, <1>6, <2>1, SentFinite, FS_Subset DEF Orderly, Typed
  <1>9. /\ Engaged \subseteq Engaged' \cup {c.tab}
        /\ c.kind = "leave" => Engaged \subseteq Engaged'
    BY <1>1, <1>3, <1>4 DEF Engaged, IsActive, Settled
  <1> HIDE DEF k, S, T
  <1>10. /\ Cardinality(S) \in Nat /\ Cardinality(T) \in Nat
         /\ c.kind = "stop" => Cardinality(T) = Cardinality(S)
         /\ Cardinality(S) <= Cardinality(T) + 1
         /\ Cardinality(Engaged) \in Nat /\ Cardinality(Engaged') \in Nat
         /\ Cardinality(Engaged) <= Cardinality(Engaged') + 1
         /\ c.kind = "leave" => Cardinality(Engaged) <= Cardinality(Engaged')
    <2>1. /\ Cardinality(Engaged) \in Nat /\ Cardinality(Engaged') \in Nat
          /\ Cardinality(Engaged) <= Cardinality(Engaged') + 1
          /\ c.kind = "leave" => Cardinality(Engaged) <= Cardinality(Engaged')
      BY <1>8, <1>9, Sizes
    <2>2. /\ Cardinality(S) \in Nat /\ Cardinality(T) \in Nat
          /\ Cardinality(S) <= Cardinality(T) + 1
      BY <1>7, <1>8, Sizes
    <2> QED
      BY <1>7, <2>1, <2>2
  <1>11. CASE active # 0 /\ active' = 0 /\ Slip(FALSE)
    <2>1. Running = 1 /\ Running' = 0
      BY <1>11 DEF Running
    <2>2. Covered => Covered'
      BY <1>1, <1>7, <1>8, <1>10, <2>1 DEF Covered, S, T
    <2>3. slipped' \/ Covered'
      BY <1>6, <1>11, <2>2, SlipCovered DEF Orderly
    <2> QED
      BY <1>6, <2>3 DEF Inv
  <1>12. CASE active' = active /\ Slip(c.kind = "leave")
    <2>1. Running' = Running /\ Running \in Nat
      BY <1>12 DEF Running
    <2>2. c.kind = "stop" => Engaged \subseteq Engaged'
      BY <1>1, <1>2, <1>3, <1>4, <1>12 DEF Engaged, IsActive, Settled
    <2>3. c.kind = "stop" => Cardinality(Engaged) <= Cardinality(Engaged')
      BY <1>8, <2>2, Sizes
    <2>4. ASSUME c.kind # "leave", Covered
          PROVE  Covered'
      BY <1>1, <1>7, <1>8, <1>10, <2>1, <2>3, <2>4 DEF Covered, S, T
    <2>5. slipped' \/ Covered'
      BY <1>6, <1>12, <2>4, SlipCovered DEF Orderly
    <2> QED
      BY <1>6, <2>5 DEF Inv
  <1> QED
    BY <1>4, <1>11, <1>12

-----------------------------------------------------------------------------
(* Answers that arrive.                                                    *)

LEMMA Received ==
    ASSUME Inv, NEW c \in calls, c.stage # "sent", c.kind \in {"start", "stop", "end"},
           NEW r \in TabType, Sound(c.tab, r), Shows(r),
           tab' = [tab EXCEPT ![c.tab] = r], calls' = calls \ {c},
           UNCHANGED <<server, bounds, slipped>>, r.place = tab[c.tab].place,
           c.own /\ c.kind \in Toggles =>
               ~r.busy /\ (Settled(c) \/ r.session.status = "STARTED"),
           c.own /\ c.kind = "end" => ~r.ending, r.ending => tab[c.tab].ending,
           ~(c.own /\ c.kind \in Toggles) =>
               r.busy = tab[c.tab].busy /\ r.session = tab[c.tab].session
    PROVE  Inv'
  <1> DEFINE t == c.tab
  <1>1. Orderly /\ Typed /\ tab \in [Tabs -> TabType] /\ c \in CallType /\ t \in Tabs
        /\ calls \in SUBSET CallType
    BY DEF Inv, Orderly, Typed, CallType
  <1>2. /\ tab' \in [Tabs -> TabType] /\ tab'[t] = r
        /\ \A u \in Tabs : u # t => tab'[u] = tab[u]
    BY <1>1
  <1>3. /\ active' = active /\ starts' = starts /\ joins' = joins
        /\ faults' = faults /\ slipped' = slipped
    BY DEF server, bounds
  <1>4. /\ calls' \in SUBSET CallType /\ IsFiniteSet(calls')
        /\ \A e, b \in calls' : Apart(e, b)
        /\ \A kind : Sent(kind, calls') = Sent(kind, calls)
    BY <1>1, Handled
  <1>5. Typed'
    BY <1>1, <1>2, <1>3, <1>4 DEF Typed
  <1>6. ASSUME NEW u \in Tabs
        PROVE  Sound(u, tab'[u]) /\ Shows(tab[u])' /\ Awaited(u)'
    <2>1. Sound(u, tab[u]) /\ Shows(tab[u]) /\ Awaited(u)
      BY Before
    <2>2. CASE u = t
      <3>1. Shows(tab[u])'
        BY <1>2, <1>3, <2>2 DEF Shows
      <3>2. Awaited(u)'
        BY <1>2, <2>1, <2>2 DEF Awaited, Toggles
      <3> QED
        BY <1>2, <2>2, <3>1, <3>2
    <2>3. CASE u # t
      <3>1. tab'[u] = tab[u]
        BY <1>2, <2>3
      <3>2. Awaited(u)'
        BY <2>1, <2>3, <3>1 DEF Awaited
      <3> QED
        BY <1>3, <2>1, <3>1, <3>2 DEF Shows
    <2> QED
      BY <2>2, <2>3
  <1>7. ASSUME NEW e \in calls'
        PROVE  InOrder(e)'
    <2>1. InOrder(e) /\ Apart(e, c) /\ e # c /\ e \in CallType /\ e.tab \in Tabs
      BY <1>1 DEF Orderly, CallType
    <2>2. tab'[e.tab].place = tab[e.tab].place
      BY <1>2, <2>1
    <2>3. CASE e.own /\ e.kind \in Toggles
      <3>1. e.tab = t => ~(c.own /\ c.kind \in Toggles)
        BY <2>1, <2>3 DEF Apart
      <3>2. tab'[e.tab].busy = tab[e.tab].busy /\ tab'[e.tab].session = tab[e.tab].session
        BY <1>2, <2>1, <3>1
      <3> QED
        BY <1>3, <2>1, <2>2, <3>2 DEF InOrder, InRoom, IsActive
    <2>4. CASE ~(e.own /\ e.kind \in Toggles)
      BY <1>3, <2>1, <2>2, <2>4 DEF InOrder, InRoom, Toggles
    <2> QED
      BY <2>3, <2>4
  <1>8. Engaged \subseteq Engaged'
    <2> SUFFICES ASSUME NEW u \in Engaged
                 PROVE  u \in Engaged'
      OBVIOUS
    <2>1. u \in Tabs /\ ~\E e \in calls' : e.tab = u /\ Settled(e)
      BY DEF Engaged
    <2>2. tab'[u].busy \/ tab'[u].session.status = "STARTED"
      <3>1. CASE u = t /\ c.own /\ c.kind \in Toggles
        BY <1>2, <3>1 DEF Engaged
      <3>2. CASE u # t \/ ~(c.own /\ c.kind \in Toggles)
        BY <1>2, <2>1, <3>2 DEF Engaged, IsActive
      <3> QED
        BY <3>1, <3>2
    <2> QED
      BY <2>1, <2>2 DEF Engaged, IsActive
  <1>9. Running' <= Running
    BY <1>3 DEF Running
  <1>10. slipped' \/ Covered'
    <2>1. CASE slipped
      BY <1>3, <2>1
    <2>2. CASE Covered
      BY <1>1, <1>4, <1>5, <1>8, <1>9, <2>2, CoverStays
    <2> QED
      BY <2>1, <2>2 DEF Inv
  <1> QED
    BY <1>4, <1>5, <1>6, <1>7, <1>10 DEF Inv, Orderly

(* An answer that nobody waits for.                                        *)
LEMMA Unheeded ==
    ASSUME Inv, NEW c \in calls, c.stage # "sent", c.kind \in {"start", "stop", "end"}, ~c.own,
           tab' = tab, calls' = calls \ {c}, UNCHANGED <<server, bounds, slipped>>
    PROVE  Inv'
  <1> DEFINE r == tab[c.tab]
  <1>1. c.tab \in Tabs /\ tab \in [Tabs -> TabType]
    BY DEF Inv, Orderly, Typed, CallType
  <1>2. r \in TabType /\ Sound(c.tab, r) /\ Shows(r)
    BY <1>1, Before
  <1>3. tab' = [tab EXCEPT ![c.tab] = r] /\ r = tab[c.tab]
    BY <1>1
  <1> HIDE DEF r
  <1> QED
    BY <1>2, <1>3, Received

LEMMA EndFailsStep ==
    ASSUME Inv, NEW c \in calls, EndFails(c)
    PROVE  Inv'
  <1>1. /\ c.kind = "end" /\ c.stage # "sent" /\ calls' = calls \ {c}
        /\ UNCHANGED <<server, bounds, slipped>>
        /\ c.own => tab' = [tab EXCEPT ![c.tab] = [tab[c.tab] EXCEPT !.ending = FALSE]]
        /\ ~c.own => tab' = tab
    BY DEF EndFails, Update
  <1>2. CASE ~c.own
    BY <1>1, <1>2, Unheeded
  <1>3. CASE c.own
    <2> DEFINE t == c.tab
               r == [tab[t] EXCEPT !.ending = FALSE]
    <2>1. t \in Tabs
      BY DEF Inv, Orderly, Typed, CallType
    <2>2. tab[t] \in TabType /\ Sound(t, tab[t]) /\ Shows(tab[t])
      BY <2>1, Before
    <2>3. /\ r \in TabType /\ r.panel = tab[t].panel /\ r.confirm = tab[t].confirm
          /\ r.ending = FALSE /\ r.known = tab[t].known /\ r.place = tab[t].place
          /\ r.busy = tab[t].busy /\ r.session = tab[t].session /\ r.chat = tab[t].chat
      BY <2>2 DEF TabType
    <2>4. Sound(t, r) /\ Shows(r)
      BY <2>2, <2>3 DEF Sound, Shows
    <2>5. tab' = [tab EXCEPT ![t] = r]
      BY <1>1, <1>3
    <2> HIDE DEF r
    <2> QED
      BY <1>1, <2>3, <2>4, <2>5, Received DEF Toggles
  <1> QED
    BY <1>2, <1>3

(* A tab that waits for a toggle is a host's, in the room.                 *)
LEMMA Waiting ==
    ASSUME Inv, NEW c \in calls, c.own, c.kind \in Toggles
    PROVE  /\ c.tab \in Tabs /\ tab[c.tab] \in TabType /\ Sound(c.tab, tab[c.tab])
           /\ Shows(tab[c.tab]) /\ tab[c.tab].place = "room" /\ c.tab \in Hosts
           /\ tab[c.tab].known /\ InOrder(c) /\ c \in CallType
  <1>1. c.tab \in Tabs /\ InOrder(c) /\ c \in CallType
    BY DEF Inv, Orderly, Typed, CallType
  <1>2. tab[c.tab] \in TabType /\ Sound(c.tab, tab[c.tab]) /\ Shows(tab[c.tab])
    BY <1>1, Before
  <1>3. tab[c.tab].busy
    BY <1>1 DEF InOrder
  <1> QED
    BY <1>1, <1>2, <1>3 DEF Sound

(* What the button shows is the session of the answer, which is no longer  *)
(* the running one if it is shown as captured.                             *)
LEMMA SessionArrivesStep ==
    ASSUME Inv, NEW c \in calls, SessionArrives(c)
    PROVE  Inv'
  <1> DEFINE t == c.tab
             session == [id |-> c.id, status |-> IF c.kind = "start" THEN "STARTED" ELSE "CAPTURED"]
             r == ShowSession(tab[t], session)
  <1>1. /\ c.kind \in {"start", "stop"} /\ c.stage = "ok" /\ calls' = calls \ {c}
        /\ UNCHANGED <<server, bounds, slipped>>
        /\ c.own => tab' = [tab EXCEPT ![t] = r]
        /\ ~c.own => tab' = tab
    BY DEF SessionArrives, Update
  <1>2. CASE ~c.own
    BY <1>1, <1>2, Unheeded
  <1>3. CASE c.own
    <2>1. /\ t \in Tabs /\ tab[t] \in TabType /\ Sound(t, tab[t]) /\ Shows(tab[t])
          /\ tab[t].place = "room" /\ t \in Hosts /\ tab[t].known /\ InOrder(c) /\ c \in CallType
      BY <1>1, <1>3, Waiting DEF Toggles
    <2>2. /\ session \in Session /\ session.id = c.id
          /\ session.status = IF c.kind = "start" THEN "STARTED" ELSE "CAPTURED"
      BY <1>1, <2>1 DEF Session, CallType
    <2> HIDE DEF session
    <2>3. /\ r \in TabType /\ r.panel = tab[t].panel /\ r.confirm = tab[t].confirm
          /\ r.ending = tab[t].ending /\ r.known = tab[t].known /\ r.place = tab[t].place
          /\ r.busy = FALSE /\ r.session = session /\ r.chat = tab[t].chat
      BY <2>1, <2>2 DEF ShowSession, TabType
    <2> HIDE DEF r
    <2>4. Sound(t, r)
      BY <2>1, <2>3 DEF Sound
    <2>5. Shows(r)
      BY <1>1, <2>1, <2>2, <2>3 DEF Shows, InOrder
    <2>6. Settled(c) \/ r.session.status = "STARTED"
      BY <1>1, <1>3, <2>2, <2>3 DEF Settled
    <2> QED
      BY <1>1, <1>3, <2>1, <2>3, <2>4, <2>5, <2>6, Received DEF Toggles
  <1> QED
    BY <1>2, <1>3

(* A stop that was refused leaves the button as it was, and so the session *)
(* is still shown as running.                                              *)
LEMMA ToggleFailsStep ==
    ASSUME Inv, NEW c \in calls, ToggleFails(c)
    PROVE  Inv'
  <1>1. /\ c.kind \in {"start", "stop"} /\ c.stage = "failed" /\ calls' = calls \ {c}
        /\ UNCHANGED <<server, bounds, slipped>>
        /\ c.own => tab' = [tab EXCEPT ![c.tab] = [tab[c.tab] EXCEPT !.busy = FALSE]]
        /\ ~c.own => tab' = tab
    BY DEF ToggleFails, Update
  <1>2. CASE ~c.own
    BY <1>1, <1>2, Unheeded
  <1>3. CASE c.own
    <2> DEFINE t == c.tab
               r == [tab[t] EXCEPT !.busy = FALSE]
    <2>1. /\ t \in Tabs /\ tab[t] \in TabType /\ Sound(t, tab[t]) /\ Shows(tab[t])
          /\ tab[t].place = "room" /\ t \in Hosts /\ tab[t].known /\ InOrder(c)
      BY <1>1, <1>3, Waiting DEF Toggles
    <2>2. /\ r \in TabType /\ r.panel = tab[t].panel /\ r.confirm = tab[t].confirm
          /\ r.ending = tab[t].ending /\ r.known = tab[t].known /\ r.place = tab[t].place
          /\ r.busy = FALSE /\ r.session = tab[t].session /\ r.chat = tab[t].chat
      BY <2>1 DEF TabType
    <2>3. Sound(t, r) /\ Shows(r)
      BY <2>1, <2>2 DEF Sound, Shows
    <2>4. tab' = [tab EXCEPT ![t] = r]
      BY <1>1, <1>3
    <2> HIDE DEF r
    <2>5. Settled(c) \/ r.session.status = "STARTED"
      BY <1>1, <1>3, <2>1, <2>2 DEF Settled, InOrder, IsActive
    <2> QED
      BY <1>1, <1>3, <2>1, <2>2, <2>3, <2>4, <2>5, Received DEF Toggles
  <1> QED
    BY <1>2, <1>3

-----------------------------------------------------------------------------
(* Calls that a button sends.                                              *)

LEMMA NewCall ==
    ASSUME Typed, NEW t \in Tabs, NEW kind \in Kinds
    PROVE  LET n == Call(t, kind) IN
           /\ n \in CallType /\ n.tab = t /\ n.kind = kind /\ n.visit = joins
           /\ n.own = TRUE /\ n.stage = "sent" /\ n.id = 0
  BY DEF Typed, Call, CallType

LEMMA Asked ==
    ASSUME Inv, NEW t \in Tabs, InRoom(t), NEW kind \in {"start", "stop", "end"},
           NEW r \in TabType, Sound(t, r), r.session = tab[t].session, r.place = tab[t].place,
           tab' = [tab EXCEPT ![t] = r], calls' = calls \cup {Call(t, kind)},
           UNCHANGED <<server, bounds, slipped>>,
           kind = "end" => r.busy = tab[t].busy,
           kind \in Toggles => /\ ~tab[t].busy /\ r.busy /\ r.ending = tab[t].ending
                               /\ (kind = "stop" <=> IsActive(t))
    PROVE  Inv'
  <1> DEFINE n == Call(t, kind)
             k == <<t, joins>>
  <1>1. Orderly /\ Typed /\ tab \in [Tabs -> TabType] /\ calls \in SUBSET CallType
        /\ IsFiniteSet(calls) /\ joins \in Nat /\ starts \in Nat /\ active \in 0..starts
    BY DEF Inv, Orderly, Typed
  <1>2. /\ tab' \in [Tabs -> TabType] /\ tab'[t] = r
        /\ \A u \in Tabs : u # t => tab'[u] = tab[u]
    BY <1>1
  <1>3. /\ active' = active /\ starts' = starts /\ joins' = joins
        /\ faults' = faults /\ slipped' = slipped
    BY DEF server, bounds
  <1>4. /\ n \in CallType /\ n.tab = t /\ n.kind = kind /\ n.visit = joins
        /\ n.own = TRUE /\ n.stage = "sent" /\ n.id = 0
    <2>1. kind \in Kinds
      BY DEF Kinds
    <2> QED
      BY <1>1, <2>1, NewCall
  <1>5. calls' = calls \cup {n}
    OBVIOUS
  <1> HIDE DEF n
  <1>6. calls' \in SUBSET CallType /\ IsFiniteSet(calls')
    BY <1>1, <1>4, <1>5, FS_AddElement
  <1>7. Typed'
    BY <1>1, <1>2, <1>3, <1>6 DEF Typed
  <1>8. \A c \in calls : InOrder(c) /\ c \in CallType /\ c.tab \in Tabs /\ c.visit \in Nat
    BY <1>1 DEF Orderly, CallType
  <1>9. kind \in Toggles => \A c \in calls : c.own /\ c.kind \in Toggles => c.tab # t
    BY <1>8 DEF InOrder
  <1>10. ASSUME NEW u \in Tabs
         PROVE  Sound(u, tab'[u]) /\ Shows(tab[u])' /\ Awaited(u)'
    <2>1. Sound(u, tab[u]) /\ Shows(tab[u]) /\ Awaited(u)
      BY Before
    <2>2. tab'[u].session = tab[u].session /\ Sound(u, tab'[u])
      BY <1>2, <2>1
    <2>3. /\ tab'[u].busy => tab[u].busy \/ (u = t /\ kind \in Toggles)
          /\ tab'[u].ending => tab[u].ending \/ (u = t /\ kind = "end")
      BY <1>2 DEF Toggles
    <2>4. Awaited(u)'
      BY <1>4, <1>5, <2>1, <2>3 DEF Awaited
    <2> QED
      BY <1>3, <2>1, <2>2, <2>4 DEF Shows
  <1>11. ASSUME NEW c \in calls'
         PROVE  InOrder(c)'
    <2>1. CASE c \in calls
      <3>1. InOrder(c) /\ c.tab \in Tabs
        BY <1>8, <2>1
      <3>2. tab'[c.tab].place = tab[c.tab].place /\ tab'[c.tab].session = tab[c.tab].session
        BY <1>2, <3>1
      <3>3. tab[c.tab].busy => tab'[c.tab].busy
        BY <1>2, <3>1 DEF Toggles
      <3> QED
        BY <1>3, <3>1, <3>2, <3>3 DEF InOrder, InRoom, IsActive
    <2>2. CASE c = n
      <3>1. c.visit <= joins /\ c.id <= starts
        BY <1>1, <1>4, <2>2
      <3>2. c.own /\ c.kind # "leave" /\ c.stage = "sent"
        BY <1>4, <2>2
      <3>3. c.kind \in Toggles => tab'[c.tab].busy
        BY <1>2, <1>4, <2>2
      <3>4. c.kind = "stop" => IsActive(c.tab)'
        BY <1>2, <1>4, <2>2 DEF IsActive, Toggles
      <3> QED
        BY <1>3, <3>1, <3>2, <3>3, <3>4 DEF InOrder
    <2> QED
      BY <1>5, <2>1, <2>2
  <1>12. ASSUME NEW c \in calls', NEW d \in calls'
         PROVE  Apart(c, d)
    <2>1. ASSUME NEW b \in calls
          PROVE  Apart(b, n) /\ Apart(n, b)
      <3>1. ~(kind \in Toggles /\ b.own /\ b.kind \in Toggles /\ b.tab = t)
        BY <1>9
      <3>2. b.tab = t /\ b.kind = "start" /\ kind = "start" => b.visit < joins
        BY <1>8, <3>1 DEF InOrder, Toggles
      <3>3. b.visit \in Nat
        BY <1>8
      <3> QED
        BY <1>1, <1>4, <3>1, <3>2, <3>3 DEF Apart
    <2>2. Apart(n, n)
      BY DEF Apart
    <2>3. \A b, e \in calls : Apart(b, e)
      BY <1>1 DEF Orderly
    <2> QED
      BY <1>5, <2>1, <2>2, <2>3
  <1>13. /\ Sent("leave", calls') = Sent("leave", calls)
         /\ kind # "start" => Sent("start", calls') = Sent("start", calls)
         /\ Sent("start", calls') \subseteq Sent("start", calls) \cup {k}
    BY <1>4, <1>5 DEF Sent, Pending
  <1>14. ~Settled(n)
    BY <1>4 DEF Settled
  <1>15. \A u \in Tabs : (\E c \in calls' : c.tab = u /\ Settled(c))
                         <=> (\E c \in calls : c.tab = u /\ Settled(c))
    BY <1>5, <1>14
  <1>16. kind \in Toggles => ~\E c \in calls : c.tab = t /\ Settled(c)
    BY <1>9 DEF Settled, Toggles
  <1>17. \A u \in Tabs : u # t => (u \in Engaged' <=> u \in Engaged)
    BY <1>2, <1>15 DEF Engaged, IsActive
  <1>18. CASE kind # "start"
    <2>1. t \in Engaged => t \in Engaged'
      BY <1>2, <1>15, <1>18 DEF Engaged, IsActive, Toggles
    <2>2. Engaged \subseteq Engaged'
      BY <1>17, <2>1 DEF Engaged
    <2>3. Running' <= Running
      BY <1>3 DEF Running
    <2>4. Covered => Covered'
      BY <1>1, <1>7, <1>13, <1>18, <2>2, <2>3, CoverStays
    <2> QED
      BY <1>3, <1>6, <1>7, <1>10, <1>11, <1>12, <2>4 DEF Inv, Orderly
  <1>19. CASE kind = "start"
    <2>1. t \notin Engaged /\ t \in Engaged'
      BY <1>2, <1>15, <1>16, <1>19 DEF Engaged, IsActive, Toggles
    <2>2. Engaged' = Engaged \cup {t}
      BY <1>17, <2>1 DEF Engaged
    <2>3. Cardinality(Engaged') = Cardinality(Engaged) + 1 /\ Cardinality(Engaged) \in Nat
      BY <2>1, <2>2, EngagedFinite, FS_AddElement
    <2>4. Running' = Running /\ Running \in Nat
      BY <1>3 DEF Running
    <2> DEFINE S == Sent("start", calls)
               T == Sent("start", calls')
    <2>5. IsFiniteSet(S) /\ IsFiniteSet(T) /\ Cardinality(Sent("leave", calls)) \in Nat
      BY <1>1, <1>6, SentFinite
    <2> HIDE DEF S, T, k
    <2>6. T \subseteq S \cup {k}
      BY <1>13 DEF S, T
    <2>7. Cardinality(T) <= Cardinality(S) + 1 /\ Cardinality(S) \in Nat /\ Cardinality(T) \in Nat
      BY <2>5, <2>6, Sizes
    <2>8. Covered => Covered'
      BY <1>13, <2>3, <2>4, <2>5, <2>7 DEF Covered, S, T
    <2> QED
      BY <1>3, <1>6, <1>7, <1>10, <1>11, <1>12, <2>8 DEF Inv, Orderly
  <1> QED
    BY <1>18, <1>19

LEMMA HandleEndMeetingStep ==
    ASSUME Inv, NEW t \in Tabs, HandleEndMeeting(t)
    PROVE  Inv'
  <1> DEFINE r == [tab[t] EXCEPT !.ending = TRUE]
  <1>1. tab[t] \in TabType /\ Sound(t, tab[t]) /\ InRoom(t) /\ tab[t].confirm
    BY Before DEF HandleEndMeeting, ConfirmShown, PanelShown
  <1>2. /\ r \in TabType /\ r.confirm = tab[t].confirm /\ r.ending = TRUE
        /\ r.known = tab[t].known /\ r.place = tab[t].place /\ r.busy = tab[t].busy
        /\ r.session = tab[t].session /\ r.chat = tab[t].chat /\ r.panel = tab[t].panel
    BY <1>1 DEF TabType
  <1>3. Sound(t, r)
    BY <1>1, <1>2 DEF Sound, InRoom
  <1>4. /\ tab' = [tab EXCEPT ![t] = r] /\ calls' = calls \cup {Call(t, "end")}
        /\ UNCHANGED <<server, bounds, slipped>>
    BY DEF HandleEndMeeting, Update
  <1> HIDE DEF r
  <1> QED
    BY <1>1, <1>2, <1>3, <1>4, Asked DEF Toggles

LEMMA HandleToggleStep ==
    ASSUME Inv, NEW t \in Tabs, HandleToggle(t)
    PROVE  Inv'
  <1> DEFINE r == [tab[t] EXCEPT !.busy = TRUE]
  <1>1. /\ tab[t] \in TabType /\ Sound(t, tab[t]) /\ InRoom(t) /\ t \in Hosts
        /\ tab[t].known /\ ~tab[t].busy
    BY Before DEF HandleToggle, SummarizerShown, ButtonEnabled, IsAdmin
  <1>2. /\ r \in TabType /\ r.confirm = tab[t].confirm /\ r.ending = tab[t].ending
        /\ r.known = tab[t].known /\ r.place = tab[t].place /\ r.busy = TRUE
        /\ r.session = tab[t].session /\ r.chat = tab[t].chat /\ r.panel = tab[t].panel
    BY <1>1 DEF TabType
  <1>3. Sound(t, r)
    BY <1>1, <1>2 DEF Sound, InRoom
  <1>4. PICK kind \in {"start", "stop"} :
           /\ tab' = [tab EXCEPT ![t] = r] /\ calls' = calls \cup {Call(t, kind)}
           /\ UNCHANGED <<server, bounds, slipped>>
           /\ kind = "stop" <=> IsActive(t)
    BY DEF HandleToggle, Update
  <1> HIDE DEF r
  <1> QED
    BY <1>1, <1>2, <1>3, <1>4, Asked DEF Toggles

(* A tab that enters starts afresh; whatever it sent is from before.       *)
LEMMA JoinStep ==
    ASSUME Inv, NEW t \in Tabs, Join(t)
    PROVE  Inv'
  <1>1. Orderly /\ Typed /\ tab \in [Tabs -> TabType] /\ joins \in Nat
        /\ \A c \in calls : c \in CallType
    BY DEF Inv, Orderly, Typed
  <1>2. PICK known \in BOOLEAN, same \in SUBSET Tabs :
           tab' = [u \in Tabs |->
              IF u = t THEN [Away EXCEPT !.place = "room", !.known = known]
              ELSE IF u \in same THEN [tab[u] EXCEPT !.cut = "duplicate"] ELSE tab[u]]
    BY DEF Join
  <1>3. /\ tab[t].place = "away" /\ joins' = joins + 1 /\ calls' = calls /\ active' = active
        /\ starts' = starts /\ faults' = faults /\ slipped' = slipped
    BY DEF Join, server
  <1> DEFINE r == [Away EXCEPT !.place = "room", !.known = known]
  <1>4. /\ r \in TabType /\ r.busy = FALSE /\ r.ending = FALSE /\ r.chat = FALSE
        /\ r.place = "room" /\ r.session = NoSession
    <2>1. NoSession \in Session
      BY DEF NoSession, Session
    <2> QED
      BY <2>1 DEF Away, TabType, Messages
  <1>5. tab'[t] = r /\ Sound(t, r)
    BY <1>2, <1>4 DEF Sound, NoSession
  <1> HIDE DEF r
  <1>6. \A u \in Tabs : tab[u] \in TabType /\ Sound(u, tab[u]) /\ Shows(tab[u]) /\ Awaited(u)
                        /\ starts \in Nat
    BY Before
  <1>7. ASSUME NEW u \in Tabs, u # t
        PROVE  /\ tab'[u] \in TabType /\ Sound(u, tab'[u])
               /\ tab'[u].busy = tab[u].busy /\ tab'[u].ending = tab[u].ending
               /\ tab'[u].session = tab[u].session /\ tab'[u].place = tab[u].place
    <2> DEFINE q == [tab[u] EXCEPT !.cut = "duplicate"]
    <2>1. /\ q \in TabType /\ q.busy = tab[u].busy /\ q.ending = tab[u].ending
          /\ q.session = tab[u].session /\ q.place = tab[u].place /\ q.known = tab[u].known
          /\ q.confirm = tab[u].confirm /\ q.chat = tab[u].chat /\ q.panel = tab[u].panel
      BY <1>6 DEF TabType, Reasons
    <2>2. Sound(u, q)
      BY <1>6, <2>1 DEF Sound
    <2>3. tab'[u] = q \/ tab'[u] = tab[u]
      BY <1>2, <1>7
    <2> HIDE DEF q
    <2> QED
      BY <1>6, <2>1, <2>2, <2>3
  <1>8. tab' \in [Tabs -> TabType]
    <2>1. \A u \in Tabs : tab'[u] \in TabType
      BY <1>4, <1>5, <1>7
    <2>2. tab' = [u \in Tabs |-> tab'[u]]
      BY <1>2
    <2> QED
      BY <2>1, <2>2
  <1>9. Typed'
    BY <1>1, <1>3, <1>8 DEF Typed
  <1>10. ~tab[t].busy /\ tab[t].session = NoSession
    BY <1>3, <1>6 DEF Sound
  <1>11. ASSUME NEW u \in Tabs
         PROVE  Sound(u, tab'[u]) /\ Shows(tab[u])' /\ Awaited(u)'
    <2>1. CASE u = t
      <3>1. Shows(tab[u])'
        BY <1>3, <1>4, <1>5, <1>6, <2>1 DEF Shows, NoSession
      <3> QED
        BY <1>4, <1>5, <2>1, <3>1 DEF Awaited
    <2>2. CASE u # t
      BY <1>3, <1>6, <1>7, <2>2 DEF Shows, Awaited
    <2> QED
      BY <2>1, <2>2
  <1>12. ASSUME NEW c \in calls'
         PROVE  InOrder(c)'
    <2>1. InOrder(c) /\ c.tab \in Tabs /\ c.visit \in Nat
      BY <1>1, <1>3 DEF Orderly, CallType
    <2>2. c.visit <= joins' /\ c.visit < joins'
      BY <1>1, <1>3, <2>1 DEF InOrder
    <2>3. c.own /\ c.kind \in Toggles => c.tab # t
      BY <1>10, <2>1 DEF InOrder
    <2>4. c.own /\ c.kind \in Toggles =>
             tab'[c.tab].busy = tab[c.tab].busy /\ tab'[c.tab].session = tab[c.tab].session
      BY <1>7, <2>1, <2>3
    <2> QED
      BY <1>3, <2>1, <2>2, <2>4 DEF InOrder, IsActive, Toggles
  <1>13. Engaged' = Engaged
    <2>1. \A u \in Tabs : (tab'[u].busy <=> tab[u].busy)
                          /\ (tab'[u].session.status = "STARTED" <=> tab[u].session.status = "STARTED")
      BY <1>4, <1>5, <1>7, <1>10
    <2> QED
      BY <1>3, <2>1 DEF Engaged, IsActive
  <1>14. Covered => Covered'
    BY <1>3, <1>13 DEF Covered, Running
  <1> QED
    BY <1>1, <1>3, <1>9, <1>11, <1>12, <1>14 DEF Inv, Orderly

-----------------------------------------------------------------------------
(* The invariant holds.                                                    *)

LEMMA InitInv ==
    ASSUME Init
    PROVE  Inv
  <1>1. /\ tab = [t \in Tabs |-> Away] /\ calls = {} /\ active = 0 /\ starts = 0
        /\ joins = 0 /\ faults = 0 /\ slipped = FALSE
    BY DEF Init
  <1>2. /\ Away \in TabType /\ Away.place = "away" /\ Away.busy = FALSE
        /\ Away.ending = FALSE /\ Away.session = NoSession /\ \A t : Sound(t, Away)
    BY AwayTyped
  <1>3. IsFiniteSet(calls)
    BY <1>1, FS_EmptySet
  <1>4. Typed
    <2>1. tab \in [Tabs -> TabType] /\ calls \in SUBSET CallType
      BY <1>1, <1>2
    <2>2. starts \in 0..MaxStarts /\ active \in 0..starts /\ joins \in Nat /\ faults \in Nat
      BY <1>1
    <2>3. slipped \in BOOLEAN
      BY <1>1
    <2> QED
      BY <1>3, <2>1, <2>2, <2>3 DEF Typed
  <1>5. \A t \in Tabs : Sound(t, tab[t]) /\ Shows(tab[t]) /\ Awaited(t)
    BY <1>1, <1>2 DEF Shows, Awaited, NoSession
  <1>6. Sent("start", calls) = {} /\ Sent("leave", calls) = {}
    BY <1>1 DEF Sent, Pending
  <1>7. Covered
    <2>1. Cardinality(Sent("start", calls)) = 0 /\ Cardinality(Sent("leave", calls)) = 0
      BY <1>6, FS_EmptySet
    <2> QED
      BY <1>1, <2>1, EngagedFinite DEF Covered, Running
  <1> QED
    BY <1>1, <1>4, <1>5, <1>7 DEF Inv, Orderly

LEMMA StutterInv ==
    ASSUME Inv, UNCHANGED vars
    PROVE  Inv'
  <1>1. UNCHANGED <<tab, calls, active, starts, joins, faults, slipped>>
    BY DEF vars, server, bounds
  <1>2. Typed'
    BY <1>1 DEF Inv, Orderly, Typed
  <1>3. /\ \A t \in Tabs : Sound(t, tab[t])' /\ Shows(tab[t])' /\ Awaited(t)'
        /\ \A c \in calls' : InOrder(c)'
        /\ \A c, d \in calls' : Apart(c, d)'
    BY <1>1 DEF Inv, Orderly, Shows, Awaited, InOrder, InRoom, IsActive
  <1>4. slipped' \/ Covered'
    BY <1>1 DEF Inv, Covered, Running, Engaged, IsActive
  <1> QED
    BY <1>2, <1>3, <1>4 DEF Inv, Orderly

LEMMA StepInv ==
    ASSUME Inv, [Next]_vars
    PROVE  Inv'
  <1>1. CASE ServerStep
    BY <1>1, EndMeetingStep, StartSummarizerStep, StopSummarizerStep DEF ServerStep
  <1>2. CASE AnswerStep
    BY <1>2, EndAnsweredStep, EndFailsStep, SessionArrivesStep, ToggleFailsStep DEF AnswerStep
  <1>3. ASSUME NEW t \in Tabs, UserStep(t)
        PROVE  Inv'
    <2>1. CASE WayOut(t)
      BY <2>1, LeaveStep, GoAwayStep DEF WayOut
    <2>2. CASE Join(t) \/ MeetingArrives(t) \/ ToastEnds(t)
      BY <2>2, JoinStep, MeetingArrivesStep, ToastEndsStep
    <2>3. CASE ToggleAdmin(t) \/ ToggleChat(t) \/ (\E u \in Tabs : Kick(t, u))
      BY <2>3, ToggleAdminStep, ToggleChatStep, KickStep
    <2>4. CASE ClickEnd(t) \/ CancelEnd(t) \/ HandleEndMeeting(t)
      BY <2>4, ConfirmStep, HandleEndMeetingStep
    <2>5. CASE HandleToggle(t)
      BY <2>5, HandleToggleStep
    <2> QED
      BY <1>3, <2>1, <2>2, <2>3, <2>4, <2>5 DEF UserStep
  <1>4. ASSUME NEW t \in Tabs, TimerLeaves(t)
        PROVE  Inv'
    BY <1>4, TimerLeavesStep
  <1>5. CASE UNCHANGED vars
    BY <1>5, StutterInv
  <1> QED
    BY <1>1, <1>2, <1>3, <1>4, <1>5 DEF Next

LEMMA InvHolds == Spec => []Inv
  <1>1. Init => Inv
    BY InitInv
  <1>2. Inv /\ [Next]_vars => Inv'
    BY StepInv
  <1> QED
    BY <1>1, <1>2, PTL DEF Spec

(* The tabs' panels and buttons, the calls and the meeting's sessions have *)
(* their types.                                                            *)
THEOREM RoomTypeCorrect == Spec => []TypeOK
  <1>1. Inv => TypeOK
    <2> SUFFICES ASSUME Inv
                 PROVE  TypeOK
      OBVIOUS
    <2>1. Typed /\ MaxStarts \in Nat /\ starts \in 0..MaxStarts /\ active \in 0..starts
      BY DEF Inv, Orderly, Typed
    <2>2. ASSUME NEW t \in Tabs
          PROVE  /\ tab[t].place \in {"away", "room", "message"}
                 /\ ~(tab[t].chat /\ tab[t].panel)
                 /\ tab[t].ending => tab[t].confirm
                 /\ tab[t].session.id \in 0..MaxStarts
      <3>1. tab[t] \in TabType /\ Sound(t, tab[t]) /\ Shows(tab[t])
        BY Before
      <3>2. tab[t].session.id \in Nat /\ tab[t].session.id <= starts
        BY <3>1 DEF TabType, Session, Shows
      <3> QED
        BY <2>1, <3>1, <3>2 DEF TabType, Sound
    <2>3. \A c \in calls : c.kind \in Kinds /\ c.tab \in Tabs
      BY <2>1 DEF Typed, CallType
    <2> QED
      BY <2>1, <2>2, <2>3 DEF TypeOK
  <1> QED
    BY <1>1, InvHolds, PTL

(* However many tabs and recordings there are: a session that runs has a   *)
(* host in the room or a stop on its way.  Excepted, until nothing runs or *)
(* is to start: a recording tab went without its parting stop, or a parting*)
(* stop was refused or overtook the start it belongs to.  A refused button,*)
(* a meeting that ends while its session is kept, and a host who closes a  *)
(* tab that does not record are not excepted.                              *)
THEOREM RecordingIsAttendedHolds == Spec => []RecordingIsAttended
  <1>1. Inv => RecordingIsAttended
    <2> SUFFICES ASSUME Inv, active # 0, ~slipped
                 PROVE  \/ \E t \in Hosts : InRoom(t)
                        \/ \E c \in calls : c.kind \in {"stop", "leave", "end"} /\ c.stage = "sent"
      BY DEF RecordingIsAttended
    <2>1. Covered /\ Typed
      BY DEF Inv, Orderly
    <2>2. CASE Sent("leave", calls) # {}
      <3>1. PICK c \in calls : c.kind = "leave" /\ c.stage = "sent"
        BY <2>2 DEF Sent, Pending
      <3> QED
        BY <3>1
    <2>3. CASE Engaged # {}
      <3>1. PICK t \in Tabs : tab[t].busy \/ IsActive(t)
        BY <2>3 DEF Engaged
      <3>2. Sound(t, tab[t])
        BY Before
      <3>3. t \in Hosts /\ tab[t].place = "room"
        BY <3>1, <3>2 DEF Sound, IsActive, NoSession
      <3> QED
        BY <3>3 DEF InRoom
    <2>4. Sent("leave", calls) # {} \/ Engaged # {}
      <3> SUFFICES ASSUME Sent("leave", calls) = {}, Engaged = {}
                   PROVE  FALSE
        OBVIOUS
      <3>1. Cardinality(Sent("leave", calls)) = 0 /\ Cardinality(Engaged) = 0
        BY FS_EmptySet
      <3>2. Cardinality(Sent("start", calls)) \in Nat
        BY <2>1, SentFinite DEF Typed
      <3> QED
        BY <2>1, <3>1, <3>2 DEF Covered, Running
    <2> QED
      BY <2>2, <2>3, <2>4
  <1> QED
    BY <1>1, InvHolds, PTL

(* The tab whose session is running offers to stop it.                     *)
THEOREM StarterCanStopHolds == Spec => []StarterCanStop
  <1>1. Inv => StarterCanStop
    BY DEF Inv, Orderly, Shows, StarterCanStop, IsActive
  <1> QED
    BY <1>1, InvHolds, PTL

(* A disabled button waits for an answer that is still to come.            *)
THEOREM BusyMeansCallHolds == Spec => []BusyMeansCall
  <1>1. Inv => BusyMeansCall
    BY DEF Inv, Orderly, Awaited, BusyMeansCall, Toggles
  <1> QED
    BY <1>1, InvHolds, PTL
=============================================================================

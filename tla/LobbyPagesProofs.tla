--------------------------- MODULE LobbyPagesProofs --------------------------
(***************************************************************************)
(* Theorems about both ends of the lobby's sockets, for every finite set of*)
(* visitors and any number of messages, broken connections and snapshots.  *)
(***************************************************************************)
EXTENDS LobbyPages, SequenceTheorems, FiniteSetTheorems, WellFoundedInduction, TLAPS

-----------------------------------------------------------------------------
(* What sequences hold.                                                    *)

LEMMA ToSetEmpty == ToSet(<<>>) = {}
  BY DEF ToSet

LEMMA ToSetAppend ==
  ASSUME NEW S, NEW s \in Seq(S), NEW e \in S
  PROVE  ToSet(Append(s, e)) = ToSet(s) \cup {e}
  BY AppendProperties DEF ToSet

LEMMA ToSetConcat ==
  ASSUME NEW S, NEW s \in Seq(S), NEW t \in Seq(S)
  PROVE  ToSet(s \o t) = ToSet(s) \cup ToSet(t)
<1>1. /\ Len(s) \in Nat /\ Len(t) \in Nat
      /\ DOMAIN s = 1..Len(s) /\ DOMAIN t = 1..Len(t) /\ DOMAIN (s \o t) = 1..(Len(s) + Len(t))
  BY ConcatProperties, LenProperties
<1>2. \A i \in DOMAIN (s \o t) : (s \o t)[i] = IF i <= Len(s) THEN s[i] ELSE t[i - Len(s)]
  BY <1>1, ConcatProperties
<1>3. ToSet(s \o t) \subseteq ToSet(s) \cup ToSet(t)
  <2> SUFFICES ASSUME NEW i \in 1..(Len(s) + Len(t))
               PROVE  (s \o t)[i] \in ToSet(s) \cup ToSet(t)
    BY <1>1 DEF ToSet
  <2>1. CASE i <= Len(s)
    BY <1>1, <1>2, <2>1 DEF ToSet
  <2>2. CASE ~ (i <= Len(s))
    <3>1. i - Len(s) \in DOMAIN t
      BY <1>1, <2>2
    <3> QED BY <1>1, <1>2, <2>2, <3>1 DEF ToSet
  <2> QED BY <2>1, <2>2
<1>4. ASSUME NEW i \in DOMAIN s PROVE s[i] \in ToSet(s \o t)
  <2>1. i \in DOMAIN (s \o t) /\ i <= Len(s)
    BY <1>1
  <2> QED BY <1>2, <2>1 DEF ToSet
<1>5. ASSUME NEW i \in DOMAIN t PROVE t[i] \in ToSet(s \o t)
  <2>1. i + Len(s) \in DOMAIN (s \o t) /\ ~ (i + Len(s) <= Len(s)) /\ (i + Len(s)) - Len(s) = i
    BY <1>1
  <2>2. (s \o t)[i + Len(s)] = t[i]
    BY <1>2, <2>1
  <2> QED BY <2>1, <2>2 DEF ToSet
<1> QED BY <1>3, <1>4, <1>5 DEF ToSet

LEMMA ToSetTail ==
  ASSUME NEW S, NEW s \in Seq(S), s # <<>>
  PROVE  /\ Tail(s) \in Seq(S) /\ Head(s) \in ToSet(s)
         /\ ToSet(Tail(s)) \subseteq ToSet(s)
         /\ ToSet(s) = {Head(s)} \cup ToSet(Tail(s))
<1>1. /\ Len(s) \in Nat \ {0} /\ DOMAIN s = 1..Len(s)
      /\ Tail(s) \in Seq(S) /\ DOMAIN Tail(s) = 1..(Len(s) - 1)
      /\ \A i \in 1..(Len(s) - 1) : Tail(s)[i] = s[i + 1]
      /\ Head(s) = s[1]
  BY HeadTailProperties, LenProperties, EmptySeq
<1>2. Head(s) \in ToSet(s)
  BY <1>1 DEF ToSet
<1>3. ASSUME NEW i \in 1..(Len(s) - 1) PROVE Tail(s)[i] \in ToSet(s)
  BY <1>1 DEF ToSet
<1>4. ASSUME NEW i \in DOMAIN s PROVE s[i] \in {Head(s)} \cup ToSet(Tail(s))
  <2>1. CASE i = 1
    BY <1>1, <2>1
  <2>2. CASE i # 1
    <3>1. i - 1 \in 1..(Len(s) - 1) /\ (i - 1) + 1 = i
      BY <1>1, <2>2
    <3>2. Tail(s)[i - 1] = s[i]
      BY <1>1, <3>1
    <3> QED BY <1>1, <3>1, <3>2 DEF ToSet
  <2> QED BY <2>1, <2>2
<1> QED BY <1>1, <1>2, <1>3, <1>4 DEF ToSet

LEMMA ToSetType ==
  ASSUME NEW S, NEW s \in Seq(S)
  PROVE  ToSet(s) \subseteq S
  BY DEF ToSet

(* SetToSeq lists a finite set.                                            *)
LEMMA SetToSeqLists ==
  ASSUME NEW S, IsFiniteSet(S)
  PROVE  SetToSeq(S) \in Seq(S) /\ ToSet(SetToSeq(S)) = S
<1> DEFINE n == Cardinality(S)
<1>1. n \in Nat /\ ExistsBijection(1..n, S)
  BY FS_CardinalityType
<1>2. PICK g : g \in Bijection(1..n, S)
  BY <1>1 DEF ExistsBijection
<1>3. g \in [1..n -> S] /\ IsInjective(g)
  BY <1>2 DEF Bijection, Injection, IsInjective
<1> DEFINE f == SetToSeq(S)
<1>4. f \in [1..n -> S] /\ IsInjective(f)
  BY <1>3 DEF SetToSeq
<1>5. IsFiniteSet(1..n) /\ Cardinality(1..n) = n
  BY <1>1, FS_Interval
<1>6. f \in Injection(1..n, S)
  BY <1>4 DEF Injection, IsInjective
<1>7. f \in Surjection(1..n, S)
  BY <1>5, <1>6, FS_Injection
<1>8. \A x \in S : \E i \in 1..n : f[i] = x
  BY <1>7 DEF Surjection
<1>9. f \in Seq(S) /\ DOMAIN f = 1..n
  BY <1>1, <1>4
<1> QED BY <1>4, <1>8, <1>9 DEF ToSet

-----------------------------------------------------------------------------
(* The list without some requests, by the shortest part of it for which the*)
(* filter would go wrong.                                                  *)

LEMMA Least ==
  ASSUME NEW T \in SUBSET Nat, T # {}
  PROVE  \E n \in T : \A m \in T : ~ (m < n)
<1>1. PICK n \in T : \A m \in T : ~ (<<m, n>> \in OpToRel(<, Nat))
  BY WFMin, NatLessThanWellFounded
<1> QED BY <1>1 DEF OpToRel

Step(s, rs, f, n) ==
    IF n = 0 THEN <<>>
    ELSE IF s[n] \in rs THEN f[n - 1] ELSE Append(f[n - 1], s[n])

LEMMA FilterExists ==
  ASSUME NEW S, NEW s \in Seq(S), NEW rs, NEW len \in Nat
  PROVE  \E f : f = [n \in 0..len |-> Step(s, rs, f, n)]
<1> DEFINE Has(k) == \E f : f = [n \in 0..k |-> Step(s, rs, f, n)]
           Bad == {k \in Nat : ~ Has(k)}
<1> SUFFICES ASSUME Bad # {} PROVE FALSE
  OBVIOUS
<1>1. PICK k \in Bad : \A m \in Bad : ~ (m < k)
  BY Least
<1>2. CASE k = 0
  <2> DEFINE g == [n \in 0..0 |-> <<>>]
  <2>1. g = [n \in 0..0 |-> Step(s, rs, g, n)]
    BY DEF Step
  <2> QED BY <1>1, <1>2, <2>1
<1>3. CASE k # 0
  <2>1. k - 1 \in Nat /\ k - 1 < k
    BY <1>3
  <2>2. Has(k - 1)
    BY <1>1, <2>1
  <2>3. PICK f : f = [n \in 0..(k - 1) |-> Step(s, rs, f, n)]
    BY <2>2
  <2> DEFINE g == [n \in 0..k |-> Step(s, rs, f, n)]
  <2>4. \A n \in 0..(k - 1) : g[n] = f[n]
    <3>1. \A n \in 0..(k - 1) : n \in 0..k
      BY <2>1
    <3> QED BY <2>3, <3>1
  <2>5. ASSUME NEW n \in 0..k PROVE Step(s, rs, f, n) = Step(s, rs, g, n)
    <3>1. CASE n = 0
      BY <3>1 DEF Step
    <3>2. CASE n # 0
      <4>1. n - 1 \in 0..(k - 1)
        BY <2>1, <3>2
      <4> QED BY <2>4, <3>2, <4>1 DEF Step
    <3> QED BY <3>1, <3>2
  <2>6. g = [n \in 0..k |-> Step(s, rs, g, n)]
    BY <2>5
  <2> QED BY <1>1, <2>6
<1> QED BY <1>2, <1>3

LEMMA Filters ==
  ASSUME NEW S, NEW s \in Seq(S), NEW rs, NEW f,
         f = [n \in 0..Len(s) |-> Step(s, rs, f, n)]
  PROVE  f[Len(s)] \in Seq(S) /\ ToSet(f[Len(s)]) = ToSet(s) \ rs
<1> DEFINE First(k) == {s[i] : i \in 1..k}
           Good(k) == f[k] \in Seq(S) /\ ToSet(f[k]) = First(k) \ rs
           Bad == {k \in 0..Len(s) : ~ Good(k)}
<1>0. Len(s) \in Nat /\ DOMAIN s = 1..Len(s) /\ \A i \in 1..Len(s) : s[i] \in S
  BY LenProperties
<1>1. Bad = {}
  <2> SUFFICES ASSUME Bad # {} PROVE FALSE
    OBVIOUS
  <2>1. PICK k \in Bad : \A m \in Bad : ~ (m < k)
    <3>1. Bad \in SUBSET Nat
      BY <1>0
    <3> HIDE DEF Bad
    <3> QED BY <3>1, Least
  <2>2. k \in 0..Len(s) /\ f[k] = Step(s, rs, f, k)
    OBVIOUS
  <2>3. CASE k = 0
    <3>1. f[k] = <<>> /\ First(k) = {}
      BY <2>2, <2>3 DEF Step
    <3> QED BY <3>1, ToSetEmpty, EmptySeq
  <2>4. CASE k # 0
    <3>1. k - 1 \in 0..Len(s) /\ k - 1 < k /\ k \in 1..Len(s)
      BY <1>0, <2>2, <2>4
    <3>2. Good(k - 1)
      BY <2>1, <3>1
    <3>3. First(k) = First(k - 1) \cup {s[k]}
      <4>1. 1..k = (1..(k - 1)) \cup {k}
        BY <3>1
      <4> QED BY <4>1
    <3>4. s[k] \in S
      BY <1>0, <3>1
    <3> HIDE DEF First
    <3>5. CASE s[k] \in rs
      BY <2>2, <2>4, <3>2, <3>3, <3>5 DEF Step
    <3>6. CASE s[k] \notin rs
      <4>1. f[k] = Append(f[k - 1], s[k])
        BY <2>2, <2>4, <3>6 DEF Step
      <4>2. f[k] \in Seq(S) /\ ToSet(f[k]) = ToSet(f[k - 1]) \cup {s[k]}
        <5>1. f[k - 1] \in Seq(S)
          BY <3>2
        <5>2. ToSet(Append(f[k - 1], s[k])) = ToSet(f[k - 1]) \cup {s[k]}
          BY <3>4, <5>1, ToSetAppend
        <5>3. Append(f[k - 1], s[k]) \in Seq(S)
          BY <3>4, <5>1, AppendProperties
        <5> QED BY <4>1, <5>2, <5>3
      <4> QED BY <3>2, <3>3, <3>6, <4>2
    <3> QED BY <3>5, <3>6
  <2> QED BY <2>3, <2>4
<1>2. Len(s) \in 0..Len(s)
  BY <1>0
<1>3. Good(Len(s))
  BY <1>1, <1>2
<1>4. First(Len(s)) = ToSet(s)
  BY <1>0 DEF ToSet
<1> QED BY <1>3, <1>4

LEMMA WithoutKeeps ==
  ASSUME requests \in Seq(Requests), NEW rs
  PROVE  Without(rs) \in Seq(Requests) /\ ToSet(Without(rs)) = ToSet(requests) \ rs
<1> DEFINE kept == CHOOSE f : f = [n \in 0..Len(requests) |-> Step(requests, rs, f, n)]
<1>1. Len(requests) \in Nat
  BY LenProperties
<1>2. kept = [n \in 0..Len(requests) |-> Step(requests, rs, kept, n)]
  BY <1>1, FilterExists
<1>3. Without(rs) = kept[Len(requests)]
  BY DEF Without, Step
<1> HIDE DEF kept
<1> QED BY <1>2, <1>3, Filters

-----------------------------------------------------------------------------
(* The inductive invariant.                                                *)

Stati == {"none", "pending", "approved", "rejected", "gone"}
PageRecord == [at : {"form", "pending", "rejected", "room", "home"},
               sock : {"closed", "connecting", "up"}, left : Nat,
               cancelling : {"no", "sent", "answered"}, metered : BOOLEAN,
               mail : Seq({"approved", "rejected"})]

(* Only a request that was sent is cancelled.                              *)
PageType == {p \in PageRecord : p.at = "form" => p.cancelling = "no"}
Kinds == {"pending_requests", "new_request", "request_resolved", "visitor_cancelled"}
Messages == [type : Kinds, about : SUBSET Requests]
Responds == [about : Requests, action : {"approved", "rejected"}]

DataTyped ==
    /\ status \in [Requests -> Stati]
    /\ socket \in {"down", "listing", "writing", "up"} /\ snapshot \subseteq Requests
    /\ wire \in Seq(Messages) /\ out \in Seq(Responds) /\ requests \in Seq(Requests)

TypeInv == DataTyped /\ page \in [Requests -> PageType]

(* Whoever is spoken of has sent the form, and the form is sent once.      *)
Spoken(r) ==
    \/ r \in ToSet(requests) \cup snapshot
    \/ \E m \in ToSet(wire) : r \in m.about
    \/ \E o \in ToSet(out) : r = o.about

SentOnce == \A r \in Requests :
    /\ Spoken(r) => status[r] # "none"
    /\ status[r] # "none" => page[r].at # "form"

(* A notice that a request is settled is true, and stays true.             *)
NoticeIsTrue ==
    \A m \in ToSet(wire) : m.type \in {"request_resolved", "visitor_cancelled"} =>
        \A r \in m.about : status[r] # "pending"

Told(r) == \E m \in ToSet(wire) : m.type \in {"pending_requests", "new_request"} /\ r \in m.about

(* From the listing on, who waits is in what was listed, on its way to the *)
(* page, on its list or among its answers.                                 *)
Covered(r) ==
    \/ r \in ToSet(requests) \/ Told(r)
    \/ \E o \in ToSet(out) : o.about = r
    \/ socket = "writing" /\ r \in snapshot

WaitingIsCovered ==
    socket \in {"writing", "up"} =>
        \A r \in Requests : status[r] = "pending" /\ r \notin overtaken => Covered(r)

Protocol == SentOnce /\ NoticeIsTrue /\ WaitingIsCovered

Inv == TypeInv /\ Protocol

-----------------------------------------------------------------------------
(* Types.                                                                  *)

LEMMA NotifyTyped ==
  ASSUME wire \in Seq(Messages), NEW type \in Kinds, NEW r \in Requests, NotifyAdmins(type, r)
  PROVE  /\ wire' \in Seq(Messages)
         /\ socket = "down" => wire' = wire
         /\ socket # "down" => ToSet(wire') = ToSet(wire) \cup {[type |-> type, about |-> {r}]}
<1> DEFINE m == [type |-> type, about |-> {r}]
<1>1. m \in Messages
  BY DEF Messages
<1>2. wire' = IF socket = "down" THEN wire ELSE Append(wire, m)
  BY DEF NotifyAdmins
<1> HIDE DEF m
<1>3. Append(wire, m) \in Seq(Messages)
  BY <1>1, AppendProperties
<1>4. ToSet(Append(wire, m)) = ToSet(wire) \cup {m}
  BY <1>1, ToSetAppend
<1>5. /\ wire' \in Seq(Messages)
      /\ socket = "down" => wire' = wire
      /\ socket # "down" => ToSet(wire') = ToSet(wire) \cup {m}
  BY <1>2, <1>3, <1>4
<1> QED BY <1>5 DEF m

(* What is done to one visitor's page: none goes back to the form.         *)
Verdicts == {"approved", "rejected"}

GoesOn(p, q) == q \in PageType /\ (q.at = "form" => p.at = "form")

LEMMA PageGoesOn ==
  ASSUME NEW p \in PageType, NEW a \in {"pending", "rejected", "room", "home"},
         NEW c \in {"closed", "connecting", "up"}, NEW m \in Seq(Verdicts)
  PROVE  /\ GoesOn(p, [p EXCEPT !.at = a, !.sock = c])
         /\ GoesOn(p, [p EXCEPT !.at = a, !.mail = m])
         /\ GoesOn(p, [p EXCEPT !.sock = c])
         /\ GoesOn(p, [p EXCEPT !.mail = m, !.sock = c])
         /\ GoesOn(p, [p EXCEPT !.metered = ~@])
         /\ GoesOn(p, [p EXCEPT !.mail = m])
  BY DEF PageType, PageRecord, Verdicts, GoesOn

LEMMA CancelGoesOn ==
  ASSUME NEW p \in PageType, p.at # "form", NEW c \in {"sent", "answered"}
  PROVE  GoesOn(p, [p EXCEPT !.cancelling = c])
  BY DEF PageType, PageRecord, GoesOn

LEMMA ClosedGoesOn ==
  ASSUME TypeInv, NEW r \in Requests, NEW a \in {"room", "home"}
  PROVE  /\ GoesOn(page[r], Closed(r, a))
         /\ GoesOn(page[r], [Closed(r, a) EXCEPT !.cancelling = "no"])
<1>1. NewPage.left \in Nat /\ NewPage.mail \in Seq(Verdicts)
  BY PagesAssumption, EmptySeq DEF NewPage
<1>2. page[r].cancelling \in {"no", "sent", "answered"}
  BY DEF TypeInv, PageType, PageRecord
<1>3. /\ Closed(r, a) \in PageRecord /\ Closed(r, a).at = a
      /\ [Closed(r, a) EXCEPT !.cancelling = "no"] \in PageRecord
      /\ [Closed(r, a) EXCEPT !.cancelling = "no"].at = a
  BY <1>1, <1>2 DEF Closed, NewPage, PageRecord, Verdicts
<1> QED BY <1>3 DEF GoesOn, PageType

LEMMA TickGoesOn ==
  ASSUME NEW p \in PageType, p.left > 0
  PROVE  GoesOn(p, [p EXCEPT !.left = @ - 1])
<1>1. p.left - 1 \in Nat
  BY DEF PageType, PageRecord
<1> QED BY <1>1 DEF PageType, PageRecord, GoesOn

PagesGoOn ==
    /\ page' \in [Requests -> PageType]
    /\ \A q \in Requests : page'[q].at = "form" => page[q].at = "form"

LEMMA UpdateGoesOn ==
  ASSUME TypeInv, NEW r \in Requests, NEW p, GoesOn(page[r], p), Update(r, p)
  PROVE  PagesGoOn
  BY DEF TypeInv, Update, GoesOn, PagesGoOn

LEMMA PageStep ==
  ASSUME TypeInv, [Next]_vars
  PROVE  PagesGoOn
<1>1. CASE UNCHANGED page
  BY <1>1 DEF TypeInv, PagesGoOn
<1>2. CASE HostStep
  <2>1. CASE HandleAdminRespond
    <3>1. out # <<>> /\ Head(out) \in Responds
      BY <2>1, HeadTailProperties DEF HandleAdminRespond, TypeInv, DataTyped
    <3> DEFINE r == Head(out).about
               action == Head(out).action
    <3>2. r \in Requests /\ action \in Verdicts
      BY <3>1 DEF Responds, Verdicts
    <3> HIDE DEF r, action
    <3>3. page[r] \in PageType /\ page[r].mail \in Seq(Verdicts)
      BY <3>2 DEF TypeInv, PageType, PageRecord, Verdicts
    <3>4. Append(page[r].mail, action) \in Seq(Verdicts)
      BY <3>2, <3>3, AppendProperties
    <3>5. GoesOn(page[r], [page[r] EXCEPT !.mail = Append(@, action)])
      BY <3>3, <3>4, PageGoesOn
    <3>6. UNCHANGED page \/ Update(r, [page[r] EXCEPT !.mail = Append(@, action)])
      BY <2>1 DEF HandleAdminRespond, NotifyVisitor, r, action
    <3> QED BY <1>1, <3>2, <3>5, <3>6, UpdateGoesOn
  <2> QED BY <1>1, <1>2, <2>1 DEF HostStep, HostConnects, GetPendingRequests, WriteSnapshot,
       HostDrops, OnMessage, ToastEnds, HandleAdmitAll, HandleRespond
<1>3. ASSUME NEW r \in Requests, VisitorStep(r) \/ ServerStep(r) \/ Tick(r)
      PROVE  PagesGoOn
  <2>1. page[r] \in PageType /\ <<>> \in Seq(Verdicts)
    BY EmptySeq DEF TypeInv
  <2>2. CASE RequestToJoin(r) \/ Connect(r) \/ GivesUp(r) \/ ConnectionBreaks(r)
    BY <2>1, <2>2, PageGoesOn, UpdateGoesOn
       DEF RequestToJoin, Connect, GivesUp, ConnectionBreaks
  <2>3. CASE Message(r)
    <3>1. Tail(page[r].mail) \in Seq(Verdicts)
      BY <2>1, <2>3, HeadTailProperties DEF Message, PageType, PageRecord, Verdicts
    <3>2. GoesOn(page[r], Closed(r, "room"))
      BY ClosedGoesOn
    <3> QED BY <2>1, <2>3, <3>1, <3>2, PageGoesOn, UpdateGoesOn DEF Message, GoTo
  <2>4. CASE HandleCancel(r) \/ CancelRequest(r)
    <3>1. page[r].at # "form"
      BY <2>1, <2>4 DEF HandleCancel, CancelRequest, PendingShown, RejectedShown, PageType
    <3> QED BY <2>1, <2>4, <3>1, CancelGoesOn, UpdateGoesOn DEF HandleCancel, CancelRequest
  <2>5. CASE HandlerEnds(r) \/ Cleanup(r)
    BY <1>1, <2>5 DEF HandlerEnds, Cleanup
  <2>6. CASE Tick(r)
    <3>1. GoesOn(page[r], Closed(r, "home"))
      BY ClosedGoesOn
    <3> QED BY <2>1, <2>6, <3>1, TickGoesOn, UpdateGoesOn DEF Tick, GoTo
  <2>7. CASE CancelAnswered(r) \/ MeterHears(r)
    <3>1. GoesOn(page[r], [Closed(r, "home") EXCEPT !.cancelling = "no"])
      BY ClosedGoesOn
    <3> QED BY <2>1, <2>7, <3>1, PageGoesOn, UpdateGoesOn DEF CancelAnswered, MeterHears
  <2> QED BY <1>3, <2>2, <2>3, <2>4, <2>5, <2>6, <2>7 DEF VisitorStep, ServerStep
<1> QED BY <1>1, <1>2, <1>3 DEF Next, vars

-----------------------------------------------------------------------------
(* Steps that settle one request.                                          *)

LEMMA SettledStep ==
  ASSUME Inv, PagesGoOn, DataTyped', NEW r \in Requests,
         UNCHANGED <<socket, snapshot, requests, overtaken>>,
         \A q \in Requests : q # r => status'[q] = status[q],
         status'[r] \notin {"none", "pending"}, page'[r].at # "form",
         ToSet(wire) \subseteq ToSet(wire'),
         \A m \in ToSet(wire') : m \in ToSet(wire)
             \/ (m.about = {r} /\ m.type \in {"request_resolved", "visitor_cancelled"}),
         ToSet(out') \subseteq ToSet(out),
         \A o \in ToSet(out) : o.about # r => o \in ToSet(out')
  PROVE  Protocol'
<1> USE DEF Inv, Protocol
<1>1. SentOnce'
  <2> SUFFICES ASSUME NEW q \in Requests, q # r
               PROVE  /\ Spoken(q)' => status'[q] # "none"
                      /\ status'[q] # "none" => page'[q].at # "form"
    BY DEF SentOnce
  <2>1. Spoken(q)' => Spoken(q)
    BY DEF Spoken
  <2> QED BY <2>1 DEF SentOnce, PagesGoOn
<1>2. NoticeIsTrue'
  <2> SUFFICES ASSUME NEW m \in ToSet(wire'),
                      m.type \in {"request_resolved", "visitor_cancelled"}, NEW q \in m.about
               PROVE  status'[q] # "pending"
    BY DEF NoticeIsTrue
  <2>1. m \in Messages
    BY ToSetType DEF DataTyped
  <2>2. q \in Requests
    BY <2>1 DEF Messages
  <2> QED BY <2>2 DEF NoticeIsTrue
<1>3. WaitingIsCovered'
  <2> SUFFICES ASSUME socket \in {"writing", "up"}, NEW q \in Requests, q # r,
                      status[q] = "pending", q \notin overtaken
               PROVE  Covered(q)'
    BY DEF WaitingIsCovered
  <2>1. Covered(q)
    BY DEF WaitingIsCovered
  <2> QED BY <2>1 DEF Covered, Told
<1> QED BY <1>1, <1>2, <1>3

(* The pages alone, or what the host's panel keeps beside its list.        *)
LEMMA IdleStep ==
  ASSUME Inv, PagesGoOn,
         UNCHANGED <<status, socket, snapshot, wire, out, requests, overtaken>>
  PROVE  DataTyped' /\ Protocol'
<1>1. DataTyped'
  BY DEF Inv, TypeInv, DataTyped
<1>2. SentOnce'
  BY DEF Inv, Protocol, SentOnce, Spoken, PagesGoOn
<1>3. NoticeIsTrue'
  BY DEF Inv, Protocol, NoticeIsTrue
<1>4. WaitingIsCovered'
  BY DEF Inv, Protocol, WaitingIsCovered, Covered, Told
<1> QED BY <1>1, <1>2, <1>3, <1>4 DEF Protocol

(* A notice to the host.                                                   *)
LEMMA NoticeStep ==
  ASSUME Inv, PagesGoOn, NEW r \in Requests,
         NEW v \in {"approved", "rejected", "gone"},
         NEW type \in {"request_resolved", "visitor_cancelled"},
         UNCHANGED <<socket, snapshot, requests, overtaken>>,
         status' = [status EXCEPT ![r] = v], page'[r].at # "form",
         UNCHANGED wire \/ NotifyAdmins(type, r),
         out' \in Seq(Responds), ToSet(out') \subseteq ToSet(out),
         \A o \in ToSet(out) : o.about # r => o \in ToSet(out')
  PROVE  DataTyped' /\ Protocol'
<1> DEFINE m == [type |-> type, about |-> {r}]
<1>1. m.type = type /\ m.about = {r}
  OBVIOUS
<1>2. type \in Kinds /\ wire \in Seq(Messages)
  BY DEF Kinds, Inv, TypeInv, DataTyped
<1>3. wire' \in Seq(Messages) /\ (ToSet(wire') = ToSet(wire) \/ ToSet(wire') = ToSet(wire) \cup {m})
  BY <1>2, NotifyTyped
<1> HIDE DEF m
<1>4. DataTyped'
  BY <1>3 DEF DataTyped, Inv, TypeInv, Stati
<1>5. \A q \in Requests : q # r => status'[q] = status[q]
  BY DEF Inv, TypeInv, DataTyped
<1>6. status'[r] \notin {"none", "pending"}
  BY DEF Inv, TypeInv, DataTyped
<1>7. ToSet(wire) \subseteq ToSet(wire')
  BY <1>3
<1>8. \A n \in ToSet(wire') : n \in ToSet(wire)
          \/ (n.about = {r} /\ n.type \in {"request_resolved", "visitor_cancelled"})
  <2>1. CASE ToSet(wire') = ToSet(wire)
    BY <2>1
  <2>2. CASE ToSet(wire') = ToSet(wire) \cup {m}
    BY <1>1, <2>2
  <2> QED BY <1>3, <2>1, <2>2
<1> QED BY <1>4, <1>5, <1>6, <1>7, <1>8, SettledStep

LEMMA HandlerEndsStep ==
  ASSUME Inv, PagesGoOn, NEW r \in Requests, HandlerEnds(r) \/ CancelRequest(r) \/ Cleanup(r)
  PROVE  DataTyped' /\ Protocol'
<1>0. out' = out /\ out \in Seq(Responds) /\ page[r] \in PageType
  BY DEF HandlerEnds, CancelRequest, Cleanup, host, Inv, TypeInv, DataTyped
<1>1. CASE UNCHANGED <<status, wire>>
  BY <1>1, IdleStep DEF HandlerEnds, CancelRequest, Cleanup, host, panel
<1>2. CASE ~ UNCHANGED <<status, wire>>
  <2>1. page'[r].at # "form"
    <3>1. CASE CancelRequest(r)
      <4>1. page[r].at # "form"
        BY <1>0, <3>1 DEF CancelRequest, PageType
      <4> QED BY <4>1 DEF PagesGoOn
    <3>2. CASE HandlerEnds(r) \/ Cleanup(r)
      <4>1. status[r] # "none" /\ page' = page
        BY <1>2, <3>2 DEF HandlerEnds, Cleanup
      <4> QED BY <4>1 DEF Inv, Protocol, SentOnce
    <3> QED BY <3>1, <3>2
  <2>2. /\ UNCHANGED <<socket, snapshot, requests, overtaken>>
        /\ status' = [status EXCEPT ![r] = "gone"]
        /\ UNCHANGED wire \/ NotifyAdmins("visitor_cancelled", r)
    BY <1>2 DEF HandlerEnds, CancelRequest, Cleanup, host, panel
  <2> QED BY <1>0, <2>1, <2>2, NoticeStep
<1> QED BY <1>1, <1>2

LEMMA RespondStep ==
  ASSUME Inv, PagesGoOn, HandleAdminRespond
  PROVE  DataTyped' /\ Protocol'
<1>1. out # <<>> /\ out \in Seq(Responds) /\ out' = Tail(out)
  BY DEF HandleAdminRespond, Inv, TypeInv, DataTyped
<1>2. /\ out' \in Seq(Responds) /\ Head(out) \in ToSet(out)
      /\ ToSet(out') \subseteq ToSet(out) /\ ToSet(out) = {Head(out)} \cup ToSet(out')
  BY <1>1, ToSetTail
<1> DEFINE r == Head(out).about
           action == Head(out).action
<1>3. r \in Requests /\ action \in {"approved", "rejected"}
  <2>1. Head(out) \in Responds
    BY <1>1, HeadTailProperties
  <2> QED BY <2>1 DEF Responds
<1>4. status[r] # "none"
  BY <1>2, <1>3 DEF Inv, Protocol, SentOnce, Spoken
<1>5. page'[r].at # "form"
  BY <1>3, <1>4 DEF Inv, Protocol, SentOnce, PagesGoOn
<1>6. \A o \in ToSet(out) : o.about # r => o \in ToSet(out')
  BY <1>2
<1>7. UNCHANGED <<socket, snapshot, requests, overtaken>>
  BY DEF HandleAdminRespond, panel
<1>8. \E v \in {"approved", "rejected", "gone"} :
         /\ status' = [status EXCEPT ![r] = v]
         /\ UNCHANGED wire \/ NotifyAdmins("request_resolved", r)
  <2>1. CASE status[r] = "gone"
    <3>1. status' = status /\ wire' = wire
      BY <2>1 DEF HandleAdminRespond
    <3>2. status = [status EXCEPT ![r] = "gone"]
      BY <1>3, <2>1 DEF Inv, TypeInv, DataTyped
    <3> QED BY <3>1, <3>2
  <2>2. CASE status[r] # "gone"
    BY <1>3, <2>2 DEF HandleAdminRespond
  <2> QED BY <2>1, <2>2
<1> HIDE DEF r
<1> QED BY <1>2, <1>3, <1>5, <1>6, <1>7, <1>8, NoticeStep

-----------------------------------------------------------------------------
(* The other steps.                                                        *)

LEMMA JoinStep ==
  ASSUME Inv, PagesGoOn, NEW r \in Requests, RequestToJoin(r)
  PROVE  DataTyped' /\ Protocol'
<1> DEFINE m == [type |-> "new_request", about |-> {r}]
<1>1. m.type = "new_request" /\ m.about = {r}
  OBVIOUS
<1>2. /\ wire' \in Seq(Messages)
      /\ socket = "down" => wire' = wire
      /\ socket # "down" => ToSet(wire') = ToSet(wire) \cup {m}
  BY NotifyTyped DEF RequestToJoin, Kinds, Inv, TypeInv, DataTyped
<1> HIDE DEF m
<1>3. UNCHANGED <<socket, snapshot, out, requests, overtaken>>
  BY DEF RequestToJoin, panel
<1>4. /\ status' \in [Requests -> Stati] /\ status'[r] = "pending"
      /\ \A q \in Requests : q # r => status'[q] = status[q]
  BY DEF RequestToJoin, Inv, TypeInv, DataTyped, Stati
<1>5. DataTyped'
  BY <1>2, <1>3, <1>4 DEF Inv, TypeInv, DataTyped
<1>6. ~ Spoken(r)
  BY DEF RequestToJoin, Inv, Protocol, SentOnce
<1>7. page'[r].at # "form"
  <2>1. page'[r] = [page[r] EXCEPT !.at = "pending", !.sock = "connecting"] /\ page[r] \in PageType
    BY DEF RequestToJoin, Update, Inv, TypeInv
  <2> QED BY <2>1 DEF PageType, PageRecord
<1>8. ToSet(wire) \subseteq ToSet(wire') /\ ToSet(wire') \subseteq ToSet(wire) \cup {m}
  BY <1>2
<1>9. SentOnce'
  <2> SUFFICES ASSUME NEW q \in Requests, q # r
               PROVE  /\ Spoken(q)' => status'[q] # "none"
                      /\ status'[q] # "none" => page'[q].at # "form"
    BY <1>4, <1>7 DEF SentOnce
  <2>1. Spoken(q)' => Spoken(q)
    BY <1>1, <1>3, <1>8 DEF Spoken
  <2> QED BY <1>4, <2>1 DEF Inv, Protocol, SentOnce, PagesGoOn
<1>10. NoticeIsTrue'
  <2> SUFFICES ASSUME NEW n \in ToSet(wire'),
                      n.type \in {"request_resolved", "visitor_cancelled"}, NEW q \in n.about
               PROVE  status'[q] # "pending"
    BY DEF NoticeIsTrue
  <2>1. n \in ToSet(wire)
    BY <1>1, <1>8
  <2>2. n \in Messages
    BY <2>1, ToSetType DEF Inv, TypeInv, DataTyped
  <2>3. q \in Requests /\ q # r
    BY <1>6, <2>1, <2>2 DEF Messages, Spoken
  <2> QED BY <1>4, <2>1, <2>3 DEF Inv, Protocol, NoticeIsTrue
<1>11. WaitingIsCovered'
  <2> SUFFICES ASSUME socket \in {"writing", "up"}, NEW q \in Requests,
                      status'[q] = "pending", q \notin overtaken
               PROVE  Covered(q)'
    BY <1>3 DEF WaitingIsCovered
  <2>1. CASE q = r
    BY <1>1, <1>2, <2>1 DEF Covered, Told
  <2>2. CASE q # r
    <3>1. Covered(q)
      BY <1>4, <2>2 DEF Inv, Protocol, WaitingIsCovered
    <3> QED BY <1>3, <1>8, <3>1 DEF Covered, Told
  <2> QED BY <2>1, <2>2
<1> QED BY <1>5, <1>9, <1>10, <1>11 DEF Protocol

(* The socket of the host comes and goes.                                  *)
LEMMA SocketStep ==
  ASSUME Inv, UNCHANGED page, HostConnects \/ GetPendingRequests \/ WriteSnapshot \/ HostDrops
  PROVE  DataTyped' /\ Protocol'
<1>1. UNCHANGED <<status, requests, overtaken>>
  BY DEF HostConnects, GetPendingRequests, WriteSnapshot, HostDrops, server, panel
<1> DEFINE m == [type |-> "pending_requests", about |-> snapshot]
<1>2. m \in Messages /\ m.type = "pending_requests" /\ m.about = snapshot
  BY DEF Messages, Kinds, Inv, TypeInv, DataTyped
<1>3. WriteSnapshot => wire' = Append(wire, m)
  BY DEF WriteSnapshot
<1> HIDE DEF m
<1>4. WriteSnapshot => wire' \in Seq(Messages) /\ ToSet(wire') = ToSet(wire) \cup {m}
  <2>1. wire \in Seq(Messages)
    BY DEF Inv, TypeInv, DataTyped
  <2>2. Append(wire, m) \in Seq(Messages) /\ ToSet(Append(wire, m)) = ToSet(wire) \cup {m}
    BY <1>2, <2>1, AppendProperties, ToSetAppend
  <2> QED BY <1>3, <2>2
<1>5. DataTyped'
  BY <1>1, <1>4, EmptySeq
     DEF HostConnects, GetPendingRequests, WriteSnapshot, HostDrops, Inv, TypeInv, DataTyped
<1>6. /\ HostDrops => ToSet(wire') = {} /\ ToSet(out') = {}
      /\ ~ HostDrops => out' = out
      /\ ~ HostDrops /\ ~ WriteSnapshot => wire' = wire
  BY ToSetEmpty DEF HostConnects, GetPendingRequests, WriteSnapshot, HostDrops
<1>7. \A r \in Requests : r \in snapshot' => r \in snapshot \/ status[r] = "pending"
  BY DEF HostConnects, GetPendingRequests, WriteSnapshot, HostDrops
<1>8. SentOnce'
  <2> SUFFICES ASSUME NEW q \in Requests, Spoken(q)' PROVE status[q] # "none"
    BY <1>1 DEF Inv, Protocol, SentOnce
  <2>1. Spoken(q) \/ status[q] = "pending"
    BY <1>1, <1>2, <1>4, <1>6, <1>7 DEF Spoken
  <2> QED BY <2>1 DEF Inv, Protocol, SentOnce
<1>9. NoticeIsTrue'
  BY <1>1, <1>2, <1>4, <1>6 DEF Inv, Protocol, NoticeIsTrue
<1>10. WaitingIsCovered'
  <2> SUFFICES ASSUME socket' \in {"writing", "up"}, NEW q \in Requests,
                      status[q] = "pending", q \notin overtaken
               PROVE  Covered(q)'
    BY <1>1 DEF WaitingIsCovered
  <2>1. CASE GetPendingRequests
    BY <2>1 DEF GetPendingRequests, Covered
  <2>2. CASE WriteSnapshot
    <3>1. Covered(q)
      BY <2>2 DEF WriteSnapshot, Inv, Protocol, WaitingIsCovered
    <3> QED BY <1>1, <1>2, <1>4, <1>6, <2>2, <3>1 DEF Covered, Told, WriteSnapshot, HostDrops
  <2> QED BY <2>1, <2>2 DEF HostConnects, HostDrops
<1> QED BY <1>5, <1>8, <1>9, <1>10 DEF Protocol

(* The list after a message: it still holds who waits and was on it, or in *)
(* the message, unless the message is older.                               *)
LEMMA ListStep ==
  ASSUME Inv, UNCHANGED <<page, status, socket, snapshot, out>>,
         wire # <<>>, wire' = Tail(wire), requests' \in Seq(Requests),
         ToSet(requests') \subseteq ToSet(requests) \cup Head(wire).about,
         \A q \in Requests : status[q] = "pending" /\ q \notin overtaken' =>
             /\ q \in ToSet(requests) \cup Head(wire).about => q \in ToSet(requests')
             /\ q \in overtaken => q \in ToSet(requests')
  PROVE  DataTyped' /\ Protocol'
<1>1. wire \in Seq(Messages)
  BY DEF Inv, TypeInv, DataTyped
<1>2. /\ wire' \in Seq(Messages) /\ Head(wire) \in ToSet(wire)
      /\ ToSet(wire') \subseteq ToSet(wire) /\ ToSet(wire) = {Head(wire)} \cup ToSet(wire')
  BY <1>1, ToSetTail
<1>3. DataTyped'
  BY <1>2 DEF Inv, TypeInv, DataTyped
<1>4. SentOnce'
  <2>1. \A q \in Requests : Spoken(q)' => Spoken(q)
    BY <1>2 DEF Spoken
  <2> QED BY <2>1 DEF Inv, Protocol, SentOnce
<1>5. NoticeIsTrue'
  BY <1>2 DEF Inv, Protocol, NoticeIsTrue
<1>6. WaitingIsCovered'
  <2> SUFFICES ASSUME socket \in {"writing", "up"}, NEW q \in Requests,
                      status[q] = "pending", q \notin overtaken', q \notin ToSet(requests')
               PROVE  Covered(q)'
    BY DEF WaitingIsCovered, Covered
  <2>1. Covered(q)
    BY DEF Inv, Protocol, WaitingIsCovered
  <2> QED BY <1>2, <2>1 DEF Covered, Told
<1> QED BY <1>3, <1>4, <1>5, <1>6 DEF Protocol

LEMMA OnMessageStep ==
  ASSUME IsFiniteSet(Requests), Inv, OnMessage
  PROVE  DataTyped' /\ Protocol'
<1> DEFINE rs == Head(wire).about
<1>1. /\ wire # <<>> /\ wire' = Tail(wire)
      /\ UNCHANGED <<page, status, socket, snapshot, out>>
  BY DEF OnMessage, server
<1>2. wire \in Seq(Messages) /\ requests \in Seq(Requests)
  BY DEF Inv, TypeInv, DataTyped
<1>3. Head(wire) \in Messages /\ Head(wire) \in ToSet(wire)
  BY <1>1, <1>2, HeadTailProperties, ToSetTail
<1>4. rs \subseteq Requests
  BY <1>3 DEF Messages
<1>5. SetToSeq(rs) \in Seq(Requests) /\ ToSet(SetToSeq(rs)) = rs
  <2>1. IsFiniteSet(rs)
    BY <1>4, FS_Subset
  <2>2. SetToSeq(rs) \in Seq(rs) /\ ToSet(SetToSeq(rs)) = rs
    BY <2>1, SetToSeqLists
  <2> QED BY <1>4, <2>2
<1>6. \/ PendingRequests(rs) \/ NewRequest(rs)
      \/ Head(wire).type \in {"request_resolved", "visitor_cancelled"} /\ RequestResolved(rs)
  BY DEF OnMessage
<1>7. CASE PendingRequests(rs)
  <2>1. requests' = SetToSeq(rs) /\ overtaken' = (overtaken \cup ToSet(requests)) \ rs
    BY <1>7 DEF PendingRequests
  <2> HIDE DEF rs
  <2>2. ToSet(requests') = rs /\ requests' \in Seq(Requests)
    BY <1>5, <2>1
  <2>3. ToSet(requests') \subseteq ToSet(requests) \cup rs
    BY <2>2
  <2>4. \A q \in Requests : status[q] = "pending" /\ q \notin overtaken' =>
            /\ q \in ToSet(requests) \cup rs => q \in ToSet(requests')
            /\ q \in overtaken => q \in ToSet(requests')
    BY <2>1, <2>2
  <2> USE DEF rs
  <2> QED BY <1>1, <2>2, <2>3, <2>4, ListStep
<1>8. CASE NewRequest(rs)
  <2>1. requests' = requests \o SetToSeq(rs) /\ overtaken' = overtaken \ rs
    BY <1>8 DEF NewRequest
  <2> HIDE DEF rs
  <2>2. ToSet(requests') = ToSet(requests) \cup rs /\ requests' \in Seq(Requests)
    BY <1>2, <1>5, <2>1, ToSetConcat, ConcatProperties
  <2>3. ToSet(requests') \subseteq ToSet(requests) \cup rs
    BY <2>2
  <2>4. \A q \in Requests : status[q] = "pending" /\ q \notin overtaken' =>
            /\ q \in ToSet(requests) \cup rs => q \in ToSet(requests')
            /\ q \in overtaken => q \in ToSet(requests')
    BY <2>1, <2>2
  <2> USE DEF rs
  <2> QED BY <1>1, <2>2, <2>3, <2>4, ListStep
<1>9. CASE /\ Head(wire).type \in {"request_resolved", "visitor_cancelled"}
           /\ RequestResolved(rs)
  <2>1. requests' = Without(rs) /\ overtaken' = overtaken
    BY <1>9 DEF RequestResolved
  <2>2. \A q \in rs : status[q] # "pending"
    BY <1>3, <1>9 DEF Inv, Protocol, NoticeIsTrue
  <2> HIDE DEF rs
  <2>3. ToSet(requests') = ToSet(requests) \ rs /\ requests' \in Seq(Requests)
    BY <1>2, <2>1, WithoutKeeps
  <2>4. ToSet(requests') \subseteq ToSet(requests) \cup rs
    BY <2>3
  <2>5. \A q \in Requests : status[q] = "pending" /\ q \notin overtaken' =>
            /\ q \in ToSet(requests) \cup rs => q \in ToSet(requests')
            /\ q \in overtaken => q \in ToSet(requests')
    BY <2>1, <2>2, <2>3
  <2> USE DEF rs
  <2> QED BY <1>1, <2>3, <2>4, <2>5, ListStep
<1> QED BY <1>6, <1>7, <1>8, <1>9

(* An answer takes off the list whom it names, and nobody else.            *)
LEMMA AnswerStep ==
  ASSUME Inv, UNCHANGED <<page, status, socket, snapshot, wire, overtaken>>,
         requests' \in Seq(Requests), ToSet(requests') \subseteq ToSet(requests),
         out' \in Seq(Responds), ToSet(out) \subseteq ToSet(out'),
         \A o \in ToSet(out') : o \in ToSet(out) \/ o.about \in ToSet(requests),
         \A q \in ToSet(requests) : q \in ToSet(requests') \/ \E o \in ToSet(out') : o.about = q
  PROVE  DataTyped' /\ Protocol'
<1>1. DataTyped'
  BY DEF Inv, TypeInv, DataTyped
<1>2. SentOnce'
  <2>1. \A q \in Requests : Spoken(q)' => Spoken(q)
    BY DEF Spoken
  <2> QED BY <2>1 DEF Inv, Protocol, SentOnce
<1>3. NoticeIsTrue'
  BY DEF Inv, Protocol, NoticeIsTrue
<1>4. WaitingIsCovered'
  <2> SUFFICES ASSUME socket \in {"writing", "up"}, NEW q \in Requests,
                      status[q] = "pending", q \notin overtaken
               PROVE  Covered(q)'
    BY DEF WaitingIsCovered
  <2>1. Covered(q)
    BY DEF Inv, Protocol, WaitingIsCovered
  <2> QED BY <2>1 DEF Covered, Told
<1> QED BY <1>1, <1>2, <1>3, <1>4 DEF Protocol

LEMMA HandleRespondStep ==
  ASSUME Inv, NEW r \in Requests, NEW action \in {"approved", "rejected"},
         HandleRespond(r, action)
  PROVE  DataTyped' /\ Protocol'
<1> DEFINE answer == [about |-> r, action |-> action]
<1>1. answer \in Responds /\ answer.about = r
  BY DEF Responds
<1>2. /\ out' = Append(out, answer) /\ requests' = Without({r}) /\ r \in ToSet(requests)
      /\ UNCHANGED <<page, status, socket, snapshot, wire, overtaken>>
  BY DEF HandleRespond, ItemShown, server
<1> HIDE DEF answer
<1>3. out' \in Seq(Responds) /\ ToSet(out') = ToSet(out) \cup {answer}
  BY <1>1, <1>2, AppendProperties, ToSetAppend DEF Inv, TypeInv, DataTyped
<1>4. requests' \in Seq(Requests) /\ ToSet(requests') = ToSet(requests) \ {r}
  BY <1>2, WithoutKeeps DEF Inv, TypeInv, DataTyped
<1>5. \A o \in ToSet(out') : o \in ToSet(out) \/ o.about \in ToSet(requests)
  BY <1>1, <1>2, <1>3
<1>6. \A q \in ToSet(requests) : q \in ToSet(requests') \/ \E o \in ToSet(out') : o.about = q
  BY <1>1, <1>3, <1>4
<1>7. ToSet(requests') \subseteq ToSet(requests) /\ ToSet(out) \subseteq ToSet(out')
  BY <1>3, <1>4
<1> QED BY <1>2, <1>3, <1>4, <1>5, <1>6, <1>7, AnswerStep

LEMMA AdmitAllStep ==
  ASSUME Inv, HandleAdmitAll
  PROVE  DataTyped' /\ Protocol'
<1> DEFINE Admits(i) == [about |-> requests[i], action |-> "approved"]
           answers == [i \in 1..Len(requests) |-> Admits(i)]
<1>1. /\ out' = out \o answers /\ requests' = <<>>
      /\ UNCHANGED <<page, status, socket, snapshot, wire, overtaken>>
  BY DEF HandleAdmitAll, server
<1>2. /\ requests \in Seq(Requests) /\ Len(requests) \in Nat
      /\ DOMAIN requests = 1..Len(requests)
      /\ \A i \in 1..Len(requests) : requests[i] \in Requests
  BY LenProperties, ElementOfSeq DEF Inv, TypeInv, DataTyped
<1>3. \A i \in 1..Len(requests) : Admits(i) \in Responds /\ Admits(i).about = requests[i]
  BY <1>2 DEF Responds
<1>4. answers \in Seq(Responds) /\ DOMAIN answers = 1..Len(requests)
  BY <1>2, <1>3
<1>5. /\ \A o \in ToSet(answers) : o.about \in ToSet(requests)
      /\ \A q \in ToSet(requests) : \E o \in ToSet(answers) : o.about = q
  BY <1>2, <1>3, <1>4 DEF ToSet
<1> HIDE DEF answers
<1>6. out' \in Seq(Responds) /\ ToSet(out') = ToSet(out) \cup ToSet(answers)
  BY <1>1, <1>4, ConcatProperties, ToSetConcat DEF Inv, TypeInv, DataTyped
<1>7. requests' \in Seq(Requests) /\ ToSet(requests') = {}
  BY <1>1, ToSetEmpty, EmptySeq
<1>8. \A o \in ToSet(out') : o \in ToSet(out) \/ o.about \in ToSet(requests)
  BY <1>5, <1>6
<1>9. \A q \in ToSet(requests) : q \in ToSet(requests') \/ \E o \in ToSet(out') : o.about = q
  BY <1>5, <1>6
<1>10. ToSet(requests') \subseteq ToSet(requests) /\ ToSet(out) \subseteq ToSet(out')
  BY <1>6, <1>7
<1> QED BY <1>1, <1>6, <1>7, <1>8, <1>9, <1>10, AnswerStep

-----------------------------------------------------------------------------
LEMMA InitInv ==
  ASSUME Init
  PROVE  Inv
<1>1. TypeInv
  BY EmptySeq, PagesAssumption
     DEF Init, NewPage, TypeInv, DataTyped, Stati, PageType, PageRecord
<1>2. ToSet(wire) = {} /\ ToSet(out) = {} /\ ToSet(requests) = {} /\ snapshot = {}
  BY ToSetEmpty DEF Init
<1>3. SentOnce
  BY <1>2 DEF Init, SentOnce, Spoken
<1>4. NoticeIsTrue
  BY <1>2 DEF NoticeIsTrue
<1>5. WaitingIsCovered
  BY DEF Init, WaitingIsCovered
<1> QED BY <1>1, <1>3, <1>4, <1>5 DEF Inv, Protocol

LEMMA NextInv ==
  ASSUME IsFiniteSet(Requests), Inv, [Next]_vars
  PROVE  Inv'
<1>1. PagesGoOn
  BY PageStep DEF Inv
<1> SUFFICES DataTyped' /\ Protocol'
  BY <1>1 DEF Inv, TypeInv, PagesGoOn
<1>2. CASE UNCHANGED vars
  BY <1>1, <1>2, IdleStep DEF vars, server, host, panel
<1>3. CASE HostStep
  <2>1. CASE HostConnects \/ GetPendingRequests \/ WriteSnapshot \/ HostDrops
    BY <2>1, SocketStep DEF HostConnects, GetPendingRequests, WriteSnapshot, HostDrops
  <2>2. CASE OnMessage
    BY <2>2, OnMessageStep
  <2>3. CASE ToastEnds
    BY <1>1, <2>3, IdleStep DEF ToastEnds, server
  <2>4. CASE HandleAdmitAll
    BY <2>4, AdmitAllStep
  <2>5. CASE HandleAdminRespond
    BY <1>1, <2>5, RespondStep
  <2>6. CASE \E r \in Requests, action \in {"approved", "rejected"} : HandleRespond(r, action)
    BY <2>6, HandleRespondStep
  <2> QED BY <1>3, <2>1, <2>2, <2>3, <2>4, <2>5, <2>6 DEF HostStep
<1>4. ASSUME NEW r \in Requests, VisitorStep(r) \/ ServerStep(r) \/ Tick(r)
      PROVE  DataTyped' /\ Protocol'
  <2>1. CASE RequestToJoin(r)
    BY <1>1, <2>1, JoinStep
  <2>2. CASE HandlerEnds(r) \/ CancelRequest(r) \/ Cleanup(r)
    BY <1>1, <2>2, HandlerEndsStep
  <2>3. CASE \/ Connect(r) \/ GivesUp(r) \/ ConnectionBreaks(r)
             \/ Message(r) \/ HandleCancel(r) \/ CancelAnswered(r) \/ MeterHears(r) \/ Tick(r)
    BY <1>1, <2>3, IdleStep
       DEF Connect, GivesUp, ConnectionBreaks, Message, HandleCancel, CancelAnswered, MeterHears,
           Tick, server, host, panel
  <2> QED BY <1>4, <2>1, <2>2, <2>3 DEF VisitorStep, ServerStep
<1> QED BY <1>2, <1>3, <1>4 DEF Next

(* The host sees everyone who waits (HandleAdmin's snapshot, NotifyAdmins, *)
(* useLobbyWebSocket's onMessage): whatever the order of the messages and  *)
(* however often connections break, a visitor whose request is pending is  *)
(* on the panel's list, in a message on its way to it or in an answer on   *)
(* its way from it, unless an older snapshot took the request off the list.*)
THEOREM WaitingIsListedHolds ==
  ASSUME IsFiniteSet(Requests)
  PROVE  Spec => []WaitingIsListed
<1>1. Inv => WaitingIsListed
  <2> SUFFICES ASSUME Inv, NEW r \in Requests,
                      status[r] = "pending", socket = "up", r \notin overtaken
               PROVE  \/ ItemShown(r)
                      \/ \E i \in DOMAIN wire :
                            /\ wire[i].type \in {"pending_requests", "new_request"}
                            /\ r \in wire[i].about
                      \/ \E i \in DOMAIN out : out[i].about = r
    BY DEF WaitingIsListed
  <2>1. r \in ToSet(requests) \/ Told(r) \/ \E o \in ToSet(out) : o.about = r
    BY DEF Inv, Protocol, WaitingIsCovered, Covered
  <2>2. r \in ToSet(requests) => ItemShown(r)
    BY ToSetEmpty DEF ItemShown, PanelShown
  <2> QED BY <2>1, <2>2 DEF Told, ToSet
<1> QED BY <1>1, InitInv, NextInv, PTL DEF Spec
=============================================================================

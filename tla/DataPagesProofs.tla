--------------------------- MODULE DataPagesProofs ---------------------------
(***************************************************************************)
(* Theorems about the pages that show stored rows, for any accounts,       *)
(* sessions and page sizes and any number of requests, answered in any     *)
(* order.                                                                  *)
(***************************************************************************)
EXTENDS DataPages, SequenceTheorems, TLAPS

USE UsersAssumption, SessionsAssumption

Opt(S) == S \cup {None}

-----------------------------------------------------------------------------
(* The invariant: the table of users.                                      *)

ParamsType == [page : Nat, size : Sizes, search : Terms]
PageCounts == {0} \cup {TotalPages(rows, size) : rows \in SUBSET Users, size \in Sizes}

CallType == [p : ParamsType, refetch : BOOLEAN, served : BOOLEAN, rows : SUBSET Users,
             pages : PageCounts, overtaken : BOOLEAN, outdated : BOOLEAN]

TableType == [term : Terms, timer : BOOLEAN, search : Terms, page : Nat, size : Sizes,
              key : Opt(ParamsType), calls : Seq(CallType), rows : SUBSET Users,
              pages : PageCounts, asked : Opt(ParamsType), newest : BOOLEAN,
              loading : BOOLEAN, error : BOOLEAN, modal : BOOLEAN, selected : Opt(Users),
              acting : {"no", "sent", "deleted", "refused", "refetch"},
              target : Opt(Users), closure : Opt(ParamsType), deleted : SUBSET Opt(Users)]

(* Answers overtake: a call that was overtaken was made before those that  *)
(* were not.                                                               *)
PrefixOvertaken(cs) ==
    \A j, k \in DOMAIN cs : j < k /\ cs[k].overtaken => cs[j].overtaken

AllOvertaken(cs) == \A k \in DOMAIN cs : cs[k].overtaken

(* The key is that of the call made last; once it was answered, the key is *)
(* what the rows were asked for.                                           *)
LastIsKey(t) ==
    t.calls # <<>> /\ ~t.calls[Len(t.calls)].overtaken => t.calls[Len(t.calls)].p = t.key

AskedIsKey(t) == AllOvertaken(t.calls) /\ t.asked # None => t.asked = t.key

(* The key is that of the parameters shown, unless a deletion asked last.  *)
KeyIsShown(t) ==
    /\ t.calls # <<>> /\ ~t.calls[Len(t.calls)].overtaken /\ ~t.calls[Len(t.calls)].outdated
           => t.key = Params(t)
    /\ AllOvertaken(t.calls) /\ t.asked # None => t.key = Params(t)

Asking(t) == PrefixOvertaken(t.calls) /\ LastIsKey(t) /\ AskedIsKey(t)

(* One deletion at a time asks for the rows anew.                          *)
RefetchOnce(t) ==
    \A k \in DOMAIN t.calls : t.calls[k].refetch =>
        t.acting = "refetch" /\ \A j \in DOMAIN t.calls : t.calls[j].refetch => j = k

(* From the request of the last deletion on, the answers do not hold whom  *)
(* a deletion has removed.                                                 *)
CallsClean(t) ==
    \A k \in DOMAIN t.calls :
        /\ t.calls[k].served /\ ~t.calls[k].overtaken
        /\ \A j \in DOMAIN t.calls : t.calls[j].refetch => j <= k
        => t.deleted \cap t.calls[k].rows = {}

RowsClean(t) ==
    t.newest /\ (\A k \in DOMAIN t.calls : ~t.calls[k].refetch) => t.deleted \cap t.rows = {}

(* What was deleted is gone.                                               *)
Gone(t, rows) ==
    /\ t.deleted \cap rows = {}
    /\ t.acting = "deleted" => t.target \notin rows
    /\ t.acting \in {"sent", "deleted", "refused"} => t.closure \in ParamsType

TableInv(t, rows) ==
    /\ t \in TableType
    /\ Asking(t) /\ KeyIsShown(t)
    /\ RefetchOnce(t) /\ CallsClean(t) /\ RowsClean(t) /\ Gone(t, rows)

UsersInv == accounts \subseteq Users /\ (table # None => TableInv(table, accounts))

-----------------------------------------------------------------------------
(* The invariant: the sessions.                                            *)

Turns == {1} \cup (1 .. Cardinality(SessionIds))
ListPages == {0, 1} \cup {TotalPages(rows, PageSize) : rows \in SUBSET SessionIds}

ListCallType ==
    [page : Turns, served : BOOLEAN, rows : SUBSET SessionIds, pages : ListPages]

ListType ==
    [page : Turns, loading : BOOLEAN, rows : SUBSET SessionIds, pages : ListPages,
     call : Opt(ListCallType), failed : BOOLEAN, from : Opt(SessionIds)]

DetailType ==
    [id : SessionIds, loading : BOOLEAN, session : Opt(SessionIds), error : BOOLEAN,
     call : {"none", "sent", "found", "missing"}, modal : BOOLEAN, deleting : BOOLEAN,
     deleteError : BOOLEAN]

RemovalType ==
    [id : Opt(SessionIds), here : BOOLEAN, phase : {"sent", "deleted", "refused"}]

SessionsTyped ==
    /\ stored \subseteq SessionIds
    /\ at = "sessions" => list \in ListType
    /\ at = "session" => detail \in DetailType
    /\ removals \in Seq(RemovalType)

DeletedIsGone ==
    \A i \in DOMAIN removals : removals[i].phase = "deleted" => removals[i].id \notin stored

(* Neither the list nor its answer holds the session that led to it, and   *)
(* no later answer will.                                                   *)
ListIsFresh ==
    at = "sessions" /\ list.from # None =>
        /\ list.from \notin stored /\ list.from \notin list.rows
        /\ list.call # None /\ list.call.served => list.from \notin list.call.rows

SessionsInv == SessionsTyped /\ DeletedIsGone /\ ListIsFresh

Inv == UsersInv /\ SessionsInv

-----------------------------------------------------------------------------
(* Sequences of calls.                                                     *)

LEMMA AppendIs ==
  ASSUME NEW S, NEW s \in Seq(S), NEW e \in S
  PROVE  /\ Append(s, e) \in Seq(S) /\ Append(s, e) # <<>>
         /\ Len(s) \in Nat /\ DOMAIN s = 1..Len(s)
         /\ Len(Append(s, e)) = Len(s) + 1 /\ DOMAIN Append(s, e) = 1..(Len(s) + 1)
         /\ \A k \in 1..Len(s) : Append(s, e)[k] = s[k]
         /\ Append(s, e)[Len(s) + 1] = e
  BY AppendProperties, LenProperties

LEMMA RemoveAtIs ==
  ASSUME NEW S, NEW s \in Seq(S), NEW i \in DOMAIN s
  PROVE  /\ Len(s) \in Nat \ {0} /\ DOMAIN s = 1..Len(s)
         /\ RemoveAt(s, i) \in Seq(S)
         /\ Len(RemoveAt(s, i)) = Len(s) - 1 /\ DOMAIN RemoveAt(s, i) = 1..(Len(s) - 1)
         /\ \A k \in 1..(Len(s) - 1) :
                RemoveAt(s, i)[k] = IF k < i THEN s[k] ELSE s[k + 1]
<1> DEFINE l == SubSeq(s, 1, i - 1)
           r == SubSeq(s, i + 1, Len(s))
           n == Len(s)
<1>1. n \in Nat \ {0} /\ DOMAIN s = 1..n /\ i \in 1..n
  BY LenProperties
<1>2. \A k \in 1..n : s[k] \in S
  BY <1>1, ElementOfSeq
<1>3. l \in Seq(S) /\ Len(l) = i - 1 /\ \A k \in 1..(i - 1) : l[k] = s[k]
  BY <1>1, <1>2, SubSeqProperties
<1>4. /\ r \in Seq(S) /\ Len(r) = n - i
      /\ \A k \in 1..(n - i) : r[k] = s[i + k]
  <2>1. CASE i = n
    BY <1>1, <1>2, <2>1, SubSeqProperties, EmptySeq
  <2>2. CASE i < n
    <3>1. i + 1 \in Int /\ n \in Int /\ \A k \in (i + 1)..n : s[k] \in S
      BY <1>1, <1>2
    <3>2. /\ r \in Seq(S)
          /\ Len(r) = IF i + 1 <= n THEN n - (i + 1) + 1 ELSE 0
          /\ \A k \in 1..(n - (i + 1) + 1) : r[k] = s[(i + 1) + k - 1]
      BY <3>1, SubSeqProperties
    <3> HIDE DEF r
    <3>3. n - (i + 1) + 1 = n - i /\ i + 1 <= n
      BY <1>1, <2>2
    <3>4. \A k \in 1..(n - i) : (i + 1) + k - 1 = i + k
      BY <1>1
    <3> QED BY <3>2, <3>3, <3>4
  <2> QED BY <1>1, <2>1, <2>2
<1> HIDE DEF l, r
<1>5. /\ l \o r \in Seq(S) /\ Len(l \o r) = n - 1
      /\ \A k \in 1..(n - 1) : (l \o r)[k] = IF k <= i - 1 THEN l[k] ELSE r[k - (i - 1)]
  <2>1. Len(l) + Len(r) = n - 1
    BY <1>1, <1>3, <1>4
  <2>2. /\ l \o r \in Seq(S) /\ Len(l \o r) = Len(l) + Len(r)
        /\ \A k \in 1..(Len(l) + Len(r)) :
               (l \o r)[k] = IF k <= Len(l) THEN l[k] ELSE r[k - Len(l)]
    BY <1>3, <1>4, ConcatProperties
  <2> QED BY <1>3, <2>1, <2>2
<1>6. RemoveAt(s, i) = l \o r
  BY DEF RemoveAt, l, r
<1>7. ASSUME NEW k \in 1..(n - 1)
      PROVE  (l \o r)[k] = IF k < i THEN s[k] ELSE s[k + 1]
  <2>1. CASE k < i
    BY <1>1, <1>3, <1>5, <2>1
  <2>2. CASE ~ (k < i)
    <3>1. k - (i - 1) \in 1..(n - i) /\ i + (k - (i - 1)) = k + 1 /\ ~ (k <= i - 1)
      BY <1>1, <2>2
    <3> QED BY <1>4, <1>5, <2>2, <3>1
  <2> QED BY <2>1, <2>2
<1> QED BY <1>1, <1>5, <1>6, <1>7, LenProperties

-----------------------------------------------------------------------------
(* The table of users, as a value.                                         *)

Steady(t) == Asking(t) /\ RefetchOnce(t) /\ CallsClean(t) /\ RowsClean(t)

(* What the requests depend on.                                            *)
SameCalls(t, u) ==
    /\ u.calls = t.calls /\ u.key = t.key /\ u.asked = t.asked
    /\ u.newest = t.newest /\ u.rows = t.rows /\ u.deleted = t.deleted
    /\ t.acting = "refetch" => u.acting = "refetch"

LEMMA SameKeeps ==
  ASSUME NEW t, NEW u, SameCalls(t, u), Steady(t)
  PROVE  Steady(u) /\ (Params(u) = Params(t) /\ KeyIsShown(t) => KeyIsShown(u))
<1>1. Asking(u)
  BY DEF SameCalls, Steady, Asking, LastIsKey, AskedIsKey
<1>2. RefetchOnce(u)
  BY DEF SameCalls, Steady, RefetchOnce
<1>3. CallsClean(u)
  BY DEF SameCalls, Steady, CallsClean
<1>4. RowsClean(u)
  BY DEF SameCalls, Steady, RowsClean
<1>5. Params(u) = Params(t) /\ KeyIsShown(t) => KeyIsShown(u)
  BY DEF SameCalls, KeyIsShown
<1> QED BY <1>1, <1>2, <1>3, <1>4, <1>5 DEF Steady

LEMMA ParamsTyped ==
  ASSUME NEW t \in TableType
  PROVE  Params(t) \in ParamsType
  BY DEF TableType, Params, ParamsType

LEMMA CallTyped ==
  ASSUME NEW t \in TableType, NEW p \in ParamsType, NEW refetch \in BOOLEAN
  PROVE  /\ Call(t, p, refetch) \in CallType
         /\ Call(t, p, refetch).p = p /\ Call(t, p, refetch).refetch = refetch
         /\ ~Call(t, p, refetch).served /\ ~Call(t, p, refetch).overtaken
         /\ ~Call(t, p, refetch).outdated => p = Params(t)
<1> DEFINE c == Call(t, p, refetch)
<1>1. 0 \in PageCounts /\ {} \in SUBSET Users
  BY DEF PageCounts
<1>2. CASE p = Params(t)
  <2>1. c = [p |-> p, refetch |-> refetch, served |-> FALSE, rows |-> {}, pages |-> 0,
             overtaken |-> FALSE, outdated |-> FALSE]
    BY <1>2 DEF Call
  <2> QED BY <1>1, <1>2, <2>1 DEF CallType
<1>3. CASE p # Params(t)
  <2>1. c = [p |-> p, refetch |-> refetch, served |-> FALSE, rows |-> {}, pages |-> 0,
             overtaken |-> FALSE, outdated |-> TRUE]
    BY <1>3 DEF Call
  <2> QED BY <1>1, <1>3, <2>1 DEF CallType
<1> QED BY <1>2, <1>3

LEMMA AskedIs ==
  ASSUME NEW t \in TableType, NEW p \in ParamsType, NEW refetch \in BOOLEAN
  PROVE  LET u == Asked(t, p, refetch) IN
         /\ u \in TableType /\ u.calls = Append(t.calls, Call(t, p, refetch))
         /\ u.key = p /\ Params(u) = Params(t) /\ u.deleted = t.deleted
         /\ u.acting = t.acting /\ u.closure = t.closure /\ u.target = t.target
         /\ u.rows = t.rows /\ u.newest = t.newest
<1> DEFINE c == Call(t, p, refetch)
           cs == Append(t.calls, c)
<1>1. t.calls \in Seq(CallType)
  BY DEF TableType
<1>2. cs \in Seq(CallType)
  BY <1>1, CallTyped, AppendIs
<1>3. Asked(t, p, refetch) =
          [t EXCEPT !.key = p, !.loading = TRUE, !.error = FALSE, !.calls = cs]
  BY DEF Asked
<1>4. p \in Opt(ParamsType)
  BY DEF Opt
<1> HIDE DEF cs
<1> QED BY <1>2, <1>3, <1>4 DEF TableType, Params, cs

(* A new request: the last deletion's is the only one that may ask for     *)
(* other rows than those shown.                                            *)
LEMMA AskedKeeps ==
  ASSUME NEW t \in TableType, NEW p \in ParamsType, NEW refetch \in BOOLEAN,
         Asking(t), RefetchOnce(t),
         refetch => t.acting = "refetch" /\ \A k \in DOMAIN t.calls : ~t.calls[k].refetch,
         refetch \/ (CallsClean(t) /\ RowsClean(t))
  PROVE  /\ Steady(Asked(t, p, refetch)) /\ KeyIsShown(Asked(t, p, refetch))
         /\ Asked(t, p, refetch) \in TableType
<1> DEFINE u == Asked(t, p, refetch)
           c == Call(t, p, refetch)
           n == Len(t.calls)
<1>1. /\ u \in TableType /\ u.calls = Append(t.calls, c)
      /\ u.key = p /\ Params(u) = Params(t) /\ u.deleted = t.deleted
      /\ u.acting = t.acting /\ u.rows = t.rows /\ u.newest = t.newest
  BY AskedIs
<1>2. /\ c \in CallType /\ c.p = p /\ c.refetch = refetch /\ ~c.served /\ ~c.overtaken
      /\ ~c.outdated => p = Params(t)
  BY CallTyped
<1>3. t.calls \in Seq(CallType)
  BY DEF TableType
<1> HIDE DEF u, c
<1>4. /\ u.calls # <<>> /\ n \in Nat /\ DOMAIN t.calls = 1..n
      /\ Len(u.calls) = n + 1 /\ DOMAIN u.calls = 1..(n + 1)
      /\ \A k \in 1..n : u.calls[k] = t.calls[k]
      /\ u.calls[n + 1] = c
  BY <1>1, <1>2, <1>3, AppendIs
<1>5. \A k \in 1..(n + 1) : k = n + 1 \/ k \in 1..n
  BY <1>4
<1>6. ~AllOvertaken(u.calls)
  BY <1>2, <1>4 DEF AllOvertaken
<1>7. PrefixOvertaken(u.calls)
  <2> SUFFICES ASSUME NEW j \in 1..(n + 1), NEW k \in 1..(n + 1), j < k, u.calls[k].overtaken
               PROVE  u.calls[j].overtaken
    BY <1>4 DEF PrefixOvertaken
  <2>1. k \in 1..n /\ j \in 1..n
    BY <1>2, <1>4, <1>5
  <2> QED BY <1>4, <2>1 DEF Asking, PrefixOvertaken
<1>8. Asking(u)
  BY <1>1, <1>2, <1>4, <1>6, <1>7 DEF Asking, LastIsKey, AskedIsKey
<1>9. KeyIsShown(u)
  BY <1>1, <1>2, <1>4, <1>6 DEF KeyIsShown
<1>10. RefetchOnce(u)
  BY <1>1, <1>2, <1>4, <1>5 DEF RefetchOnce
<1>11. CallsClean(u)
  <2> SUFFICES ASSUME NEW k \in 1..(n + 1), u.calls[k].served, ~u.calls[k].overtaken,
                      \A j \in 1..(n + 1) : u.calls[j].refetch => j <= k
               PROVE  u.deleted \cap u.calls[k].rows = {}
    BY <1>4 DEF CallsClean
  <2>1. k \in 1..n
    BY <1>2, <1>4, <1>5
  <2>2. ~refetch
    BY <1>2, <1>4, <2>1
  <2>3. CallsClean(t)
    BY <2>2
  <2>4. u.calls[k] = t.calls[k]
    BY <1>4, <2>1
  <2>5. ASSUME NEW j \in 1..n, t.calls[j].refetch
        PROVE  j <= k
    <3>1. j \in 1..(n + 1) /\ u.calls[j] = t.calls[j]
      BY <1>4
    <3> QED BY <2>5, <3>1
  <2>6. t.deleted \cap t.calls[k].rows = {}
    BY <1>4, <2>1, <2>3, <2>4, <2>5 DEF CallsClean
  <2> QED BY <1>1, <2>4, <2>6
<1>12. RowsClean(u)
  <2> SUFFICES ASSUME u.newest, \A k \in 1..(n + 1) : ~u.calls[k].refetch
               PROVE  u.deleted \cap u.rows = {}
    BY <1>4 DEF RowsClean
  <2>1. ~refetch /\ \A k \in 1..n : ~t.calls[k].refetch
    BY <1>2, <1>4
  <2> QED BY <1>1, <1>4, <2>1 DEF RowsClean
<1> QED BY <1>1, <1>8, <1>9, <1>10, <1>11, <1>12 DEF Steady, u

(* The effect that follows the parameters.                                 *)
LEMMA FetchKeeps ==
  ASSUME NEW t \in TableType, Steady(t), NEW rows, Gone(t, rows)
  PROVE  TableInv(FetchUsers(t), rows)
<1>1. CASE Params(t) = t.key
  <2>1. FetchUsers(t) = t
    BY <1>1 DEF FetchUsers, Fetch
  <2>2. KeyIsShown(t)
    BY <1>1 DEF KeyIsShown
  <2> QED BY <2>1, <2>2 DEF TableInv, Steady
<1>2. CASE Params(t) # t.key
  <2>1. FetchUsers(t) = Asked(t, Params(t), FALSE)
    BY <1>2 DEF FetchUsers, Fetch
  <2>2. Params(t) \in ParamsType
    BY ParamsTyped
  <2> DEFINE u == Asked(t, Params(t), FALSE)
  <2>3. Steady(u) /\ KeyIsShown(u) /\ u \in TableType
    BY <2>2, AskedKeeps DEF Steady
  <2>4. Gone(u, rows)
    BY <2>2, AskedIs DEF Gone
  <2> QED BY <2>1, <2>3, <2>4 DEF TableInv, Steady
<1> QED BY <1>1, <1>2

(* A request that has ended: those made before it are overtaken.           *)
EndedAt(t, u, i) ==
    /\ u.calls \in Seq(CallType) /\ Len(u.calls) = Len(t.calls) - 1
    /\ \A k \in 1..(Len(t.calls) - 1) :
           LET o == t.calls[IF k < i THEN k ELSE k + 1] IN
           /\ u.calls[k].p = o.p /\ u.calls[k].refetch = o.refetch
           /\ u.calls[k].served = o.served /\ u.calls[k].rows = o.rows
           /\ u.calls[k].outdated = o.outdated
           /\ u.calls[k].overtaken = (k < i \/ o.overtaken)
    /\ u.key = t.key /\ u.deleted = t.deleted /\ Params(u) = Params(t)
    /\ u.acting = IF t.calls[i].refetch THEN "no" ELSE t.acting

(* The rows it brought, or none.                                           *)
Brought(t, u, i) ==
    \/ u.asked = None /\ ~u.newest
    \/ /\ u.rows = t.calls[i].rows /\ t.calls[i].served
       /\ u.newest => ~t.calls[i].overtaken
       /\ u.asked # None => /\ u.asked = t.calls[i].p
                            /\ ~t.calls[i].overtaken /\ ~t.calls[i].outdated

LEMMA EndedKeeps ==
  ASSUME NEW t \in TableType, NEW u \in TableType, NEW i \in DOMAIN t.calls,
         Steady(t), KeyIsShown(t), EndedAt(t, u, i), Brought(t, u, i)
  PROVE  Steady(u) /\ KeyIsShown(u)
<1> DEFINE n == Len(t.calls)
           c == t.calls[i]
           Old(k) == IF k < i THEN k ELSE k + 1
<1>1. /\ t.calls \in Seq(CallType) /\ n \in Nat \ {0} /\ DOMAIN t.calls = 1..n /\ i \in 1..n
      /\ t.calls # <<>>
  <2>1. t.calls \in Seq(CallType)
    BY DEF TableType
  <2>2. n \in Nat /\ DOMAIN t.calls = 1..n
    BY <2>1, LenProperties
  <2>3. t.calls # <<>>
    BY <2>2, EmptySeq
  <2> QED BY <2>1, <2>2, <2>3
<1>2. \A k \in 1..n : t.calls[k] \in CallType
  BY <1>1, ElementOfSeq
<1>3. Len(u.calls) = n - 1 /\ DOMAIN u.calls = 1..(n - 1)
  BY LenProperties DEF EndedAt
<1>4. \A k \in 1..(n - 1) :
          /\ Old(k) \in 1..n /\ Old(k) # i /\ (k < i => Old(k) < i) /\ (~(k < i) => Old(k) > i)
          /\ Old(k) > i => ~(k < i)
  BY <1>1
<1>5. \A j, k \in 1..(n - 1) : /\ j < k => Old(j) < Old(k)
                               /\ Old(j) = Old(k) => j = k
                               /\ Old(j) <= Old(k) => j <= k
  BY <1>1
<1>6. \A m \in 1..n : m # i => \E k \in 1..(n - 1) : Old(k) = m
  <2> TAKE m \in 1..n
  <2>1. m < i => m \in 1..(n - 1) /\ Old(m) = m
    BY <1>1
  <2>2. m > i => m - 1 \in 1..(n - 1) /\ Old(m - 1) = m
    BY <1>1
  <2> QED BY <1>1, <2>1, <2>2
<1>7. \A k \in 1..(n - 1) :
          /\ u.calls[k].p = t.calls[Old(k)].p /\ u.calls[k].refetch = t.calls[Old(k)].refetch
          /\ u.calls[k].served = t.calls[Old(k)].served
          /\ u.calls[k].rows = t.calls[Old(k)].rows
          /\ u.calls[k].outdated = t.calls[Old(k)].outdated
          /\ u.calls[k].overtaken = (k < i \/ t.calls[Old(k)].overtaken)
  BY DEF EndedAt
<1>8. /\ u.key = t.key /\ u.deleted = t.deleted /\ Params(u) = Params(t)
      /\ u.acting = IF c.refetch THEN "no" ELSE t.acting
  BY DEF EndedAt
<1> HIDE DEF Old
<1>9. PrefixOvertaken(u.calls)
  <2> SUFFICES ASSUME NEW j \in 1..(n - 1), NEW k \in 1..(n - 1), j < k, u.calls[k].overtaken
               PROVE  u.calls[j].overtaken
    BY <1>3 DEF PrefixOvertaken
  <2>1. CASE k < i
    BY <1>1, <1>7, <2>1
  <2>2. CASE t.calls[Old(k)].overtaken
    <3>1. t.calls[Old(j)].overtaken
      BY <1>1, <1>4, <1>5, <2>2 DEF Steady, Asking, PrefixOvertaken
    <3> QED BY <1>7, <3>1
  <2> QED BY <1>7, <2>1, <2>2
<1>10. \A k \in 1..(n - 1) : ~u.calls[k].overtaken => Old(k) > i /\ ~t.calls[Old(k)].overtaken
  BY <1>4, <1>7
(* While one is left that was made later, the last one is the last.        *)
<1>11. ASSUME u.calls # <<>>, ~u.calls[n - 1].overtaken
       PROVE  /\ n - 1 \in 1..(n - 1) /\ Old(n - 1) = n
              /\ u.calls[n - 1].p = t.calls[n].p
              /\ u.calls[n - 1].outdated = t.calls[n].outdated
              /\ ~t.calls[n].overtaken /\ t.calls # <<>>
  <2>1. n - 1 \in 1..(n - 1)
    BY <1>1, <1>3, <1>11, EmptySeq DEF EndedAt
  <2>2. ~(n - 1 < i)
    BY <1>7, <1>11, <2>1
  <2>3. Old(n - 1) = n
    BY <1>1, <2>2 DEF Old
  <2>4. ~t.calls[n].overtaken
    BY <1>10, <1>11, <2>1, <2>3
  <2> QED BY <1>1, <1>7, <2>1, <2>3, <2>4
(* When those left were all made before, it was the last one, unless it was*)
(* overtaken itself.                                                       *)
<1>12. ASSUME AllOvertaken(u.calls), ~c.overtaken
       PROVE  i = n
  <2> SUFFICES ASSUME i # n PROVE FALSE
    OBVIOUS
  <2>0. n \in 1..n /\ n # i
    BY <1>1
  <2>1. PICK k \in 1..(n - 1) : Old(k) = n
    BY <1>6, <2>0
  <2>2. u.calls[k].overtaken /\ ~(k < i)
    <3>1. u.calls[k].overtaken
      BY <1>3, <1>12 DEF AllOvertaken
    <3>2. ~(k < i)
      BY <1>1, <1>4, <2>1
    <3> QED BY <3>1, <3>2
  <2>3. t.calls[n].overtaken
    BY <1>7, <2>1, <2>2
  <2> QED BY <1>1, <1>12, <2>3 DEF Steady, Asking, PrefixOvertaken
<1>13. ASSUME AllOvertaken(u.calls), u.asked # None
       PROVE  /\ t.calls # <<>> /\ i = n /\ ~t.calls[n].overtaken /\ ~t.calls[n].outdated
              /\ u.asked = t.calls[n].p
  <2>1. u.asked = c.p /\ ~c.overtaken /\ ~c.outdated
    BY <1>13 DEF Brought
  <2> QED BY <1>1, <1>12, <1>13, <2>1
<1>14. Asking(u)
  <2>1. LastIsKey(u)
    BY <1>3, <1>8, <1>11 DEF LastIsKey, Steady, Asking
  <2>2. AskedIsKey(u)
    BY <1>8, <1>13 DEF AskedIsKey, LastIsKey, Steady, Asking
  <2> QED BY <1>9, <2>1, <2>2 DEF Asking
<1>15. KeyIsShown(u)
  BY <1>3, <1>8, <1>11, <1>13 DEF KeyIsShown
<1>16. RefetchOnce(u)
  <2> SUFFICES ASSUME NEW k \in 1..(n - 1), u.calls[k].refetch
               PROVE  /\ u.acting = "refetch"
                      /\ \A j \in 1..(n - 1) : u.calls[j].refetch => j = k
    BY <1>3 DEF RefetchOnce
  <2>1. t.calls[Old(k)].refetch
    BY <1>7
  <2>2. t.acting = "refetch" /\ \A j \in 1..n : t.calls[j].refetch => j = Old(k)
    BY <1>1, <1>4, <2>1 DEF Steady, RefetchOnce
  <2>3. ~c.refetch
    BY <1>1, <1>4, <2>2
  <2>4. \A j \in 1..(n - 1) : u.calls[j].refetch => j = k
    BY <1>4, <1>5, <1>7, <2>2
  <2> QED BY <1>8, <2>2, <2>3, <2>4
<1>17. CallsClean(u)
  <2> SUFFICES ASSUME NEW k \in 1..(n - 1), u.calls[k].served, ~u.calls[k].overtaken,
                      \A j \in 1..(n - 1) : u.calls[j].refetch => j <= k
               PROVE  u.deleted \cap u.calls[k].rows = {}
    BY <1>3 DEF CallsClean
  <2>1. Old(k) > i /\ Old(k) \in 1..n /\ t.calls[Old(k)].served /\ ~t.calls[Old(k)].overtaken
    BY <1>4, <1>7, <1>10
  <2>2. ASSUME NEW m \in 1..n, t.calls[m].refetch PROVE m <= Old(k)
    <3>1. CASE m = i
      BY <1>1, <2>1, <3>1
    <3>2. CASE m # i
      <4>1. PICK j \in 1..(n - 1) : Old(j) = m
        BY <1>6, <3>2
      <4>2. j <= k
        BY <1>7, <2>2, <4>1
      <4>3. j = k \/ j < k
        BY <1>1, <4>2
      <4> QED BY <1>1, <1>4, <1>5, <4>1, <4>3
    <3> QED BY <3>1, <3>2
  <2>3. t.deleted \cap t.calls[Old(k)].rows = {}
    BY <1>1, <2>1, <2>2 DEF Steady, CallsClean
  <2> QED BY <1>7, <1>8, <2>3
<1>18. RowsClean(u)
  <2> SUFFICES ASSUME u.newest, \A k \in 1..(n - 1) : ~u.calls[k].refetch
               PROVE  u.deleted \cap u.rows = {}
    BY <1>3 DEF RowsClean
  <2>1. u.rows = c.rows /\ c.served /\ ~c.overtaken
    BY DEF Brought
  <2>2. ASSUME NEW m \in 1..n, t.calls[m].refetch PROVE m <= i
    <3>1. CASE m = i
      BY <1>1, <3>1
    <3>2. CASE m # i
      <4>1. PICK k \in 1..(n - 1) : Old(k) = m
        BY <1>6, <3>2
      <4>2. u.calls[k].refetch
        BY <1>7, <2>2, <4>1
      <4> QED BY <4>2
    <3> QED BY <3>1, <3>2
  <2>3. t.deleted \cap c.rows = {}
    BY <1>1, <2>1, <2>2 DEF Steady, CallsClean
  <2> QED BY <1>8, <2>1, <2>3
<1> QED BY <1>14, <1>15, <1>16, <1>17, <1>18 DEF Steady

-----------------------------------------------------------------------------
(* The steps of the table.                                                 *)

(* Clicks and answers that ask for nothing.                                *)
LEMMA PlainStep ==
  ASSUME UsersInv, table # None, accounts' \subseteq accounts, table' \in TableType,
         SameCalls(table, table'), Params(table') = Params(table), Gone(table', accounts')
  PROVE  UsersInv'
<1>1. Steady(table) /\ KeyIsShown(table)
  BY DEF UsersInv, TableInv, Steady
<1>2. Steady(table') /\ KeyIsShown(table')
  BY <1>1, SameKeeps
<1>3. TableInv(table', accounts')
  BY <1>2 DEF TableInv, Steady
<1> QED BY <1>3 DEF UsersInv

LEMMA ClickStep ==
  ASSUME UsersInv, table # None,
         \/ \E term \in Terms : Type(term)
         \/ \E x \in Users : OpenDeleteModal(x)
         \/ OnClearError \/ CloseDeleteModal \/ HandleDeleteUser
  PROVE  UsersInv'
<1>1. table \in TableType /\ Gone(table, accounts)
  BY DEF UsersInv, TableInv
<1>2. accounts' = accounts
  BY DEF Type, OpenDeleteModal, OnClearError, CloseDeleteModal, HandleDeleteUser
<1>3. \/ \E term \in Terms : table' = [table EXCEPT !.term = term, !.timer = TRUE]
      \/ \E x \in Opt(Users), b \in BOOLEAN : table' = [table EXCEPT !.modal = b, !.selected = x]
      \/ table' = [table EXCEPT !.error = FALSE]
      \/ /\ table.acting = "no"
         /\ table' = [table EXCEPT !.acting = "sent", !.target = table.selected,
                                   !.closure = Params(table)]
  BY DEF Type, OpenDeleteModal, OnClearError, CloseDeleteModal, HandleDeleteUser, Opt
<1>4. Params(table) \in ParamsType /\ Params(table) \in Opt(ParamsType)
  BY <1>1, ParamsTyped DEF Opt
<1>5. /\ table' \in TableType
      /\ SameCalls(table, table') /\ Params(table') = Params(table) /\ Gone(table', accounts)
  <2>1. CASE \E term \in Terms : table' = [table EXCEPT !.term = term, !.timer = TRUE]
    BY <1>1, <2>1 DEF TableType, SameCalls, Params, Gone
  <2>2. CASE \E x \in Opt(Users), b \in BOOLEAN :
                 table' = [table EXCEPT !.modal = b, !.selected = x]
    BY <1>1, <2>2 DEF TableType, SameCalls, Params, Gone
  <2>3. CASE table' = [table EXCEPT !.error = FALSE]
    BY <1>1, <2>3 DEF TableType, SameCalls, Params, Gone
  <2>4. CASE /\ table.acting = "no"
             /\ table' = [table EXCEPT !.acting = "sent", !.target = table.selected,
                                       !.closure = Params(table)]
    <3> DEFINE p == Params(table)
    <3>1. table' = [table EXCEPT !.acting = "sent", !.target = table.selected, !.closure = p]
      BY <2>4
    <3>2. p \in ParamsType /\ p \in Opt(ParamsType)
      BY <1>4
    <3> HIDE DEF p
    <3>3. /\ table' \in TableType /\ table'.acting = "sent" /\ table'.closure = p
          /\ table'.deleted = table.deleted
      BY <1>1, <3>1, <3>2 DEF TableType
    <3>4. SameCalls(table, table') /\ Params(table') = Params(table)
      BY <1>1, <2>4, <3>1 DEF TableType, SameCalls, Params
    <3> QED BY <1>1, <3>2, <3>3, <3>4 DEF Gone
  <2> QED BY <1>3, <2>1, <2>2, <2>3, <2>4
<1> QED BY <1>2, <1>5, PlainStep

(* A change of the parameters.                                             *)
LEMMA TurnStep ==
  ASSUME UsersInv, table # None,
         \/ Debounced
         \/ \E p \in 1..MaxPage : OnPageChange(p)
         \/ \E size \in Sizes : OnPageSizeChange(size)
  PROVE  UsersInv'
<1>1. table \in TableType /\ Gone(table, accounts) /\ Steady(table) /\ KeyIsShown(table)
  BY DEF UsersInv, TableInv, Steady
<1>2. accounts' = accounts
  BY DEF Debounced, OnPageChange, OnPageSizeChange
<1> SUFFICES TableInv(table', accounts)
  BY <1>2 DEF UsersInv
<1>3. CASE Debounced
  <2> DEFINE t == [table EXCEPT !.timer = FALSE, !.search = table.term]
             v == [FetchUsers(t) EXCEPT !.page = 1]
  <2>1. table' = IF t.search = table.search THEN t ELSE FetchUsers(v)
    BY <1>3 DEF Debounced
  <2>2. /\ t \in TableType /\ SameCalls(table, t) /\ Gone(t, accounts)
        /\ t.search = table.search => Params(t) = Params(table)
    BY <1>1 DEF TableType, SameCalls, Gone, Params
  <2> HIDE DEF t
  <2>3. Steady(t) /\ (t.search = table.search => KeyIsShown(t))
    BY <1>1, <2>2, SameKeeps
  <2>4. CASE t.search = table.search
    BY <2>1, <2>2, <2>3, <2>4 DEF TableInv, Steady
  <2>5. CASE t.search # table.search
    <3> DEFINE w == FetchUsers(t)
    <3>1. TableInv(w, accounts)
      BY <2>2, <2>3, FetchKeeps
    <3>2. v = [w EXCEPT !.page = 1]
      OBVIOUS
    <3> HIDE DEF w, v
    <3>3. v \in TableType /\ SameCalls(w, v) /\ Gone(v, accounts)
      BY <3>1, <3>2 DEF TableInv, TableType, SameCalls, Gone
    <3>4. Steady(v)
      BY <3>1, <3>3, SameKeeps DEF TableInv, Steady
    <3> QED BY <2>1, <2>5, <3>3, <3>4, FetchKeeps
  <2> QED BY <2>4, <2>5
<1>4. CASE \/ \E p \in 1..MaxPage : OnPageChange(p)
           \/ \E size \in Sizes : OnPageSizeChange(size)
  <2>1. PICK p \in Nat, size \in Sizes :
                table' = FetchUsers([table EXCEPT !.page = p, !.size = size])
    <3>1. ASSUME NEW p \in 1..MaxPage, OnPageChange(p)
          PROVE  /\ p \in Nat /\ table.size \in Sizes
                 /\ table' = FetchUsers([table EXCEPT !.page = p, !.size = table.size])
      <4>1. [table EXCEPT !.page = p, !.size = table.size] = [table EXCEPT !.page = p]
        BY <1>1 DEF TableType
      <4> QED BY <1>1, <3>1, <4>1 DEF OnPageChange, TableType
    <3>2. ASSUME NEW size \in Sizes, OnPageSizeChange(size)
          PROVE  table' = FetchUsers([table EXCEPT !.page = 1, !.size = size])
      <4>1. [table EXCEPT !.size = size, !.page = 1] = [table EXCEPT !.page = 1, !.size = size]
        BY <1>1 DEF TableType
      <4> QED BY <3>2, <4>1 DEF OnPageSizeChange
    <3> QED BY <1>4, <3>1, <3>2
  <2> DEFINE t == [table EXCEPT !.page = p, !.size = size]
  <2>2. t \in TableType /\ SameCalls(table, t) /\ Gone(t, accounts)
    BY <1>1 DEF TableType, SameCalls, Gone
  <2> HIDE DEF t
  <2>3. Steady(t)
    BY <1>1, <2>2, SameKeeps
  <2> QED BY <2>1, <2>2, <2>3, FetchKeeps DEF t
<1> QED BY <1>3, <1>4

(* The page is opened.                                                     *)
LEMMA NewTableInv ==
  TableInv(NewTable, accounts)
<1> DEFINE t == [term |-> "", timer |-> FALSE, search |-> "", page |-> 1, size |-> DefaultSize,
                 key |-> None, calls |-> <<>>, rows |-> {}, pages |-> 0, asked |-> None,
                 newest |-> FALSE, loading |-> TRUE, error |-> FALSE, modal |-> FALSE,
                 selected |-> None, acting |-> "no", target |-> None, closure |-> None,
                 deleted |-> {}]
<1>1. NewTable = FetchUsers(t)
  BY DEF NewTable
<1>2. t \in TableType
  <2>1. <<>> \in Seq(CallType) /\ 0 \in PageCounts
    BY DEF PageCounts
  <2> QED BY <2>1 DEF TableType, Terms, Opt
<1>3. t.calls = <<>> /\ DOMAIN t.calls = {} /\ t.asked = None /\ ~t.newest
  OBVIOUS
<1>4. t.deleted = {} /\ t.acting = "no"
  OBVIOUS
<1> HIDE DEF t
<1>5. Steady(t)
  BY <1>3 DEF Steady, Asking, PrefixOvertaken, LastIsKey, AskedIsKey, RefetchOnce, CallsClean,
     RowsClean
<1>6. Gone(t, accounts)
  BY <1>4 DEF Gone
<1> QED BY <1>1, <1>2, <1>5, <1>6, FetchKeeps

(* The server's answer to a deletion, and what the page makes of it.       *)
LEMMA DeleteUserStep ==
  ASSUME UsersInv, NEW x \in Users, DeleteUser(x)
  PROVE  UsersInv'
<1> DEFINE Told(how) == IF table # None /\ table.acting = "sent" /\ table.target = x
                        THEN [table EXCEPT !.acting = how] ELSE table
<1>1. \/ accounts' = accounts \ {x} /\ table' \in {Told("deleted"), Told("refused")}
      \/ accounts' = accounts /\ table' = Told("refused")
  BY DEF DeleteUser
<1>2. accounts' \subseteq accounts /\ accounts' \subseteq Users
  BY <1>1 DEF UsersInv
<1>3. CASE table = None
  BY <1>1, <1>2, <1>3 DEF UsersInv
<1>4. CASE table # None
  <2>1. table \in TableType /\ Gone(table, accounts)
    BY <1>4 DEF UsersInv, TableInv
  <2>2. CASE table' = table
    <3>1. Gone(table, accounts')
      BY <1>2, <2>1 DEF Gone
    <3> QED BY <1>2, <1>4, <2>1, <2>2, <3>1, PlainStep DEF SameCalls
  <2>3. ASSUME NEW how \in {"deleted", "refused"}, table' = [table EXCEPT !.acting = how],
               table.acting = "sent", table.target = x, how = "deleted" => x \notin accounts'
        PROVE  UsersInv'
    <3>1. table' \in TableType /\ SameCalls(table, table') /\ Params(table') = Params(table)
      BY <2>1, <2>3 DEF TableType, SameCalls, Params
    <3>2. /\ table'.deleted = table.deleted /\ table'.acting = how /\ table'.target = x
          /\ table'.closure = table.closure
      BY <2>1, <2>3 DEF TableType
    <3>3. Gone(table', accounts')
      BY <1>2, <2>1, <2>3, <3>2 DEF Gone
    <3> QED BY <1>2, <1>4, <3>1, <3>3, PlainStep
  <2> QED BY <1>1, <1>4, <2>2, <2>3
<1> QED BY <1>3, <1>4

LEMMA DeleteAnsweredStep ==
  ASSUME UsersInv, table # None, DeleteAnswered
  PROVE  UsersInv'
<1>1. table \in TableType /\ Gone(table, accounts) /\ Steady(table)
  BY DEF UsersInv, TableInv, Steady
<1>2. accounts' = accounts /\ table.acting \in {"deleted", "refused"}
  BY DEF DeleteAnswered
<1>3. CASE table.acting = "refused"
  <2>1. table' = [table EXCEPT !.acting = "no", !.target = None, !.closure = None, !.error = TRUE]
    BY <1>3 DEF DeleteAnswered
  <2>2. table' \in TableType /\ SameCalls(table, table') /\ Params(table') = Params(table)
    BY <1>1, <1>3, <2>1 DEF TableType, SameCalls, Params, Opt
  <2>3. table'.deleted = table.deleted /\ table'.acting = "no"
    BY <1>1, <2>1 DEF TableType
  <2>4. Gone(table', accounts')
    BY <1>1, <1>2, <2>3 DEF Gone
  <2> QED BY <1>2, <2>2, <2>4, PlainStep
<1>4. CASE table.acting = "deleted"
  <2> DEFINE t == [table EXCEPT !.acting = "refetch", !.deleted = @ \cup {table.target}]
             u == Asked(t, table.closure, TRUE)
  <2>1. table' = u
    BY <1>4 DEF DeleteAnswered, Fetch
  <2>2. /\ t \in TableType /\ t.acting = "refetch" /\ t.calls = table.calls /\ t.key = table.key
        /\ t.asked = table.asked /\ t.deleted = table.deleted \cup {table.target}
    BY <1>1 DEF TableType
  <2> HIDE DEF t
  <2>3. \A k \in DOMAIN t.calls : ~t.calls[k].refetch
    BY <1>1, <1>4, <2>2 DEF Steady, RefetchOnce
  <2>4. Asking(t) /\ RefetchOnce(t)
    BY <1>1, <2>2, <2>3 DEF Steady, Asking, LastIsKey, AskedIsKey, RefetchOnce
  <2>5. table.closure \in ParamsType
    BY <1>1, <1>4 DEF Gone
  <2>6. Steady(u) /\ KeyIsShown(u) /\ u \in TableType
    BY <2>2, <2>3, <2>4, <2>5, AskedKeeps
  <2>7. u.deleted = t.deleted /\ u.acting = "refetch"
    BY <2>2, <2>5, AskedIs
  <2>8. Gone(u, accounts)
    BY <1>1, <1>4, <2>2, <2>7 DEF Gone
  <2>9. TableInv(u, accounts)
    BY <2>6, <2>8 DEF TableInv, Steady
  <2> QED BY <1>2, <2>1, <2>9 DEF UsersInv
<1> QED BY <1>2, <1>3, <1>4

(* The server's answer to a request for rows: those that are stored now.   *)
LEMMA GetAllUsersStep ==
  ASSUME UsersInv, table # None, NEW i \in DOMAIN table.calls, GetAllUsers(i)
  PROVE  UsersInv'
<1> DEFINE c == table.calls[i]
           found == IF c.p.search = "" THEN accounts ELSE accounts \cap Found
           rows == PageOf(found, c.p.page, c.p.size)
           pages == TotalPages(found, c.p.size)
           d == [c EXCEPT !.served = TRUE, !.rows = rows, !.pages = pages]
           cs == [table.calls EXCEPT ![i] = d]
           n == Len(table.calls)
<1>1. table \in TableType /\ Gone(table, accounts) /\ Steady(table) /\ KeyIsShown(table)
  BY DEF UsersInv, TableInv, Steady
<1>2. /\ table.calls \in Seq(CallType) /\ n \in Nat /\ DOMAIN table.calls = 1..n /\ i \in 1..n
      /\ \A k \in 1..n : table.calls[k] \in CallType
  <2>1. table.calls \in Seq(CallType)
    BY <1>1 DEF TableType
  <2> QED BY <2>1, LenProperties, ElementOfSeq
<1>3. c \in CallType /\ c.p.size \in Sizes
  BY <1>2 DEF CallType, ParamsType
<1>4. found \subseteq accounts /\ found \subseteq Users
  BY DEF UsersInv
<1>5. rows \subseteq accounts /\ rows \in SUBSET Users
  BY <1>4 DEF PageOf
<1>6. pages \in PageCounts
  <2> DEFINE size == c.p.size
  <2>1. size \in Sizes /\ pages = TotalPages(found, size) /\ found \in SUBSET Users
    BY <1>3, <1>4
  <2> HIDE DEF size, pages, found
  <2> QED BY <2>1 DEF PageCounts
<1> HIDE DEF rows, pages, found
<1>7. /\ d \in CallType /\ d.p = c.p /\ d.refetch = c.refetch /\ d.overtaken = c.overtaken
      /\ d.outdated = c.outdated /\ d.rows = rows
  BY <1>3, <1>5, <1>6 DEF CallType
<1> HIDE DEF d
<1>8. /\ cs \in Seq(CallType) /\ Len(cs) = n /\ DOMAIN cs = 1..n
      /\ \A k \in 1..n : cs[k] = IF k = i THEN d ELSE table.calls[k]
  BY <1>2, <1>7, ExceptSeq
<1>9. table' = [table EXCEPT !.calls = cs] /\ accounts' = accounts
  BY DEF GetAllUsers, d, rows, pages, found
<1> HIDE DEF cs
<1>10. /\ table' \in TableType /\ table'.calls = cs /\ table'.key = table.key
       /\ table'.asked = table.asked /\ Params(table') = Params(table)
       /\ table'.acting = table.acting /\ table'.deleted = table.deleted
       /\ table'.newest = table.newest /\ table'.rows = table.rows
       /\ table'.target = table.target /\ table'.closure = table.closure
  BY <1>1, <1>8, <1>9 DEF TableType, Params
<1>11. \A k \in 1..n : /\ cs[k].p = table.calls[k].p /\ cs[k].refetch = table.calls[k].refetch
                       /\ cs[k].overtaken = table.calls[k].overtaken
                       /\ cs[k].outdated = table.calls[k].outdated
  BY <1>7, <1>8
<1>12. cs # <<>> /\ table.calls # <<>> /\ n \in 1..n
  BY <1>2, <1>8, EmptySeq
<1>13. AllOvertaken(cs) <=> AllOvertaken(table.calls)
  BY <1>2, <1>8, <1>11 DEF AllOvertaken
<1>14. Asking(table')
  <2>1. PrefixOvertaken(cs)
    BY <1>1, <1>2, <1>8, <1>11 DEF Steady, Asking, PrefixOvertaken
  <2> QED BY <1>1, <1>8, <1>10, <1>11, <1>12, <1>13, <2>1 DEF Steady, Asking, LastIsKey, AskedIsKey
<1>15. KeyIsShown(table')
  BY <1>1, <1>8, <1>10, <1>11, <1>12, <1>13 DEF KeyIsShown
<1>16. RefetchOnce(table')
  BY <1>1, <1>2, <1>8, <1>10, <1>11 DEF Steady, RefetchOnce
<1>17. CallsClean(table')
  <2> SUFFICES ASSUME NEW k \in 1..n, cs[k].served, ~cs[k].overtaken,
                      \A j \in 1..n : cs[j].refetch => j <= k
               PROVE  table.deleted \cap cs[k].rows = {}
    BY <1>8, <1>10 DEF CallsClean
  <2>1. CASE k = i
    BY <1>1, <1>5, <1>7, <1>8, <2>1 DEF Gone
  <2>2. CASE k # i
    <3>1. cs[k] = table.calls[k] /\ \A j \in 1..n : table.calls[j].refetch => j <= k
      BY <1>8, <1>11, <2>2
    <3> QED BY <1>1, <1>2, <3>1 DEF Steady, CallsClean
  <2> QED BY <2>1, <2>2
<1>18. RowsClean(table')
  BY <1>1, <1>2, <1>8, <1>10, <1>11 DEF Steady, RowsClean
<1>19. Gone(table', accounts)
  BY <1>1, <1>10 DEF Gone
<1> QED BY <1>9, <1>10, <1>14, <1>15, <1>16, <1>17, <1>18, <1>19 DEF UsersInv, TableInv

(* What the end of a request does to the table.                            *)
LEMMA SettledIs ==
  ASSUME NEW t \in TableType, NEW i \in DOMAIN t.calls
  PROVE  LET u == Settled(t, i) IN
         /\ u \in TableType /\ EndedAt(t, u, i)
         /\ t.calls[i].refetch => u.acting = "no"
         /\ ~t.calls[i].refetch =>
                u.acting = t.acting /\ u.target = t.target /\ u.closure = t.closure
<1> DEFINE n == Len(t.calls)
           Marked(k) == IF k < i THEN [t.calls[k] EXCEPT !.overtaken = TRUE] ELSE t.calls[k]
           marked == [k \in DOMAIN t.calls |-> Marked(k)]
           ended == RemoveAt(marked, i)
           later == [t EXCEPT !.loading = FALSE, !.calls = ended]
<1>1. /\ t.calls \in Seq(CallType) /\ n \in Nat /\ DOMAIN t.calls = 1..n /\ i \in 1..n
      /\ \A k \in 1..n : t.calls[k] \in CallType
  <2>1. t.calls \in Seq(CallType)
    BY DEF TableType
  <2> QED BY <2>1, LenProperties, ElementOfSeq
<1>2. \A k \in 1..n : /\ Marked(k) \in CallType /\ Marked(k).p = t.calls[k].p
                      /\ Marked(k).refetch = t.calls[k].refetch
                      /\ Marked(k).served = t.calls[k].served
                      /\ Marked(k).rows = t.calls[k].rows
                      /\ Marked(k).outdated = t.calls[k].outdated
                      /\ Marked(k).overtaken = (k < i \/ t.calls[k].overtaken)
  <2> TAKE k \in 1..n
  <2>1. t.calls[k] \in CallType
    BY <1>1
  <2>2. CASE k < i
    BY <2>1, <2>2 DEF CallType
  <2>3. CASE ~(k < i)
    BY <2>1, <2>3 DEF CallType
  <2> QED BY <2>2, <2>3
<1>3. marked \in Seq(CallType) /\ Len(marked) = n /\ i \in DOMAIN marked
  <2>1. \A k \in 1..n : Marked(k) \in CallType
    BY <1>2
  <2> HIDE DEF Marked
  <2> QED BY <1>1, <2>1
<1>4. \A k \in 1..n : marked[k] = Marked(k)
  BY <1>1
<1> HIDE DEF marked, Marked
<1>5. /\ n \in Nat \ {0} /\ ended \in Seq(CallType) /\ Len(ended) = n - 1
      /\ \A k \in 1..(n - 1) : ended[k] = IF k < i THEN marked[k] ELSE marked[k + 1]
  BY <1>3, RemoveAtIs
<1> HIDE DEF ended
<1>6. ASSUME NEW k \in 1..(n - 1)
      PROVE  LET o == t.calls[IF k < i THEN k ELSE k + 1] IN
             /\ ended[k].p = o.p /\ ended[k].refetch = o.refetch
             /\ ended[k].served = o.served /\ ended[k].rows = o.rows
             /\ ended[k].outdated = o.outdated
             /\ ended[k].overtaken = (k < i \/ o.overtaken)
  <2> DEFINE m == IF k < i THEN k ELSE k + 1
  <2>1. m \in 1..n /\ ended[k] = Marked(m) /\ (m < i <=> k < i)
    BY <1>1, <1>4, <1>5
  <2> QED BY <1>2, <2>1
<1>7. Settled(t, i) =
          IF t.calls[i].refetch
          THEN [later EXCEPT !.modal = FALSE, !.selected = None,
                             !.acting = "no", !.target = None, !.closure = None]
          ELSE later
  BY DEF Settled, ended, marked, Marked
<1>8. /\ later \in TableType /\ later.calls = ended /\ later.key = t.key
      /\ later.deleted = t.deleted /\ Params(later) = Params(t) /\ later.acting = t.acting
      /\ later.target = t.target /\ later.closure = t.closure
  BY <1>5 DEF TableType, Params
<1> DEFINE u == Settled(t, i)
<1>9. /\ u \in TableType /\ u.calls = ended /\ u.key = t.key
      /\ u.deleted = t.deleted /\ Params(u) = Params(t)
      /\ t.calls[i].refetch => u.acting = "no"
      /\ ~t.calls[i].refetch =>
             u.acting = t.acting /\ u.target = t.target /\ u.closure = t.closure
  <2> HIDE DEF later
  <2>1. CASE t.calls[i].refetch
    <3>1. u = [later EXCEPT !.modal = FALSE, !.selected = None,
                            !.acting = "no", !.target = None, !.closure = None]
      BY <1>7, <2>1
    <3> HIDE DEF u
    <3> QED BY <1>8, <2>1, <3>1 DEF TableType, Params, Opt
  <2>2. CASE ~t.calls[i].refetch
    BY <1>7, <1>8, <2>2
  <2> QED BY <2>1, <2>2
<1> HIDE DEF u
<1>10. EndedAt(t, u, i)
  BY <1>5, <1>6, <1>9 DEF EndedAt
<1> QED BY <1>9, <1>10 DEF u

LEMMA EndStep ==
  ASSUME UsersInv, table # None, NEW i \in DOMAIN table.calls, Answered(i) \/ Failed(i)
  PROVE  UsersInv'
<1> DEFINE c == table.calls[i]
           w == Settled(table, i)
<1>1. table \in TableType /\ Gone(table, accounts) /\ Steady(table) /\ KeyIsShown(table)
  BY DEF UsersInv, TableInv, Steady
<1>2. c \in CallType
  <2>1. table.calls \in Seq(CallType)
    BY <1>1 DEF TableType
  <2> QED BY <2>1, ElementOfSeq
<1>3. /\ w \in TableType /\ EndedAt(table, w, i)
      /\ c.refetch => w.acting = "no"
      /\ ~c.refetch =>
             w.acting = table.acting /\ w.target = table.target /\ w.closure = table.closure
  BY <1>1, SettledIs
<1>4. accounts' = accounts
  BY DEF Answered, Failed
<1> DEFINE asked == IF ~c.overtaken /\ ~c.outdated THEN c.p ELSE None
           newest == ~c.overtaken
<1>5. \/ /\ c.served
         /\ table' = [w EXCEPT !.rows = c.rows, !.pages = c.pages,
                               !.newest = newest, !.asked = asked]
      \/ table' = [w EXCEPT !.error = TRUE, !.newest = FALSE, !.asked = None]
  BY DEF Answered, Failed
<1>6. /\ asked \in Opt(ParamsType) /\ newest \in BOOLEAN /\ c.rows \in SUBSET Users
      /\ c.pages \in PageCounts
      /\ newest => ~c.overtaken
      /\ asked # None => asked = c.p /\ ~c.overtaken /\ ~c.outdated
  BY <1>2 DEF CallType, Opt
<1> HIDE DEF w, asked, newest
<1>7. /\ table' \in TableType /\ table'.calls = w.calls /\ table'.key = w.key
      /\ table'.deleted = w.deleted /\ Params(table') = Params(w) /\ table'.acting = w.acting
      /\ table'.target = w.target /\ table'.closure = w.closure
      /\ Brought(table, table', i)
  <2>1. CASE /\ c.served
             /\ table' = [w EXCEPT !.rows = c.rows, !.pages = c.pages,
                                   !.newest = newest, !.asked = asked]
    <3>1. /\ table' \in TableType /\ table'.calls = w.calls /\ table'.key = w.key
          /\ table'.deleted = w.deleted /\ Params(table') = Params(w)
          /\ table'.acting = w.acting
          /\ table'.target = w.target /\ table'.closure = w.closure
          /\ table'.rows = c.rows /\ table'.newest = newest /\ table'.asked = asked
      BY <1>3, <1>6, <2>1 DEF TableType, Params
    <3> QED BY <1>6, <2>1, <3>1 DEF Brought
  <2>2. CASE table' = [w EXCEPT !.error = TRUE, !.newest = FALSE, !.asked = None]
    BY <1>3, <2>2 DEF TableType, Params, Opt, Brought
  <2> QED BY <1>5, <2>1, <2>2
<1>8. EndedAt(table, table', i)
  BY <1>3, <1>7 DEF EndedAt
<1>9. Steady(table') /\ KeyIsShown(table')
  BY <1>1, <1>7, <1>8, EndedKeeps
<1>10. Gone(table', accounts)
  <2>1. table'.deleted = table.deleted
    BY <1>8 DEF EndedAt
  <2> QED BY <1>1, <1>3, <1>7, <2>1 DEF Gone
<1> QED BY <1>4, <1>7, <1>9, <1>10 DEF UsersInv, TableInv, Steady

LEMMA UsersStepInv ==
  ASSUME UsersInv, UsersStep
  PROVE  UsersInv'
BY ClickStep, TurnStep, DeleteUserStep, DeleteAnsweredStep, GetAllUsersStep, EndStep
   DEF UsersStep, Clicks, Answers

-----------------------------------------------------------------------------
(* The steps of the sessions.                                              *)

(* Deletions that are under way, and what is stored.                       *)
RemovalsOK(rs, rows) ==
    rs \in Seq(RemovalType) /\ \A i \in DOMAIN rs : rs[i].phase = "deleted" => rs[i].id \notin rows

LEMMA OrphansOK ==
  ASSUME NEW rs, NEW rows, RemovalsOK(rs, rows)
  PROVE  RemovalsOK([i \in DOMAIN rs |-> [rs[i] EXCEPT !.here = FALSE]], rows)
<1> DEFINE Left(i) == [rs[i] EXCEPT !.here = FALSE]
<1>1. rs \in Seq(RemovalType) /\ Len(rs) \in Nat /\ DOMAIN rs = 1..Len(rs)
  BY LenProperties DEF RemovalsOK
<1>2. \A i \in 1..Len(rs) : rs[i] \in RemovalType
  BY <1>1, ElementOfSeq
<1>3. \A i \in 1..Len(rs) :
          Left(i) \in RemovalType /\ Left(i).phase = rs[i].phase /\ Left(i).id = rs[i].id
  BY <1>2 DEF RemovalType
<1> HIDE DEF Left
<1>4. [i \in 1..Len(rs) |-> Left(i)] \in Seq(RemovalType)
  BY <1>1, <1>3
<1>5. RemovalsOK([i \in 1..Len(rs) |-> Left(i)], rows)
  BY <1>1, <1>3, <1>4 DEF RemovalsOK
<1> QED BY <1>1, <1>5 DEF Left

LEMMA RemovedOK ==
  ASSUME NEW rs, NEW rows, RemovalsOK(rs, rows), NEW i \in DOMAIN rs
  PROVE  RemovalsOK(RemoveAt(rs, i), rows)
<1>1. rs \in Seq(RemovalType)
  BY DEF RemovalsOK
<1> DEFINE left == RemoveAt(rs, i)
<1>2. /\ Len(rs) \in Nat \ {0} /\ DOMAIN rs = 1..Len(rs)
      /\ left \in Seq(RemovalType) /\ DOMAIN left = 1..(Len(rs) - 1)
      /\ \A k \in 1..(Len(rs) - 1) : left[k] = IF k < i THEN rs[k] ELSE rs[k + 1]
  BY <1>1, RemoveAtIs
<1> HIDE DEF left
<1>3. \A k \in 1..(Len(rs) - 1) : left[k].phase = "deleted" => left[k].id \notin rows
  BY <1>2 DEF RemovalsOK
<1>4. RemovalsOK(left, rows)
  BY <1>2, <1>3 DEF RemovalsOK
<1> QED BY <1>4 DEF left

LEMMA AppendedOK ==
  ASSUME NEW rs, NEW rows, RemovalsOK(rs, rows), NEW id \in Opt(SessionIds), NEW here \in BOOLEAN
  PROVE  RemovalsOK(Append(rs, Removal(id, here)), rows)
<1> DEFINE r == Removal(id, here)
<1>1. r \in RemovalType /\ r.phase = "sent"
  BY DEF Removal, RemovalType
<1> HIDE DEF r
<1>2. rs \in Seq(RemovalType)
  BY DEF RemovalsOK
<1>3. RemovalsOK(Append(rs, r), rows)
  BY <1>1, <1>2, AppendIs DEF RemovalsOK
<1> QED BY <1>3 DEF r

(* A page is opened: the list is empty until its answer.                   *)
LEMMA GoToKeeps ==
  ASSUME SessionsInv, NEW page, NEW id, page = "session" => id \in SessionIds,
         NEW from \in Opt(SessionIds), from # None => from \notin stored,
         NEW left, RemovalsOK(left, stored), GoTo(page, id, from, left), stored' = stored
  PROVE  SessionsInv'
<1>1. at' = page /\ removals' = left
  BY DEF GoTo
<1>2. page = "sessions" => list' = NewList(from)
  BY DEF GoTo
<1>3. page = "session" => detail' \in DetailType
  BY DEF GoTo, NewDetail, DetailType, Opt
<1>4. AskList(1) \in Opt(ListCallType) /\ ~AskList(1).served
  BY DEF AskList, ListCallType, Turns, ListPages, Opt
<1>5. /\ NewList(from) \in ListType /\ NewList(from).from = from /\ NewList(from).rows = {}
      /\ NewList(from).call = AskList(1)
  BY <1>4 DEF NewList, ListType, Turns, ListPages
<1>6. SessionsTyped'
  BY <1>1, <1>2, <1>3, <1>5 DEF SessionsInv, SessionsTyped, RemovalsOK
<1>7. DeletedIsGone'
  BY <1>1 DEF DeletedIsGone, RemovalsOK
<1>8. ListIsFresh'
  BY <1>1, <1>2, <1>4, <1>5 DEF ListIsFresh
<1> QED BY <1>6, <1>7, <1>8 DEF SessionsInv

(* What is listed is what the list held, or what the server has answered.  *)
ListGoesOn(was, is) ==
    /\ is \in ListType /\ is.from = was.from
    /\ \/ is.rows = was.rows
       \/ was.call # None /\ was.call.served /\ is.rows = was.call.rows
    /\ is.call # None /\ is.call.served => is.call.rows \subseteq stored

LEMMA ListStep ==
  ASSUME SessionsInv,
         \/ \E page \in 1..Cardinality(SessionIds) : TurnPage(page)
         \/ GetSessions \/ ListAnswered \/ ListFailed
  PROVE  SessionsInv'
<1>1. at = "sessions" /\ UNCHANGED <<stored, at, detail, removals>>
  BY DEF TurnPage, ListShown, GetSessions, ListAnswered, ListFailed
<1>2. list \in ListType /\ stored \subseteq SessionIds
  BY <1>1 DEF SessionsInv, SessionsTyped
<1>3. ListGoesOn(list, list')
  <2>1. ASSUME NEW page \in 1..Cardinality(SessionIds), TurnPage(page)
        PROVE  ListGoesOn(list, list')
    <3> DEFINE c == AskList(page)
    <3>1. c \in ListCallType /\ ~c.served /\ page \in Turns
      BY DEF AskList, ListCallType, Turns, ListPages
    <3>2. list' = [list EXCEPT !.page = page, !.loading = TRUE, !.call = c]
      BY <2>1 DEF TurnPage
    <3> HIDE DEF c
    <3> QED BY <1>2, <3>1, <3>2 DEF ListType, ListGoesOn, Opt
  <2>2. CASE GetSessions
    <3> DEFINE rows == PageOf(stored, list.call.page, PageSize)
               pages == TotalPages(stored, PageSize)
               c == [list.call EXCEPT !.served = TRUE, !.rows = rows, !.pages = pages]
    <3>1. list.call \in ListCallType
      BY <1>2, <2>2 DEF GetSessions, ListType, Opt
    <3>2. rows \subseteq stored /\ rows \in SUBSET SessionIds
      BY <1>2 DEF PageOf
    <3>3. pages \in ListPages
      BY <1>2 DEF ListPages
    <3>4. list' = [list EXCEPT !.call = c]
      BY <2>2 DEF GetSessions
    <3> HIDE DEF rows, pages
    <3>5. c \in ListCallType /\ c.rows = rows
      BY <3>1, <3>2, <3>3 DEF ListCallType
    <3> HIDE DEF c
    <3> QED BY <1>2, <3>2, <3>4, <3>5 DEF ListType, ListGoesOn, Opt
  <2>3. CASE ListAnswered
    <3>1. list.call \in ListCallType /\ list.call # None /\ list.call.served
      BY <1>2, <2>3 DEF ListAnswered, ListType, Opt
    <3>2. list.call.rows \in SUBSET SessionIds /\ list.call.pages \in ListPages
      BY <3>1 DEF ListCallType
    <3>3. list' = [list EXCEPT !.rows = list.call.rows, !.pages = list.call.pages,
                               !.loading = FALSE, !.call = None, !.failed = FALSE]
      BY <2>3 DEF ListAnswered
    <3> QED BY <1>2, <3>1, <3>2, <3>3 DEF ListType, ListGoesOn, Opt
  <2>4. CASE ListFailed
    <3>1. list' = [list EXCEPT !.loading = FALSE, !.call = None, !.failed = TRUE]
      BY <2>4 DEF ListFailed
    <3> QED BY <1>2, <3>1 DEF ListType, ListGoesOn, Opt
  <2> QED BY <2>1, <2>2, <2>3, <2>4
<1>4. SessionsTyped' /\ DeletedIsGone'
  BY <1>1, <1>3 DEF SessionsInv, SessionsTyped, DeletedIsGone, ListGoesOn
<1>5. ListIsFresh'
  BY <1>1, <1>3 DEF SessionsInv, ListIsFresh, ListGoesOn
<1> QED BY <1>4, <1>5 DEF SessionsInv

LEMMA DetailStep ==
  ASSUME SessionsInv,
         GetSession \/ SessionLoaded \/ SessionNotLoaded \/ OnDelete \/ CloseModal \/ HandleDelete
  PROVE  SessionsInv'
<1>1. at = "session" /\ UNCHANGED <<stored, at, list>>
  BY DEF GetSession, SessionLoaded, SessionNotLoaded, OnDelete, CloseModal, HandleDelete,
     ContentShown, ModalShows, CanDelete
<1>2. detail \in DetailType
  BY <1>1 DEF SessionsInv, SessionsTyped
<1>3. detail' \in DetailType
  BY <1>2 DEF GetSession, SessionLoaded, SessionNotLoaded, OnDelete, CloseModal, HandleDelete,
     DetailType, Opt
<1>4. RemovalsOK(removals', stored)
  <2>1. RemovalsOK(removals, stored)
    BY DEF RemovalsOK, SessionsInv, SessionsTyped, DeletedIsGone
  <2>2. detail.session \in Opt(SessionIds)
    BY <1>2 DEF DetailType
  <2>3. removals' = removals \/ removals' = Append(removals, Removal(detail.session, TRUE))
    BY DEF GetSession, SessionLoaded, SessionNotLoaded, OnDelete, CloseModal, HandleDelete
  <2> QED BY <2>1, <2>2, <2>3, AppendedOK
<1> QED BY <1>1, <1>3, <1>4
        DEF SessionsInv, SessionsTyped, DeletedIsGone, ListIsFresh, RemovalsOK

LEMMA RemovalStep ==
  ASSUME SessionsInv, NEW i \in DOMAIN removals,
         DeleteSession(i) \/ Deleted(i) \/ NotDeleted(i)
  PROVE  SessionsInv'
<1>1. RemovalsOK(removals, stored)
  BY DEF RemovalsOK, SessionsInv, SessionsTyped, DeletedIsGone
<1>2. /\ removals \in Seq(RemovalType) /\ Len(removals) \in Nat
      /\ DOMAIN removals = 1..Len(removals)
      /\ \A k \in 1..Len(removals) : removals[k] \in RemovalType
  BY <1>1, LenProperties, ElementOfSeq DEF RemovalsOK
<1>3. CASE DeleteSession(i)
  <2>1. /\ UNCHANGED <<at, list, detail>> /\ stored' \subseteq stored
        /\ \E phase \in {"deleted", "refused"} :
              /\ removals' = [removals EXCEPT ![i].phase = phase]
              /\ phase = "deleted" => removals[i].id \notin stored'
    BY <1>3 DEF DeleteSession
  <2>2. PICK phase \in {"deleted", "refused"} :
              /\ removals' = [removals EXCEPT ![i].phase = phase]
              /\ phase = "deleted" => removals[i].id \notin stored'
    BY <2>1
  <2> DEFINE r == [removals[i] EXCEPT !.phase = phase]
  <2>3. r \in RemovalType /\ r.phase = phase /\ r.id = removals[i].id
    BY <1>2 DEF RemovalType
  <2>4. removals' = [removals EXCEPT ![i] = r]
    BY <2>2
  <2> HIDE DEF r
  <2>5. /\ removals' \in Seq(RemovalType) /\ DOMAIN removals' = 1..Len(removals)
        /\ \A k \in 1..Len(removals) : removals'[k] = IF k = i THEN r ELSE removals[k]
    BY <1>2, <2>3, <2>4, ExceptSeq
  <2>6. RemovalsOK(removals', stored')
    BY <1>1, <1>2, <2>1, <2>2, <2>3, <2>5 DEF RemovalsOK
  <2> QED BY <2>1, <2>6
          DEF SessionsInv, SessionsTyped, DeletedIsGone, ListIsFresh, RemovalsOK
<1> DEFINE left == RemoveAt(removals, i)
<1>4. RemovalsOK(left, stored)
  BY <1>1, RemovedOK
<1> HIDE DEF left
<1>5. CASE Deleted(i)
  <2>1. stored' = stored
    BY <1>5 DEF Deleted
  <2>2. CASE at = "sessions"
    <3>1. removals' = left /\ UNCHANGED <<at, list, detail>>
      BY <1>5, <2>2 DEF Deleted, left
    <3> QED BY <1>4, <2>1, <3>1
            DEF SessionsInv, SessionsTyped, DeletedIsGone, ListIsFresh, RemovalsOK
  <2>3. CASE at # "sessions"
    <3> DEFINE orphans == [k \in DOMAIN left |-> [left[k] EXCEPT !.here = FALSE]]
    <3>1. GoTo("sessions", None, removals[i].id, orphans)
      BY <1>5, <2>3 DEF Deleted, left
    <3>2. RemovalsOK(orphans, stored)
      BY <1>4, OrphansOK
    <3>3. removals[i].id \in Opt(SessionIds)
      BY <1>2 DEF RemovalType
    <3>4. removals[i].id \notin stored
      BY <1>1, <1>5 DEF Deleted, RemovalsOK
    <3> HIDE DEF orphans
    <3> QED BY <2>1, <3>1, <3>2, <3>3, <3>4, GoToKeeps
  <2> QED BY <2>2, <2>3
<1>6. CASE NotDeleted(i)
  <2>1. removals' = left /\ UNCHANGED <<stored, at, list>>
    BY <1>6 DEF NotDeleted, left
  <2>2. at = "session" => detail' \in DetailType
    BY <1>6 DEF NotDeleted, SessionsInv, SessionsTyped, DetailType
  <2> QED BY <1>4, <2>1, <2>2
          DEF SessionsInv, SessionsTyped, DeletedIsGone, ListIsFresh, RemovalsOK
<1> QED BY <1>3, <1>5, <1>6

LEMMA SessionsStepInv ==
  ASSUME SessionsInv, Turn \/ SessionsStep
  PROVE  SessionsInv'
<1>1. RemovalsOK(Orphans, stored)
  <2>1. RemovalsOK(removals, stored)
    BY DEF RemovalsOK, SessionsInv, SessionsTyped, DeletedIsGone
  <2> QED BY <2>1, OrphansOK DEF Orphans
<1>2. None \in Opt(SessionIds)
  BY DEF Opt
<1>3. ASSUME NEW page, NEW id, page = "session" => id \in SessionIds,
             GoTo(page, id, None, Orphans), stored' = stored
      PROVE  SessionsInv'
  BY <1>1, <1>2, <1>3, GoToKeeps
<1>4. CASE Turn
  <2>1. PICK page, id : Visit(page, id) /\ (page = "session" => id \in SessionIds)
    BY <1>4 DEF Turn
  <2> QED BY <1>3, <2>1 DEF Visit
<1>5. ASSUME NEW id \in SessionIds, OpenSession(id)
      PROVE  SessionsInv'
  BY <1>3, <1>5 DEF OpenSession
<1> QED BY <1>4, <1>5, ListStep, DetailStep, RemovalStep DEF SessionsStep

-----------------------------------------------------------------------------
LEMMA InitInv ==
  ASSUME Init
  PROVE  Inv
<1>1. UsersInv
  BY DEF Init, UsersInit, UsersInv
<1>2. SessionsInv
  BY DEF Init, SessionsInit, SessionsInv, SessionsTyped, DeletedIsGone, ListIsFresh
<1> QED BY <1>1, <1>2 DEF Inv

LEMMA NextInv ==
  ASSUME Inv, [Next]_vars
  PROVE  Inv'
<1>1. CASE UNCHANGED vars
  BY <1>1 DEF Inv, UsersInv, SessionsInv, SessionsTyped, DeletedIsGone, ListIsFresh,
     vars, users, sessions
<1>2. CASE (Turn \/ SessionsStep) /\ ShowTable /\ UNCHANGED <<accounts, doomed>>
  <2>1. SessionsInv'
    BY <1>2, SessionsStepInv DEF Inv
  <2>2. UsersInv'
    <3>1. table' \in {None, table, NewTable} /\ accounts' = accounts
      BY <1>2 DEF ShowTable
    <3> QED BY <3>1, NewTableInv DEF Inv, UsersInv
  <2> QED BY <2>1, <2>2 DEF Inv
<1>3. CASE UsersStep /\ UNCHANGED sessions
  <2>1. UsersInv'
    BY <1>3, UsersStepInv DEF Inv
  <2>2. SessionsInv'
    BY <1>3 DEF Inv, SessionsInv, SessionsTyped, DeletedIsGone, ListIsFresh, sessions
  <2> QED BY <2>1, <2>2 DEF Inv
<1> QED BY <1>1, <1>2, <1>3 DEF Next

(* Once nothing is under way the table shows the rows of the page, the     *)
(* size and the search that are set (useUsers' fetchUsers and the effects  *)
(* that call it), however its requests were overtaken, unless the last     *)
(* answer was one that had been overtaken, or asked for by a deletion.     *)
THEOREM TableIsAskedHolds == Spec => []TableIsAsked
<1>1. Inv => TableIsAsked
  <2> SUFFICES ASSUME UsersInv, Still, table.asked # None PROVE table.asked = Params(table)
    BY DEF Inv, TableIsAsked
  <2>1. table # None /\ table.calls = <<>> /\ AskedIsKey(table) /\ KeyIsShown(table)
    BY DEF Still, UsersInv, TableInv, Asking
  <2>2. AllOvertaken(table.calls)
    BY <2>1 DEF AllOvertaken
  <2> QED BY <2>1, <2>2 DEF AskedIsKey, KeyIsShown
<1> QED BY <1>1, InitInv, NextInv, PTL DEF Spec

(* Deletions are listed no more where the code asks anew: a user whose     *)
(* deletion was confirmed is not in the table (handleDeleteUser and its    *)
(* refetch) once nothing is under way, if the last answer to arrive had not*)
(* been overtaken and the last request did not fail; nor is a session in   *)
(* the list that its deletion opened (handleDelete).  A list that was shown*)
(* already is not asked for again, and keeps it.                           *)
THEOREM DeletedNotListedHolds == Spec => []DeletedNotListed
<1>1. UsersInv => DeletedUserNotListed
  <2> SUFFICES ASSUME UsersInv, Still, table.newest PROVE table.deleted \cap table.rows = {}
    BY DEF DeletedUserNotListed
  <2>1. table # None /\ table.calls = <<>> /\ RowsClean(table)
    BY DEF Still, UsersInv, TableInv
  <2> QED BY <2>1 DEF RowsClean
<1>2. SessionsInv => BroughtToFreshList
  BY DEF SessionsInv, ListIsFresh, BroughtToFreshList
<1>3. Inv => DeletedNotListed
  BY <1>1, <1>2 DEF Inv, DeletedNotListed
<1> QED BY <1>3, InitInv, NextInv, PTL DEF Spec
=============================================================================

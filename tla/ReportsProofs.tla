--------------------------- MODULE ReportsProofs ---------------------------
(***************************************************************************)
(* The charts count their range, and a tab's members and managers are as   *)
(* they should be, for any tables, calendar, requests and people.          *)
(*                                                                         *)
(* Dashboard.  The result of a chart is compared, bucket by bucket, with   *)
(* what is counted: Buckets sends every counted row to a unit of its       *)
(* bucket and back.  A range covers its days because a local day is an     *)
(* interval of hours (DayIsAnInterval), which CalendarAssumption gives.    *)
(* IInv says what each query left in the chart if nothing arrived since.   *)
(*                                                                         *)
(* TabMembership.  Its IInv is inductive.  Requests that only read are     *)
(* settled by MemberRequestMoves, the writes that take something away (a   *)
(* removal, either demotion) by MemberRowShrinks, and the two that add     *)
(* something (AddUserToTab, Promote) each by a lemma of its own.           *)
(***************************************************************************)
EXTENDS Reports, FiniteSetTheorems, SequenceTheorems, WellFoundedInduction, TLAPS

(* Dashboard's inductive invariant.                                        *)

(* What the hot queue holds is a stored message or an agent's answer, and  *)
(* its rows are numbered as they come.                                     *)
HotQueueOK ==
    /\ \A h \in hot : ~h.own =>
          IF h.type = "Comment"
          THEN [tab |-> h.tab, type |-> "Comment", at |-> h.of] \in comments
          ELSE [tab |-> h.tab, own |-> FALSE, at |-> h.of] \in messages
    /\ \A h \in hot : h.id <= Cardinality(hot)
    /\ \A g, h \in hot : g.id = h.id => g = h

(* The fields a chart has by its next query.                               *)
Fields(step) ==
    {"pc", "tab", "start", "end", "sender"} \union
    CASE step \in {"line", "pie"} -> {}
      [] step = "lineMessages" -> {"listComment"}
      [] step = "pieMessages" -> {"totalComment"}
      [] step = "pieHotComments" -> {"totalComment", "totalMessage"}
      [] step = "pieHotMessages" -> {"totalComment", "totalMessage", "hotQueueComment"}

LineFields == Fields("lineMessages") \union {"result"}
PieFields == Fields("pieHotMessages") \union {"hotQueueMessage"}

ChartOK ==
    \/ chart = Idle
    \/ /\ chart.pc \in {"line", "lineMessages", "pie", "pieMessages", "pieHotComments",
                        "pieHotMessages"}
       /\ DOMAIN chart = Fields(chart.pc)
    \/ chart.pc = "done" /\ DOMAIN chart \in {LineFields, PieFields}

(* Every bucket of a list counts a row.                                    *)
ListsOK ==
    chart.pc = "lineMessages" =>
        \A b \in DOMAIN chart.listComment : chart.listComment[b] \in Nat \ {0}

(* What a chart is to have of its range, and has if nothing arrived.       *)
ListComment ==
    IF chart.start = chart.end THEN CountCommentPerHour(chart.tab, Asked)
                               ELSE CountCommentPerDay(chart.tab, Asked)
ListMessage ==
    IF chart.start = chart.end THEN CountMessagePerHour(chart.tab, Asked)
                               ELSE CountMessagePerDay(chart.tab, Asked)
Result == MergeData(ListComment, IF chart.sender THEN ListMessage ELSE <<>>)
TotalComment == Cardinality(CountedComments(chart.tab, Asked))
TotalMessage == If(chart.sender, CountedMessages(chart.tab, Asked))
HotQueueComment == If(chart.sender, CountedHotQueue(chart.tab, "Comment", Asked))
HotQueueMessage == If(chart.sender, CountedHotQueue(chart.tab, "Message", Asked))

CountsOK ==
    chart # Idle /\ steady =>
        /\ "listComment" \in DOMAIN chart => chart.listComment = ListComment
        /\ "result" \in DOMAIN chart => chart.result = Result
        /\ "totalComment" \in DOMAIN chart => chart.totalComment = TotalComment
        /\ "totalMessage" \in DOMAIN chart => chart.totalMessage = TotalMessage
        /\ "hotQueueComment" \in DOMAIN chart => chart.hotQueueComment = HotQueueComment
        /\ "hotQueueMessage" \in DOMAIN chart => chart.hotQueueMessage = HotQueueMessage

IInv ==
    /\ TypeOK
    /\ chart # Idle => chart.sender \in BOOLEAN
    /\ IsFiniteSet(comments) /\ IsFiniteSet(messages) /\ IsFiniteSet(hot)
    /\ HotQueueOK /\ ChartOK /\ ListsOK /\ CountsOK

-----------------------------------------------------------------------------
(* Numbers and sets.                                                       *)

LEMMA Least ==
    ASSUME NEW S, S \subseteq Nat, S # {}
    PROVE  \E x \in S : \A y \in S : x <= y
<1> DEFINE R == OpToRel(<, Nat)
<1>1. PICK x \in S : \A y \in S : ~(<<y, x>> \in R)
  <2>1. IsWellFoundedOn(R, Nat)
    BY NatLessThanWellFounded
  <2> QED
    BY <2>1, WFMin
<1>2. ASSUME NEW y \in S PROVE x <= y
  <2>1. x \in Nat /\ y \in Nat /\ ~(y < x)
    BY <1>1 DEF OpToRel
  <2> QED
    BY <2>1
<1> QED
  BY <1>2

LEMMA Counted ==
    ASSUME NEW S, IsFiniteSet(S)
    PROVE  Cardinality(S) \in Nat /\ (Cardinality(S) = 0 <=> S = {})
BY FS_CardinalityType, FS_EmptySet

(* f puts the elements of S in buckets, and n says how many are in each.   *)
Filled(S, f, n, D) ==
    /\ \A r \in S : f[r] \in D
    /\ \A b \in D : n[b] = Cardinality({r \in S : f[r] = b})

Units(n, D) == UNION {{b} \X (1..n[b]) : b \in D}

(* As many units as there are elements in a bucket, in all the buckets     *)
(* together: as many as there are elements.                                *)
LEMMA Buckets ==
    ASSUME NEW S, IsFiniteSet(S), NEW f, NEW D, NEW n, Filled(S, f, n, D)
    PROVE  Cardinality(Units(n, D)) = Cardinality(S)
<1>0. /\ \A r \in S : f[r] \in D
      /\ \A b \in D : n[b] = Cardinality({r \in S : f[r] = b})
  BY DEF Filled
<1> DEFINE In(b) == {r \in S : f[r] = b}
           U == UNION {{b} \X (1..n[b]) : b \in D}
           Fits(g, b) == g \in [In(b) -> 1..n[b]]
                         /\ (\A r, s \in In(b) : g[r] = g[s] => r = s)
                         /\ (\A k \in 1..n[b] : \E r \in In(b) : g[r] = k)
           G(b) == CHOOSE g : Fits(g, b)
           F == [r \in S |-> <<f[r], G(f[r])[r]>>]
<1>1. ASSUME NEW b \in D PROVE Fits(G(b), b)
  <2>1. IsFiniteSet(In(b)) /\ n[b] = Cardinality(In(b))
    BY <1>0, FS_Subset
  <2>2. IsFiniteSet(1..n[b]) /\ Cardinality(1..n[b]) = n[b]
    BY <2>1, FS_CardinalityType, FS_Interval
  <2>3. PICK g : g \in Bijection(In(b), 1..n[b])
    BY <2>1, <2>2, FS_SameCardinalityBij DEF ExistsBijection
  <2>4. Fits(g, b)
    BY <2>3 DEF Bijection, Injection, Surjection, IsInjective
  <2> QED
    BY <2>4
<1>2. ASSUME NEW r \in S PROVE F[r] = <<f[r], G(f[r])[r]>> /\ F[r] \in U
  <2> DEFINE g == G(f[r])
  <2>1. f[r] \in D /\ r \in In(f[r])
    BY <1>0
  <2>2. g \in [In(f[r]) -> 1..n[f[r]]]
    BY <1>1, <2>1
  <2>3. g[r] \in 1..n[f[r]]
    BY <2>1, <2>2
  <2> HIDE DEF g
  <2>4. <<f[r], g[r]>> \in {f[r]} \X (1..n[f[r]])
    BY <2>3
  <2>5. <<f[r], g[r]>> \in U
    BY <2>1, <2>4
  <2>6. F[r] = <<f[r], g[r]>>
    BY DEF g
  <2> QED
    BY <2>5, <2>6 DEF g
<1> HIDE DEF G, U
<1>5. F \in [S -> U]
  <2>1. \A r \in S : <<f[r], G(f[r])[r]>> \in U
    BY <1>2
  <2> QED
    BY <2>1
<1> HIDE DEF F
<1>3. ASSUME NEW r \in S, NEW s \in S, F[r] = F[s] PROVE r = s
  <2> DEFINE b == f[r]
  <2>1. f[s] = b /\ G(b)[r] = G(b)[s] /\ b \in D
    BY <1>0, <1>2, <1>3
  <2>2. r \in In(b) /\ s \in In(b)
    BY <2>1
  <2>3. \A x, y \in In(b) : G(b)[x] = G(b)[y] => x = y
    BY <1>1, <2>1
  <2> QED
    BY <2>1, <2>2, <2>3
<1>4. ASSUME NEW u \in U PROVE \E r \in S : F[r] = u
  <2>1. PICK b \in D : \E k \in 1..n[b] : u = <<b, k>>
    BY DEF U
  <2>2. PICK k \in 1..n[b] : u = <<b, k>>
    BY <2>1
  <2>3. \A j \in 1..n[b] : \E r \in In(b) : G(b)[r] = j
    BY <1>1
  <2>4. PICK r \in In(b) : G(b)[r] = k
    BY <2>3
  <2>5. r \in S /\ f[r] = b
    OBVIOUS
  <2>6. F[r] = u
    BY <1>2, <2>2, <2>4, <2>5
  <2> QED
    BY <2>5, <2>6
<1>6. F \in Bijection(S, U)
  <2>1. IsInjective(F)
    BY <1>3, <1>5 DEF IsInjective
  <2>2. F \in Surjection(S, U)
    BY <1>4, <1>5 DEF Surjection
  <2> QED
    BY <1>5, <2>1, <2>2 DEF Bijection, Injection
<1> QED
  BY <1>6, FS_Bijection DEF ExistsBijection, U, Units
-----------------------------------------------------------------------------
(* The calendar.                                                           *)

LEMMA TimesAre ==
    /\ Times \subseteq Nat /\ HoursPerDay \in Nat \ {0}
    /\ \A t \in Times : t \in Nat /\ Local[t].day \in Int /\ Local[t].day \in Days
    /\ \A d \in Days : d \in Int /\ \E t \in Times : Local[t].day = d
BY TimeAssumption DEF Days

LEMMA DaysInOrder ==
    ASSUME NEW t \in Times, NEW u \in Times, t <= u
    PROVE  Local[t].day <= Local[u].day
BY CalendarAssumption

LEMMA MidnightIs ==
    ASSUME NEW d \in Days
    PROVE  /\ Midnight[d] \in Times /\ Local[Midnight[d]].day = d
           /\ \A t \in Times : Local[t].day = d => Midnight[d] <= t
<1> DEFINE S == {t \in Times : Local[t].day = d}
<1>1. S \subseteq Nat /\ S # {}
  BY TimesAre
<1>2. \E x \in S : \A y \in S : x <= y
  BY <1>1, Least
<1>3. Min(S) \in S /\ \A y \in S : Min(S) <= y
  BY <1>2 DEF Min
<1>4. Midnight[d] = Min(S)
  BY DEF Midnight
<1> QED
  BY <1>3, <1>4

LEMMA FromMidnight ==
    ASSUME NEW d \in Days, NEW t \in Times
    PROVE  Midnight[d] <= t <=> d <= Local[t].day
<1>1. Midnight[d] \in Nat /\ t \in Nat /\ d \in Int /\ Local[t].day \in Int
  BY MidnightIs, TimesAre
<1>2. Midnight[d] <= t => d <= Local[t].day
  BY MidnightIs, DaysInOrder
<1>3. t <= Midnight[d] => Local[t].day <= d
  BY MidnightIs, DaysInOrder
<1>4. Local[t].day = d => Midnight[d] <= t
  BY MidnightIs
<1> QED
  BY <1>1, <1>2, <1>3, <1>4

LEMMA DateRangeIs ==
    ASSUME NEW a \in Days, NEW e \in Days, NEW t \in Times
    PROVE  t \in DateRange(a, e) <=> a <= Local[t].day /\ t < Midnight[e] + HoursPerDay
BY FromMidnight DEF DateRange

(* The 24 hours from a midnight end in the next day at the latest.         *)
LEMMA RangeEnds ==
    ASSUME NEW d \in Days, NEW t \in Times, t < Midnight[d] + HoursPerDay
    PROVE  Local[t].day <= d + 1
<1>1. Midnight[d] \in Times /\ Local[Midnight[d]].day = d
  BY MidnightIs
<1> QED
  BY <1>1, CalendarAssumption

(* The hours of a day are an interval.                                     *)
LEMMA DayIsAnInterval ==
    ASSUME NEW d \in Days
    PROVE  /\ IsFiniteSet({u \in Times : Local[u].day = d})
           /\ \A t \in Times : Local[t].day = d =>
                  Midnight[d]..t \subseteq {u \in Times : Local[u].day = d}
<1>1. Midnight[d] \in Times /\ Local[Midnight[d]].day = d
  BY MidnightIs
<1>2. IsFiniteSet({u \in Times : Local[u].day = d})
  BY <1>1, CalendarAssumption
<1>3. ASSUME NEW t \in Times, Local[t].day = d, NEW u \in Midnight[d]..t
      PROVE  u \in Times /\ Local[u].day = d
  <2>1. u \in Times
    BY <1>1, CalendarAssumption
  <2>2. Midnight[d] <= u /\ u <= t
    BY <1>1, TimesAre
  <2>3. d <= Local[u].day
    BY <1>1, <2>1, <2>2, DaysInOrder
  <2>4. Local[u].day <= d
    BY <1>3, <2>1, <2>2, DaysInOrder
  <2> QED
    BY <2>1, <2>3, <2>4, TimesAre
<1> QED
  BY <1>2, <1>3

(* A day of as many hours as every other ends with them.                   *)
LEMMA WholeDay ==
    ASSUME NEW d \in Days, NEW t \in Times, LengthOf(d) = HoursPerDay, Midnight[d] <= t
    PROVE  t < Midnight[d] + HoursPerDay <=> Local[t].day <= d
<1> DEFINE D == {u \in Times : Local[u].day = d}
<1>1. /\ Midnight[d] \in Nat /\ t \in Nat /\ d \in Int /\ Local[t].day \in Int
      /\ HoursPerDay \in Nat
  BY MidnightIs, TimesAre
<1>2. IsFiniteSet(D) /\ Cardinality(D) = HoursPerDay
  BY DayIsAnInterval DEF LengthOf
<1>3. ASSUME Local[t].day <= d, t >= Midnight[d] + HoursPerDay PROVE FALSE
  <2>0. d <= Local[t].day
    BY FromMidnight
  <2>1. Local[t].day = d
    BY <1>1, <1>3, <2>0
  <2>2. Midnight[d]..t \subseteq D
    BY <2>1, DayIsAnInterval
  <2>3. Cardinality(Midnight[d]..t) <= Cardinality(D)
    BY <1>2, <2>2, FS_Subset
  <2>4. Cardinality(Midnight[d]..t) = t - Midnight[d] + 1
    BY <1>1, FS_Interval
  <2> QED
    BY <1>1, <1>2, <1>3, <2>3, <2>4
<1>4. ASSUME Local[t].day > d, t < Midnight[d] + HoursPerDay PROVE FALSE
  <2>1. ASSUME NEW u \in D PROVE u \in Midnight[d]..(t - 1)
    <3>1. u \in Nat /\ Midnight[d] <= u
      BY MidnightIs, TimesAre
    <3>2. u \in Times /\ Local[u].day = d
      OBVIOUS
    <3>3. ~(t <= u)
      BY <1>1, <1>4, <3>2, DaysInOrder
    <3> HIDE DEF D
    <3> QED
      BY <1>1, <3>1, <3>3
  <2>2. IsFiniteSet(Midnight[d]..(t - 1))
        /\ Cardinality(Midnight[d]..(t - 1)) = t - Midnight[d]
    <3> DEFINE m == Midnight[d]
               k == t - 1
    <3>1. m \in Int /\ k \in Int /\ m <= k + 1 /\ k - m + 1 = t - m
      BY <1>1
    <3> HIDE DEF m, k
    <3>2. IsFiniteSet(m..k) /\ Cardinality(m..k) = IF m > k THEN 0 ELSE k - m + 1
      BY <3>1, FS_Interval
    <3>3. Cardinality(m..k) = t - m
      BY <3>1, <3>2
    <3> QED
      BY <3>2, <3>3 DEF m, k
  <2>3. Cardinality(D) <= t - Midnight[d]
    BY <2>1, <2>2, FS_Subset
  <2> QED
    BY <1>1, <1>2, <1>4, <2>3
<1> QED
  BY <1>1, <1>3, <1>4

LEMMA RangeCovers == TypeOK => RangeCoversItsDays
<1> SUFFICES ASSUME TypeOK, chart # Idle, chart.start <= chart.end
             PROVE  LET asked == {t \in Times : chart.start <= Local[t].day
                                                /\ Local[t].day <= chart.end}
                    IN  /\ LengthOf(chart.end) = HoursPerDay => Asked = asked
                        /\ \A t \in (Asked \ asked) \union (asked \ Asked) :
                               Local[t].day \in {chart.end, chart.end + 1}
  BY DEF RangeCoversItsDays
<1> DEFINE a == chart.start
           e == chart.end
           asked == {t \in Times : a <= Local[t].day /\ Local[t].day <= e}
<1>1. a \in Days /\ e \in Days
  BY DEF TypeOK
<1>2. a \in Int /\ e \in Int /\ a <= e
  BY <1>1, TimesAre
<1>3. Asked = DateRange(a, e) /\ Asked \subseteq Times
  BY DEF Asked, DateRange
<1> HIDE DEF a, e
<1>4. ASSUME NEW t \in Times
      PROVE  t \in Asked <=> a <= Local[t].day /\ t < Midnight[e] + HoursPerDay
  BY <1>1, <1>3, DateRangeIs
<1>5. ASSUME LengthOf(e) = HoursPerDay, NEW t \in Times
      PROVE  t \in Asked <=> t \in asked
  <2>1. CASE Midnight[e] <= t
    BY <1>1, <1>4, <1>5, <2>1, WholeDay
  <2>2. CASE ~(Midnight[e] <= t)
    <3>1. Midnight[e] \in Nat /\ t \in Nat /\ HoursPerDay \in Nat \ {0} /\ Local[t].day \in Int
      BY <1>1, MidnightIs, TimesAre
    <3>2. t < Midnight[e] + HoursPerDay
      BY <2>2, <3>1
    <3>3. Local[t].day <= e
      BY <1>1, <1>2, <2>2, <3>1, FromMidnight
    <3> QED
      BY <1>4, <3>2, <3>3
  <2> QED
    BY <2>1, <2>2
<1>6. ASSUME NEW t \in Times, t \in Asked, t \notin asked
      PROVE  Local[t].day = e + 1
  <2>1. Local[t].day \in Int
    BY TimesAre
  <2>2. Local[t].day > e /\ t < Midnight[e] + HoursPerDay
    BY <1>2, <1>4, <1>6, <2>1
  <2>3. Local[t].day <= e + 1
    BY <1>1, <2>2, RangeEnds
  <2> QED
    BY <1>2, <2>1, <2>2, <2>3
<1>7. ASSUME NEW t \in Times, t \in asked, t \notin Asked
      PROVE  Local[t].day = e
  <2>1. /\ Local[t].day \in Int /\ Midnight[e] \in Nat /\ t \in Nat
        /\ HoursPerDay \in Nat \ {0}
    BY <1>1, MidnightIs, TimesAre
  <2>2. Midnight[e] <= t
    BY <1>4, <1>7, <2>1
  <2> QED
    BY <1>1, <1>2, <1>7, <2>1, <2>2, FromMidnight
<1> QED
  BY <1>3, <1>5, <1>6, <1>7 DEF a, e
-----------------------------------------------------------------------------
(* Lists of counts.                                                        *)

(* The list L says for every bucket how many elements of S are in it.      *)
CountsRows(L, S) ==
    \E f : /\ \A r \in S : f[r] \in DOMAIN L
           /\ \A b : Entry(L, b) = Cardinality({r \in S : f[r] = b})

Positive(L) == \A b \in DOMAIN L : L[b] \in Nat \ {0}

LEMMA ListIs ==
    ASSUME NEW S, IsFiniteSet(S), NEW f, NEW L,
           L = [b \in {f[r] : r \in S} |-> Cardinality({r \in S : f[r] = b})]
    PROVE  CountsRows(L, S) /\ Positive(L)
<1>1. DOMAIN L = {f[r] : r \in S}
  OBVIOUS
<1>2. ASSUME NEW b \in DOMAIN L PROVE L[b] \in Nat \ {0}
  <2> DEFINE T == {r \in S : f[r] = b}
  <2>1. T # {}
    BY <1>1
  <2>2. IsFiniteSet(T)
    BY FS_Subset
  <2>3. L[b] = Cardinality(T)
    BY <1>1
  <2> QED
    BY <2>1, <2>2, <2>3, Counted
<1>3. ASSUME NEW b PROVE Entry(L, b) = Cardinality({r \in S : f[r] = b})
  <2>1. CASE b \in DOMAIN L
    BY <1>1, <2>1 DEF Entry
  <2>2. CASE b \notin DOMAIN L
    <3>1. {r \in S : f[r] = b} = {}
      BY <1>1, <2>2
    <3> QED
      BY <2>2, <3>1, FS_EmptySet DEF Entry
  <2> QED
    BY <2>1, <2>2
<1>4. \A r \in S : f[r] \in DOMAIN L
  BY <1>1
<1>5. CountsRows(L, S)
  BY <1>3, <1>4, Zenon DEF CountsRows
<1> QED
  BY <1>2, <1>5 DEF Positive

LEMMA ListOfDays ==
    ASSUME NEW S, IsFiniteSet(S)
    PROVE  CountsRows(CountBy(UTCDay, S), S) /\ Positive(CountBy(UTCDay, S))
<1> DEFINE f == [r \in S |-> UTCDay(r.at)]
           L == CountBy(UTCDay, S)
<1>1. \A r \in S : f[r] = UTCDay(r.at)
  OBVIOUS
<1> HIDE DEF f
<1>2. /\ {f[r] : r \in S} = {UTCDay(r.at) : r \in S}
      /\ \A b : {r \in S : f[r] = b} = {r \in S : UTCDay(r.at) = b}
  BY <1>1
<1>3. L = [b \in {f[r] : r \in S} |-> Cardinality({r \in S : f[r] = b})]
  BY <1>2 DEF CountBy
<1> HIDE DEF L
<1>4. CountsRows(L, S) /\ Positive(L)
  BY <1>3, ListIs
<1> QED
  BY <1>4 DEF L

LEMMA ListOfHours ==
    ASSUME NEW S, IsFiniteSet(S)
    PROVE  CountsRows(CountBy(Hour, S), S) /\ Positive(CountBy(Hour, S))
<1> DEFINE f == [r \in S |-> Hour(r.at)]
           L == CountBy(Hour, S)
<1>1. \A r \in S : f[r] = Hour(r.at)
  OBVIOUS
<1> HIDE DEF f
<1>2. /\ {f[r] : r \in S} = {Hour(r.at) : r \in S}
      /\ \A b : {r \in S : f[r] = b} = {r \in S : Hour(r.at) = b}
  BY <1>1
<1>3. L = [b \in {f[r] : r \in S} |-> Cardinality({r \in S : f[r] = b})]
  BY <1>2 DEF CountBy
<1> HIDE DEF L
<1>4. CountsRows(L, S) /\ Positive(L)
  BY <1>3, ListIs
<1> QED
  BY <1>4 DEF L

(* The counted rows are rows.                                              *)
LEMMA CountedFinite ==
    ASSUME NEW tab, NEW type, NEW times,
           IsFiniteSet(comments), IsFiniteSet(messages), IsFiniteSet(hot)
    PROVE  /\ IsFiniteSet(CountedComments(tab, times))
           /\ IsFiniteSet(CountedMessages(tab, times))
           /\ IsFiniteSet(CountedHotQueue(tab, type, times))
           /\ IsFiniteSet(MessagesOfAllTabs(tab, times))
<1>1. IsFiniteSet(CountedComments(tab, times))
  BY FS_Subset DEF CountedComments
<1>2. IsFiniteSet(CountedMessages(tab, times))
  BY FS_Subset DEF CountedMessages
<1>3. IsFiniteSet(CountedHotQueue(tab, type, times))
  BY FS_Subset DEF CountedHotQueue
<1>4. IsFiniteSet(MessagesOfAllTabs(tab, times))
  BY FS_Subset DEF MessagesOfAllTabs
<1> QED
  BY <1>1, <1>2, <1>3, <1>4

LEMMA ListsCount ==
    ASSUME IsFiniteSet(comments), IsFiniteSet(messages), IsFiniteSet(hot)
    PROVE  /\ CountsRows(ListComment, CountedComments(chart.tab, Asked))
           /\ Positive(ListComment)
           /\ CountsRows(ListMessage, IF chart.start = chart.end
                                      THEN MessagesOfAllTabs(chart.tab, Asked)
                                      ELSE CountedMessages(chart.tab, Asked))
           /\ Positive(ListMessage)
<1>1. /\ IsFiniteSet(CountedComments(chart.tab, Asked))
      /\ IsFiniteSet(CountedMessages(chart.tab, Asked))
      /\ IsFiniteSet(MessagesOfAllTabs(chart.tab, Asked))
  BY CountedFinite
<1>2. /\ CountsRows(ListComment, CountedComments(chart.tab, Asked))
      /\ Positive(ListComment)
  BY <1>1, ListOfDays, ListOfHours DEF ListComment, CountCommentPerDay,
         CountCommentPerHour
<1>3. CASE chart.start = chart.end
  BY <1>1, <1>2, <1>3, ListOfHours DEF ListMessage, CountMessagePerHour
<1>4. CASE chart.start # chart.end
  BY <1>1, <1>2, <1>4, ListOfDays DEF ListMessage, CountMessagePerDay
<1> QED
  BY <1>3, <1>4

LEMMA EmptyList == CountsRows(<<>>, {}) /\ Positive(<<>>)
<1>1. DOMAIN <<>> = {}
  OBVIOUS
<1>2. \A b : Entry(<<>>, b) = 0
  BY <1>1 DEF Entry
<1>3. \A f, b : Cardinality({r \in {} : f[r] = b}) = 0
  BY FS_EmptySet
<1> QED
  BY <1>1, <1>2, <1>3 DEF CountsRows, Positive

LEMMA MergePositive ==
    ASSUME NEW L, NEW M, Positive(L), Positive(M)
    PROVE  \A b \in DOMAIN MergeData(L, M) :
               MergeData(L, M)[b].commentCount + MergeData(L, M)[b].messageCount > 0
BY DEF MergeData, Entry, Positive

(* A chart shows as many units as there are rows in its lists.             *)
LEMMA MergedComments ==
    ASSUME NEW L, NEW M, NEW S, IsFiniteSet(S), CountsRows(L, S)
    PROVE  Cardinality(UNION {{b} \X (1..MergeData(L, M)[b].commentCount) :
                                  b \in DOMAIN MergeData(L, M)}) = Cardinality(S)
<1> DEFINE R == MergeData(L, M)
           n == [b \in DOMAIN R |-> R[b].commentCount]
<1>a. PICK f : /\ \A r \in S : f[r] \in DOMAIN L
               /\ \A b : Entry(L, b) = Cardinality({r \in S : f[r] = b})
  BY DEF CountsRows
<1>1. /\ DOMAIN R = DOMAIN L \union DOMAIN M
      /\ \A b \in DOMAIN R : R[b].commentCount = Entry(L, b)
  BY DEF MergeData
<1> HIDE DEF R
<1>2. \A b \in DOMAIN R : n[b] = R[b].commentCount
  OBVIOUS
<1>3. \A b \in DOMAIN R : n[b] = Cardinality({r \in S : f[r] = b})
  BY <1>a, <1>1
<1>4. \A r \in S : f[r] \in DOMAIN R
  BY <1>a, <1>1
<1> DEFINE D == DOMAIN R
<1> HIDE DEF n, D
<1>5. Cardinality(Units(n, D)) = Cardinality(S)
  <2>1. Filled(S, f, n, D)
    BY <1>3, <1>4 DEF D, Filled
  <2> QED
    BY <2>1, Buckets
<1>6. {{b} \X (1..n[b]) : b \in DOMAIN R} = {{b} \X (1..R[b].commentCount) : b \in DOMAIN R}
  BY <1>2
<1> QED
  BY <1>5, <1>6 DEF R, D, Units

LEMMA MergedMessages ==
    ASSUME NEW L, NEW M, NEW S, IsFiniteSet(S), CountsRows(M, S)
    PROVE  Cardinality(UNION {{b} \X (1..MergeData(L, M)[b].messageCount) :
                                  b \in DOMAIN MergeData(L, M)}) = Cardinality(S)
<1> DEFINE R == MergeData(L, M)
           n == [b \in DOMAIN R |-> R[b].messageCount]
<1>a. PICK f : /\ \A r \in S : f[r] \in DOMAIN M
               /\ \A b : Entry(M, b) = Cardinality({r \in S : f[r] = b})
  BY DEF CountsRows
<1>1. /\ DOMAIN R = DOMAIN L \union DOMAIN M
      /\ \A b \in DOMAIN R : R[b].messageCount = Entry(M, b)
  BY DEF MergeData
<1> HIDE DEF R
<1>2. \A b \in DOMAIN R : n[b] = R[b].messageCount
  OBVIOUS
<1>3. \A b \in DOMAIN R : n[b] = Cardinality({r \in S : f[r] = b})
  BY <1>a, <1>1
<1>4. \A r \in S : f[r] \in DOMAIN R
  BY <1>a, <1>1
<1> DEFINE D == DOMAIN R
<1> HIDE DEF n, D
<1>5. Cardinality(Units(n, D)) = Cardinality(S)
  <2>1. Filled(S, f, n, D)
    BY <1>3, <1>4 DEF D, Filled
  <2> QED
    BY <2>1, Buckets
<1>6. {{b} \X (1..n[b]) : b \in DOMAIN R} = {{b} \X (1..R[b].messageCount) : b \in DOMAIN R}
  BY <1>2
<1> QED
  BY <1>5, <1>6 DEF R, D, Units

-----------------------------------------------------------------------------
(* The steps.                                                              *)

LEMMA InitIInv == Init => IInv
<1> SUFFICES ASSUME Init PROVE IInv
  OBVIOUS
<1> USE DEF Init
<1>1. TypeOK
  BY DEF TypeOK, Done, IsLine, Idle
<1>2. IsFiniteSet({})
  BY FS_EmptySet
<1>3. HotQueueOK /\ ChartOK /\ ListsOK /\ CountsOK
  BY DEF HotQueueOK, ChartOK, ListsOK, CountsOK, Idle
<1> QED
  BY <1>1, <1>2, <1>3 DEF IInv

(* The request is as it was, and no row is counted that was not there.     *)
ChartStays == UNCHANGED chart /\ chart.pc # "done" /\ steady' = (chart = Idle)

LEMMA ArrivalKeeps ==
    ASSUME IInv, ChartStays
    PROVE  /\ (chart # Idle => chart.tab \in Tabs /\ {chart.start, chart.end} \subseteq Days)'
           /\ (Done /\ IsLine => \A b \in DOMAIN chart.result :
                  chart.result[b].commentCount + chart.result[b].messageCount > 0)'
           /\ (chart # Idle => chart.sender \in BOOLEAN)'
           /\ ChartOK' /\ ListsOK' /\ CountsOK'
<1>1. /\ (chart # Idle => chart.tab \in Tabs /\ {chart.start, chart.end} \subseteq Days)'
      /\ (chart # Idle => chart.sender \in BOOLEAN)'
      /\ ~Done'
  BY DEF IInv, TypeOK, ChartStays, Done
<1>2. ChartOK' /\ ListsOK'
  BY DEF IInv, ChartOK, ListsOK, ChartStays
<1>3. CountsOK'
  BY DEF CountsOK, ChartStays
<1> QED
  BY <1>1, <1>2, <1>3

LEMMA CommentArrivesIInv ==
    ASSUME IInv, NEW c \in Comments, CommentArrives(c)
    PROVE  IInv'
<1> USE DEF CommentArrives, Arrival
<1>1. ChartStays
  BY DEF ChartStays
<1>2. TypeOK'
  BY <1>1, ArrivalKeeps DEF IInv, TypeOK
<1>3. IsFiniteSet(comments') /\ IsFiniteSet(messages') /\ IsFiniteSet(hot')
  BY FS_AddElement DEF IInv
<1>4. HotQueueOK'
  BY DEF IInv, HotQueueOK
<1> QED
  BY <1>1, <1>2, <1>3, <1>4, ArrivalKeeps DEF IInv

LEMMA MessageArrivesIInv ==
    ASSUME IInv, NEW m \in Messages, MessageArrives(m)
    PROVE  IInv'
<1> USE DEF MessageArrives, Arrival
<1>1. ChartStays
  BY DEF ChartStays
<1>2. TypeOK'
  BY <1>1, ArrivalKeeps DEF IInv, TypeOK, Messages
<1>3. IsFiniteSet(comments') /\ IsFiniteSet(messages') /\ IsFiniteSet(hot')
  BY FS_AddElement DEF IInv
<1>4. HotQueueOK'
  BY DEF IInv, HotQueueOK
<1> QED
  BY <1>1, <1>2, <1>3, <1>4, ArrivalKeeps DEF IInv

LEMMA HotQueueMessageArrivesIInv ==
    ASSUME IInv, NEW h \in HotQueue, HotQueueMessageArrives(h)
    PROVE  IInv'
<1> USE DEF HotQueueMessageArrives, Arrival
<1>1. ChartStays
  BY DEF ChartStays
<1>2. TypeOK'
  BY <1>1, ArrivalKeeps DEF IInv, TypeOK
<1>3. IsFiniteSet(comments') /\ IsFiniteSet(messages') /\ IsFiniteSet(hot')
  BY FS_AddElement DEF IInv
<1>4. HotQueueOK'
  <2>1. \A g \in hot' : ~g.own =>
            IF g.type = "Comment"
            THEN [tab |-> g.tab, type |-> "Comment", at |-> g.of] \in comments'
            ELSE [tab |-> g.tab, own |-> FALSE, at |-> g.of] \in messages'
    BY DEF IInv, HotQueueOK
  <2>2. Cardinality(hot) \in Nat /\ h \notin hot
    BY FS_CardinalityType DEF IInv, HotQueueOK
  <2>3. Cardinality(hot') = Cardinality(hot) + 1
    BY <2>2, FS_AddElement DEF IInv
  <2>4. \A g \in hot : g.id \in Nat
    BY DEF IInv, TypeOK, HotQueue
  <2>5. \A g \in hot' : g.id <= Cardinality(hot')
    BY <2>2, <2>3, <2>4 DEF IInv, HotQueueOK
  <2>6. \A g, k \in hot' : g.id = k.id => g = k
    BY <2>2, <2>4 DEF IInv, HotQueueOK
  <2> QED
    BY <2>1, <2>5, <2>6 DEF HotQueueOK
<1> QED
  BY <1>1, <1>2, <1>3, <1>4, ArrivalKeeps DEF IInv

LEMMA BeginIInv ==
    ASSUME IInv, NEW kind \in {"line", "pie"}, NEW tab \in Tabs, NEW start \in Days,
           NEW end \in Days, Begin(kind, tab, start, end)
    PROVE  IInv'
<1> USE DEF Begin, rows
<1>1. /\ chart' = [pc |-> kind, tab |-> tab, start |-> start, end |-> end,
                   sender |-> tab \in pageKnown]
      /\ UNCHANGED <<comments, messages, hot, pageKnown, steady>>
  OBVIOUS
<1>2. /\ chart'.pc = kind /\ chart'.tab = tab /\ chart'.start = start /\ chart'.end = end
      /\ DOMAIN chart' = {"pc", "tab", "start", "end", "sender"}
  BY <1>1
<1>3. chart'.sender \in BOOLEAN
  BY <1>1
<1>4. TypeOK'
  BY <1>1, <1>2 DEF IInv, TypeOK, Done
<1>5. IsFiniteSet(comments') /\ IsFiniteSet(messages') /\ IsFiniteSet(hot') /\ HotQueueOK'
  BY <1>1 DEF IInv, HotQueueOK
<1>6. ChartOK' /\ ListsOK' /\ CountsOK'
  BY <1>2 DEF ChartOK, Fields, ListsOK, CountsOK
<1> QED
  BY <1>3, <1>4, <1>5, <1>6 DEF IInv

LEMMA WithIs ==
    ASSUME NEW r, NEW to, chart' = With(r, to), "pc" \in DOMAIN chart
    PROVE  /\ DOMAIN chart' = DOMAIN chart \union DOMAIN r
           /\ chart'.pc = to
           /\ \A x \in DOMAIN r : x # "pc" => chart'[x] = r[x]
           /\ \A x \in DOMAIN chart : x # "pc" /\ x \notin DOMAIN r => chart'[x] = chart[x]
BY DEF With

(* A query changes what it adds to the chart.                              *)
Kept ==
    /\ UNCHANGED <<comments, messages, hot, pageKnown, steady>>
    /\ chart # Idle /\ chart' # Idle
    /\ chart'.tab = chart.tab /\ chart'.start = chart.start /\ chart'.end = chart.end
    /\ chart'.sender = chart.sender

LEMMA KeptCounts ==
    ASSUME Kept
    PROVE  /\ UNCHANGED <<ListComment, ListMessage, Result>>
           /\ UNCHANGED <<TotalComment, TotalMessage, HotQueueComment, HotQueueMessage>>
<1> USE DEF Kept
<1>1. Asked' = Asked
  BY DEF Asked
<1>2. /\ CountedComments(chart.tab, Asked)' = CountedComments(chart.tab, Asked)
      /\ CountedMessages(chart.tab, Asked)' = CountedMessages(chart.tab, Asked)
      /\ CountedHotQueue(chart.tab, "Comment", Asked)'
             = CountedHotQueue(chart.tab, "Comment", Asked)
      /\ CountedHotQueue(chart.tab, "Message", Asked)'
             = CountedHotQueue(chart.tab, "Message", Asked)
      /\ MessagesOfAllTabs(chart.tab, Asked)' = MessagesOfAllTabs(chart.tab, Asked)
  BY <1>1 DEF CountedComments, CountedMessages, CountedHotQueue, MessagesOfAllTabs
<1>3. UNCHANGED <<TotalComment, TotalMessage, HotQueueComment, HotQueueMessage>>
  BY <1>2 DEF TotalComment, TotalMessage, HotQueueComment, HotQueueMessage, If
<1>4. ListComment' = ListComment
  BY <1>2 DEF ListComment, CountCommentPerHour, CountCommentPerDay, CountBy
<1>5. ListMessage' = ListMessage
  BY <1>2 DEF ListMessage, CountMessagePerHour, CountMessagePerDay, CountBy
<1>6. Result' = Result
  BY <1>4, <1>5 DEF Result
<1> QED
  BY <1>3, <1>4, <1>5, <1>6

LEMMA KeptOK ==
    ASSUME IInv, Kept
    PROVE  /\ comments' \subseteq Comments /\ messages' \subseteq Messages
           /\ hot' \subseteq HotQueue /\ pageKnown' \subseteq Tabs
           /\ chart'.tab \in Tabs /\ {chart'.start, chart'.end} \subseteq Days
           /\ chart'.sender \in BOOLEAN
           /\ IsFiniteSet(comments') /\ IsFiniteSet(messages') /\ IsFiniteSet(hot')
           /\ HotQueueOK'
BY DEF IInv, TypeOK, Kept, HotQueueOK

(* The chart's pc and fields before a query, and what adding one keeps.    *)
LEMMA ReadsKeep ==
    ASSUME IInv, NEW from, NEW to, NEW r, Reads(from, to, r),
           from \in {"line", "lineMessages", "pie", "pieMessages", "pieHotComments",
                     "pieHotMessages"},
           to # "idle",
           NEW x \in {"listComment", "result", "totalComment", "totalMessage",
                      "hotQueueComment", "hotQueueMessage"},
           DOMAIN r = {x}
    PROVE  /\ Kept
           /\ chart.pc = from /\ DOMAIN chart = Fields(from)
           /\ chart'.pc = to /\ DOMAIN chart' = Fields(from) \union {x}
<1> USE DEF Reads, rows
<1>1. chart.pc = from /\ chart # Idle
  BY DEF Idle
<1>2. DOMAIN chart = Fields(from)
  BY <1>1 DEF IInv, ChartOK
<1>0. \A y \in {"pc", "tab", "start", "end", "sender"} : y \notin DOMAIN r
  OBVIOUS
<1>3. {"pc", "tab", "start", "end", "sender"} \subseteq DOMAIN chart
  BY <1>2 DEF Fields
<1>4. chart' = With(r, to) /\ "pc" \in DOMAIN chart
  BY <1>3
<1>5. /\ DOMAIN chart' = DOMAIN chart \union DOMAIN r
      /\ chart'.pc = to
      /\ \A y \in DOMAIN r : y # "pc" => chart'[y] = r[y]
      /\ \A y \in DOMAIN chart : y # "pc" /\ y \notin DOMAIN r => chart'[y] = chart[y]
  BY <1>4, WithIs
<1>6. chart' # Idle
  BY <1>5 DEF Idle
<1>7. /\ chart'.tab = chart.tab /\ chart'.start = chart.start /\ chart'.end = chart.end
      /\ chart'.sender = chart.sender
  BY <1>0, <1>3, <1>5
<1>8. Kept
  BY <1>1, <1>6, <1>7 DEF Kept
<1> QED
  BY <1>1, <1>2, <1>5, <1>8

LEMMA ReadsLeave ==
    ASSUME NEW from, NEW to, NEW r, Reads(from, to, r),
           NEW x, x \in DOMAIN chart, x # "pc", x \notin DOMAIN r
    PROVE  chart'[x] = chart[x]
BY DEF Reads, With

LEMMA ReadsAdd ==
    ASSUME NEW from, NEW to, NEW r, Reads(from, to, r),
           NEW x, x \in DOMAIN r, x # "pc"
    PROVE  chart'[x] = r[x]
BY DEF Reads, With
LEMMA LineCommentsIInv ==
    ASSUME IInv, LineComments
    PROVE  IInv'
<1> DEFINE r == [listComment |-> ListComment]
<1>1. Reads("line", "lineMessages", r)
  BY DEF LineComments, ListComment
<1>2. /\ DOMAIN r = {"listComment"} /\ r["listComment"] = ListComment
  OBVIOUS
<1> HIDE DEF r
<1>3. /\ Kept /\ chart'.pc = "lineMessages"
      /\ DOMAIN chart' = Fields("line") \union {"listComment"}
      /\ chart'.listComment = ListComment
  <2>1. /\ Kept /\ chart'.pc = "lineMessages"
        /\ DOMAIN chart' = Fields("line") \union {"listComment"}
    BY <1>1, <1>2, ReadsKeep
  <2>2. chart'["listComment"] = r["listComment"]
    BY <1>1, <1>2, ReadsAdd
  <2> QED
    BY <1>2, <2>1, <2>2
<1>4. DOMAIN chart' = {"pc", "tab", "start", "end", "sender", "listComment"}
  BY <1>3 DEF Fields
<1>5. TypeOK'
  BY <1>3, KeptOK DEF TypeOK, Done
<1>6. ChartOK'
  BY <1>3, <1>4 DEF ChartOK, Fields
<1>7. ListsOK'
  BY <1>3, ListsCount DEF ListsOK, IInv, Positive
<1>8. CountsOK'
  BY <1>3, <1>4, KeptCounts DEF CountsOK
<1> QED
  BY <1>3, <1>5, <1>6, <1>7, <1>8, KeptOK DEF IInv

LEMMA LineMessagesIInv ==
    ASSUME IInv, LineMessages
    PROVE  IInv'
<1> DEFINE M == IF chart.sender THEN ListMessage ELSE <<>>
           R == MergeData(chart.listComment, M)
           r == [result |-> R]
<1>1. Reads("lineMessages", "done", r)
  BY DEF LineMessages, ListMessage
<1>2. /\ DOMAIN r = {"result"} /\ r["result"] = R
  OBVIOUS
<1> HIDE DEF r
<1>3. /\ Kept /\ chart'.pc = "done"
      /\ chart.pc = "lineMessages" /\ DOMAIN chart = Fields("lineMessages")
      /\ DOMAIN chart' = Fields("lineMessages") \union {"result"}
      /\ chart'.result = R /\ chart'.listComment = chart.listComment
  <2>1. "listComment" \in Fields("lineMessages")
    BY DEF Fields
  <2>2. /\ Kept /\ chart.pc = "lineMessages" /\ DOMAIN chart = Fields("lineMessages")
        /\ chart'.pc = "done" /\ DOMAIN chart' = Fields("lineMessages") \union {"result"}
    BY <1>1, <1>2, ReadsKeep
  <2>3. chart'["listComment"] = chart["listComment"]
    BY <1>1, <1>2, <2>1, <2>2, ReadsLeave
  <2>q. chart'["result"] = r["result"]
    BY <1>1, <1>2, ReadsAdd
  <2> QED
    BY <1>2, <2>2, <2>q, <2>3
<1>4. DOMAIN chart' = {"pc", "tab", "start", "end", "sender", "listComment", "result"}
  BY <1>3 DEF Fields
<1>5. \A b \in DOMAIN R : R[b].commentCount + R[b].messageCount > 0
  <2>1. Positive(M)
    BY ListsCount, EmptyList DEF IInv
  <2>2. Positive(chart.listComment)
    BY <1>3 DEF IInv, ListsOK, Positive
  <2> HIDE DEF M
  <2> QED
    BY <2>1, <2>2, MergePositive
<1>6. steady => R = Result
  <2>1. steady => chart.listComment = ListComment
    BY <1>3 DEF IInv, CountsOK, Kept, Fields
  <2> QED
    BY <2>1 DEF Result
<1> HIDE DEF R, M
<1>7. TypeOK'
  BY <1>3, <1>5, KeptOK DEF TypeOK
<1>8. ChartOK' /\ ListsOK'
  BY <1>3 DEF ChartOK, LineFields, ListsOK
<1>9. CountsOK'
  <2>1. steady => chart.listComment = ListComment
    BY <1>3 DEF IInv, CountsOK, Kept, Fields
  <2>2. steady' = steady /\ Result' = Result /\ ListComment' = ListComment
    BY <1>3, KeptCounts DEF Kept
  <2> QED
    BY <1>3, <1>4, <1>6, <2>1, <2>2 DEF CountsOK
<1> QED
  BY <1>3, <1>7, <1>8, <1>9, KeptOK DEF IInv

LEMMA PieCommentsIInv ==
    ASSUME IInv, PieComments
    PROVE  IInv'
<1> DEFINE r == [totalComment |-> TotalComment]
<1>1. Reads("pie", "pieMessages", r)
  BY DEF PieComments, TotalComment
<1>2. /\ DOMAIN r = {"totalComment"} /\ r["totalComment"] = TotalComment
  OBVIOUS
<1> HIDE DEF r
<1>3. /\ Kept /\ chart'.pc = "pieMessages"
      /\ DOMAIN chart' = Fields("pie") \union {"totalComment"}
      /\ chart'.totalComment = TotalComment
  <2>1. /\ Kept /\ chart'.pc = "pieMessages"
        /\ DOMAIN chart' = Fields("pie") \union {"totalComment"}
    BY <1>1, <1>2, ReadsKeep
  <2>2. chart'["totalComment"] = r["totalComment"]
    BY <1>1, <1>2, ReadsAdd
  <2> QED
    BY <1>2, <2>1, <2>2
<1>4. DOMAIN chart' = {"pc", "tab", "start", "end", "sender", "totalComment"}
  BY <1>3 DEF Fields
<1>5. TypeOK'
  BY <1>3, KeptOK DEF TypeOK, Done
<1>6. ChartOK' /\ ListsOK'
  BY <1>3, <1>4 DEF ChartOK, Fields, ListsOK
<1>7. CountsOK'
  BY <1>3, <1>4, KeptCounts DEF CountsOK
<1> QED
  BY <1>3, <1>5, <1>6, <1>7, KeptOK DEF IInv

LEMMA PieMessagesIInv ==
    ASSUME IInv, PieMessages
    PROVE  IInv'
<1> DEFINE r == [totalMessage |-> TotalMessage]
<1>1. Reads("pieMessages", "pieHotComments", r)
  BY DEF PieMessages, TotalMessage
<1>2. /\ DOMAIN r = {"totalMessage"} /\ r["totalMessage"] = TotalMessage
  OBVIOUS
<1> HIDE DEF r
<1>3. /\ Kept /\ chart'.pc = "pieHotComments"
      /\ DOMAIN chart = Fields("pieMessages")
      /\ DOMAIN chart' = Fields("pieMessages") \union {"totalMessage"}
      /\ chart'.totalMessage = TotalMessage
      /\ chart'.totalComment = chart.totalComment
  <2>1. "totalComment" \in Fields("pieMessages")
    BY DEF Fields
  <2>2. /\ Kept /\ chart.pc = "pieMessages" /\ DOMAIN chart = Fields("pieMessages")
        /\ chart'.pc = "pieHotComments"
             /\ DOMAIN chart' = Fields("pieMessages") \union {"totalMessage"}
    BY <1>1, <1>2, ReadsKeep
  <2>3. chart'["totalComment"] = chart["totalComment"]
    BY <1>1, <1>2, <2>1, <2>2, ReadsLeave
  <2>q. chart'["totalMessage"] = r["totalMessage"]
    BY <1>1, <1>2, ReadsAdd
  <2> QED
    BY <1>2, <2>2, <2>q, <2>3
<1>4. DOMAIN chart' = {"pc", "tab", "start", "end", "sender", "totalComment", "totalMessage"}
  BY <1>3 DEF Fields
<1>5. TypeOK'
  BY <1>3, KeptOK DEF TypeOK, Done
<1>6. ChartOK' /\ ListsOK'
  BY <1>3, <1>4 DEF ChartOK, Fields, ListsOK
<1>7. CountsOK'
  <2>1. steady => chart.totalComment = TotalComment
    BY <1>3 DEF IInv, CountsOK, Kept, Fields
  <2>2. steady' = steady /\ TotalComment' = TotalComment /\ TotalMessage' = TotalMessage
    BY <1>3, KeptCounts DEF Kept
  <2> QED
    BY <1>3, <1>4, <2>1, <2>2 DEF CountsOK
<1> QED
  BY <1>3, <1>5, <1>6, <1>7, KeptOK DEF IInv

LEMMA PieHotCommentsIInv ==
    ASSUME IInv, PieHotComments
    PROVE  IInv'
<1> DEFINE r == [hotQueueComment |-> HotQueueComment]
<1>1. Reads("pieHotComments", "pieHotMessages", r)
  BY DEF PieHotComments, HotQueueComment
<1>2. /\ DOMAIN r = {"hotQueueComment"} /\ r["hotQueueComment"] = HotQueueComment
  OBVIOUS
<1> HIDE DEF r
<1>3. /\ Kept /\ chart'.pc = "pieHotMessages"
      /\ DOMAIN chart = Fields("pieHotComments")
      /\ DOMAIN chart' = Fields("pieHotComments") \union {"hotQueueComment"}
      /\ chart'.hotQueueComment = HotQueueComment
      /\ chart'.totalComment = chart.totalComment
      /\ chart'.totalMessage = chart.totalMessage
  <2>1. {"totalComment", "totalMessage"} \subseteq Fields("pieHotComments")
    BY DEF Fields
  <2>2. /\ Kept /\ chart.pc = "pieHotComments" /\ DOMAIN chart = Fields("pieHotComments")
        /\ chart'.pc = "pieHotMessages"
             /\ DOMAIN chart' = Fields("pieHotComments") \union {"hotQueueComment"}
    BY <1>1, <1>2, ReadsKeep
  <2>3. chart'["totalComment"] = chart["totalComment"]
    BY <1>1, <1>2, <2>1, <2>2, ReadsLeave
  <2>4. chart'["totalMessage"] = chart["totalMessage"]
    BY <1>1, <1>2, <2>1, <2>2, ReadsLeave
  <2>q. chart'["hotQueueComment"] = r["hotQueueComment"]
    BY <1>1, <1>2, ReadsAdd
  <2> QED
    BY <1>2, <2>2, <2>q, <2>3, <2>4
<1>4. DOMAIN chart' = {"pc", "tab", "start", "end", "sender", "totalComment", "totalMessage",
                       "hotQueueComment"}
  BY <1>3 DEF Fields
<1>5. TypeOK'
  BY <1>3, KeptOK DEF TypeOK, Done
<1>6. ChartOK' /\ ListsOK'
  BY <1>3, <1>4 DEF ChartOK, Fields, ListsOK
<1>7. CountsOK'
  <2>1. steady => chart.totalComment = TotalComment /\ chart.totalMessage = TotalMessage
    BY <1>3 DEF IInv, CountsOK, Kept, Fields
  <2>2. /\ steady' = steady /\ TotalComment' = TotalComment /\ TotalMessage' = TotalMessage
        /\ HotQueueComment' = HotQueueComment
    BY <1>3, KeptCounts DEF Kept
  <2> QED
    BY <1>3, <1>4, <2>1, <2>2 DEF CountsOK
<1> QED
  BY <1>3, <1>5, <1>6, <1>7, KeptOK DEF IInv

LEMMA PieHotMessagesIInv ==
    ASSUME IInv, PieHotMessages
    PROVE  IInv'
<1> DEFINE r == [hotQueueMessage |-> HotQueueMessage]
<1>1. Reads("pieHotMessages", "done", r)
  BY DEF PieHotMessages, HotQueueMessage
<1>2. /\ DOMAIN r = {"hotQueueMessage"} /\ r["hotQueueMessage"] = HotQueueMessage
  OBVIOUS
<1> HIDE DEF r
<1>3. /\ Kept /\ chart'.pc = "done"
      /\ DOMAIN chart = Fields("pieHotMessages")
      /\ DOMAIN chart' = Fields("pieHotMessages") \union {"hotQueueMessage"}
      /\ chart'.hotQueueMessage = HotQueueMessage
      /\ chart'.totalComment = chart.totalComment
      /\ chart'.totalMessage = chart.totalMessage
      /\ chart'.hotQueueComment = chart.hotQueueComment
  <2>1. {"totalComment", "totalMessage", "hotQueueComment"} \subseteq Fields("pieHotMessages")
    BY DEF Fields
  <2>2. /\ Kept /\ chart.pc = "pieHotMessages" /\ DOMAIN chart = Fields("pieHotMessages")
        /\ chart'.pc = "done" /\ DOMAIN chart' = Fields("pieHotMessages")
             \union {"hotQueueMessage"}
    BY <1>1, <1>2, ReadsKeep
  <2>3. chart'["totalComment"] = chart["totalComment"]
    BY <1>1, <1>2, <2>1, <2>2, ReadsLeave
  <2>4. chart'["totalMessage"] = chart["totalMessage"]
    BY <1>1, <1>2, <2>1, <2>2, ReadsLeave
  <2>5. chart'["hotQueueComment"] = chart["hotQueueComment"]
    BY <1>1, <1>2, <2>1, <2>2, ReadsLeave
  <2>q. chart'["hotQueueMessage"] = r["hotQueueMessage"]
    BY <1>1, <1>2, ReadsAdd
  <2> QED
    BY <1>2, <2>2, <2>q, <2>3, <2>4, <2>5
<1>4. DOMAIN chart' = {"pc", "tab", "start", "end", "sender", "totalComment", "totalMessage",
                       "hotQueueComment", "hotQueueMessage"}
  BY <1>3 DEF Fields
<1>5. TypeOK'
  BY <1>3, <1>4, KeptOK DEF TypeOK, IsLine
<1>6. ChartOK' /\ ListsOK'
  BY <1>3 DEF ChartOK, PieFields, ListsOK
<1>7. CountsOK'
  <2>1. steady => /\ chart.totalComment = TotalComment /\ chart.totalMessage = TotalMessage
                  /\ chart.hotQueueComment = HotQueueComment
    BY <1>3 DEF IInv, CountsOK, Kept, Fields
  <2>2. /\ steady' = steady /\ TotalComment' = TotalComment /\ TotalMessage' = TotalMessage
        /\ HotQueueComment' = HotQueueComment /\ HotQueueMessage' = HotQueueMessage
    BY <1>3, KeptCounts DEF Kept
  <2> QED
    BY <1>3, <1>4, <2>1, <2>2 DEF CountsOK
<1> QED
  BY <1>3, <1>5, <1>6, <1>7, KeptOK DEF IInv

LEMMA NextIInv == IInv /\ [Next]_vars => IInv'
<1> SUFFICES ASSUME IInv, [Next]_vars PROVE IInv'
  OBVIOUS
<1>1. ASSUME NEW c \in Comments, CommentArrives(c) PROVE IInv'
  BY <1>1, CommentArrivesIInv
<1>2. ASSUME NEW m \in Messages, MessageArrives(m) PROVE IInv'
  BY <1>2, MessageArrivesIInv
<1>3. ASSUME NEW h \in HotQueue, HotQueueMessageArrives(h) PROVE IInv'
  BY <1>3, HotQueueMessageArrivesIInv
<1>4. ASSUME NEW tab \in Tabs, NEW start \in Days, NEW end \in Days,
             GetStatisticForTab(tab, start, end) \/ GetPieChartForTab(tab, start, end)
      PROVE  IInv'
  BY <1>4, BeginIInv DEF GetStatisticForTab, GetPieChartForTab
<1>5. CASE LineComments \/ LineMessages
  BY <1>5, LineCommentsIInv, LineMessagesIInv
<1>6. CASE PieComments \/ PieMessages \/ PieHotComments \/ PieHotMessages
  BY <1>6, PieCommentsIInv, PieMessagesIInv, PieHotCommentsIInv, PieHotMessagesIInv
<1>7. CASE UNCHANGED vars
  <2>1. UNCHANGED <<comments, messages, hot, pageKnown, chart, steady>>
    BY <1>7 DEF vars, rows
  <2>2. TypeOK' /\ HotQueueOK' /\ ChartOK' /\ ListsOK'
    BY <2>1 DEF IInv, TypeOK, Done, IsLine, HotQueueOK, ChartOK, ListsOK
  <2>3. CountsOK'
    <3>1. CASE chart = Idle
      BY <2>1, <3>1 DEF CountsOK
    <3>2. CASE chart # Idle
      <4>1. Kept
        BY <2>1, <3>2 DEF Kept
      <4> QED
        BY <2>1, <4>1, KeptCounts DEF IInv, CountsOK
    <3> QED
      BY <3>1, <3>2
  <2> QED
    BY <2>1, <2>2, <2>3 DEF IInv
<1> QED
  BY <1>1, <1>2, <1>3, <1>4, <1>5, <1>6, <1>7 DEF Next
-----------------------------------------------------------------------------
(* What a chart says of the rows.                                          *)

LEMMA LineIs ==
    ASSUME IInv, Done, IsLine, steady
    PROVE  /\ chart.result = MergeData(ListComment, IF chart.sender THEN ListMessage ELSE <<>>)
           /\ IsFiniteSet(CountedComments(chart.tab, Asked))
           /\ IsFiniteSet(CountedMessages(chart.tab, Asked))
           /\ IsFiniteSet(MessagesOfAllTabs(chart.tab, Asked))
<1>1. chart # Idle
  BY DEF Done, Idle
<1>2. chart.result = Result
  BY <1>1 DEF IInv, CountsOK, IsLine
<1> QED
  BY <1>2, CountedFinite DEF Result, IInv

LEMMA DaysDo == IInv => DaysAddUp
<1> SUFFICES ASSUME IInv, Done, IsLine, chart.start # chart.end, steady
             PROVE  /\ Cardinality(ShownComments)
                           = Cardinality(CountedComments(chart.tab, Asked))
                    /\ Cardinality(ShownMessages)
                           = If(chart.sender, CountedMessages(chart.tab, Asked))
  BY DEF DaysAddUp
<1> DEFINE M == IF chart.sender THEN ListMessage ELSE <<>>
           S == CountedComments(chart.tab, Asked)
           T == IF chart.sender THEN CountedMessages(chart.tab, Asked) ELSE {}
<1>1. /\ chart.result = MergeData(ListComment, M)
      /\ IsFiniteSet(S) /\ IsFiniteSet(T)
  BY LineIs, FS_EmptySet
<1>2. CountsRows(ListComment, S) /\ CountsRows(M, T)
  BY ListsCount, EmptyList DEF IInv
<1>3. Cardinality(T) = If(chart.sender, CountedMessages(chart.tab, Asked))
  BY FS_EmptySet DEF If
<1> HIDE DEF M, S, T
<1>4. Cardinality(ShownComments) = Cardinality(S)
  BY <1>1, <1>2, MergedComments DEF ShownComments
<1>5. Cardinality(ShownMessages) = Cardinality(T)
  BY <1>1, <1>2, MergedMessages DEF ShownMessages
<1> QED
  BY <1>3, <1>4, <1>5 DEF S

LEMMA HoursDo == IInv => HoursExceedByOtherTabs
<1> DEFINE S == CountedMessages(chart.tab, Asked)
           T == {m \in messages : m.tab # chart.tab /\ m.at \in Asked}
           U == MessagesOfAllTabs(chart.tab, Asked)
<1> SUFFICES ASSUME IInv, Done, IsLine, chart.start = chart.end, chart.sender, steady
             PROVE  Cardinality(ShownMessages) = Cardinality(S) + Cardinality(T)
  BY DEF HoursExceedByOtherTabs
<1>1. chart.result = MergeData(ListComment, ListMessage) /\ IsFiniteSet(U)
  BY LineIs
<1>2. CountsRows(ListMessage, U)
  BY ListsCount DEF IInv
<1>3. Cardinality(ShownMessages) = Cardinality(U)
  BY <1>1, <1>2, MergedMessages DEF ShownMessages
<1>4. U = S \union T /\ S \intersect T = {}
  BY DEF CountedMessages, MessagesOfAllTabs
<1>5. IsFiniteSet(S) /\ IsFiniteSet(T)
  BY FS_Subset DEF CountedMessages, IInv
<1> HIDE DEF S, T, U
<1>6. Cardinality(S \union T) = Cardinality(S) + Cardinality(T) - Cardinality({})
  BY <1>4, <1>5, FS_Union
<1>7. Cardinality(S) \in Nat /\ Cardinality(T) \in Nat /\ Cardinality({}) = 0
  BY <1>5, FS_CardinalityType, FS_EmptySet
<1> QED
  BY <1>3, <1>4, <1>6, <1>7

LEMMA PieIs ==
    ASSUME IInv, Done, IsPie, steady
    PROVE  /\ chart # Idle
           /\ chart.totalComment = TotalComment /\ chart.totalMessage = TotalMessage
           /\ chart.hotQueueComment = HotQueueComment
           /\ chart.hotQueueMessage = HotQueueMessage
<1>1. chart # Idle
  BY DEF Done, Idle
<1>2. DOMAIN chart = PieFields
  BY <1>1 DEF IInv, ChartOK, Done, IsPie, LineFields, Fields
<1> QED
  BY <1>1, <1>2 DEF IInv, CountsOK, PieFields, Fields

(* A row of the hot queue that is not Extra is the first of a message that *)
(* the chart counts.                                                       *)
LEMMA CommentShare ==
    ASSUME IInv, chart # Idle
    PROVE  Cardinality(CountedHotQueue(chart.tab, "Comment", Asked))
               <= Cardinality(CountedComments(chart.tab, Asked)) + Cardinality(Extra("Comment"))
<1> DEFINE C == CountedHotQueue(chart.tab, "Comment", Asked)
           E == Extra("Comment")
           D == C \ E
           T == CountedComments(chart.tab, Asked)
           f == [h \in D |-> [tab |-> chart.tab, type |-> "Comment", at |-> h.of]]
<1>1. chart.tab \in Tabs
  BY DEF IInv, TypeOK
<1>2. ASSUME NEW h \in D PROVE f[h] \in T
  <2>1. h \in hot /\ h.tab = chart.tab /\ h.type = "Comment" /\ ~h.own /\ h.of \in Asked
    BY DEF CountedHotQueue, Extra
  <2> QED
    BY <2>1 DEF IInv, HotQueueOK, CountedComments
<1>3. ASSUME NEW g \in D, NEW h \in D, f[g] = f[h] PROVE g = h
  <2>1. g.of = h.of
    BY <1>3
  <2>2. ~(g.id < h.id) /\ ~(h.id < g.id)
    BY <2>1 DEF Extra
  <2>3. g \in hot /\ h \in hot
    BY DEF CountedHotQueue
  <2>4. g.id \in Nat /\ h.id \in Nat
    BY <2>3 DEF IInv, TypeOK, HotQueue
  <2> QED
    BY <2>2, <2>3, <2>4 DEF IInv, HotQueueOK
<1>4. f \in Injection(D, T)
  BY <1>2, <1>3 DEF Injection, IsInjective
<1>5. IsFiniteSet(C) /\ IsFiniteSet(T)
  BY CountedFinite DEF IInv
<1>6. E \in SUBSET C
  BY DEF Extra
<1>7. D \union E = C /\ D \intersect E = {}
  BY <1>6
<1>8. IsFiniteSet(E) /\ IsFiniteSet(D)
  BY <1>5, <1>6, FS_Subset, FS_Difference
<1> HIDE DEF C, E, D, T, f
<1>9. Cardinality(D) <= Cardinality(T)
  BY <1>4, <1>5, FS_Injection
<1>10. Cardinality(D \union E) = Cardinality(D) + Cardinality(E) - Cardinality(D \intersect E)
  BY <1>8, FS_Union
<1>11. /\ Cardinality({}) = 0
       /\ Cardinality(T) \in Nat /\ Cardinality(D) \in Nat /\ Cardinality(E) \in Nat
  BY <1>5, <1>8, FS_EmptySet, FS_CardinalityType
<1>12. Cardinality(C) <= Cardinality(T) + Cardinality(E)
  <2>1. Cardinality(D \union E) = Cardinality(C)
    BY <1>7
  <2>2. Cardinality(D \intersect E) = 0
    BY <1>7, <1>11
  <2>3. Cardinality(C) = Cardinality(D) + Cardinality(E)
    BY <1>10, <1>11, <2>1, <2>2
  <2> QED
    BY <1>9, <1>11, <2>3
<1> QED
  BY <1>12 DEF C, E, T

LEMMA MessageShare ==
    ASSUME IInv, chart # Idle
    PROVE  Cardinality(CountedHotQueue(chart.tab, "Message", Asked))
               <= Cardinality(CountedMessages(chart.tab, Asked)) + Cardinality(Extra("Message"))
<1> DEFINE C == CountedHotQueue(chart.tab, "Message", Asked)
           E == Extra("Message")
           D == C \ E
           T == CountedMessages(chart.tab, Asked)
           f == [h \in D |-> [tab |-> chart.tab, own |-> FALSE, at |-> h.of]]
<1>1. chart.tab \in Tabs
  BY DEF IInv, TypeOK
<1>2. ASSUME NEW h \in D PROVE f[h] \in T
  <2>1. h \in hot /\ h.tab = chart.tab /\ h.type = "Message" /\ ~h.own /\ h.of \in Asked
    BY DEF CountedHotQueue, Extra
  <2> QED
    BY <2>1 DEF IInv, HotQueueOK, CountedMessages
<1>3. ASSUME NEW g \in D, NEW h \in D, f[g] = f[h] PROVE g = h
  <2>1. g.of = h.of
    BY <1>3
  <2>2. ~(g.id < h.id) /\ ~(h.id < g.id)
    BY <2>1 DEF Extra
  <2>3. g \in hot /\ h \in hot
    BY DEF CountedHotQueue
  <2>4. g.id \in Nat /\ h.id \in Nat
    BY <2>3 DEF IInv, TypeOK, HotQueue
  <2> QED
    BY <2>2, <2>3, <2>4 DEF IInv, HotQueueOK
<1>4. f \in Injection(D, T)
  BY <1>2, <1>3 DEF Injection, IsInjective
<1>5. IsFiniteSet(C) /\ IsFiniteSet(T)
  BY CountedFinite DEF IInv
<1>6. E \in SUBSET C
  BY DEF Extra
<1>7. D \union E = C /\ D \intersect E = {}
  BY <1>6
<1>8. IsFiniteSet(E) /\ IsFiniteSet(D)
  BY <1>5, <1>6, FS_Subset, FS_Difference
<1> HIDE DEF C, E, D, T, f
<1>9. Cardinality(D) <= Cardinality(T)
  BY <1>4, <1>5, FS_Injection
<1>10. Cardinality(D \union E) = Cardinality(D) + Cardinality(E) - Cardinality(D \intersect E)
  BY <1>8, FS_Union
<1>11. /\ Cardinality({}) = 0
       /\ Cardinality(T) \in Nat /\ Cardinality(D) \in Nat /\ Cardinality(E) \in Nat
  BY <1>5, <1>8, FS_EmptySet, FS_CardinalityType
<1>12. Cardinality(C) <= Cardinality(T) + Cardinality(E)
  <2>1. Cardinality(D \union E) = Cardinality(C)
    BY <1>7
  <2>2. Cardinality(D \intersect E) = 0
    BY <1>7, <1>11
  <2>3. Cardinality(C) = Cardinality(D) + Cardinality(E)
    BY <1>10, <1>11, <2>1, <2>2
  <2> QED
    BY <1>9, <1>11, <2>3
<1> QED
  BY <1>12 DEF C, E, T

LEMMA SharesAre == IInv => ShareIsAPart
<1> SUFFICES ASSUME IInv, Done, IsPie, steady
             PROVE  /\ chart.hotQueueComment
                           <= chart.totalComment + Cardinality(Extra("Comment"))
                    /\ chart.hotQueueMessage
                           <= chart.totalMessage + Cardinality(Extra("Message"))
  BY DEF ShareIsAPart
<1>1. /\ chart # Idle
      /\ chart.totalComment = TotalComment /\ chart.totalMessage = TotalMessage
      /\ chart.hotQueueComment = HotQueueComment
      /\ chart.hotQueueMessage = HotQueueMessage
  BY PieIs
<1>2. TotalComment \in Nat
  BY CountedFinite, FS_CardinalityType DEF TotalComment, IInv
<1>3. Cardinality(Extra("Comment")) \in Nat /\ Cardinality(Extra("Message")) \in Nat
  <2>1. /\ Extra("Comment") \in SUBSET hot
        /\ Extra("Message") \in SUBSET hot
    BY DEF Extra, CountedHotQueue
  <2> QED
    BY <2>1, FS_Subset, FS_CardinalityType DEF IInv
<1>4. HotQueueComment <= TotalComment + Cardinality(Extra("Comment"))
  <2>1. CASE chart.sender
    BY <2>1, <1>1, CommentShare DEF HotQueueComment, TotalComment, If
  <2>2. CASE ~chart.sender
    BY <2>2, <1>2, <1>3 DEF HotQueueComment, If
  <2> QED
    BY <2>1, <2>2
<1>5. HotQueueMessage <= TotalMessage + Cardinality(Extra("Message"))
  <2>1. CASE chart.sender
    BY <2>1, <1>1, MessageShare DEF HotQueueMessage, TotalMessage, If
  <2>2. CASE ~chart.sender
    BY <2>2, <1>3 DEF HotQueueMessage, TotalMessage, If
  <2> QED
    BY <2>1, <2>2
<1> QED
  BY <1>1, <1>4, <1>5

(* A line chart counts every row of its days, an hourly one those of the   *)
(* other tabs besides, and a range is that of its local days up to the     *)
(* change of the clock.                                                    *)
THEOREM ChartsCount == Spec => []ChartsCountTheirRange
<1>1. IInv => ChartsCountTheirRange
  BY DaysDo, HoursDo, RangeCovers DEF ChartsCountTheirRange, IInv
<1> QED
  BY <1>1, InitIInv, NextIInv, PTL DEF Spec

(* The share of the hot queue exceeds the whole by no more than the rows   *)
(* queued in the range of messages from before it and the rows that save a *)
(* message again, unless something was stored between the chart's queries. *)
THEOREM SharesArePart == Spec => []ShareIsAPart
BY SharesAre, InitIInv, NextIInv, PTL DEF Spec
-----------------------------------------------------------------------------
(* The members of a tab.                                                   *)

(* No row exists and nothing is in flight at the start.                    *)
LEMMA MemberInitIInv == Members!Init => Members!IInv
<1> SUFFICES ASSUME Members!Init PROVE Members!IInv
    OBVIOUS
<1> USE DEF Members!Init, Members!Ids
<1>1. Members!TypeOK
    BY DEF Members!TypeOK, Members!Steps, Members!Jobs, Members!NoJob, Members!Locals,
           Members!Ops, Members!Roles
<1>2. ASSUME NEW p \in Handlers PROVE Members!LocalOK(pc[p], job[p])
    BY DEF Members!LocalOK, Members!RequestOK, Members!EntryOK, Members!CheckOK,
           Members!LookOK, Members!Placed, Members!NoJob, Members!Locals
<1>3. Members!SinceOK /\ Members!DuplicatesOnlyFromRacingAssigns /\ Members!VacancyExplained
    BY DEF Members!SinceOK, Members!DuplicatesOnlyFromRacingAssigns,
           Members!VacancyExplained
<1>4. Members!TwoManagersOnlyFromRacingHandOvers
    BY DEF Members!TwoManagersOnlyFromRacingHandOvers, Members!Managers
<1> QED
    BY <1>1, <1>2, <1>3, <1>4 DEF Members!IInv

(* What a request leaves behind when it demoted a manager: the request     *)
(* still stands for it, or the tab is excused.                             *)
MemberAnswered(p, j) ==
    \A t \in Tabs : Members!HandingOver(p, t) =>
        \/ j.demoted /\ j.tab = t
        \/ Members!Managers(t)' # {}
        \/ t \in excused'

(* A request that moves to step s with locals j and writes no row.         *)
LEMMA MemberRequestMoves ==
    ASSUME Members!IInv, NEW p \in Handlers, NEW s \in Members!Steps, NEW j \in Members!Jobs,
           pc' = [pc EXCEPT ![p] = s],
           job' = [job EXCEPT ![p] = j],
           UNCHANGED <<userInTab, promotions, managed>>,
           excused \subseteq excused', excused' \subseteq Tabs,
           MemberAnswered(p, j),
           Members!LocalOK(s, j)
    PROVE  Members!IInv'
<1> USE DEF Members!IInv
<1>1. Members!TypeOK'
    BY DEF Members!TypeOK
<1>2. ASSUME NEW q \in Handlers PROVE Members!LocalOK(pc[q], job[q])'
    <2>1. Members!LocalOK(pc'[q], job'[q])
        BY DEF Members!TypeOK
    <2> QED
        BY <2>1 DEF Members!LocalOK, Members!RequestOK, Members!EntryOK, Members!CheckOK,
               Members!LookOK, Members!Membership, Members!Managers, Members!Ids
<1>3. (Members!SinceOK /\ Members!DuplicatesOnlyFromRacingAssigns
        /\ Members!TwoManagersOnlyFromRacingHandOvers)'
    BY DEF Members!SinceOK, Members!DuplicatesOnlyFromRacingAssigns,
           Members!TwoManagersOnlyFromRacingHandOvers, Members!Managers, Members!Ids
<1>4. Members!VacancyExplained'
    <2>1. \A t : Members!Managers(t)' = Members!Managers(t)
        BY DEF Members!Managers, Members!Ids
    <2> SUFFICES ASSUME NEW t \in managed, Members!Managers(t) = {}, t \notin excused'
                 PROVE  \E q \in Handlers : Members!HandingOver(q, t)'
        BY <2>1 DEF Members!VacancyExplained
    <2>2. PICK q \in Handlers : Members!HandingOver(q, t)
        BY DEF Members!VacancyExplained
    <2>3. CASE q # p
        BY <2>2, <2>3 DEF Members!HandingOver, Members!TypeOK
    <2>4. CASE q = p
        <3>1. t \in Tabs /\ Members!HandingOver(p, t) /\ Members!Managers(t)' = {}
            BY <2>1, <2>2, <2>4 DEF Members!TypeOK
        <3>2. j.demoted /\ j.tab = t
            BY <3>1 DEF MemberAnswered
        <3>3. job'[p] = j
            BY DEF Members!TypeOK
        <3> QED
            BY <3>2, <3>3 DEF Members!HandingOver
    <2> QED
        BY <2>3, <2>4
<1> QED
    BY <1>1, <1>2, <1>3, <1>4

(* A request that has left, or whose loop goes on, owes nothing.           *)
MemberClear(s, j) ==
    /\ s \in {"idle", "check"}
    /\ j \in Members!Jobs
    /\ ~j.demoted /\ j.checkedAt = 0 /\ j.lookedAt = 0

LEMMA MemberClearOK ==
    ASSUME NEW s, NEW j, MemberClear(s, j), Len(userInTab) \in Nat, promotions \in Nat
    PROVE  Members!LocalOK(s, j)
    BY DEF MemberClear, Members!LocalOK, Members!RequestOK, Members!EntryOK,
           Members!CheckOK, Members!LookOK, Members!Placed

LEMMA MemberLeaveClear == MemberClear("idle", Members!NoJob)
    BY DEF MemberClear, Members!NoJob, Members!Locals, Members!Jobs, Members!Ops,
           Members!Roles

(* Where the loop of an assign or unassign goes.                           *)
LEMMA MemberNextPairClear ==
    ASSUME Members!TypeOK, NEW p \in Handlers, Members!NextPair(p)
    PROVE  \E s \in {"idle", "check"}, j \in Members!Jobs :
              /\ MemberClear(s, j)
              /\ pc' = [pc EXCEPT ![p] = s]
              /\ job' = [job EXCEPT ![p] = j]
<1> DEFINE rest == job[p].todo \ {[userId |-> job[p].user, tabId |-> job[p].tab]}
           j == Members!Locals(job[p].op, rest, NoUser, NoTab, "SUPPORTER")
<1>1. CASE rest = {}
    BY <1>1, MemberLeaveClear DEF Members!NextPair, Members!Leave, MemberClear
<1>2. CASE rest # {}
    <2>1. job[p].op \in Members!Ops /\ job[p].todo \subseteq Members!Pairs
        BY DEF Members!TypeOK, Members!Jobs
    <2>2. MemberClear("check", j)
        BY <2>1 DEF MemberClear, Members!Locals, Members!Jobs, Members!Roles
    <2>3. pc' = [pc EXCEPT ![p] = "check"] /\ job' = [job EXCEPT ![p] = j]
        BY <1>2 DEF Members!NextPair, Members!Goto
    <2> QED
        BY <2>2, <2>3 DEF MemberClear
<1> QED
    BY <1>1, <1>2

(* Only a request at one of its last two steps can have demoted anybody.   *)
LEMMA MemberNobodyDemoted ==
    ASSUME Members!IInv, NEW p \in Handlers, pc[p] \notin {"target", "update"}, NEW j
    PROVE  MemberAnswered(p, j)
    BY DEF Members!IInv, Members!LocalOK, Members!RequestOK, MemberAnswered,
           Members!HandingOver

(* A request that leaves excuses the tab it abandons.                      *)
LEMMA MemberLeaverAnswers ==
    ASSUME Members!IInv, NEW p \in Handlers, NEW j, UNCHANGED userInTab,
           Members!Abandoned(job[p]) \subseteq excused'
    PROVE  MemberAnswered(p, j)
<1>1. \A t : Members!Managers(t)' = Members!Managers(t)
    BY DEF Members!Managers, Members!Ids
<1> QED
    BY <1>1 DEF Members!Abandoned, MemberAnswered, Members!HandingOver

(* A new request.                                                          *)
LEMMA MemberStartIInv ==
    ASSUME Members!IInv, NEW p \in Handlers,
           Members!AssignUsers(p) \/ Members!UnassignUsers(p) \/ Members!UpdateRoleUser(p)
    PROVE  Members!IInv'
<1>0. /\ pc[p] = "idle"
      /\ UNCHANGED <<userInTab, Members!history>>
      /\ Len(userInTab) \in Nat /\ promotions \in Nat /\ excused \subseteq Tabs
    BY LenProperties DEF Members!AssignUsers, Members!UnassignUsers,
           Members!UpdateRoleUser, Members!Start, Members!IInv, Members!TypeOK
<1>1. ASSUME NEW s \in Members!Steps, NEW j \in Members!Jobs, Members!Start(p, s, j),
               Members!LocalOK(s, j)
      PROVE  Members!IInv'
    BY <1>0, <1>1, MemberNobodyDemoted, MemberRequestMoves DEF Members!Start,
           Members!history
<1>2. ASSUME NEW op \in {"assign", "unassign"},
             NEW us \in SUBSET Users, NEW ts \in SUBSET Tabs
      PROVE  LET j == Members!Locals(op, [userId : us, tabId : ts], NoUser, NoTab,
                             "SUPPORTER")
             IN  j \in Members!Jobs /\ Members!LocalOK("check", j)
    BY <1>0 DEF Members!Locals, Members!Jobs, Members!Ops, Members!Pairs, Members!Roles,
           Members!LocalOK, Members!RequestOK, Members!EntryOK, Members!CheckOK,
           Members!LookOK, Members!Placed
<1>3. ASSUME NEW u \in Users, NEW t \in Tabs, NEW r \in Members!Roles, NEW s,
             \/ s = "manager" /\ r = "MANAGER"
             \/ s = "target" /\ r = "SUPPORTER"
      PROVE  LET j == Members!Locals("role", {}, u, t, r)
             IN  j \in Members!Jobs /\ Members!LocalOK(s, j)
    BY <1>0, <1>3 DEF Members!Locals, Members!Jobs, Members!Ops, Members!LocalOK,
           Members!RequestOK, Members!EntryOK, Members!CheckOK, Members!LookOK,
           Members!Placed
<1>4. CASE Members!AssignUsers(p)
    BY <1>1, <1>2, <1>4 DEF Members!AssignUsers, Members!Steps
<1>5. CASE Members!UnassignUsers(p)
    BY <1>1, <1>2, <1>5 DEF Members!UnassignUsers, Members!Steps
<1>6. CASE Members!UpdateRoleUser(p)
    BY <1>1, <1>3, <1>6 DEF Members!UpdateRoleUser, Members!Steps, Members!Roles
<1> QED
    BY <1>4, <1>5, <1>6

(* The locals of a request that found what it looked for.                  *)
LEMMA MemberAtLocals ==
    ASSUME NEW j \in Members!Jobs, NEW pair \in Members!Pairs, NEW e \in Nat, NEW n \in Nat,
           NEW i, i = Members!At(j, pair, e, n)
    PROVE  /\ i \in Members!Jobs
           /\ i.user = pair.userId /\ i.tab = pair.tabId /\ i.entry = e
           /\ i.checkedAt = n /\ i.lookedAt = j.lookedAt /\ i.demoted = j.demoted
    BY DEF Members!At, Members!Jobs, Members!Pairs

LEMMA MemberLookedUpLocals ==
    ASSUME NEW j \in Members!Jobs, NEW e \in Nat, promotions \in Nat
    PROVE  /\ Members!LookedUp(j, e) \in Members!Jobs
           /\ Members!LookedUp(j, e).user = j.user
           /\ Members!LookedUp(j, e).tab = j.tab
           /\ Members!LookedUp(j, e).role = j.role
           /\ Members!LookedUp(j, e).entry = e
           /\ Members!LookedUp(j, e).checkedAt = j.checkedAt
           /\ Members!LookedUp(j, e).lookedAt = promotions
           /\ Members!LookedUp(j, e).crowded = Members!Crowded(j.tab)
           /\ Members!LookedUp(j, e).demoted = j.demoted
<1>1. PICK c \in BOOLEAN : c = Members!Crowded(j.tab)
    BY DEF Members!Crowded
<1> QED
    BY <1>1 DEF Members!LookedUp, Members!Jobs

(* The steps that look something up.                                       *)
LEMMA MemberLookupIInv ==
    ASSUME Members!IInv, NEW p \in Handlers,
           \/ Members!CheckAssign(p) \/ Members!CheckUnassign(p) \/ Members!GetManagerOfTab(p)
           \/ Members!FindTarget(p)
    PROVE  Members!IInv'
<1> DEFINE j == job[p]
           n == Len(userInTab)
<1>0. /\ pc[p] \in Members!Steps /\ j \in Members!Jobs /\ Members!LocalOK(pc[p], j)
      /\ n \in Nat /\ promotions \in Nat /\ excused \subseteq Tabs
    BY LenProperties DEF Members!IInv, Members!TypeOK
<1>1. ASSUME NEW s \in Members!Steps, NEW i \in Members!Jobs, UNCHANGED <<userInTab,
               Members!history>>,
             pc' = [pc EXCEPT ![p] = s], job' = [job EXCEPT ![p] = i],
             pc[p] \notin {"target", "update"}, Members!LocalOK(s, i)
      PROVE  Members!IInv'
    BY <1>0, <1>1, MemberNobodyDemoted, MemberRequestMoves DEF Members!history
<1>2. CASE Members!CheckAssign(p)
    <2>1. PICK pair \in j.todo :
            /\ Members!Membership(pair.userId, pair.tabId) = {}
            /\ job' = [job EXCEPT ![p] = Members!At(j, pair, 0, n)]
        BY <1>2 DEF Members!CheckAssign
    <2>2. pair \in Members!Pairs
        BY <1>0, <2>1 DEF Members!Jobs
    <2>0. PICK e \in Nat : e = 0
        OBVIOUS
    <2>3. PICK i : i = Members!At(j, pair, e, n)
        OBVIOUS
    <2>4. /\ i \in Members!Jobs
          /\ i.user = pair.userId /\ i.tab = pair.tabId /\ i.entry = e
          /\ i.checkedAt = n /\ i.lookedAt = j.lookedAt /\ i.demoted = j.demoted
        <3>1. j \in Members!Jobs /\ pair \in Members!Pairs /\ e \in Nat /\ n \in Nat
            BY <1>0, <2>0, <2>2
        <3> HIDE DEF j, n
        <3> QED
            BY <2>3, <3>1, MemberAtLocals
    <2>5. Members!LocalOK("create", i)
        BY <1>0, <1>2, <2>0, <2>1, <2>2, <2>4 DEF Members!CheckAssign, Members!LocalOK,
               Members!RequestOK, Members!EntryOK, Members!CheckOK, Members!LookOK,
               Members!Placed, Members!Pairs
    <2> QED
        BY <1>1, <1>2, <2>0, <2>1, <2>3, <2>4, <2>5 DEF Members!CheckAssign,
               Members!Goto, Members!Steps
<1>3. CASE Members!CheckUnassign(p)
    <2>1. PICK pair \in j.todo : \E e \in Members!Membership(pair.userId, pair.tabId) :
            job' = [job EXCEPT ![p] = Members!At(j, pair, e, 0)]
        BY <1>3 DEF Members!CheckUnassign
    <2>2. PICK e \in Nat :
            /\ e \in Members!Membership(pair.userId, pair.tabId)
            /\ job' = [job EXCEPT ![p] = Members!At(j, pair, e, 0)]
        <3>1. Members!Membership(pair.userId, pair.tabId) \subseteq Nat
            BY <1>0 DEF Members!Membership, Members!Ids
        <3> QED
            BY <2>1, <3>1, Zenon
    <2>3. /\ pair \in Members!Pairs /\ e \in Members!Ids /\ e \in Nat
          /\ userInTab[e].tabId = pair.tabId
        BY <1>0, <2>1, <2>2 DEF Members!Jobs, Members!Membership, Members!Ids
    <2>0. PICK z \in Nat : z = 0
        OBVIOUS
    <2>4. PICK i : i = Members!At(j, pair, e, z)
        OBVIOUS
    <2>5. /\ i \in Members!Jobs
          /\ i.user = pair.userId /\ i.tab = pair.tabId /\ i.entry = e
          /\ i.checkedAt = z /\ i.lookedAt = j.lookedAt /\ i.demoted = j.demoted
        <3>1. j \in Members!Jobs /\ pair \in Members!Pairs /\ e \in Nat /\ z \in Nat
            BY <1>0, <2>0, <2>3
        <3> HIDE DEF j
        <3> QED
            BY <2>4, <3>1, MemberAtLocals, SMTT(60)
    <2>6. Members!LocalOK("remove", i)
        BY <1>0, <1>3, <2>0, <2>3, <2>5 DEF Members!CheckUnassign, Members!LocalOK,
               Members!RequestOK, Members!EntryOK, Members!CheckOK, Members!LookOK,
               Members!Placed, Members!Pairs
    <2> QED
        BY <1>1, <1>3, <2>0, <2>2, <2>4, <2>5, <2>6 DEF Members!CheckUnassign,
               Members!Goto, Members!Steps
<1>4. CASE Members!GetManagerOfTab(p)
    <2>0. /\ pc[p] = "manager" /\ j.role = "MANAGER" /\ j.user \in Users
          /\ j.tab \in Tabs /\ ~j.demoted /\ j.checkedAt <= n
        BY <1>0, <1>4 DEF Members!GetManagerOfTab, Members!LocalOK, Members!RequestOK,
               Members!Placed
    <2>1. PICK e, s : /\ job' = [job EXCEPT ![p] = Members!LookedUp(j, e)]
                      /\ Members!Goto(p, s)
                      /\ \/ s = "target" /\ e = 0 /\ Members!Managers(j.tab) = {}
                         \/ s = "demote" /\ e \in Members!Managers(j.tab)
        BY <1>4 DEF Members!GetManagerOfTab
    <2>2. e \in Nat
        BY <1>0, <2>1 DEF Members!Managers, Members!Ids
    <2>3. PICK i : i = Members!LookedUp(j, e)
        OBVIOUS
    <2>4. /\ i \in Members!Jobs /\ i.user = j.user /\ i.tab = j.tab /\ i.role = j.role
          /\ i.entry = e /\ i.checkedAt = j.checkedAt /\ i.lookedAt = promotions
          /\ i.crowded = Members!Crowded(j.tab) /\ i.demoted = j.demoted
        BY <1>0, <2>2, <2>3, MemberLookedUpLocals
    <2>5. Members!RequestOK(s, i) /\ Members!CheckOK(s, i)
        BY <1>0, <2>0, <2>1, <2>4 DEF Members!RequestOK, Members!CheckOK
    <2>6. Members!EntryOK(s, i)
        BY <2>1, <2>4 DEF Members!EntryOK, Members!Managers
    <2>7. Members!LookOK(s, i)
        BY <2>1, <2>4 DEF Members!LookOK, Members!Crowded
    <2> QED
        BY <1>1, <1>4, <2>0, <2>1, <2>3, <2>4, <2>5, <2>6, <2>7
        DEF Members!GetManagerOfTab, Members!Goto, Members!Steps, Members!LocalOK
<1>5. CASE Members!FindTarget(p)
    <2>1. PICK e \in Members!Membership(j.user, j.tab) :
            job' = [job EXCEPT ![p].entry = e]
        BY <1>5 DEF Members!FindTarget
    <2>2. e \in Members!Ids /\ e \in Nat /\ userInTab[e].tabId = j.tab
        BY <1>0 DEF Members!Membership, Members!Ids
    <2>3. PICK i : i = [j EXCEPT !.entry = e]
        OBVIOUS
    <2>4. /\ i \in Members!Jobs /\ i.user = j.user /\ i.tab = j.tab /\ i.role = j.role
          /\ i.entry = e /\ i.checkedAt = j.checkedAt /\ i.lookedAt = j.lookedAt
          /\ i.crowded = j.crowded /\ i.demoted = j.demoted
        BY <1>0, <2>2, <2>3 DEF Members!Jobs
    <2>5. Members!LocalOK("update", i)
        BY <1>0, <1>5, <2>2, <2>4 DEF Members!FindTarget, Members!LocalOK,
               Members!RequestOK, Members!EntryOK, Members!CheckOK, Members!LookOK,
               Members!Placed
    <2>6. MemberAnswered(p, i)
        BY <2>4 DEF MemberAnswered, Members!HandingOver
    <2>7. job' = [job EXCEPT ![p] = i]
        BY <2>1, <2>3
    <2> QED
        BY <1>0, <1>5, <2>4, <2>5, <2>6, <2>7, MemberRequestMoves
        DEF Members!FindTarget, Members!Goto, Members!Steps, Members!history
<1> QED
    BY <1>2, <1>3, <1>4, <1>5

(* The steps that pass over a pair, fail or give up.                       *)
LEMMA MemberLeavingIInv ==
    ASSUME Members!IInv, NEW p \in Handlers,
           \/ Members!SkipPair(p) \/ Members!NoTarget(p)
           \/ Members!WriteFails(p) \/ Members!Fail(p)
    PROVE  Members!IInv'
<1> DEFINE j == job[p]
<1>0. /\ pc[p] \in Members!Steps /\ j \in Members!Jobs /\ Members!LocalOK(pc[p], j)
      /\ Len(userInTab) \in Nat /\ promotions \in Nat /\ excused \subseteq Tabs
      /\ Members!TypeOK
    BY LenProperties DEF Members!IInv, Members!TypeOK
<1>1. ASSUME UNCHANGED <<userInTab, promotions, managed>>, Members!Leave(p),
             excused \subseteq excused', excused' \subseteq Tabs,
             MemberAnswered(p, Members!NoJob)
      PROVE  Members!IInv'
    BY <1>0, <1>1, MemberLeaveClear, MemberClearOK, MemberRequestMoves DEF Members!Leave,
           MemberClear, Members!Steps
<1>2. CASE Members!SkipPair(p)
    <2>0. MemberAnswered(p, Members!NoJob) /\ pc[p] = "check"
        BY <1>2, MemberNobodyDemoted DEF Members!SkipPair
    <2>1. PICK pair \in j.todo :
            LET rest == j.todo \ {pair}
            IN  IF rest = {} THEN Members!Leave(p)
                ELSE job' = [job EXCEPT ![p].todo = rest] /\ UNCHANGED pc
        BY <1>2 DEF Members!SkipPair
    <2>2. CASE Members!Leave(p)
        BY <1>0, <1>1, <1>2, <2>0, <2>2 DEF Members!SkipPair, Members!history
    <2>3. CASE /\ job' = [job EXCEPT ![p].todo = j.todo \ {pair}]
               /\ UNCHANGED pc
        <3>1. PICK i : i = [j EXCEPT !.todo = j.todo \ {pair}]
            OBVIOUS
        <3>2. /\ i \in Members!Jobs /\ i.checkedAt = j.checkedAt
              /\ i.lookedAt = j.lookedAt /\ i.demoted = j.demoted
            BY <1>0, <3>1 DEF Members!Jobs
        <3>3. Members!LocalOK("check", i)
            BY <1>0, <2>0, <3>2 DEF Members!LocalOK, Members!RequestOK, Members!EntryOK,
                   Members!CheckOK, Members!LookOK, Members!Placed
        <3>4. /\ job' = [job EXCEPT ![p] = i] /\ pc' = [pc EXCEPT ![p] = "check"]
              /\ UNCHANGED <<userInTab, Members!history>>
            BY <1>2, <2>0, <2>3, <3>1 DEF Members!SkipPair, Members!IInv, Members!TypeOK
        <3>5. MemberAnswered(p, i)
            BY <2>0, MemberNobodyDemoted
        <3> QED
            BY <1>0, <3>2, <3>3, <3>4, <3>5, MemberRequestMoves DEF Members!history,
                   Members!Steps
    <2> QED
        BY <2>1, <2>2, <2>3
<1>3. CASE Members!NoTarget(p)
    <2>1. MemberAnswered(p, Members!NoJob)
        BY <1>3, MemberLeaverAnswers DEF Members!NoTarget
    <2>2. Members!Abandoned(j) \subseteq Tabs
        BY <1>0, <1>3 DEF Members!NoTarget, Members!Abandoned, Members!LocalOK,
               Members!RequestOK, Members!Placed
    <2> QED
        BY <1>0, <1>1, <1>3, <2>1, <2>2 DEF Members!NoTarget
<1>4. CASE Members!WriteFails(p)
    <2>1. PICK s \in {"idle", "check"} : \E i \in Members!Jobs :
            /\ MemberClear(s, i)
            /\ pc' = [pc EXCEPT ![p] = s] /\ job' = [job EXCEPT ![p] = i]
        BY <1>0, <1>4, MemberNextPairClear DEF Members!WriteFails
    <2>2. PICK i \in Members!Jobs :
            /\ MemberClear(s, i)
            /\ pc' = [pc EXCEPT ![p] = s] /\ job' = [job EXCEPT ![p] = i]
        BY <2>1
    <2>3. Members!LocalOK(s, i) /\ MemberAnswered(p, i) /\ s \in Members!Steps
        BY <1>0, <1>4, <2>1, <2>2, MemberClearOK, MemberNobodyDemoted DEF
               Members!WriteFails, Members!Steps
    <2> QED
        BY <1>0, <1>4, <2>2, <2>3, MemberRequestMoves DEF Members!WriteFails,
               Members!history
<1>5. CASE Members!Fail(p)
    <2>1. MemberAnswered(p, Members!NoJob)
        BY <1>5, MemberLeaverAnswers DEF Members!Fail
    <2>2. Members!Abandoned(j) \subseteq Tabs
        BY <1>0, <1>5 DEF Members!Abandoned, Members!LocalOK, Members!RequestOK,
               Members!Placed
    <2> QED
        BY <1>0, <1>1, <1>5, <2>1, <2>2 DEF Members!Fail
<1> QED
    BY <1>2, <1>3, <1>4, <1>5

-----------------------------------------------------------------------------
(* The writes.                                                             *)

LEMMA MemberClearAfter ==
    ASSUME NEW s, NEW j, MemberClear(s, j), Len(userInTab') \in Nat, promotions' \in Nat
    PROVE  Members!LocalOK(s, j)'
    BY DEF MemberClear, Members!LocalOK, Members!RequestOK, Members!EntryOK,
           Members!CheckOK, Members!LookOK, Members!Placed

(* What a write of one row by id leaves.                                   *)
LEMMA MemberRowWritten ==
    ASSUME userInTab \in Seq(Members!Row), NEW x \in Members!Ids, NEW r \in Members!Row,
           userInTab' = [userInTab EXCEPT ![x] = r]
    PROVE  /\ userInTab' \in Seq(Members!Row)
           /\ Len(userInTab) \in Nat
           /\ Len(userInTab') = Len(userInTab)
           /\ Members!Ids' = Members!Ids
           /\ userInTab'[x] = r
           /\ \A i \in Members!Ids : i # x => userInTab'[i] = userInTab[i]
<1> USE DEF Members!Ids
<1>1. /\ userInTab' \in Seq(Members!Row) /\ Len(userInTab') = Len(userInTab)
      /\ userInTab'[x] = r
      /\ \A i \in 1..Len(userInTab) : i # x => userInTab'[i] = userInTab[i]
    BY ExceptSeq
<1> QED
    BY <1>1, LenProperties

(* A removal or a demotion: one row changes, is not revived and does not   *)
(* become a manager's.  If it was the tab's last manager, the tab is       *)
(* excused or in the hands of the request.                                 *)
LEMMA MemberRowShrinks ==
    ASSUME Members!IInv, NEW p \in Handlers, NEW s \in Members!Steps, NEW j \in Members!Jobs,
           NEW x \in Members!Ids, NEW r \in Members!Row,
           /\ r.userId = userInTab[x].userId /\ r.tabId = userInTab[x].tabId
           /\ r.checkedAt = userInTab[x].checkedAt
           /\ r.since = userInTab[x].since /\ r.lookedAt = userInTab[x].lookedAt
           /\ r.crowded = userInTab[x].crowded,
           r.live => userInTab[x].live,
           r.roleId = "MANAGER" => userInTab[x].roleId = "MANAGER",
           userInTab' = [userInTab EXCEPT ![x] = r],
           pc' = [pc EXCEPT ![p] = s],
           job' = [job EXCEPT ![p] = j],
           UNCHANGED <<promotions, managed>>,
           excused \subseteq excused', excused' \subseteq Tabs,
           pc[p] \notin {"target", "update"} \/ ~job[p].demoted,
           Members!Managers(r.tabId) = {x} =>
               r.tabId \in excused' \/ (j.demoted /\ j.tab = r.tabId),
           Members!LocalOK(s, j)'
    PROVE  Members!IInv'
<1>1. /\ userInTab' \in Seq(Members!Row) /\ Len(userInTab) \in Nat
      /\ Len(userInTab') = Len(userInTab) /\ Members!Ids' = Members!Ids
      /\ userInTab'[x] = r
      /\ \A i \in Members!Ids : i # x => userInTab'[i] = userInTab[i]
    BY MemberRowWritten DEF Members!IInv, Members!TypeOK
<1>2. \A i \in Members!Ids : /\ userInTab'[i].userId = userInTab[i].userId
                              /\ userInTab'[i].tabId = userInTab[i].tabId
                              /\ userInTab'[i].checkedAt = userInTab[i].checkedAt
                              /\ userInTab'[i].since = userInTab[i].since
                              /\ userInTab'[i].lookedAt = userInTab[i].lookedAt
                              /\ userInTab'[i].crowded = userInTab[i].crowded
                              /\ userInTab'[i].live => userInTab[i].live
    BY <1>1
<1>3. \A u, t : Members!Membership(u, t)' \subseteq Members!Membership(u, t)
    BY <1>1, <1>2 DEF Members!Membership
<1>4. \A t : Members!Managers(t)' \subseteq Members!Managers(t)
    BY <1>1, <1>2 DEF Members!Managers
<1>5. \A t : Members!Managers(t) \ {x} \subseteq Members!Managers(t)'
    BY <1>1 DEF Members!Managers
<1>6. Members!TypeOK'
    BY <1>1 DEF Members!IInv, Members!TypeOK
<1>7. ASSUME NEW q \in Handlers PROVE Members!LocalOK(pc[q], job[q])'
    <2>1. CASE q = p
        BY <2>1 DEF Members!IInv, Members!TypeOK
    <2>2. CASE q # p
        <3>1. pc'[q] = pc[q] /\ job'[q] = job[q] /\ Members!LocalOK(pc[q], job[q])
            BY <2>2 DEF Members!IInv, Members!TypeOK
        <3>2. Members!RequestOK(pc[q], job[q])' /\ Members!EntryOK(pc[q], job[q])'
            BY <1>1, <1>2, <3>1 DEF Members!LocalOK, Members!RequestOK, Members!EntryOK
        <3>3. Members!CheckOK(pc[q], job[q])'
            BY <1>3, <3>1 DEF Members!LocalOK, Members!CheckOK
        <3>4. \A t : \A i \in Members!Managers(t) : userInTab'[i].since = userInTab[i].since
            BY <1>2 DEF Members!Managers
        <3>5. Members!LookOK(pc[q], job[q])'
            BY <1>4, <3>1, <3>4 DEF Members!LocalOK, Members!LookOK
        <3> QED
            BY <3>2, <3>3, <3>5 DEF Members!LocalOK
    <2> QED
        BY <2>1, <2>2
<1>8. Members!SinceOK' /\ Members!DuplicatesOnlyFromRacingAssigns'
    BY <1>1, <1>2 DEF Members!IInv, Members!SinceOK,
           Members!DuplicatesOnlyFromRacingAssigns
<1>9. Members!TwoManagersOnlyFromRacingHandOvers'
    <2>1. \A t : \A i \in Members!Managers(t)' :
            /\ i \in Members!Managers(t)
            /\ userInTab'[i].since = userInTab[i].since
            /\ userInTab'[i].lookedAt = userInTab[i].lookedAt
            /\ userInTab'[i].crowded = userInTab[i].crowded
        BY <1>2, <1>4 DEF Members!Managers
    <2> QED
        BY <2>1 DEF Members!IInv, Members!TwoManagersOnlyFromRacingHandOvers
<1>10. Members!VacancyExplained'
    <2> SUFFICES ASSUME NEW t \in managed, Members!Managers(t)' = {}, t \notin excused'
                 PROVE  \E q \in Handlers : Members!HandingOver(q, t)'
        BY DEF Members!VacancyExplained
    <2>1. CASE Members!Managers(t) = {}
        <3>1. PICK q \in Handlers : Members!HandingOver(q, t)
            BY <2>1 DEF Members!IInv, Members!VacancyExplained
        <3>2. q # p
            BY <3>1 DEF Members!HandingOver, Members!IInv, Members!LocalOK,
                   Members!RequestOK
        <3> QED
            BY <3>1, <3>2 DEF Members!HandingOver, Members!IInv, Members!TypeOK
    <2>2. CASE Members!Managers(t) # {}
        <3>1. Members!Managers(t) = {x}
            BY <1>5, <2>2
        <3>2. t = r.tabId
            BY <3>1 DEF Members!Managers
        <3>3. j.demoted /\ j.tab = t
            BY <3>1, <3>2
        <3>4. job'[p] = j
            BY DEF Members!IInv, Members!TypeOK
        <3> QED
            BY <3>3, <3>4 DEF Members!HandingOver
    <2> QED
        BY <2>1, <2>2
<1> QED
    BY <1>6, <1>7, <1>8, <1>9, <1>10 DEF Members!IInv

(* The three of them.                                                      *)
LEMMA MemberShrinkingIInv ==
    ASSUME Members!IInv, NEW p \in Handlers,
           Members!RemoveUserFromTab(p) \/ Members!DemoteManager(p) \/ Members!Demote(p)
    PROVE  Members!IInv'
<1>0. /\ pc[p] \in Members!Steps /\ job[p] \in Members!Jobs /\ Members!LocalOK(pc[p], job[p])
      /\ userInTab \in Seq(Members!Row) /\ Len(userInTab) \in Nat /\ promotions \in Nat
      /\ excused \subseteq Tabs /\ Members!TypeOK
    BY LenProperties DEF Members!IInv, Members!TypeOK
<1>1. pc[p] \in {"remove", "demote", "update"}
    BY DEF Members!RemoveUserFromTab, Members!DemoteManager, Members!Demote
<1>2. PICK x \in Members!Ids : x = job[p].entry
    BY <1>0, <1>1 DEF Members!LocalOK, Members!EntryOK
<1>3. userInTab[x].tabId = job[p].tab /\ job[p].tab \in Tabs
    BY <1>0, <1>1, <1>2 DEF Members!LocalOK, Members!RequestOK, Members!EntryOK,
           Members!Placed
<1>4. userInTab[x] \in Members!Row
    BY <1>0, ElementOfSeq DEF Members!Ids
<1>5. Members!Dismissed(job[p]) \subseteq Tabs
    BY <1>3 DEF Members!Dismissed
<1>6. ASSUME excused' = excused \union Members!Dismissed(job[p])
      PROVE  /\ excused \subseteq excused' /\ excused' \subseteq Tabs
             /\ Members!Managers(job[p].tab) = {x} => job[p].tab \in excused'
    BY <1>0, <1>2, <1>5, <1>6 DEF Members!Dismissed
<1>7. CASE Members!RemoveUserFromTab(p)
    <2>1. PICK r : r = [userInTab[x] EXCEPT !.live = FALSE]
        OBVIOUS
    <2>2. /\ r \in Members!Row /\ ~r.live /\ r.userId = userInTab[x].userId
          /\ r.tabId = userInTab[x].tabId /\ r.checkedAt = userInTab[x].checkedAt
          /\ r.since = userInTab[x].since /\ r.lookedAt = userInTab[x].lookedAt
          /\ r.crowded = userInTab[x].crowded /\ r.roleId = userInTab[x].roleId
        BY <1>4, <2>1 DEF Members!Row
    <2>3. userInTab' = [userInTab EXCEPT ![x] = r]
        BY <1>2, <1>7, <2>1 DEF Members!RemoveUserFromTab
    <2>4. PICK s \in {"idle", "check"} : \E j \in Members!Jobs :
            /\ MemberClear(s, j)
            /\ pc' = [pc EXCEPT ![p] = s] /\ job' = [job EXCEPT ![p] = j]
        BY <1>0, <1>7, MemberNextPairClear DEF Members!RemoveUserFromTab
    <2>5. PICK j \in Members!Jobs :
            /\ MemberClear(s, j)
            /\ pc' = [pc EXCEPT ![p] = s] /\ job' = [job EXCEPT ![p] = j]
        BY <2>4
    <2>6. Len(userInTab') \in Nat /\ promotions' \in Nat
        BY <1>0, <1>7, <2>2, <2>3, MemberRowWritten DEF Members!RemoveUserFromTab
    <2>7. Members!LocalOK(s, j)'
        BY <2>5, <2>6, MemberClearAfter
    <2>8. /\ excused \subseteq excused' /\ excused' \subseteq Tabs
          /\ UNCHANGED <<promotions, managed>> /\ pc[p] = "remove"
          /\ Members!Managers(job[p].tab) = {x} => job[p].tab \in excused'
        BY <1>6, <1>7 DEF Members!RemoveUserFromTab
    <2>9. s \in Members!Steps
        BY DEF Members!Steps
    <2> QED
        BY <1>3, <2>2, <2>3, <2>5, <2>7, <2>8, <2>9, MemberRowShrinks, ZenonT(60)
<1>8. CASE Members!DemoteManager(p)
    <2>1. PICK r : r = [userInTab[x] EXCEPT !.roleId = "SUPPORTER"]
        OBVIOUS
    <2>2. /\ r \in Members!Row /\ r.live = userInTab[x].live
          /\ r.userId = userInTab[x].userId
          /\ r.tabId = userInTab[x].tabId /\ r.checkedAt = userInTab[x].checkedAt
          /\ r.since = userInTab[x].since /\ r.lookedAt = userInTab[x].lookedAt
          /\ r.crowded = userInTab[x].crowded /\ r.roleId = "SUPPORTER"
        BY <1>4, <2>1 DEF Members!Row, Members!Roles
    <2>3. userInTab' = [userInTab EXCEPT ![x] = r]
        BY <1>2, <1>8, <2>1 DEF Members!DemoteManager
    <2>4. PICK j : j = [job[p] EXCEPT !.demoted = TRUE]
        OBVIOUS
    <2>5. /\ j \in Members!Jobs /\ j.user = job[p].user /\ j.tab = job[p].tab
          /\ j.role = job[p].role /\ j.entry = job[p].entry /\ j.demoted
          /\ j.checkedAt = job[p].checkedAt /\ j.lookedAt = job[p].lookedAt
          /\ j.crowded = job[p].crowded
        BY <1>0, <2>4 DEF Members!Jobs
    <2>6. /\ job' = [job EXCEPT ![p] = j] /\ pc' = [pc EXCEPT ![p] = "target"]
          /\ UNCHANGED Members!history /\ pc[p] = "demote" /\ "target" \in Members!Steps
        BY <1>8, <2>4 DEF Members!DemoteManager, Members!Goto, Members!Steps
    <2>7. /\ Len(userInTab') = Len(userInTab) /\ Members!Ids' = Members!Ids /\ userInTab'[x] = r
          /\ \A i \in Members!Ids : i # x => userInTab'[i] = userInTab[i]
        BY <1>0, <2>2, <2>3, MemberRowWritten
    <2>8. Members!RequestOK("target", j)' /\ Members!EntryOK("target", j)'
            /\ Members!CheckOK("target", j)'
        BY <1>0, <2>5, <2>6, <2>7 DEF Members!LocalOK, Members!RequestOK,
               Members!EntryOK, Members!CheckOK, Members!Placed, Members!history
    <2>9. \A i \in Members!Managers(j.tab)' :
            /\ i \in Members!Managers(job[p].tab) \ {job[p].entry}
            /\ userInTab'[i].since = userInTab[i].since
        BY <1>2, <2>2, <2>5, <2>7 DEF Members!Managers
    <2>10. Members!LookOK("target", j)'
        BY <1>0, <2>5, <2>6, <2>9 DEF Members!LocalOK, Members!LookOK
    <2> QED
        BY <1>0, <1>3, <2>2, <2>3, <2>5, <2>6, <2>8, <2>10, MemberRowShrinks
        DEF Members!LocalOK, Members!history
<1>9. CASE Members!Demote(p)
    <2>1. PICK r : r = [userInTab[x] EXCEPT !.roleId = "SUPPORTER"]
        OBVIOUS
    <2>2. /\ r \in Members!Row /\ r.live = userInTab[x].live
          /\ r.userId = userInTab[x].userId
          /\ r.tabId = userInTab[x].tabId /\ r.checkedAt = userInTab[x].checkedAt
          /\ r.since = userInTab[x].since /\ r.lookedAt = userInTab[x].lookedAt
          /\ r.crowded = userInTab[x].crowded /\ r.roleId = "SUPPORTER"
        BY <1>4, <2>1 DEF Members!Row, Members!Roles
    <2>3. userInTab' = [userInTab EXCEPT ![x] = r]
        BY <1>2, <1>9, <2>1 DEF Members!Demote
    <2>4. /\ job' = [job EXCEPT ![p] = Members!NoJob] /\ pc' = [pc EXCEPT ![p] = "idle"]
          /\ UNCHANGED <<promotions, managed>> /\ "idle" \in Members!Steps
          /\ MemberClear("idle", Members!NoJob) /\ Members!NoJob \in Members!Jobs
        BY <1>9, MemberLeaveClear DEF Members!Demote, Members!Leave, Members!Steps,
               MemberClear
    <2>5. Len(userInTab') \in Nat /\ promotions' \in Nat
        BY <1>0, <2>2, <2>3, <2>4, MemberRowWritten
    <2>6. Members!LocalOK("idle", Members!NoJob)'
        BY <2>4, <2>5, MemberClearAfter
    <2>7. ~job[p].demoted
        BY <1>0, <1>9 DEF Members!Demote, Members!LocalOK, Members!RequestOK
    <2>8. /\ excused \subseteq excused' /\ excused' \subseteq Tabs
          /\ Members!Managers(job[p].tab) = {x} => job[p].tab \in excused'
        BY <1>6, <1>9 DEF Members!Demote
    <2> QED
        BY <1>3, <2>2, <2>3, <2>4, <2>6, <2>7, <2>8, MemberRowShrinks
<1> QED
    BY <1>7, <1>8, <1>9

(* A membership is added by a request whose check is older than every row  *)
(* of the pair.                                                            *)
LEMMA MemberAddIInv ==
    ASSUME Members!IInv, NEW p \in Handlers, Members!AddUserToTab(p)
    PROVE  Members!IInv'
<1> DEFINE n == Len(userInTab)
<1>0. /\ pc[p] = "create" /\ job[p] \in Members!Jobs /\ Members!LocalOK("create", job[p])
      /\ userInTab \in Seq(Members!Row) /\ n \in Nat /\ promotions \in Nat /\ Members!TypeOK
      /\ UNCHANGED Members!history
    BY LenProperties DEF Members!AddUserToTab, Members!IInv, Members!TypeOK
<1>1. PICK r : r = Members!NewRow(job[p])
    OBVIOUS
<1>2. /\ r \in Members!Row /\ r.userId = job[p].user /\ r.tabId = job[p].tab
      /\ r.roleId = "SUPPORTER" /\ r.since = 0
      /\ r.checkedAt = job[p].checkedAt
    BY <1>0, <1>1 DEF Members!NewRow, Members!Row, Members!Roles, Members!Jobs,
           Members!LocalOK, Members!RequestOK, Members!Placed
<1>3. /\ userInTab' \in Seq(Members!Row) /\ Len(userInTab') = n + 1
      /\ userInTab'[n + 1] = r
      /\ \A i \in 1..n : userInTab'[i] = userInTab[i]
    <2>1. userInTab' = Append(userInTab, r)
        BY <1>1 DEF Members!AddUserToTab
    <2> QED
        BY <1>0, <1>2, <2>1, AppendProperties
<1>4. PICK s \in {"idle", "check"} : \E j \in Members!Jobs :
        /\ MemberClear(s, j)
        /\ pc' = [pc EXCEPT ![p] = s] /\ job' = [job EXCEPT ![p] = j]
    BY <1>0, MemberNextPairClear DEF Members!AddUserToTab
<1>5. PICK j \in Members!Jobs :
        /\ MemberClear(s, j)
        /\ pc' = [pc EXCEPT ![p] = s] /\ job' = [job EXCEPT ![p] = j]
    BY <1>4
<1>6. Members!LocalOK(s, j)'
    BY <1>0, <1>3, <1>5, MemberClearAfter DEF Members!history
<1>7. \A u, t : \A i \in Members!Membership(u, t)' :
        \/ i \in Members!Membership(u, t)
        \/ i = n + 1 /\ u = r.userId /\ t = r.tabId
    BY <1>0, <1>3 DEF Members!Membership, Members!Ids
<1>8. \A t : Members!Managers(t)' = Members!Managers(t)
    BY <1>0, <1>2, <1>3 DEF Members!Managers, Members!Ids
<1>9. \A t : \A i \in Members!Managers(t) : i \in Members!Ids /\ userInTab'[i] = userInTab[i]
    BY <1>3 DEF Members!Managers, Members!Ids
<1>10. Members!TypeOK'
    BY <1>0, <1>3, <1>5 DEF Members!TypeOK, Members!Steps, Members!history
<1>11. ASSUME NEW q \in Handlers PROVE Members!LocalOK(pc[q], job[q])'
    <2>1. CASE q = p
        BY <1>0, <1>5, <1>6, <2>1 DEF Members!TypeOK
    <2>2. CASE q # p
        <3>1. /\ pc'[q] = pc[q] /\ job'[q] = job[q] /\ Members!LocalOK(pc[q], job[q])
              /\ job[q] \in Members!Jobs
            BY <1>0, <1>5, <2>2 DEF Members!IInv, Members!TypeOK
        <3>2. Members!RequestOK(pc[q], job[q])'
            BY <1>0, <1>3, <3>1 DEF Members!LocalOK, Members!RequestOK, Members!Jobs,
                   Members!history
        <3>3. Members!EntryOK(pc[q], job[q])'
            BY <1>0, <1>3, <3>1 DEF Members!LocalOK, Members!EntryOK, Members!Ids
        <3>4. Members!CheckOK(pc[q], job[q])'
            BY <1>0, <1>7, <3>1 DEF Members!LocalOK, Members!CheckOK, Members!RequestOK,
                   Members!Jobs
        <3>5. Members!LookOK(pc[q], job[q])'
            BY <1>8, <1>9, <3>1 DEF Members!LocalOK, Members!LookOK
        <3> QED
            BY <3>2, <3>3, <3>4, <3>5 DEF Members!LocalOK
    <2> QED
        BY <2>1, <2>2
<1>12. Members!SinceOK'
    BY <1>0, <1>2, <1>3 DEF Members!IInv, Members!SinceOK, Members!Ids, Members!history
<1>13. Members!DuplicatesOnlyFromRacingAssigns'
    <2> SUFFICES ASSUME NEW i \in 1..(n + 1), NEW k \in 1..(n + 1), i < k,
                        userInTab'[i].live, userInTab'[k].live,
                        userInTab'[i].userId = userInTab'[k].userId,
                        userInTab'[i].tabId = userInTab'[k].tabId
                 PROVE  userInTab'[k].checkedAt < i
        BY <1>3 DEF Members!DuplicatesOnlyFromRacingAssigns, Members!Ids
    <2>1. CASE k = n + 1
        <3>1. i \in Members!Membership(job[p].user, job[p].tab)
            BY <1>0, <1>2, <1>3, <2>1 DEF Members!Membership, Members!Ids
        <3> QED
            BY <1>0, <1>2, <1>3, <2>1, <3>1 DEF Members!LocalOK, Members!CheckOK
    <2>2. CASE k # n + 1
        <3>1. k \in Members!Ids /\ i \in Members!Ids
            BY <1>0, <2>2 DEF Members!Ids
        <3> QED
            BY <1>3, <3>1 DEF Members!IInv, Members!DuplicatesOnlyFromRacingAssigns,
                   Members!Ids
    <2> QED
        BY <2>1, <2>2
<1>14. Members!TwoManagersOnlyFromRacingHandOvers'
    BY <1>8, <1>9 DEF Members!IInv, Members!TwoManagersOnlyFromRacingHandOvers
<1>15. Members!VacancyExplained'
    <2> SUFFICES ASSUME NEW t \in managed, Members!Managers(t) = {}, t \notin excused
                 PROVE  \E q \in Handlers : Members!HandingOver(q, t)'
        BY <1>0, <1>8 DEF Members!VacancyExplained, Members!history
    <2>1. PICK q \in Handlers : Members!HandingOver(q, t)
        BY DEF Members!IInv, Members!VacancyExplained
    <2>2. q # p
        BY <1>0, <2>1 DEF Members!HandingOver, Members!LocalOK, Members!RequestOK
    <2> QED
        BY <1>0, <1>5, <2>1, <2>2 DEF Members!HandingOver, Members!TypeOK
<1> QED
    BY <1>10, <1>11, <1>12, <1>13, <1>14, <1>15 DEF Members!IInv

LEMMA MemberPromotedRow ==
    ASSUME NEW row \in Members!Row, NEW j \in Members!Jobs, NEW m \in Nat
    PROVE  /\ Members!Promoted(row, j, m) \in Members!Row
           /\ Members!Promoted(row, j, m).userId = row.userId
           /\ Members!Promoted(row, j, m).tabId = row.tabId
           /\ Members!Promoted(row, j, m).live = row.live
           /\ Members!Promoted(row, j, m).checkedAt = row.checkedAt
           /\ Members!Promoted(row, j, m).roleId = "MANAGER"
           /\ Members!Promoted(row, j, m).since = m
           /\ Members!Promoted(row, j, m).lookedAt = j.lookedAt
           /\ Members!Promoted(row, j, m).crowded = j.crowded
    BY DEF Members!Promoted, Members!Row, Members!Jobs, Members!Roles

(* A promotion is the youngest of its tab, and has looked at every manager *)
(* that was one before it looked.                                          *)
LEMMA MemberPromoteIInv ==
    ASSUME Members!IInv, NEW p \in Handlers, Members!Promote(p)
    PROVE  Members!IInv'
<1>0. /\ pc[p] = "update" /\ job[p] \in Members!Jobs /\ Members!LocalOK("update", job[p])
      /\ job[p].role = "MANAGER" /\ job[p].tab \in Tabs
      /\ userInTab \in Seq(Members!Row) /\ Len(userInTab) \in Nat /\ promotions \in Nat
      /\ promotions' = promotions + 1 /\ Members!TypeOK
      /\ pc' = [pc EXCEPT ![p] = "idle"] /\ job' = [job EXCEPT ![p] = Members!NoJob]
    BY LenProperties DEF Members!Promote, Members!Leave, Members!IInv, Members!TypeOK,
           Members!LocalOK, Members!RequestOK, Members!Placed
<1>1. PICK x \in Members!Ids : x = job[p].entry
    BY <1>0 DEF Members!LocalOK, Members!EntryOK
<1>2. userInTab[x].tabId = job[p].tab /\ userInTab[x] \in Members!Row
    BY <1>0, <1>1, ElementOfSeq DEF Members!LocalOK, Members!EntryOK, Members!Ids
<1>3. PICK m \in Nat : m = promotions + 1
    BY <1>0
<1>4. PICK r : r = Members!Promoted(userInTab[x], job[p], m)
    OBVIOUS
<1>5. /\ r \in Members!Row /\ r.userId = userInTab[x].userId
      /\ r.tabId = job[p].tab /\ r.live = userInTab[x].live
      /\ r.checkedAt = userInTab[x].checkedAt /\ r.roleId = "MANAGER"
      /\ r.since = m /\ r.lookedAt = job[p].lookedAt
      /\ r.crowded = job[p].crowded
    BY <1>0, <1>2, <1>4, MemberPromotedRow, ZenonT(60)
<1>6. userInTab' = [userInTab EXCEPT ![x] = r]
    BY <1>1, <1>3, <1>4 DEF Members!Promote
<1>7. /\ userInTab' \in Seq(Members!Row) /\ Len(userInTab') = Len(userInTab)
      /\ Members!Ids' = Members!Ids /\ userInTab'[x] = r
      /\ \A i \in Members!Ids : i # x => userInTab'[i] = userInTab[i]
    BY <1>0, <1>5, <1>6, MemberRowWritten
<1>8. \A i \in Members!Ids : /\ userInTab'[i].userId = userInTab[i].userId
                              /\ userInTab'[i].tabId = userInTab[i].tabId
                              /\ userInTab'[i].live = userInTab[i].live
                              /\ userInTab'[i].checkedAt = userInTab[i].checkedAt
    BY <1>2, <1>5, <1>7
<1>9. \A u, t : Members!Membership(u, t)' = Members!Membership(u, t)
    BY <1>7, <1>8 DEF Members!Membership
<1>10. \A t : \A i \in Members!Managers(t)' :
        \/ i = x /\ t = job[p].tab
        \/ i # x /\ i \in Members!Managers(t) /\ userInTab'[i] = userInTab[i]
    BY <1>5, <1>7 DEF Members!Managers
<1>11. \A t : Members!Managers(t) \subseteq Members!Managers(t)'
    BY <1>2, <1>5, <1>7 DEF Members!Managers
<1>12. \A i \in Members!Ids : userInTab[i].since <= promotions /\ userInTab[i].since \in Nat
    <2>1. ASSUME NEW i \in Members!Ids PROVE userInTab[i] \in Members!Row
        BY <1>0, ElementOfSeq DEF Members!Ids
    <2> QED
        BY <2>1 DEF Members!IInv, Members!SinceOK, Members!Row
<1>13. \A i \in Members!Managers(job[p].tab) :
         job[p].crowded \/ job[p].lookedAt < userInTab[i].since
    BY <1>0 DEF Members!LocalOK, Members!LookOK
<1>14. /\ managed' \subseteq managed \union {job[p].tab} /\ excused' \subseteq Tabs
       /\ managed \subseteq managed'
    BY <1>0 DEF Members!Promote, Members!Abandoned, Members!TypeOK
<1>15. Members!TypeOK'
    BY <1>0, <1>3, <1>7, <1>14, MemberLeaveClear DEF Members!TypeOK, Members!Steps,
           MemberClear
<1>16. Members!LocalOK("idle", Members!NoJob)'
    BY <1>0, <1>3, <1>7, MemberLeaveClear, MemberClearAfter
<1>17. ASSUME NEW q \in Handlers PROVE Members!LocalOK(pc[q], job[q])'
    <2>1. CASE q = p
        BY <1>0, <1>16, <2>1 DEF Members!TypeOK
    <2>2. CASE q # p
        <3>1. /\ pc'[q] = pc[q] /\ job'[q] = job[q] /\ Members!LocalOK(pc[q], job[q])
              /\ job[q] \in Members!Jobs
            BY <1>0, <2>2 DEF Members!IInv, Members!TypeOK
        <3>2. Members!RequestOK(pc[q], job[q])'
            BY <1>0, <1>7, <3>1 DEF Members!LocalOK, Members!RequestOK, Members!Jobs
        <3>3. Members!EntryOK(pc[q], job[q])'
            BY <1>7, <1>8, <3>1 DEF Members!LocalOK, Members!EntryOK
        <3>4. Members!CheckOK(pc[q], job[q])'
            BY <1>9, <3>1 DEF Members!LocalOK, Members!CheckOK
        <3>5. job[q].lookedAt < m /\ userInTab'[x].since = m
            BY <1>0, <1>3, <1>5, <1>7, <3>1 DEF Members!LocalOK, Members!RequestOK,
                   Members!Jobs
        <3>6. Members!LookOK(pc[q], job[q])'
            BY <1>10, <3>1, <3>5 DEF Members!LocalOK, Members!LookOK
        <3> QED
            BY <3>2, <3>3, <3>4, <3>6 DEF Members!LocalOK
    <2> QED
        BY <2>1, <2>2
<1>18. Members!SinceOK'
    BY <1>0, <1>3, <1>5, <1>7, <1>12 DEF Members!SinceOK
<1>19. Members!DuplicatesOnlyFromRacingAssigns'
    BY <1>7, <1>8 DEF Members!IInv, Members!DuplicatesOnlyFromRacingAssigns
<1>20. Members!TwoManagersOnlyFromRacingHandOvers'
    <2> SUFFICES ASSUME NEW t \in Tabs, NEW i \in Members!Managers(t)',
                          NEW k \in Members!Managers(t)',
                        userInTab'[i].since < userInTab'[k].since
                 PROVE  \/ userInTab'[k].lookedAt < userInTab'[i].since
                        \/ userInTab'[k].crowded
        BY DEF Members!TwoManagersOnlyFromRacingHandOvers
    <2>1. CASE k = x /\ i # x
        BY <1>5, <1>7, <1>10, <1>13, <2>1
    <2>2. CASE i = x
        <3>1. k # x /\ k \in Members!Ids
            BY <1>0, <1>3, <1>5, <1>7, <1>10, <2>2 DEF Members!Managers
        <3> QED
            BY <1>0, <1>3, <1>5, <1>7, <1>12, <2>2, <3>1
    <2>3. CASE i # x /\ k # x
        BY <1>10, <2>3 DEF Members!IInv, Members!TwoManagersOnlyFromRacingHandOvers
    <2> QED
        BY <2>1, <2>2, <2>3
<1>21. Members!VacancyExplained'
    <2> SUFFICES ASSUME NEW t \in managed', Members!Managers(t)' = {}, t \notin excused'
                 PROVE  \E q \in Handlers : Members!HandingOver(q, t)'
        BY DEF Members!VacancyExplained
    <2>1. Members!Managers(t) = {}
        BY <1>11
    <2>2. CASE userInTab[x].live
        <3>1. t = job[p].tab => x \in Members!Managers(t)'
            BY <1>5, <1>7, <2>2 DEF Members!Managers
        <3>2. t # job[p].tab
            BY <3>1
        <3>3. t \notin excused /\ t \in managed
            BY <1>1, <1>14, <2>2, <3>2 DEF Members!Promote
        <3>4. PICK q \in Handlers : Members!HandingOver(q, t)
            BY <2>1, <3>3 DEF Members!IInv, Members!VacancyExplained
        <3>5. q # p
            BY <3>2, <3>4 DEF Members!HandingOver
        <3> QED
            BY <1>0, <3>4, <3>5 DEF Members!HandingOver, Members!TypeOK
    <2>3. CASE ~userInTab[x].live
        <3>1. excused' = excused \union Members!Abandoned(job[p]) /\ managed' = managed
            BY <1>1, <2>3 DEF Members!Promote
        <3>2. PICK q \in Handlers : Members!HandingOver(q, t)
            BY <2>1, <3>1 DEF Members!IInv, Members!VacancyExplained
        <3>3. q # p
            BY <2>1, <3>1, <3>2 DEF Members!HandingOver, Members!Abandoned
        <3> QED
            BY <1>0, <3>2, <3>3 DEF Members!HandingOver, Members!TypeOK
    <2> QED
        BY <2>2, <2>3
<1> QED
    BY <1>15, <1>17, <1>18, <1>19, <1>20, <1>21 DEF Members!IInv

LEMMA MemberNextIInv == Members!IInv /\ [Members!Next]_(Members!vars) => Members!IInv'
<1> SUFFICES ASSUME Members!IInv, [Members!Next]_(Members!vars) PROVE Members!IInv'
    OBVIOUS
<1>1. ASSUME NEW p \in Handlers,
             Members!AssignUsers(p) \/ Members!UnassignUsers(p) \/ Members!UpdateRoleUser(p)
      PROVE  Members!IInv'
    BY <1>1, MemberStartIInv
<1>2. ASSUME NEW p \in Handlers, Members!Step(p) \/ Members!Fail(p) PROVE Members!IInv'
    BY <1>2, MemberLookupIInv, MemberLeavingIInv, MemberShrinkingIInv, MemberAddIInv,
       MemberPromoteIInv DEF Members!Step
<1>3. CASE UNCHANGED Members!vars
    BY <1>3 DEF Members!vars, Members!history, Members!IInv, Members!TypeOK,
           Members!SinceOK, Members!LocalOK, Members!RequestOK, Members!EntryOK,
           Members!CheckOK, Members!LookOK, Members!Membership, Members!Managers,
           Members!Ids, Members!DuplicatesOnlyFromRacingAssigns,
           Members!TwoManagersOnlyFromRacingHandOvers, Members!VacancyExplained,
           Members!HandingOver
<1> QED
    BY <1>1, <1>2, <1>3 DEF Members!Next

THEOREM MemberInductiveInvariant == Members!Spec => []Members!IInv
    BY MemberInitIInv, MemberNextIInv, PTL DEF Members!Spec
-----------------------------------------------------------------------------
(* The rows and the requests in flight stay well-typed.                    *)
THEOREM MemberTypeCorrect == Members!Spec => []Members!TypeOK
    BY MemberInductiveInvariant, PTL DEF Members!IInv

(* A membership is doubled by two assigns that race between checkUserInTab *)
(* and addUserToTab, and by nothing else.                                  *)
THEOREM DuplicatesNeedRace == Members!Spec => []DuplicatesOnlyFromRacingAssigns
    BY MemberInductiveInvariant, PTL DEF Members!IInv, DuplicatesOnlyFromRacingAssigns

(* Two managers of a tab come from hand-overs that raced between           *)
(* getManagerOfTab and the last write of updateRoleUser, or from a         *)
(* hand-over that already found two.                                       *)
THEOREM TwoManagersNeedRace == Members!Spec => []TwoManagersOnlyFromRacingHandOvers
    BY MemberInductiveInvariant, PTL DEF Members!IInv, TwoManagersOnlyFromRacingHandOvers

(* A tab loses its manager only while or after a hand-over was between its *)
(* two writes, or on purpose.                                              *)
THEOREM VacanciesHaveACause == Members!Spec => []VacancyExplained
    BY MemberInductiveInvariant, PTL DEF Members!IInv, VacancyExplained
=============================================================================

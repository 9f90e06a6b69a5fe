--------------------------- MODULE AnalyticsProofs ---------------------------
(* Proofs about module Analytics, for any clicks, links, zone and times:    *)
(* what a range that is made of the server's days and a chart that is made  *)
(* of UTC days have to do with each other; and about LinkEditor, the page   *)
(* of one link that shows them.                                             *)
EXTENDS Analytics, LinkEditor, FiniteSetTheorems, TLAPS

(* Integer division by the length of a day. *)
LEMMA DateBounds ==
    ASSUME NEW x \in Int
    PROVE  /\ Date(x) \in Int
           /\ Date(x) * 24 <= x
           /\ x < Date(x) * 24 + 24
<1>. QED  BY DEF Date, Day

LEMMA DateMonotone ==
    ASSUME NEW x \in Int, NEW y \in Int, x <= y
    PROVE  Date(x) <= Date(y)
<1>1. Date(x) \in Int /\ Date(x) * 24 <= x  BY DateBounds
<1>2. Date(y) \in Int /\ y < Date(y) * 24 + 24  BY DateBounds
<1>. QED  BY <1>1, <1>2

(* StartOfDay returns the first hour of a day of the zone. *)
LEMMA StartIsADay ==
    ASSUME NEW x \in Int, zone \in Int
    PROVE  /\ StartOfDay(x) \in Int
           /\ \E k \in Int : StartOfDay(x) = 24 * k - zone
<1>1. (x + zone) \div 24 \in Int  OBVIOUS
<1>. QED  BY <1>1 DEF StartOfDay, Day

LEMMA Ceiling ==
    ASSUME NEW m \in Int
    PROVE  CeilDays(24 * m + 23) = m + 1
<1>. DEFINE c == (-(24 * m + 23)) \div 24
<1>1. c \in Int /\ c * 24 <= -(24 * m + 23) /\ -(24 * m + 23) < c * 24 + 24
  OBVIOUS
<1>2. c = -(m + 1)  BY <1>1
<1>. QED  BY <1>2 DEF CeilDays, Day

(* A range is a number of days of the zone, not more than one too few       *)
(* (from after to) or negative.                                             *)
LEMMA RangeIsDays ==
    ASSUME NEW x \in Int, NEW y \in Int, zone \in Int
    PROVE  \E n \in Int : EndOfDay(y) = StartOfDay(x) + 24 * n + 23
<1>1. PICK k \in Int : StartOfDay(x) = 24 * k - zone  BY StartIsADay
<1>2. PICK m \in Int : StartOfDay(y) = 24 * m - zone  BY StartIsADay
<1>3. EndOfDay(y) = 24 * m - zone + 23
  BY <1>2 DEF EndOfDay, Day
<1>4. 24 * m - zone + 23 = 24 * k - zone + 24 * (m - k) + 23  OBVIOUS
<1>5. m - k \in Int  OBVIOUS
<1>6. EndOfDay(y) = StartOfDay(x) + 24 * (m - k) + 23
  BY <1>1, <1>3, <1>4
<1>. WITNESS m - k \in Int
<1>. QED  BY <1>6

LEMMA BarsOfDays ==
    ASSUME NEW from \in Int, NEW n \in Int
    PROVE  LET b == Bars(from, from + 24 * n + 23) IN
           /\ b \in 1 .. MaxDays
           /\ b <= MaxDays
           /\ n >= 0 => b <= n + 2
           /\ b = MaxDays \/ b >= n + 2
           /\ n < 0 => b = 1
<1>1. (from + 24 * n + 23) - from = 24 * n + 23  OBVIOUS
<1>2. CeilDays(24 * n + 23) = n + 1  BY Ceiling
<1>3. Bars(from, from + 24 * n + 23) = Smaller(MaxDays, Larger(1, n + 2))
  BY <1>1, <1>2 DEF Bars
<1>4. MaxDays \in Nat \ {0}  BY AnalyticsConstants
<1>. QED  BY <1>3, <1>4 DEF Smaller, Larger

(* The dates of the ends of such a range. *)
LEMMA DatesOfDays ==
    ASSUME NEW from \in Int, NEW n \in Int
    PROVE  /\ Date(from) \in Int /\ Date(from + 24 * n + 23) \in Int
           /\ from = 24 * Date(from) => Date(from + 24 * n + 23) = Date(from) + n
           /\ from # 24 * Date(from) => Date(from + 24 * n + 23) = Date(from) + n + 1
<1>. DEFINE f == Date(from)
            t == Date(from + 24 * n + 23)
<1>1. f \in Int /\ f * 24 <= from /\ from < f * 24 + 24  BY DateBounds
<1>2. t \in Int /\ t * 24 <= from + 24 * n + 23 /\ from + 24 * n + 23 < t * 24 + 24
  BY DateBounds
<1>. HIDE DEF f, t
<1>3. from = 24 * f => t = f + n  BY <1>1, <1>2
<1>4. from # 24 * f => t = f + n + 1  BY <1>1, <1>2
<1>. QED  BY <1>1, <1>2, <1>3, <1>4 DEF f, t

-----------------------------------------------------------------------------
(* The inductive invariant: the types, that a range is a number of days     *)
(* with its bars, and that the chart has the rows of its range.             *)
RangeInv ==
    ask.phase \in {"reading", "top", "done"} =>
        \E n \in Int : /\ ask.to = ask.from + 24 * n + 23
                       /\ ask.bars = Bars(ask.from, ask.to)

ChartInv ==
    /\ ask.chart = {r \in ask.all : ask.from <= r.at /\ r.at <= ask.to}
    /\ ask.phase \in {"idle", "found"} =>
           ask.all = {} /\ ask.from = 0 /\ ask.to = 0 /\ ask.bars = 1

IInv == TypeOK /\ RangeInv /\ ChartInv

LEMMA InitInv == Init => IInv
<1>. SUFFICES ASSUME Init PROVE IInv  OBVIOUS
<1>1. Nothing \in Ask  BY AnalyticsConstants DEF Nothing, Ask
<1>2. TypeOK  BY <1>1 DEF Init, TypeOK
<1>3. RangeInv /\ ChartInv  BY DEF Init, RangeInv, ChartInv, Nothing
<1>. QED  BY <1>2, <1>3 DEF IInv

(* The times of a query. *)
LEMMA QueryRange ==
    ASSUME NEW q \in Query, TypeOK
    PROVE  /\ From(q) \in Int /\ To(q) \in Int
           /\ \E n \in Int : To(q) = From(q) + 24 * n + 23
           /\ Bars(From(q), To(q)) \in 1 .. MaxDays
<1>1. zone \in Int /\ now \in Int  BY AnalyticsConstants DEF TypeOK
<1>. DEFINE y == IF q.to = NoTime THEN now ELSE q.to
            x == IF q.from = NoTime THEN To(q) - (q.days - 1) * Day ELSE q.from
<1>2. y \in Int  BY <1>1, AnalyticsConstants DEF Query
<1>3. To(q) = EndOfDay(y)  BY DEF To
<1>4. To(q) \in Int
  <2>1. StartOfDay(y) \in Int  BY <1>1, <1>2, StartIsADay
  <2>. QED  BY <1>3, <2>1 DEF EndOfDay, Day
<1>5. q.days \in Int
  <2>1. q.days \in Asked  BY DEF Query
  <2>2. q.days \in 1 .. MaxDays  BY <2>1, AnalyticsConstants
  <2>. QED  BY <2>2
<1>6. x \in Int
  <2>1. CASE q.from = NoTime
    <3>1. To(q) - (q.days - 1) * 24 \in Int  BY <1>4, <1>5
    <3>. QED  BY <2>1, <3>1 DEF Day
  <2>2. CASE q.from # NoTime
    <3>1. q.from \in Given  BY <2>2 DEF Query
    <3>. QED  BY <2>2, <3>1, AnalyticsConstants
  <2>. QED  BY <2>1, <2>2
<1>7. From(q) = StartOfDay(x)  BY DEF From
<1>8. From(q) \in Int  BY <1>1, <1>6, <1>7, StartIsADay
<1>. HIDE DEF x, y
<1>11. \E n \in Int : EndOfDay(y) = StartOfDay(x) + 24 * n + 23
  BY <1>1, <1>2, <1>6, RangeIsDays
<1>9. PICK n \in Int : To(q) = From(q) + 24 * n + 23
  BY <1>3, <1>7, <1>11
<1>10. Bars(From(q), To(q)) \in 1 .. MaxDays  BY <1>8, <1>9, BarsOfDays
<1>. QED  BY <1>4, <1>8, <1>9, <1>10

(* What the queries return. *)
LEMMA QueriesReturnRows ==
    ASSUME TypeOK
    PROVE  /\ Scope \subseteq Row /\ InRange \subseteq Row /\ Today \subseteq Row
           /\ InRange = {r \in Scope : ask.from <= r.at /\ r.at <= ask.to}
<1>1. Scope \subseteq Row  BY DEF TypeOK, Scope
<1>2. InRange \subseteq Row  BY <1>1 DEF InRange
<1>3. Today \subseteq Row  BY <1>1 DEF Today
<1>. QED  BY <1>1, <1>2, <1>3 DEF InRange

(* A step that leaves the range and the chart of a request alone. *)
LEMMA RangeStays ==
    ASSUME IInv, UNCHANGED ask
    PROVE  RangeInv' /\ ChartInv'
<1>. QED  BY DEF IInv, RangeInv, ChartInv, Bars, CeilDays, Smaller, Larger, Day

LEMMA StepInv == IInv /\ [Next]_vars => IInv'
<1>. SUFFICES ASSUME IInv, [Next]_vars PROVE IInv'  OBVIOUS
<1>. USE DEF IInv
<1>1. ASSUME NEW q \in Query, AskOverview(q)  PROVE IInv'
  <2>1. /\ From(q) \in Int /\ To(q) \in Int
        /\ \E n \in Int : To(q) = From(q) + 24 * n + 23
        /\ Bars(From(q), To(q)) \in 1 .. MaxDays
    BY QueryRange
  <2>2. StartOfDay(now) \in Int
    <3>1. zone \in Int /\ now \in Int  BY AnalyticsConstants DEF TypeOK
    <3>. QED  BY <3>1, StartIsADay
  <2>3. /\ ask' = [Nothing EXCEPT !.phase = "reading", !.start = StartOfDay(now),
                                  !.from = From(q), !.to = To(q),
                                  !.bars = Bars(From(q), To(q))]
        /\ UNCHANGED <<zone, now, links, events, moved>>
    BY <1>1 DEF AskOverview
  <2>4. ask' \in Ask  BY <2>1, <2>2, <2>3 DEF Nothing, Ask
  <2>5. /\ ask'.phase = "reading" /\ ask'.from = From(q) /\ ask'.to = To(q)
        /\ ask'.bars = Bars(From(q), To(q)) /\ ask'.chart = {} /\ ask'.all = {}
    BY <2>3 DEF Nothing
  <2>6. TypeOK'  BY <2>3, <2>4 DEF TypeOK
  <2>7. RangeInv'  BY <2>1, <2>5 DEF RangeInv, Bars, CeilDays, Smaller, Larger, Day
  <2>8. ChartInv'  BY <2>5 DEF ChartInv
  <2>. QED  BY <2>6, <2>7, <2>8
<1>2. ASSUME NEW l \in Links, AskLink(l)  PROVE IInv'
  <2>1. /\ ask' = [Nothing EXCEPT !.phase = "found", !.link = l,
                                  !.total = {r \in events : r.link = l}]
        /\ UNCHANGED <<zone, now, links, events, moved>>
    BY <1>2 DEF AskLink
  <2> DEFINE T == {r \in events : r.link = l}
  <2>7. events \subseteq Row  BY DEF TypeOK
  <2>2. T \subseteq Row  BY <2>7
  <2>8. ask' = [Nothing EXCEPT !.phase = "found", !.link = l, !.total = T]
    BY <2>1
  <2> HIDE DEF T
  <2>9. Nothing \in Ask  BY AnalyticsConstants DEF Nothing, Ask
  <2>3. ask' \in Ask  BY <2>2, <2>8, <2>9 DEF Ask
  <2>4. /\ ask'.phase = "found" /\ ask'.chart = {} /\ ask'.all = {}
        /\ ask'.from = 0 /\ ask'.to = 0 /\ ask'.bars = 1
    BY <2>1 DEF Nothing
  <2>5. TypeOK'  BY <2>1, <2>3 DEF TypeOK
  <2>6. RangeInv' /\ ChartInv'  BY <2>4 DEF RangeInv, ChartInv
  <2>. QED  BY <2>5, <2>6
<1>3. ASSUME NEW q \in Query, ResolveLink(q)  PROVE IInv'
  <2>1. /\ From(q) \in Int /\ To(q) \in Int
        /\ \E n \in Int : To(q) = From(q) + 24 * n + 23
        /\ Bars(From(q), To(q)) \in 1 .. MaxDays
    BY QueryRange
  <2>2. /\ ask.phase = "found"
        /\ ask' = [ask EXCEPT !.phase = "reading", !.got = {"total", "today", "leaders"},
                              !.from = From(q), !.to = To(q),
                              !.bars = Bars(From(q), To(q))]
        /\ UNCHANGED <<zone, now, links, events, moved>>
    BY <1>3 DEF ResolveLink
  <2>3. ask \in Ask  BY DEF TypeOK
  <2>4. ask' \in Ask  BY <2>1, <2>2, <2>3 DEF Ask, Parts
  <2>5. /\ ask'.phase = "reading" /\ ask'.from = From(q) /\ ask'.to = To(q)
        /\ ask'.bars = Bars(From(q), To(q)) /\ ask'.chart = ask.chart
        /\ ask'.all = ask.all
    BY <2>2, <2>3 DEF Ask
  <2>6. ask.chart = {} /\ ask.all = {}  BY <2>2 DEF ChartInv
  <2>7. TypeOK'  BY <2>2, <2>4 DEF TypeOK
  <2>8. RangeInv'  BY <2>1, <2>5 DEF RangeInv, Bars, CeilDays, Smaller, Larger, Day
  <2>9. ChartInv'  BY <2>5, <2>6 DEF ChartInv
  <2>. QED  BY <2>7, <2>8, <2>9
<1>4. ASSUME ReadTotal  PROVE IInv'
  <2>1. /\ ask' = [ask EXCEPT !.got = ask.got \cup {"total"}, !.total = Scope]
        /\ UNCHANGED <<zone, now, links, events, moved>>
    BY <1>4 DEF ReadTotal, Read
  <2>2. ask \in Ask /\ Scope \subseteq Row  BY QueriesReturnRows DEF TypeOK
  <2>3. ask' \in Ask  BY <2>1, <2>2 DEF Ask, Parts
  <2>4. /\ ask'.phase = ask.phase /\ ask'.from = ask.from /\ ask'.to = ask.to
        /\ ask'.bars = ask.bars /\ ask'.chart = ask.chart /\ ask'.all = ask.all
    BY <2>1, <2>2 DEF Ask
  <2>5. TypeOK'  BY <2>1, <2>3 DEF TypeOK
  <2>6. RangeInv'  BY <2>4 DEF RangeInv, Bars, CeilDays, Smaller, Larger, Day
  <2>7. ChartInv'  BY <2>4 DEF ChartInv
  <2>. QED  BY <2>5, <2>6, <2>7
<1>5. ASSUME ReadToday  PROVE IInv'
  <2>1. /\ ask' = [ask EXCEPT !.got = ask.got \cup {"today"}, !.today = Today,
                              !.late = (now > ask.to)]
        /\ UNCHANGED <<zone, now, links, events, moved>>
    BY <1>5 DEF ReadToday, Read
  <2>2. ask \in Ask /\ Today \subseteq Row  BY QueriesReturnRows DEF TypeOK
  <2>3. (now > ask.to) \in BOOLEAN  OBVIOUS
  <2>4. ask' \in Ask  BY <2>1, <2>2, <2>3 DEF Ask, Parts
  <2>5. /\ ask'.phase = ask.phase /\ ask'.from = ask.from /\ ask'.to = ask.to
        /\ ask'.bars = ask.bars /\ ask'.chart = ask.chart /\ ask'.all = ask.all
    BY <2>1, <2>2 DEF Ask
  <2>6. TypeOK'  BY <2>1, <2>4 DEF TypeOK
  <2>7. RangeInv'  BY <2>5 DEF RangeInv, Bars, CeilDays, Smaller, Larger, Day
  <2>8. ChartInv'  BY <2>5 DEF ChartInv
  <2>. QED  BY <2>6, <2>7, <2>8
<1>6. ASSUME ReadLeaders  PROVE IInv'
  <2>1. PICK L \in SUBSET Links :
          /\ ask' = [ask EXCEPT !.got = ask.got \cup {"leaders"}, !.leading = L]
          /\ UNCHANGED <<zone, now, links, events, moved>>
    BY <1>6 DEF ReadLeaders, Read
  <2>2. ask \in Ask  BY DEF TypeOK
  <2>3. ask' \in Ask  BY <2>1, <2>2 DEF Ask, Parts
  <2>4. /\ ask'.phase = ask.phase /\ ask'.from = ask.from /\ ask'.to = ask.to
        /\ ask'.bars = ask.bars /\ ask'.chart = ask.chart /\ ask'.all = ask.all
    BY <2>1, <2>2 DEF Ask
  <2>5. TypeOK'  BY <2>1, <2>3 DEF TypeOK
  <2>6. RangeInv'  BY <2>4 DEF RangeInv, Bars, CeilDays, Smaller, Larger, Day
  <2>7. ChartInv'  BY <2>4 DEF ChartInv
  <2>. QED  BY <2>5, <2>6, <2>7
<1>14. ASSUME ReadGroups  PROVE IInv'
  <2>1. /\ ask' = [ask EXCEPT !.got = ask.got \cup {"groups"}, !.groups = InRange]
        /\ UNCHANGED <<zone, now, links, events, moved>>
    BY <1>14 DEF ReadGroups, Read
  <2>2. ask \in Ask /\ InRange \subseteq Row  BY QueriesReturnRows DEF TypeOK
  <2>3. ask' \in Ask  BY <2>1, <2>2 DEF Ask, Parts
  <2>4. /\ ask'.phase = ask.phase /\ ask'.from = ask.from /\ ask'.to = ask.to
        /\ ask'.bars = ask.bars /\ ask'.chart = ask.chart /\ ask'.all = ask.all
    BY <2>1, <2>2 DEF Ask
  <2>5. TypeOK'  BY <2>1, <2>3 DEF TypeOK
  <2>6. RangeInv'  BY <2>4 DEF RangeInv, Bars, CeilDays, Smaller, Larger, Day
  <2>7. ChartInv'  BY <2>4 DEF ChartInv
  <2>. QED  BY <2>5, <2>6, <2>7
<1>7. ASSUME ReadChart  PROVE IInv'
  <2>1. /\ ask.phase = "reading"
        /\ ask' = [ask EXCEPT !.got = ask.got \cup {"chart"},
                              !.chart = InRange, !.all = Scope]
        /\ UNCHANGED <<zone, now, links, events, moved>>
    BY <1>7 DEF ReadChart, Read
  <2>2. ask \in Ask /\ Scope \subseteq Row /\ InRange \subseteq Row
    BY QueriesReturnRows DEF TypeOK
  <2>3. ask' \in Ask  BY <2>1, <2>2 DEF Ask, Parts
  <2>4. /\ ask'.phase = ask.phase /\ ask'.from = ask.from /\ ask'.to = ask.to
        /\ ask'.bars = ask.bars /\ ask'.chart = InRange /\ ask'.all = Scope
    BY <2>1, <2>2 DEF Ask
  <2>5. TypeOK'  BY <2>1, <2>3 DEF TypeOK
  <2>6. RangeInv'  BY <2>4 DEF RangeInv, Bars, CeilDays, Smaller, Larger, Day
  <2>7. InRange = {r \in Scope : ask.from <= r.at /\ r.at <= ask.to}
    BY QueriesReturnRows
  <2>8. ChartInv'  BY <2>1, <2>4, <2>7 DEF ChartInv
  <2>. QED  BY <2>5, <2>6, <2>8
<1>8. ASSUME AllRead  PROVE IInv'
  <2>1. /\ ask.phase = "reading"
        /\ ask' = [ask EXCEPT !.phase = IF ask.link = NoLink THEN "top" ELSE "done"]
        /\ UNCHANGED <<zone, now, links, events, moved>>
    BY <1>8 DEF AllRead
  <2>2. ask \in Ask  BY DEF TypeOK
  <2>3. ask' \in Ask  BY <2>1, <2>2 DEF Ask
  <2>4. /\ ask'.phase \in {"top", "done"} /\ ask'.from = ask.from /\ ask'.to = ask.to
        /\ ask'.bars = ask.bars /\ ask'.chart = ask.chart /\ ask'.all = ask.all
    BY <2>1, <2>2 DEF Ask
  <2>5. TypeOK'  BY <2>1, <2>3 DEF TypeOK
  <2>6. RangeInv'
    BY <2>1, <2>4 DEF RangeInv, Bars, CeilDays, Smaller, Larger, Day
  <2>7. ChartInv'  BY <2>4 DEF ChartInv
  <2>. QED  BY <2>5, <2>6, <2>7
<1>9. ASSUME ReadTop  PROVE IInv'
  <2>1. /\ ask.phase = "top" /\ ask' = [ask EXCEPT !.phase = "done", !.top = Found]
        /\ UNCHANGED <<zone, now, links, events, moved>>
    BY <1>9 DEF ReadTop
  <2>2. ask \in Ask /\ Found \subseteq Links  BY DEF TypeOK, Found
  <2>3. ask' \in Ask  BY <2>1, <2>2 DEF Ask
  <2>4. /\ ask'.phase = "done" /\ ask'.from = ask.from /\ ask'.to = ask.to
        /\ ask'.bars = ask.bars /\ ask'.chart = ask.chart /\ ask'.all = ask.all
    BY <2>1, <2>2 DEF Ask
  <2>5. TypeOK'  BY <2>1, <2>3 DEF TypeOK
  <2>6. RangeInv'
    BY <2>1, <2>4 DEF RangeInv, Bars, CeilDays, Smaller, Larger, Day
  <2>7. ChartInv'  BY <2>4 DEF ChartInv
  <2>. QED  BY <2>5, <2>6, <2>7
<1>10. ASSUME NEW c \in Clicks, NEW l \in Links, Click(c, l)  PROVE IInv'
  <2>1. /\ events' = events \cup {[id |-> c, at |-> now, link |-> l]}
        /\ moved' \subseteq moved \cup {[id |-> c, at |-> now, link |-> l]}
        /\ UNCHANGED <<zone, now, links, ask>>
    BY <1>10 DEF Click, Moving
  <2>2. [id |-> c, at |-> now, link |-> l] \in Row  BY DEF TypeOK, Row
  <2>3. TypeOK'  BY <2>1, <2>2 DEF TypeOK
  <2>. QED  BY <2>1, <2>3, RangeStays
<1>11. ASSUME NEW l \in Links, DeleteLink(l)  PROVE IInv'
  <2>1. /\ links' = links \ {l} /\ events' = {r \in events : r.link # l}
        /\ moved' \subseteq moved \cup events
        /\ UNCHANGED <<zone, now, ask>>
    BY <1>11 DEF DeleteLink, Moving
  <2>2. TypeOK'  BY <2>1 DEF TypeOK
  <2>. QED  BY <2>1, <2>2, RangeStays
<1>12. ASSUME Tick  PROVE IInv'
  <2>1. now' \in Moments /\ UNCHANGED <<zone, links, events, ask, moved>>
    BY <1>12 DEF Tick
  <2>2. TypeOK'  BY <2>1 DEF TypeOK
  <2>. QED  BY <2>1, <2>2, RangeStays
<1>13. ASSUME UNCHANGED vars  PROVE IInv'
  <2>1. UNCHANGED <<zone, now, links, events, ask, moved>>  BY <1>13 DEF vars
  <2>2. TypeOK'  BY <2>1 DEF TypeOK
  <2>. QED  BY <2>1, <2>2, RangeStays
<1>. QED
  BY <1>1, <1>2, <1>3, <1>4, <1>5, <1>6, <1>7, <1>8, <1>9, <1>10, <1>11, <1>12,
     <1>13, <1>14
  DEF Next

(* IInv is an invariant of every request, under any clicks and deletions. *)
THEOREM Invariance == Spec => []IInv
<1>. QED  BY InitInv, StepInv, PTL DEF Spec

(* Every variable keeps its type; a chart has between 1 and MaxDays bars.   *)
THEOREM TypeCorrectness == Spec => []TypeOK
<1>1. IInv => TypeOK  BY DEF IInv
<1>. QED  BY Invariance, <1>1, PTL

(* What the invariant says of a request with a chart.                       *)
LEMMA ChartOfDays ==
    ASSUME IInv, ask.phase \notin {"idle", "found"}
    PROVE  \E n \in Int :
               /\ ask.to = ask.from + 24 * n + 23
               /\ ask.bars = Bars(ask.from, ask.from + 24 * n + 23)
<1>1. ask.phase \in {"reading", "top", "done"}  BY DEF IInv, TypeOK, Ask
<1>2. PICK n \in Int : /\ ask.to = ask.from + 24 * n + 23
                      /\ ask.bars = Bars(ask.from, ask.to)
  BY <1>1 DEF IInv, RangeInv
<1>. WITNESS n \in Int
<1>. QED  BY <1>2

(* The types of what a chart is made of.                                    *)
LEMMA ChartTypes ==
    ASSUME IInv
    PROVE  /\ ask.from \in Int /\ ask.to \in Int /\ ask.bars \in Int
           /\ ask.chart \subseteq Row /\ ask.all \subseteq Row
           /\ \A r \in Row : r.at \in Int
<1>1. ask \in Ask  BY DEF IInv, TypeOK
<1>2. /\ ask.from \in Int /\ ask.to \in Int /\ ask.bars \in 1 .. MaxDays
      /\ ask.chart \subseteq Row /\ ask.all \subseteq Row
  BY <1>1 DEF Ask
<1>3. ask.bars \in Int  BY <1>2, AnalyticsConstants
<1>4. \A r \in Row : r.at \in Int  BY AnalyticsConstants DEF Row
<1>. QED  BY <1>2, <1>3, <1>4

(* The same for the range of a request.                                     *)
LEMMA DatesOfAsk ==
    ASSUME NEW n \in Int, ask.from \in Int, ask.to = ask.from + 24 * n + 23
    PROVE  /\ Date(ask.from) \in Int /\ Date(ask.to) \in Int
           /\ ask.from = 24 * Date(ask.from) => Date(ask.to) = Date(ask.from) + n
           /\ ask.from # 24 * Date(ask.from) => Date(ask.to) = Date(ask.from) + n + 1
<1>. DEFINE x == ask.from
<1>1. x \in Int  OBVIOUS
<1>2. ask.to = x + 24 * n + 23  OBVIOUS
<1>. HIDE DEF x
<1>3. /\ Date(x) \in Int /\ Date(x + 24 * n + 23) \in Int
      /\ x = 24 * Date(x) => Date(x + 24 * n + 23) = Date(x) + n
      /\ x # 24 * Date(x) => Date(x + 24 * n + 23) = Date(x) + n + 1
  BY <1>1, DatesOfDays
<1>4. Date(ask.to) = Date(x + 24 * n + 23)  BY <1>2
<1>5. /\ Date(x) \in Int /\ Date(ask.to) \in Int
      /\ x = 24 * Date(x) => Date(ask.to) = Date(x) + n
      /\ x # 24 * Date(x) => Date(ask.to) = Date(x) + n + 1
  BY <1>3, <1>4, Zenon
<1>. QED  BY <1>5 DEF x

(* resolveRange's number of bars is enough for buildDailyClicks to show     *)
(* every click of the range, whatever the zone of the server.               *)
THEOREM BarTheorem == Spec => []EveryClickHasItsBar
<1>1. IInv => EveryClickHasItsBar
  <2>. SUFFICES ASSUME IInv, NEW r \in ask.chart
                PROVE  r \in Shown \/ Date(r.at) <= Date(ask.to) - MaxDays
    BY DEF EveryClickHasItsBar
  <2>1. /\ ask.from <= r.at /\ r.at <= ask.to /\ r \in ask.all
    BY DEF IInv, ChartInv
  <2>2. ask.phase \notin {"idle", "found"}  BY <2>1 DEF IInv, ChartInv
  <2>3. PICK n \in Int : /\ ask.to = ask.from + 24 * n + 23
                        /\ ask.bars = Bars(ask.from, ask.from + 24 * n + 23)
    BY <2>2, ChartOfDays
  <2>4. /\ ask.from \in Int /\ ask.to \in Int /\ r.at \in Int
        /\ ask.bars \in Int
    BY <2>1, ChartTypes
  <2>5. /\ Date(ask.from) <= Date(r.at) /\ Date(r.at) <= Date(ask.to)
        /\ Date(r.at) \in Int
    BY <2>1, <2>4, DateMonotone, DateBounds
  <2>6. /\ Date(ask.from) \in Int /\ Date(ask.to) \in Int
        /\ Date(ask.to) <= Date(ask.from) + n + 1
    BY <2>3, <2>4, DatesOfAsk
  <2>7. ask.bars = MaxDays \/ ask.bars >= n + 2
    BY <2>3, <2>4, BarsOfDays
  <2>8. MaxDays \in Int  BY AnalyticsConstants
  <2>9. \/ Date(ask.to) - ask.bars + 1 <= Date(r.at)
        \/ Date(r.at) <= Date(ask.to) - MaxDays
    BY <2>4, <2>5, <2>6, <2>7, <2>8
  <2>10. Date(r.at) \in Dates => r \in Shown
    <3>1. r \in Bar(Date(r.at))  BY DEF Bar
    <3>. QED  BY <3>1 DEF Shown
  <2>. QED  BY <2>4, <2>5, <2>6, <2>9, <2>10 DEF Dates
<1>. QED  BY Invariance, <1>1, PTL

(* A bar that is not the first or the last shows every click of its UTC     *)
(* day, although the range is made of days of another calendar.             *)
THEOREM WholeBarsTheorem == Spec => []InnerBarsAreWhole
<1>1. IInv => InnerBarsAreWhole
  <2>. SUFFICES ASSUME IInv, NEW r \in ask.all,
                       Date(r.at) \in
                         Dates \ {Date(ask.to) - ask.bars + 1, Date(ask.to)}
                PROVE  r \in Bar(Date(r.at))
    BY DEF InnerBarsAreWhole
  <2>2. ask.phase \notin {"idle", "found"}  BY DEF IInv, ChartInv
  <2>3. PICK n \in Int : /\ ask.to = ask.from + 24 * n + 23
                        /\ ask.bars = Bars(ask.from, ask.from + 24 * n + 23)
    BY <2>2, ChartOfDays
  <2>4. /\ ask.from \in Int /\ ask.to \in Int /\ r.at \in Int
        /\ ask.bars \in Int
    BY ChartTypes
  <2>5. /\ Date(r.at) \in Int /\ Date(ask.to) \in Int /\ Date(ask.from) \in Int
        /\ Date(r.at) * 24 <= r.at /\ r.at < Date(r.at) * 24 + 24
        /\ Date(ask.to) * 24 <= ask.to
        /\ ask.from < Date(ask.from) * 24 + 24
    BY <2>4, DateBounds
  <2>6. /\ Date(ask.to) - ask.bars + 1 < Date(r.at)
        /\ Date(r.at) < Date(ask.to)
    BY <2>4, <2>5 DEF Dates
  <2>7. r.at <= ask.to  BY <2>4, <2>5, <2>6
  <2>8. ask.bars <= n + 2
    <3>1. \/ n >= 0 /\ ask.bars <= n + 2
          \/ n < 0 /\ ask.bars = 1
      BY <2>3, <2>4, BarsOfDays
    <3>2. ask.bars # 1  BY <2>4, <2>5, <2>6
    <3>. QED  BY <3>1, <3>2
  <2>9. /\ ask.from = 24 * Date(ask.from) => Date(ask.to) = Date(ask.from) + n
        /\ ask.from # 24 * Date(ask.from) => Date(ask.to) = Date(ask.from) + n + 1
    BY <2>3, <2>4, DatesOfAsk
  <2>10. ask.from <= r.at
    <3>1. CASE ask.from = 24 * Date(ask.from)
      <4>1. Date(r.at) >= Date(ask.from)
        BY <3>1, <2>3, <2>4, <2>5, <2>6, <2>8, <2>9
      <4>. QED  BY <3>1, <4>1, <2>4, <2>5
    <3>2. CASE ask.from # 24 * Date(ask.from)
      <4>1. Date(r.at) >= Date(ask.from) + 1
        BY <3>2, <2>3, <2>4, <2>5, <2>6, <2>8, <2>9
      <4>. QED  BY <4>1, <2>4, <2>5
    <3>. QED  BY <3>1, <3>2
  <2>11. r \in ask.chart  BY <2>7, <2>10 DEF IInv, ChartInv
  <2>. QED  BY <2>11 DEF Bar
<1>. QED  BY Invariance, <1>1, PTL

(* Nothing of the range is missing in the chart, and no whole day is cut.   *)
THEOREM ChartTheorem == Spec => []ChartIsComplete
<1>1. EveryClickHasItsBar /\ InnerBarsAreWhole => ChartIsComplete
  BY DEF ChartIsComplete
<1>. QED  BY <1>1, BarTheorem, WholeBarsTheorem, PTL

(* The chart begins with at most one bar before the range.                  *)
THEOREM OneBarTheorem == Spec => []OneBarTooMany
<1>1. IInv => OneBarTooMany
  <2>. SUFFICES ASSUME IInv, ask.from <= ask.to
                PROVE  Date(ask.from) - 1 <= Date(ask.to) - ask.bars + 1
    BY DEF OneBarTooMany
  <2>1. CASE ask.phase \in {"idle", "found"}
    <3>1. ask.from = 0 /\ ask.to = 0 /\ ask.bars = 1
      BY <2>1 DEF IInv, ChartInv
    <3>2. Date(0) \in Int  BY DateBounds
    <3>. QED  BY <3>1, <3>2
  <2>2. CASE ask.phase \notin {"idle", "found"}
    <3>1. PICK n \in Int : /\ ask.to = ask.from + 24 * n + 23
                          /\ ask.bars = Bars(ask.from, ask.from + 24 * n + 23)
      BY <2>2, ChartOfDays
    <3>2. ask.from \in Int /\ ask.to \in Int /\ ask.bars \in Int
      BY ChartTypes
    <3>3. n >= 0  BY <3>1, <3>2
    <3>4. ask.bars <= n + 2  BY <3>1, <3>2, <3>3, BarsOfDays
    <3>5. /\ Date(ask.from) \in Int /\ Date(ask.to) \in Int
          /\ Date(ask.to) >= Date(ask.from) + n
      BY <3>1, <3>2, DatesOfAsk
    <3>. QED  BY <3>2, <3>4, <3>5
  <2>. QED  BY <2>1, <2>2
<1>. QED  BY Invariance, <1>1, PTL

-----------------------------------------------------------------------------
(* The parts of one answer.  The second invariant: rows are of the past and *)
(* of links that exist, the day that today begins with is a day of the      *)
(* server, and each part that was read differs from what its query would    *)
(* return now by no more than the rows that came or went since the request  *)
(* began.                                                                   *)
EventsInv ==
    /\ IsFiniteSet(events) /\ IsFiniteSet(moved)
    /\ \A r \in events : r.at <= now /\ r.link \in links

DayInv ==
    /\ ask.phase = "reading" /\ "today" \notin ask.got => StartOfDay(ask.start) = ask.start
    /\ ask.phase = "found" => ask.today = {} /\ ask.got = {} /\ ask.link # NoLink
    /\ \A r \in ask.today : /\ StartOfDay(ask.start) = ask.start
                            /\ ask.start <= r.at
                            /\ ~ask.late => r.at <= ask.to

NumbersInv ==
    /\ ask.phase = "found" \/ (Answering /\ "total" \in ask.got) =>
           Differ(ask.total, Scope) \subseteq moved
    /\ Answering /\ "today" \in ask.got /\ ask.link = NoLink =>
           Differ(ask.today, Today) \subseteq moved
    /\ Answering /\ "groups" \in ask.got => Differ(ask.groups, InRange) \subseteq moved
    /\ Answering /\ "chart" \in ask.got =>
           Differ(ask.chart, InRange) \subseteq moved /\ Differ(ask.all, Scope) \subseteq moved
    /\ ask.phase = "top" => ask.got = Parts /\ ask.link = NoLink
    /\ RowsAgree

(* L leads in the rows R but for those of M. *)
Lead(R, M, L) ==
    /\ Cardinality(L) <= MaxTop
    /\ \A m \in Links \ L : Hits(R \ M, m) > 0 =>
           /\ Cardinality(L) = MaxTop
           /\ \A l \in L : Hits(R \cup M, l) >= Hits(R \ M, m)

LeadInv ==
    /\ Answering /\ "leaders" \in ask.got /\ ask.link = NoLink =>
           Lead(InRange, moved, ask.leading)
    /\ TopLinksLead

PartsInv == EventsInv /\ DayInv /\ NumbersInv /\ LeadInv

(* More rows, no fewer clicks of a link.                                    *)
LEMMA HitsGrow ==
    ASSUME NEW A, NEW B, A \subseteq B, IsFiniteSet(B), NEW l
    PROVE  Hits(A, l) \in Nat /\ Hits(B, l) \in Nat /\ Hits(A, l) <= Hits(B, l)
<1>. DEFINE a == {r \in A : r.link = l}
            b == {r \in B : r.link = l}
<1>1. a \subseteq b /\ b \subseteq B  OBVIOUS
<1>2. IsFiniteSet(b)  BY <1>1, FS_Subset
<1>3. IsFiniteSet(a) /\ Cardinality(a) <= Cardinality(b)  BY <1>1, <1>2, FS_Subset
<1>4. Cardinality(a) \in Nat /\ Cardinality(b) \in Nat  BY <1>2, <1>3, FS_CardinalityType
<1>. QED  BY <1>3, <1>4 DEF Hits

(* What leads goes on leading when rows come and go that are excused.       *)
LEMMA LeadStays ==
    ASSUME NEW R, NEW M, NEW L, Lead(R, M, L),
           NEW S, NEW N, M \subseteq N, Differ(R, S) \subseteq N,
           IsFiniteSet(R), IsFiniteSet(S), IsFiniteSet(N)
    PROVE  Lead(S, N, L)
<1>1. S \ N \subseteq R \ M /\ R \cup M \subseteq S \cup N  BY DEF Differ
<1>2. IsFiniteSet(R \ M)  BY FS_Subset
<1>3. IsFiniteSet(S \cup N)  BY FS_Union
<1>4. ASSUME NEW m \in Links \ L, Hits(S \ N, m) > 0
      PROVE  /\ Cardinality(L) = MaxTop
             /\ \A l \in L : Hits(S \cup N, l) >= Hits(S \ N, m)
  <2>1. /\ Hits(S \ N, m) \in Nat /\ Hits(R \ M, m) \in Nat
        /\ Hits(S \ N, m) <= Hits(R \ M, m)
    BY <1>1, <1>2, HitsGrow
  <2>2. Hits(R \ M, m) > 0  BY <1>4, <2>1
  <2>3. Cardinality(L) = MaxTop /\ \A l \in L : Hits(R \cup M, l) >= Hits(R \ M, m)
    BY <2>2 DEF Lead
  <2>4. ASSUME NEW l \in L  PROVE Hits(S \cup N, l) >= Hits(S \ N, m)
    <3>1. /\ Hits(R \cup M, l) \in Nat /\ Hits(S \cup N, l) \in Nat
          /\ Hits(R \cup M, l) <= Hits(S \cup N, l)
      BY <1>1, <1>3, HitsGrow
    <3>2. Hits(R \cup M, l) >= Hits(R \ M, m)  BY <2>3
    <3>. QED  BY <2>1, <3>1, <3>2
  <2>. QED  BY <2>3, <2>4
<1>5. Cardinality(L) <= MaxTop  BY DEF Lead
<1>. QED  BY <1>4, <1>5 DEF Lead

(* The links that a query returns lead in the rows that it read.            *)
LEMMA LeadersLead ==
    ASSUME NEW R, IsFiniteSet(R), NEW M, IsFiniteSet(M), NEW L, Leads(R, L)
    PROVE  Lead(R, M, L)
<1>1. IsFiniteSet(Clicked(R))
  <2>. DEFINE f == [r \in R |-> r.link]
  <2>1. f \in Surjection(R, Clicked(R))  BY DEF Clicked, Surjection
  <2>. QED  BY <2>1, FS_Surjection
<1>2. /\ L \subseteq Clicked(R)
      /\ Cardinality(L) = Smaller(MaxTop, Cardinality(Clicked(R)))
      /\ \A l \in L : \A m \in Clicked(R) \ L : Hits(R, l) >= Hits(R, m)
  BY DEF Leads
<1>3. Cardinality(Clicked(R)) \in Nat /\ MaxTop \in Nat
  BY <1>1, FS_CardinalityType, AnalyticsConstants
<1>4. Cardinality(L) <= MaxTop  BY <1>2, <1>3 DEF Smaller
<1>5. ASSUME NEW m \in Links \ L, Hits(R \ M, m) > 0
      PROVE  /\ Cardinality(L) = MaxTop
             /\ \A l \in L : Hits(R \cup M, l) >= Hits(R \ M, m)
  <2>1. m \in Clicked(R)
    <3>. SUFFICES ASSUME m \notin Clicked(R) PROVE FALSE  OBVIOUS
    <3>1. {r \in R \ M : r.link = m} = {}  BY DEF Clicked
    <3>2. Hits(R \ M, m) = 0  BY <3>1, FS_EmptySet DEF Hits
    <3>. QED  BY <1>5, <3>2
  <2>2. L # Clicked(R)  BY <2>1
  <2>3. Cardinality(L) # Cardinality(Clicked(R))  BY <1>1, <1>2, <2>2, FS_Subset
  <2>4. Cardinality(L) = MaxTop  BY <1>2, <1>3, <2>3 DEF Smaller
  <2>5. ASSUME NEW l \in L  PROVE Hits(R \cup M, l) >= Hits(R \ M, m)
    <3>1. IsFiniteSet(R \cup M)  BY FS_Union
    <3>2. R \subseteq R \cup M /\ R \ M \subseteq R  OBVIOUS
    <3>3. /\ Hits(R, l) \in Nat /\ Hits(R \cup M, l) \in Nat
          /\ Hits(R, l) <= Hits(R \cup M, l)
      BY <3>1, <3>2, HitsGrow
    <3>4. Hits(R \ M, m) \in Nat /\ Hits(R, m) \in Nat /\ Hits(R \ M, m) <= Hits(R, m)
      BY <3>2, HitsGrow
    <3>5. Hits(R, l) >= Hits(R, m)  BY <1>2, <2>1
    <3>. QED  BY <3>3, <3>4, <3>5
  <2>. QED  BY <2>4, <2>5
<1>. QED  BY <1>4, <1>5 DEF Lead

(* The rows that the queries would return now.                              *)
LEMMA FiniteRows ==
    ASSUME EventsInv
    PROVE  IsFiniteSet(Scope) /\ IsFiniteSet(InRange)
<1>1. Scope \subseteq events /\ InRange \subseteq events  BY DEF Scope, InRange
<1>. QED  BY <1>1, FS_Subset DEF EventsInv

(* The first hour of a day is the first hour of its day.                    *)
LEMMA StartTwice ==
    ASSUME NEW x \in Int, zone \in Int
    PROVE  StartOfDay(StartOfDay(x)) = StartOfDay(x)
<1>. DEFINE k == (x + zone) \div 24
<1>1. k \in Int  OBVIOUS
<1>2. StartOfDay(x) = k * 24 - zone  BY DEF StartOfDay, Day
<1>. HIDE DEF k
<1>3. ((k * 24 - zone + zone) \div 24) = k  BY <1>1
<1>4. StartOfDay(k * 24 - zone) = ((k * 24 - zone + zone) \div 24) * 24 - zone
  BY DEF StartOfDay, Day
<1>. QED  BY <1>2, <1>3, <1>4

LEMMA InitParts == Init => PartsInv
<1>. SUFFICES ASSUME Init PROVE PartsInv  OBVIOUS
<1>1. events = {} /\ moved = {} /\ ask.phase = "idle" /\ ask.today = {}
  BY DEF Init, Nothing
<1>2. EventsInv  BY <1>1, FS_EmptySet DEF EventsInv
<1>3. DayInv  BY <1>1 DEF DayInv
<1>4. NumbersInv  BY <1>1 DEF NumbersInv, RowsAgree, Answered, Answering
<1>5. LeadInv  BY <1>1 DEF LeadInv, TopLinksLead, Answered, Answering
<1>. QED  BY <1>2, <1>3, <1>4, <1>5 DEF PartsInv

(* A query that was answered: what it read, and what the others had read.   *)
LEMMA OneRead ==
    ASSUME IInv, PartsInv, ask.phase = "reading", ask'.phase = "reading",
           UNCHANGED <<zone, now, links, events, moved>>,
           ask'.link = ask.link, ask'.start = ask.start,
           ask'.from = ask.from, ask'.to = ask.to, ask.got \subseteq ask'.got,
           "total" \in ask'.got => \/ "total" \in ask.got /\ ask'.total = ask.total
                                   \/ ask'.total = Scope,
           "groups" \in ask'.got => \/ "groups" \in ask.got /\ ask'.groups = ask.groups
                                    \/ ask'.groups = InRange,
           "chart" \in ask'.got =>
               \/ /\ "chart" \in ask.got
                  /\ ask'.chart = ask.chart /\ ask'.all = ask.all
               \/ ask'.chart = InRange /\ ask'.all = Scope,
           "leaders" \in ask'.got => \/ "leaders" \in ask.got /\ ask'.leading = ask.leading
                                     \/ Leads(InRange, ask'.leading),
           \/ /\ ask'.today = ask.today /\ ask'.late = ask.late
              /\ "today" \in ask'.got => "today" \in ask.got
           \/ /\ StartOfDay(ask.start) = ask.start
              /\ ask'.today = Today /\ ask'.late = (now > ask.to)
    PROVE  PartsInv'
<1>1. EventsInv'  BY DEF PartsInv, EventsInv
<1>2. Scope' = Scope /\ InRange' = InRange /\ Today' = Today
  BY DEF InRange, Today, Scope
<1>3. DayInv'
  <2>1. StartOfDay(ask.start)' = StartOfDay(ask.start)  BY DEF StartOfDay
  <2>2. CASE /\ ask'.today = ask.today /\ ask'.late = ask.late
             /\ "today" \in ask'.got => "today" \in ask.got
    BY <2>1, <2>2 DEF PartsInv, DayInv
  <2>3. CASE /\ StartOfDay(ask.start) = ask.start
             /\ ask'.today = Today /\ ask'.late = (now > ask.to)
    <3>1. \A r \in Today : r \in events /\ ask.start <= r.at  BY DEF Today, Scope
    <3>2. ask.to \in Int /\ now \in Int /\ \A r \in events : r.at \in Int
      BY AnalyticsConstants DEF IInv, TypeOK, Ask, Row
    <3>3. \A r \in Today : ~(now > ask.to) => r.at <= ask.to
      BY <3>1, <3>2 DEF PartsInv, EventsInv
    <3>. QED  BY <2>1, <2>3, <3>1, <3>3 DEF DayInv
  <2>. QED  BY <2>2, <2>3
<1>4. NumbersInv'
  <2>1. RowsAgree'  BY DEF RowsAgree, Answered
  <2>2. Answering  BY DEF Answering
  <2>3. "total" \in ask'.got => Differ(ask'.total, Scope) \subseteq moved
    BY <2>2 DEF PartsInv, NumbersInv, Differ
  <2>4. "today" \in ask'.got /\ ask.link = NoLink => Differ(ask'.today, Today) \subseteq moved
    BY <2>2 DEF PartsInv, NumbersInv, Differ
  <2>5. "groups" \in ask'.got => Differ(ask'.groups, InRange) \subseteq moved
    BY <2>2 DEF PartsInv, NumbersInv, Differ
  <2>6. "chart" \in ask'.got => /\ Differ(ask'.chart, InRange) \subseteq moved
                                /\ Differ(ask'.all, Scope) \subseteq moved
    BY <2>2 DEF PartsInv, NumbersInv, Differ
  <2>. QED  BY <1>2, <2>1, <2>3, <2>4, <2>5, <2>6 DEF NumbersInv
<1>5. LeadInv'
  <2>1. TopLinksLead'  BY DEF TopLinksLead, Answered
  <2>2. ASSUME "leaders" \in ask'.got, ask.link = NoLink
        PROVE  Lead(InRange, moved, ask'.leading)
    <3>1. CASE "leaders" \in ask.got /\ ask'.leading = ask.leading
      BY <2>2, <3>1 DEF PartsInv, LeadInv, Answering
    <3>2. CASE Leads(InRange, ask'.leading)
      <4>1. IsFiniteSet(InRange) /\ IsFiniteSet(moved)
        BY FiniteRows DEF PartsInv, EventsInv
      <4>. QED  BY <3>2, <4>1, LeadersLead
    <3>. QED  BY <2>2, <3>1, <3>2
  <2>3. Lead(InRange, moved, ask.leading)' <=> Lead(InRange, moved, ask'.leading)
    BY <1>2 DEF Lead
  <2>. QED  BY <2>1, <2>2, <2>3 DEF LeadInv
<1>. QED  BY <1>1, <1>3, <1>4, <1>5 DEF PartsInv

LEMMA AskParts ==
    ASSUME IInv, PartsInv, NEW q \in Query, AskOverview(q) \/ ResolveLink(q)
    PROVE  PartsInv'
<1>1. UNCHANGED <<zone, now, links, events, moved>>
  BY DEF AskOverview, ResolveLink
<1>2. EventsInv'  BY <1>1 DEF PartsInv, EventsInv
<1>3. CASE AskOverview(q)
  <2>1. ask' = [Nothing EXCEPT !.phase = "reading", !.start = StartOfDay(now),
                               !.from = From(q), !.to = To(q),
                               !.bars = Bars(From(q), To(q))]
    BY <1>3 DEF AskOverview
  <2>2. /\ ask'.phase = "reading" /\ ask'.start = StartOfDay(now) /\ ask'.got = {}
        /\ ask'.today = {}
    BY <2>1 DEF Nothing
  <2>3. zone \in Int /\ now \in Int  BY AnalyticsConstants DEF IInv, TypeOK
  <2>4. StartOfDay(ask.start)' = ask'.start
    BY <1>1, <2>2, <2>3, StartTwice DEF StartOfDay
  <2>5. DayInv'  BY <2>2, <2>4 DEF DayInv
  <2>6. NumbersInv'  BY <2>2 DEF NumbersInv, RowsAgree, Answered
  <2>7. LeadInv'  BY <2>2 DEF LeadInv, TopLinksLead, Answered
  <2>. QED  BY <1>2, <2>5, <2>6, <2>7 DEF PartsInv
<1>4. CASE ResolveLink(q)
  <2>1. /\ ask.phase = "found"
        /\ ask' = [ask EXCEPT !.phase = "reading", !.got = {"total", "today", "leaders"},
                              !.from = From(q), !.to = To(q),
                              !.bars = Bars(From(q), To(q))]
    BY <1>4 DEF ResolveLink
  <2>2. /\ ask'.phase = "reading" /\ ask'.got = {"total", "today", "leaders"}
        /\ ask'.today = ask.today /\ ask'.link = ask.link /\ ask'.total = ask.total
    BY <2>1 DEF IInv, TypeOK, Ask
  <2>3. ask'.today = {} /\ ask'.link # NoLink  BY <2>1, <2>2 DEF PartsInv, DayInv
  <2>4. DayInv'  BY <2>2, <2>3 DEF DayInv
  <2>5. Differ(ask'.total, Scope') \subseteq moved
    <3>1. Scope' = Scope  BY <1>1, <2>2 DEF Scope
    <3>. QED  BY <2>1, <2>2, <3>1 DEF PartsInv, NumbersInv
  <2>6. NumbersInv'  BY <1>1, <2>2, <2>3, <2>5 DEF NumbersInv, RowsAgree, Answered
  <2>7. LeadInv'  BY <2>2, <2>3 DEF LeadInv, TopLinksLead, Answered
  <2>. QED  BY <1>2, <2>4, <2>6, <2>7 DEF PartsInv
<1>. QED  BY <1>3, <1>4

LEMMA AskLinkParts ==
    ASSUME IInv, PartsInv, NEW l \in Links, AskLink(l)
    PROVE  PartsInv'
<1>1. /\ UNCHANGED <<zone, now, links, events, moved>>
      /\ ask'.phase = "found" /\ ask'.today = {} /\ ask'.got = {} /\ ask'.link = l
      /\ ask'.total = {r \in events : r.link = l}
  BY DEF AskLink, Nothing
<1>2. EventsInv'  BY <1>1 DEF PartsInv, EventsInv
<1>3. l # NoLink  BY AnalyticsConstants
<1>4. DayInv'  BY <1>1, <1>3 DEF DayInv
<1>5. ask'.total = Scope'  BY <1>1, <1>3 DEF Scope
<1>6. Differ(ask'.total, Scope') = {}  BY <1>5 DEF Differ
<1>7. NumbersInv'  BY <1>1, <1>6 DEF NumbersInv, RowsAgree, Answered
<1>8. LeadInv'  BY <1>1 DEF LeadInv, TopLinksLead, Answered
<1>. QED  BY <1>2, <1>4, <1>7, <1>8 DEF PartsInv

LEMMA ReadParts ==
    ASSUME IInv, PartsInv,
           ReadTotal \/ ReadToday \/ ReadLeaders \/ ReadGroups \/ ReadChart
    PROVE  PartsInv'
<1>1. /\ ask.phase = "reading" /\ UNCHANGED <<zone, now, links, events, moved>>
  BY DEF ReadTotal, ReadToday, ReadLeaders, ReadGroups, ReadChart, Read
<1>2. ask \in Ask  BY DEF IInv, TypeOK
<1>3. CASE ReadTotal
  <2>1. ask' = [ask EXCEPT !.got = ask.got \cup {"total"}, !.total = Scope]
    BY <1>3 DEF ReadTotal, Read
  <2>2. /\ ask'.phase = ask.phase /\ ask'.link = ask.link /\ ask'.start = ask.start
        /\ ask'.from = ask.from /\ ask'.to = ask.to /\ ask'.got = ask.got \cup {"total"}
        /\ ask'.total = Scope /\ ask'.groups = ask.groups
        /\ ask'.chart = ask.chart /\ ask'.all = ask.all /\ ask'.leading = ask.leading
        /\ ask'.today = ask.today /\ ask'.late = ask.late
    BY <1>2, <2>1 DEF Ask
  <2>. QED  BY <1>1, <2>2, OneRead
<1>4. CASE ReadToday
  <2>1. /\ "today" \notin ask.got
        /\ ask' = [ask EXCEPT !.got = ask.got \cup {"today"}, !.today = Today,
                              !.late = (now > ask.to)]
    BY <1>4 DEF ReadToday, Read
  <2>2. /\ ask'.phase = ask.phase /\ ask'.link = ask.link /\ ask'.start = ask.start
        /\ ask'.from = ask.from /\ ask'.to = ask.to /\ ask'.got = ask.got \cup {"today"}
        /\ ask'.total = ask.total /\ ask'.groups = ask.groups
        /\ ask'.chart = ask.chart /\ ask'.all = ask.all /\ ask'.leading = ask.leading
        /\ ask'.today = Today /\ ask'.late = (now > ask.to)
    BY <1>2, <2>1 DEF Ask
  <2>3. StartOfDay(ask.start) = ask.start  BY <1>1, <2>1 DEF PartsInv, DayInv
  <2>. QED  BY <1>1, <2>2, <2>3, OneRead
<1>5. CASE ReadLeaders
  <2>1. PICK L \in SUBSET Links :
          /\ Leads(InRange, L)
          /\ ask' = [ask EXCEPT !.got = ask.got \cup {"leaders"}, !.leading = L]
    BY <1>5 DEF ReadLeaders, Read
  <2>2. /\ ask'.phase = ask.phase /\ ask'.link = ask.link /\ ask'.start = ask.start
        /\ ask'.from = ask.from /\ ask'.to = ask.to /\ ask'.got = ask.got \cup {"leaders"}
        /\ ask'.total = ask.total /\ ask'.groups = ask.groups
        /\ ask'.chart = ask.chart /\ ask'.all = ask.all /\ ask'.leading = L
        /\ ask'.today = ask.today /\ ask'.late = ask.late
    BY <1>2, <2>1 DEF Ask
  <2>. QED  BY <1>1, <2>1, <2>2, OneRead
<1>6. CASE ReadGroups
  <2>1. ask' = [ask EXCEPT !.got = ask.got \cup {"groups"}, !.groups = InRange]
    BY <1>6 DEF ReadGroups, Read
  <2>2. /\ ask'.phase = ask.phase /\ ask'.link = ask.link /\ ask'.start = ask.start
        /\ ask'.from = ask.from /\ ask'.to = ask.to /\ ask'.got = ask.got \cup {"groups"}
        /\ ask'.total = ask.total /\ ask'.groups = InRange
        /\ ask'.chart = ask.chart /\ ask'.all = ask.all /\ ask'.leading = ask.leading
        /\ ask'.today = ask.today /\ ask'.late = ask.late
    BY <1>2, <2>1 DEF Ask
  <2>. QED  BY <1>1, <2>2, OneRead
<1>7. CASE ReadChart
  <2>1. ask' = [ask EXCEPT !.got = ask.got \cup {"chart"}, !.chart = InRange, !.all = Scope]
    BY <1>7 DEF ReadChart, Read
  <2>2. /\ ask'.phase = ask.phase /\ ask'.link = ask.link /\ ask'.start = ask.start
        /\ ask'.from = ask.from /\ ask'.to = ask.to /\ ask'.got = ask.got \cup {"chart"}
        /\ ask'.total = ask.total /\ ask'.groups = ask.groups
        /\ ask'.chart = InRange /\ ask'.all = Scope /\ ask'.leading = ask.leading
        /\ ask'.today = ask.today /\ ask'.late = ask.late
    BY <1>2, <2>1 DEF Ask
  <2>. QED  BY <1>1, <2>2, OneRead
<1>. QED  BY <1>3, <1>4, <1>5, <1>6, <1>7

(* The links that lead and were not deleted are listed; one that was        *)
(* deleted has no clicks any more but those that went with it.              *)
LEMMA TopLeads ==
    ASSUME IInv, PartsInv, ask.phase = "top"
    PROVE  /\ Cardinality(ask.leading) <= MaxTop
           /\ \A m \in Links \ Found :
                  Hits(ask.chart \ moved, m) > 0 =>
                      /\ Cardinality(ask.leading) = MaxTop
                      /\ \A l \in Found :
                             Hits(ask.chart \cup moved, l) >= Hits(ask.chart \ moved, m)
<1>1. /\ Lead(InRange, moved, ask.leading) /\ Differ(ask.chart, InRange) \subseteq moved
  BY DEF PartsInv, NumbersInv, LeadInv, Answering, Parts
<1>2. /\ IsFiniteSet(InRange) /\ IsFiniteSet(moved)
      /\ \A r \in InRange : r.link \in links
  BY FiniteRows DEF PartsInv, EventsInv, InRange, Scope
<1>3. ask.chart \subseteq InRange \cup moved /\ ask.chart \ moved \subseteq InRange
  BY <1>1 DEF Differ
<1>4. IsFiniteSet(ask.chart)
  <2>1. IsFiniteSet(InRange \cup moved)  BY <1>2, FS_Union
  <2>. QED  BY <1>3, <2>1, FS_Subset
<1>5. Differ(InRange, ask.chart) \subseteq moved  BY <1>1 DEF Differ
<1>6. Lead(ask.chart, moved, ask.leading)  BY <1>1, <1>2, <1>4, <1>5, LeadStays
<1>7. ASSUME NEW m \in Links \ Found, Hits(ask.chart \ moved, m) > 0
      PROVE  m \notin ask.leading
  <2>. SUFFICES ASSUME m \in ask.leading PROVE FALSE  OBVIOUS
  <2>1. m \notin links  BY DEF Found
  <2>2. {r \in ask.chart \ moved : r.link = m} = {}  BY <1>2, <1>3, <2>1
  <2>3. Hits(ask.chart \ moved, m) = 0  BY <2>2, FS_EmptySet DEF Hits
  <2>. QED  BY <1>7, <2>3
<1>. QED  BY <1>6, <1>7 DEF Lead, Found

LEMMA EndParts ==
    ASSUME IInv, PartsInv, AllRead \/ ReadTop
    PROVE  PartsInv'
<1>1. UNCHANGED <<zone, now, links, events, moved>>  BY DEF AllRead, ReadTop
<1>2. ask \in Ask  BY DEF IInv, TypeOK
<1>3. EventsInv'  BY <1>1 DEF PartsInv, EventsInv
<1>4. /\ Answering /\ ask.got = Parts /\ ask'.phase \in {"top", "done"}
      /\ ask'.phase = "top" => ask.link = NoLink
      /\ ask'.link = ask.link /\ ask'.start = ask.start /\ ask'.got = ask.got
      /\ ask'.from = ask.from /\ ask'.to = ask.to
      /\ ask'.total = ask.total /\ ask'.groups = ask.groups
      /\ ask'.chart = ask.chart /\ ask'.all = ask.all /\ ask'.leading = ask.leading
      /\ ask'.today = ask.today /\ ask'.late = ask.late
  <2>1. CASE AllRead
    <3>1. /\ ask.phase = "reading" /\ ask.got = Parts
          /\ ask' = [ask EXCEPT !.phase = IF ask.link = NoLink THEN "top" ELSE "done"]
      BY <2>1 DEF AllRead
    <3>. QED  BY <1>2, <3>1 DEF Ask, Answering
  <2>2. CASE ReadTop
    <3>1. ask.phase = "top" /\ ask' = [ask EXCEPT !.phase = "done", !.top = Found]
      BY <2>2 DEF ReadTop
    <3>2. ask.got = Parts /\ ask.link = NoLink  BY <3>1 DEF PartsInv, NumbersInv
    <3>3. Answering  BY <3>1 DEF Answering
    <3>. QED  BY <1>2, <3>1, <3>2, <3>3 DEF Ask
  <2>. QED  BY <2>1, <2>2
<1>5. DayInv'  BY <1>1, <1>4 DEF PartsInv, DayInv, StartOfDay
<1>6. Scope' = Scope /\ InRange' = InRange /\ Today' = Today
  BY <1>1, <1>4 DEF InRange, Today, Scope
<1>7. /\ Differ(ask.total, Scope) \subseteq moved
      /\ ask.link = NoLink => Differ(ask.today, Today) \subseteq moved
      /\ Differ(ask.groups, InRange) \subseteq moved
      /\ Differ(ask.chart, InRange) \subseteq moved
      /\ Differ(ask.all, Scope) \subseteq moved
  BY <1>4 DEF PartsInv, NumbersInv, Parts
<1>8. NumbersInv'
  <2>1. Differ(ask.total, ask.all) \subseteq moved  BY <1>7 DEF Differ
  <2>2. Differ(ask.groups, ask.chart) \subseteq moved  BY <1>7 DEF Differ
  <2>3. ask.link = NoLink =>
            Differ(ask.today, {r \in ask.all : ask.start <= r.at}) \subseteq moved
    BY <1>7 DEF Differ, Today
  <2>4. RowsAgree'  BY <1>1, <1>4, <2>1, <2>2, <2>3 DEF RowsAgree
  <2>. QED  BY <1>1, <1>4, <1>6, <1>7, <2>4 DEF NumbersInv
<1>9. LeadInv'
  <2>1. Lead(InRange, moved, ask.leading)' <=> Lead(InRange, moved, ask.leading)
    BY <1>1, <1>4, <1>6 DEF Lead
  <2>2. ask.link = NoLink => Lead(InRange, moved, ask.leading)
    BY <1>4 DEF PartsInv, LeadInv, Parts
  <2>3. TopLinksLead'
    <3>1. CASE AllRead
      <4>1. ask'.phase = IF ask.link = NoLink THEN "top" ELSE "done"
        BY <1>2, <3>1 DEF AllRead, Ask
      <4>. QED  BY <1>4, <4>1 DEF TopLinksLead, Answered
    <3>2. CASE ReadTop
      <4>1. ask.phase = "top" /\ ask'.top = Found  BY <1>2, <3>2 DEF ReadTop, Ask
      <4>. QED  BY <1>1, <1>4, <4>1, TopLeads DEF TopLinksLead
    <3>. QED  BY <3>1, <3>2
  <2>. QED  BY <1>4, <2>1, <2>2, <2>3 DEF LeadInv
<1>. QED  BY <1>3, <1>5, <1>8, <1>9 DEF PartsInv

(* Rows that come or go, R, are excused from then on.                       *)
LEMMA ChangeParts ==
    ASSUME IInv, PartsInv, EventsInv', UNCHANGED <<zone, ask>>,
           NEW R, Differ(events, events') \subseteq R,
           moved' = IF Answering THEN moved \cup R ELSE moved
    PROVE  PartsInv'
<1>1. DayInv'  BY DEF PartsInv, DayInv, StartOfDay
<1>2. Answering' = Answering /\ moved \subseteq moved'  BY DEF Answering
<1>3. /\ Differ(Scope, Scope') \subseteq R /\ Differ(InRange, InRange') \subseteq R
      /\ Differ(Today, Today') \subseteq R
  BY DEF Differ, Scope, InRange, Today
<1>4. NumbersInv'
  <2>1. RowsAgree'  BY <1>2 DEF PartsInv, NumbersInv, RowsAgree, Answered
  <2>2. CASE Answering
    <3>1. /\ Differ(Scope, Scope') \subseteq moved'
          /\ Differ(InRange, InRange') \subseteq moved'
          /\ Differ(Today, Today') \subseteq moved'
      BY <1>3, <2>2
    <3>2. ASSUME NEW A, NEW B, NEW C, Differ(A, B) \subseteq moved,
                 Differ(B, C) \subseteq moved'
          PROVE  Differ(A, C) \subseteq moved'
      BY <1>2, <3>2 DEF Differ
    <3>3. /\ ask.phase = "found" \/ "total" \in ask.got =>
                 Differ(ask.total, Scope') \subseteq moved'
          /\ "today" \in ask.got /\ ask.link = NoLink =>
                 Differ(ask.today, Today') \subseteq moved'
          /\ "groups" \in ask.got => Differ(ask.groups, InRange') \subseteq moved'
          /\ "chart" \in ask.got => /\ Differ(ask.chart, InRange') \subseteq moved'
                                    /\ Differ(ask.all, Scope') \subseteq moved'
      BY <2>2, <3>1, <3>2 DEF PartsInv, NumbersInv
    <3>4. ask.phase = "top" => ask.got = Parts /\ ask.link = NoLink
      BY DEF PartsInv, NumbersInv
    <3>. QED  BY <2>1, <3>3, <3>4 DEF NumbersInv
  <2>3. CASE ~Answering
    BY <1>2, <2>1, <2>3 DEF NumbersInv, Answering
  <2>. QED  BY <2>2, <2>3
<1>5. LeadInv'
  <2>1. TopLinksLead'
    <3>1. CASE Answered
      <4>1. moved' = moved  BY <3>1 DEF Answered, Answering
      <4>. QED  BY <4>1 DEF PartsInv, LeadInv, TopLinksLead, Answered
    <3>2. CASE ~Answered  BY <3>2 DEF TopLinksLead, Answered
    <3>. QED  BY <3>1, <3>2
  <2>2. ASSUME Answering, "leaders" \in ask.got, ask.link = NoLink
        PROVE  Lead(InRange', moved', ask.leading)
    <3>1. Lead(InRange, moved, ask.leading)  BY <2>2 DEF PartsInv, LeadInv
    <3>2. Differ(InRange, InRange') \subseteq moved'  BY <1>3, <2>2
    <3>3. IsFiniteSet(InRange)  BY FiniteRows DEF PartsInv
    <3>4. IsFiniteSet(InRange') /\ IsFiniteSet(moved')
      <4>1. InRange' \subseteq events'  BY DEF InRange, Scope
      <4>. QED  BY <4>1, FS_Subset DEF EventsInv
    <3>. QED  BY <1>2, <3>1, <3>2, <3>3, <3>4, LeadStays
  <2>3. Lead(InRange, moved, ask.leading)' <=> Lead(InRange', moved', ask.leading)
    BY DEF Lead
  <2>. QED  BY <1>2, <2>1, <2>2, <2>3 DEF LeadInv
<1>. QED  BY <1>1, <1>4, <1>5 DEF PartsInv

LEMMA PartsStep == IInv /\ PartsInv /\ [Next]_vars => PartsInv'
<1>. SUFFICES ASSUME IInv, PartsInv, [Next]_vars PROVE PartsInv'  OBVIOUS
<1>1. ASSUME NEW c \in Clicks, NEW l \in Links, Click(c, l)  PROVE PartsInv'
  <2>. DEFINE R == {[id |-> c, at |-> now, link |-> l]}
  <2>1. /\ l \in links /\ events' = events \cup R
        /\ moved' = IF Answering THEN moved \cup R ELSE moved
        /\ UNCHANGED <<zone, now, links, ask>>
    BY <1>1 DEF Click, Moving
  <2>2. IsFiniteSet(R)  BY FS_Singleton
  <2>3. IsFiniteSet(events') /\ IsFiniteSet(moved')
    BY <2>1, <2>2, FS_Union DEF PartsInv, EventsInv
  <2>4. now \in Int  BY AnalyticsConstants DEF IInv, TypeOK
  <2>5. EventsInv'  BY <2>1, <2>3, <2>4 DEF PartsInv, EventsInv
  <2>6. Differ(events, events') \subseteq R  BY <2>1 DEF Differ
  <2>. HIDE DEF R
  <2>. QED  BY <2>1, <2>5, <2>6, ChangeParts
<1>2. ASSUME NEW l \in Links, DeleteLink(l)  PROVE PartsInv'
  <2>. DEFINE R == {r \in events : r.link = l}
  <2>1. /\ links' = links \ {l} /\ events' = {r \in events : r.link # l}
        /\ moved' = IF Answering THEN moved \cup R ELSE moved
        /\ UNCHANGED <<zone, now, ask>>
    BY <1>2 DEF DeleteLink, Moving
  <2>2. IsFiniteSet(events) /\ IsFiniteSet(moved)  BY DEF PartsInv, EventsInv
  <2>3. IsFiniteSet(R) /\ IsFiniteSet(events')  BY <2>1, <2>2, FS_Subset
  <2>4. IsFiniteSet(moved')  BY <2>1, <2>2, <2>3, FS_Union
  <2>5. EventsInv'  BY <2>1, <2>3, <2>4 DEF PartsInv, EventsInv
  <2>6. Differ(events, events') \subseteq R  BY <2>1 DEF Differ
  <2>. HIDE DEF R
  <2>. QED  BY <2>1, <2>5, <2>6, ChangeParts
<1>3. ASSUME Tick \/ UNCHANGED vars  PROVE PartsInv'
  <2>1. UNCHANGED <<zone, links, events, ask, moved>> /\ (now' > now \/ now' = now)
    BY <1>3 DEF Tick, vars
  <2>2. /\ now \in Int /\ now' \in Int
        /\ \A r \in events : r.at \in Int
    <3>1. Moments \subseteq Int /\ now \in Moments /\ \A r \in events : r.at \in Int
      BY AnalyticsConstants DEF IInv, TypeOK, Row
    <3>2. now' \in Moments  BY <1>3, <3>1 DEF Tick, vars
    <3>. QED  BY <3>1, <3>2
  <2>3. EventsInv'  BY <2>1, <2>2 DEF PartsInv, EventsInv
  <2>4. Differ(events, events') \subseteq {}  BY <2>1 DEF Differ
  <2>5. moved' = IF Answering THEN moved \cup {} ELSE moved  BY <2>1
  <2>. QED  BY <2>1, <2>3, <2>4, <2>5, ChangeParts
<1>. QED
  BY <1>1, <1>2, <1>3, AskParts, AskLinkParts, ReadParts, EndParts DEF Next

THEOREM PartsInvariance == Spec => []PartsInv
<1>. QED  BY InitParts, PartsStep, Invariance, PTL DEF Spec

(* The parts of an answer agree: today lies in a range that ends today, the *)
(* numbers are those of the chart's rows, and the links that lead have most *)
(* of them, but for rows that came or went since the request began.         *)
THEOREM PartsTheorem == Spec => []PartsAgree
<1>1. IInv /\ PartsInv => PartsAgree
  <2>. SUFFICES ASSUME IInv, PartsInv PROVE PartsAgree  OBVIOUS
  <2>1. TodayIsInTheRange
    <3>. SUFFICES ASSUME ask.to = EndOfDay(ask.start), ~ask.late, NEW r \in ask.today
                  PROVE  ask.to - Day < r.at /\ r.at <= ask.to
      BY DEF TodayIsInTheRange
    <3>1. /\ StartOfDay(ask.start) = ask.start /\ ask.start <= r.at /\ r.at <= ask.to
      BY DEF PartsInv, DayInv
    <3>2. ask.start \in Int /\ r.at \in Int
      BY AnalyticsConstants DEF IInv, TypeOK, Ask, Row
    <3>3. ask.to = ask.start + 23  BY <3>1, <3>2 DEF EndOfDay, Day
    <3>. QED  BY <3>1, <3>2, <3>3 DEF Day
  <2>2. RowsAgree /\ TopLinksLead  BY DEF PartsInv, NumbersInv, LeadInv
  <2>. QED  BY <2>1, <2>2 DEF PartsAgree
<1>. QED  BY Invariance, PartsInvariance, <1>1, PTL

-----------------------------------------------------------------------------
(* LinkEditor.  The cached entry of the link.                               *)
LEMMA EntryTypes ==
    ASSUME NEW e \in EntryOf(Link)
    PROVE  /\ Restart(e) \in EntryOf(Link) /\ Want(e) \in EntryOf(Link)
           /\ \A d \in Link : Serve(e, d) \in EntryOf(Link) /\ Put(e, d) \in EntryOf(Link)
           /\ Arrive(e) \in EntryOf(Link)
           /\ Fail(e) \in EntryOf(Link)
           /\ \A shown \in BOOLEAN : Invalidate(e, shown) \in EntryOf(Link)
           /\ Outdated(e) \in EntryOf(Link)
<1>1. Restart(e) \in EntryOf(Link) /\ Want(e) \in EntryOf(Link)
  BY DEF EntryOf, Restart, Want, Fetching
<1>2. \A d \in Link : Serve(e, d) \in EntryOf(Link)
  BY DEF EntryOf, Serve
<1>3. \A d \in Link : Put(e, d) \in EntryOf(Link)
  BY DEF EntryOf, Put
<1>4. Arrive(e) \in EntryOf(Link) /\ Fail(e) \in EntryOf(Link)
  BY DEF EntryOf, Arrive, Fail, NewEntry
<1>5. [e EXCEPT !.marked = TRUE] \in EntryOf(Link) /\ LeftBehind(e) \in EntryOf(Link)
  BY DEF EntryOf, LeftBehind
<1>6. \A shown \in BOOLEAN : Invalidate(e, shown) \in EntryOf(Link)
  BY <1>5 DEF EntryOf, Invalidate, Restart
<1>7. (e.data # NoData) \in BOOLEAN /\ (e.phase = "served") \in BOOLEAN
  BY Zenon
<1>8. Outdated(e) \in EntryOf(Link)
  BY <1>7 DEF EntryOf, Outdated
<1>. QED  BY <1>1, <1>2, <1>3, <1>4, <1>6, <1>8

(* The answer under way is passed on, or is marked as overtaken.            *)
Calmer(e, f) ==
    /\ f.data = e.data /\ f.behind = e.behind
    /\ f.phase = "served" /\ ~f.overtaken =>
          e.phase = "served" /\ ~e.overtaken /\ f.answer = e.answer
    /\ f.phase = "served" => e.phase = "served" /\ f.answer = e.answer

LEMMA EntryMoves ==
    ASSUME NEW e \in EntryOf(Link)
    PROVE  /\ Calmer(e, e) /\ Calmer(e, Want(e)) /\ Calmer(e, Fail(e))
           /\ \A shown \in BOOLEAN : Calmer(e, Invalidate(e, shown))
<1>1. Calmer(e, e)  BY DEF Calmer
<1>2. Calmer(e, Want(e))  BY DEF Calmer, Want, Restart, Fetching, EntryOf
<1>3. Calmer(e, Fail(e))  BY DEF Calmer, Fail, EntryOf
<1>4. ASSUME NEW shown \in BOOLEAN  PROVE Calmer(e, Invalidate(e, shown))
  BY DEF Calmer, Invalidate, LeftBehind, Restart, EntryOf
<1>. QED  BY <1>1, <1>2, <1>3, <1>4

LEMMA EntryFields ==
    ASSUME NEW e \in EntryOf(Link)
    PROVE  /\ \A d \in Link : Serve(e, d).data = e.data /\ Serve(e, d).behind = e.behind
                              /\ Serve(e, d).answer = d
           /\ Arrive(e).data = e.answer /\ Arrive(e).behind = e.overtaken
           /\ Arrive(e).phase = "none"
           /\ \A d \in Link : Put(e, d).data = d /\ Put(e, d).behind = e.behind
                              /\ (Put(e, d).phase = "served" => Put(e, d).overtaken)
                              /\ Put(e, d).phase = e.phase /\ Put(e, d).answer = e.answer
           /\ Outdated(e).data = e.data /\ (e.data # NoData => Outdated(e).behind)
           /\ (Outdated(e).phase = "served" => Outdated(e).overtaken)
           /\ Outdated(e).phase = e.phase /\ Outdated(e).answer = e.answer
<1>1. \A d \in Link : Serve(e, d).data = e.data /\ Serve(e, d).behind = e.behind
                              /\ Serve(e, d).answer = d
  BY DEF EntryOf, Serve
<1>2. /\ Arrive(e).data = e.answer /\ Arrive(e).behind = e.overtaken
      /\ Arrive(e).phase = "none"
  BY DEF EntryOf, Arrive, NewEntry
<1>3. \A d \in Link : Put(e, d).data = d /\ Put(e, d).behind = e.behind
                              /\ (Put(e, d).phase = "served" => Put(e, d).overtaken)
                              /\ Put(e, d).phase = e.phase /\ Put(e, d).answer = e.answer
  BY DEF EntryOf, Put
<1>4. /\ Outdated(e).data = e.data /\ (e.data # NoData => Outdated(e).behind)
      /\ (Outdated(e).phase = "served" => Outdated(e).overtaken)
      /\ Outdated(e).phase = e.phase /\ Outdated(e).answer = e.answer
  BY DEF EntryOf, Outdated
<1>. QED  BY <1>1, <1>2, <1>3, <1>4

-----------------------------------------------------------------------------
(* The form and its picker.                                                 *)
Whole(t) == t = NoMoment \/ t % 2 = 0

LEMMA Minutes ==
    ASSUME NEW t \in Ticks \cup {NoMoment}
    PROVE  Minute(t) \in Ticks \cup {NoMoment} /\ Whole(Minute(t))
<1>1. CASE t = NoMoment  BY <1>1 DEF Minute, Whole
<1>2. CASE t # NoMoment
  <2>1. t \in 0 .. 11  BY <1>2 DEF Ticks
  <2>2. t - (t % 2) \in 0 .. 11 /\ (t - (t % 2)) % 2 = 0  BY <2>1
  <2>. QED  BY <1>2, <2>2 DEF Minute, Whole, Ticks
<1>. QED  BY <1>1, <1>2

LEMMA DaysOf ==
    ASSUME NEW t \in Ticks
    PROVE  DayOf(t) \in Days /\ (Whole(t) => t % 4 \in {0, 2})
<1>1. t \in 0 .. 11  BY DEF Ticks
<1>2. t \div 4 \in 0 .. 2  BY <1>1
<1>3. t % 2 = 0 => t % 4 \in {0, 2}  BY <1>1
<1>4. t # NoMoment  BY LinkEditorConstants
<1>. QED  BY <1>2, <1>3, <1>4 DEF DayOf, Days, Whole

(* What was not edited is as the form was filled.                           *)
Honest(f) ==
    /\ "title" \notin f.edited => f.title = Text(f.seen.title)
    /\ "alias" \notin f.edited => f.alias = f.seen.alias
    /\ "password" \notin f.edited => ~f.password /\ ~f.clear
    /\ "expiresAt" \notin f.edited => f.expiresAt = Minute(f.seen.expiresAt)
    /\ Whole(f.expiresAt)

LEMMA FilledForm ==
    ASSUME NEW l \in Link
    PROVE  /\ Filled(l) \in Form /\ Honest(Filled(l)) /\ Filled(l).seen = l
           /\ Filled(l).alias = l.alias /\ Filled(l).edited = {}
<1>1. Minute(l.expiresAt) \in Ticks \cup {NoMoment} /\ Whole(Minute(l.expiresAt))
  BY Minutes DEF Link
<1>2. Text(l.title) \in Titles  BY LinkEditorConstants DEF Text, Link
<1>. QED  BY <1>1, <1>2 DEF Filled, Form, Honest, Link

LEMMA NewCallType ==
    ASSUME NEW l \in Link
    PROVE  NewCall \in EditCall /\ Honest(NewCall.form) /\ Someone \in Link
<1>1. Someone \in Link  BY DEF Someone
<1>. QED  BY <1>1, FilledForm DEF NewCall, EditCall, EditStatuses

(* The day that is drafted is not over, or is that of the expiry.           *)
PickerInv ==
    /\ picker.min <= DayOf(clock)
    /\ picker.open /\ picker.draft # NoDay =>
          \/ picker.draft >= picker.min
          \/ form.expiresAt # NoMoment /\ picker.draft = DayOf(form.expiresAt)

FormInv ==
    /\ Honest(form)
    /\ Honest(question.form)
    /\ \A c \in Calls : Honest(editCall[c].form)
    /\ Data # NoData => form.seen = Data

LEMMA Shows ==
    ASSUME NEW p \in Picker, NEW t \in Ticks \cup {NoMoment}, Whole(t)
    PROVE  /\ Showing(p, t) \in Picker
           /\ Showing(p, t).min = p.min
           /\ Showing(p, t).draft = IF t = NoMoment THEN NoDay ELSE DayOf(t)
<1>1. CASE t = NoMoment  BY <1>1 DEF Showing, Picker
<1>2. CASE t # NoMoment
  <2>1. DayOf(t) \in Days /\ t % 4 \in {0, 2}  BY <1>2, DaysOf
  <2>. QED  BY <1>2, <2>1 DEF Showing, Picker
<1>. QED  BY <1>1, <1>2

LEMMA SetFormStep ==
    ASSUME EditorTypeOK, PickerInv, NEW f \in Form, Whole(f.expiresAt), SetForm(f),
           UNCHANGED clock
    PROVE  form' \in Form /\ picker' \in Picker /\ PickerInv'
<1>1. form' = f /\ picker' = ValueGiven(picker, form.expiresAt, f.expiresAt)  BY DEF SetForm
<1>2. f.expiresAt \in Ticks \cup {NoMoment}  BY DEF Form
<1>3. CASE picker.open /\ form.expiresAt # f.expiresAt
  <2>1. picker' = Showing(picker, f.expiresAt)  BY <1>1, <1>3 DEF ValueGiven
  <2>2. /\ picker' \in Picker /\ picker'.min = picker.min
        /\ picker'.draft = IF f.expiresAt = NoMoment THEN NoDay ELSE DayOf(f.expiresAt)
    BY <1>2, <2>1, Shows DEF EditorTypeOK
  <2>. QED  BY <1>1, <2>2 DEF PickerInv
<1>4. CASE ~(picker.open /\ form.expiresAt # f.expiresAt)
  <2>1. picker' = picker  BY <1>1, <1>4 DEF ValueGiven
  <2>. QED  BY <1>1, <1>4, <2>1 DEF PickerInv, EditorTypeOK
<1>. QED  BY <1>3, <1>4
-----------------------------------------------------------------------------
(* What the page tells of the link.                                         *)
CallDone(c) == editCall[c].phase = "done"

LoadedInv ==
    question # NewCall \/ (\E c \in Calls : editCall[c].phase # "new") => Data # NoData

(* An answer that no change came after tells of the link as it is.          *)
AnswersInv ==
    \A c \in Calls : CallDone(c) =>
        /\ ~editCall[c].late => editCall[c].answer = row
        /\ editCall[c].op = "delete" => gone

(* The link as told is the link as it is, or an answer that is under way    *)
(* makes it so, or is known to be too late.                                 *)
Mends(c, d) ==
    /\ CallDone(c)
    /\ \/ editCall[c].late
       \/ editCall[c].op = "save"
       \/ editCall[c].op = "toggle" /\ [d EXCEPT !.status = row.status] = row

Told(d) == d = row \/ \E c \in Calls : Mends(c, d)

DataTells ==
    ~gone =>
        /\ Data # NoData /\ ~entry.behind => Told(entry.data)
        /\ entry.phase = "served" /\ ~entry.overtaken => Told(entry.answer)

ServedInv == entry.phase = "served" => entry.answer \in Link

EditorInv ==
    /\ EditorTypeOK /\ PickerInv /\ FormInv
    /\ LoadedInv /\ AnswersInv /\ ServedInv /\ DataTells

LEMMA DataType == ASSUME EditorTypeOK, Data # NoData PROVE Data \in Link
<1>. QED  BY DEF EditorTypeOK, EntryOf, Data

LEMMA InitEditor == EditorInit => EditorInv
<1>. SUFFICES ASSUME EditorInit PROVE EditorInv
  OBVIOUS
<1>1. row \in Link  BY LinkEditorConstants DEF EditorInit
<1>2. NewCall \in EditCall /\ Honest(NewCall.form) /\ Someone \in Link  BY <1>1, NewCallType
<1>3. Filled(Someone) \in Form /\ Honest(Filled(Someone))  BY <1>2, FilledForm
<1>4. entry \in EntryOf(Link) /\ entry.data = NoData /\ entry.phase = "sent"
  <2>1. NewEntry \in EntryOf(Link)  BY DEF NewEntry, EntryOf
  <2>. QED  BY <2>1, EntryTypes DEF EditorInit, Want, Restart, NewEntry, Fetching
<1>5. clock = 0 /\ clock \in Instants  BY LinkEditorConstants DEF EditorInit
<1>6. picker \in Picker /\ ~picker.open /\ picker.min = 0
  BY DEF EditorInit, Closed, Picker, Days
<1>7. EditorTypeOK
  <2>1. elsewhere \in 0 .. MaxElsewhere  BY LinkEditorConstants DEF EditorInit
  <2>2. editCall \in [Calls -> EditCall] /\ question \in EditCall  BY <1>2 DEF EditorInit
  <2>3. form \in Form /\ gone \in BOOLEAN /\ left \in BOOLEAN  BY <1>3 DEF EditorInit
  <2>. QED  BY <1>1, <1>4, <1>5, <1>6, <2>1, <2>2, <2>3 DEF EditorTypeOK
<1>8. PickerInv  BY <1>5, <1>6 DEF PickerInv, DayOf
<1>9. FormInv  BY <1>2, <1>3, <1>4 DEF EditorInit, FormInv, Data
<1>10. LoadedInv /\ AnswersInv /\ ServedInv /\ DataTells
  <2>1. question = NewCall /\ \A c \in Calls : editCall[c].phase = "new"
    BY DEF EditorInit, NewCall
  <2>. QED
    BY <1>4, <2>1 DEF LoadedInv, AnswersInv, ServedInv, DataTells, CallDone, Data
<1>. QED  BY <1>7, <1>8, <1>9, <1>10 DEF EditorInv

(* Steps that answer nothing that tells of the link.                        *)
SameCall(c) ==
    /\ editCall'[c].phase = editCall[c].phase /\ editCall'[c].op = editCall[c].op
    /\ editCall'[c].answer = editCall[c].answer /\ editCall'[c].late = editCall[c].late

CallsKept ==
    \A c \in Calls :
        /\ editCall'[c].phase = "done" => CallDone(c) /\ SameCall(c)
        /\ CallDone(c) => SameCall(c) \/ gone

LEMMA TellsStay ==
    ASSUME EditorInv, UNCHANGED <<row, gone>>, CallsKept, Calmer(entry, entry')
    PROVE  AnswersInv' /\ ServedInv' /\ DataTells'
<1>1. AnswersInv'  BY DEF EditorInv, AnswersInv, CallsKept, SameCall, CallDone
<1>2. ServedInv'  BY DEF EditorInv, ServedInv, Calmer
<1>3. ASSUME NEW d, Told(d), ~gone  PROVE d = row \/ \E c \in Calls : Mends(c, d)'
  BY <1>3 DEF Told, Mends, CallsKept, SameCall, CallDone
<1>4. DataTells'
  <2>1. SUFFICES ASSUME ~gone
                 PROVE  /\ entry'.data # NoData /\ ~entry'.behind => Told(entry.data)'
                        /\ entry'.phase = "served" /\ ~entry'.overtaken => Told(entry.answer)'
    BY DEF DataTells, Data
  <2>2. entry'.data = entry.data /\ entry'.behind = entry.behind  BY DEF Calmer
  <2>3. entry'.data # NoData /\ ~entry'.behind => Told(entry.data)'
    BY <1>3, <2>1, <2>2 DEF EditorInv, DataTells, Data, Told, Mends
  <2>4. entry'.phase = "served" /\ ~entry'.overtaken => Told(entry.answer)'
    BY <1>3, <2>1 DEF EditorInv, DataTells, Calmer, Told, Mends
  <2>. QED  BY <2>3, <2>4
<1>. QED  BY <1>1, <1>2, <1>4

LEMMA FormSteps ==
    ASSUME EditorInv, NEW f \in Form, Honest(f), f.seen = form.seen, form' = f,
           picker' \in Picker, PickerInv',
           UNCHANGED <<server, entry, question, editCall, left>>
    PROVE  EditorInv'
<1>1. EditorTypeOK'  BY DEF EditorInv, EditorTypeOK, server
<1>2. FormInv' /\ LoadedInv'  BY DEF EditorInv, FormInv, LoadedInv, Data
<1>3. CallsKept  BY DEF CallsKept, SameCall, CallDone
<1>4. AnswersInv' /\ ServedInv' /\ DataTells'
  BY <1>3, TellsStay, EntryMoves DEF EditorInv, EditorTypeOK, server
<1>. QED  BY <1>1, <1>2, <1>4 DEF EditorInv

LEMMA CallSteps ==
    ASSUME EditorInv, UNCHANGED <<server, form, picker>>, left' \in BOOLEAN,
           entry' \in EntryOf(Link), Calmer(entry, entry'),
           question' \in EditCall, Honest(question'.form),
           editCall' \in [Calls -> EditCall], \A c \in Calls : Honest(editCall'[c].form),
           LoadedInv', CallsKept
    PROVE  EditorInv'
<1>1. EditorTypeOK'  BY DEF EditorInv, EditorTypeOK, server
<1>2. PickerInv'  BY DEF EditorInv, PickerInv, server
<1>3. FormInv'  BY DEF EditorInv, FormInv, Data, Calmer
<1>4. AnswersInv' /\ ServedInv' /\ DataTells'  BY TellsStay DEF server
<1>. QED  BY <1>1, <1>2, <1>3, <1>4 DEF EditorInv
-----------------------------------------------------------------------------
(* The query.                                                               *)
LEMMA ServeLinkStep == ASSUME EditorInv, ServeLink PROVE EditorInv'
<1>1. /\ entry' = Serve(entry, row) /\ ~gone
      /\ UNCHANGED <<server, form, picker, question, editCall, left>>
  BY DEF ServeLink
<1>2. entry \in EntryOf(Link) /\ row \in Link  BY DEF EditorInv, EditorTypeOK
<1>3. /\ entry' \in EntryOf(Link) /\ entry'.data = entry.data
      /\ entry'.behind = entry.behind /\ entry'.answer = row
  BY <1>1, <1>2, EntryTypes, EntryFields
<1>4. EditorTypeOK' /\ PickerInv'
  BY <1>1, <1>3 DEF EditorInv, EditorTypeOK, PickerInv, server
<1>5. FormInv' /\ LoadedInv'  BY <1>1, <1>3 DEF EditorInv, FormInv, LoadedInv, Data
<1>6. AnswersInv' /\ ServedInv'
  BY <1>1, <1>2, <1>3 DEF EditorInv, AnswersInv, ServedInv, CallDone, server
<1>7. DataTells'
  BY <1>1, <1>3 DEF EditorInv, DataTells, Told, Mends, CallDone, Data, server
<1>. QED  BY <1>4, <1>5, <1>6, <1>7 DEF EditorInv

LEMMA LinkArrivesStep == ASSUME EditorInv, LinkArrives PROVE EditorInv'
<1>1. /\ entry' = Arrive(entry) /\ entry.phase = "served"
      /\ UNCHANGED <<server, question, editCall, left>>
      /\ \/ SetForm(Filled(entry.answer))
         \/ entry.answer = Data /\ UNCHANGED <<form, picker>>
  BY DEF LinkArrives, Data
<1>2. entry \in EntryOf(Link) /\ entry.answer \in Link
  BY <1>1 DEF EditorInv, EditorTypeOK, ServedInv
<1>3. /\ entry' \in EntryOf(Link) /\ entry'.data = entry.answer
      /\ entry'.behind = entry.overtaken /\ entry'.phase = "none"
  BY <1>1, <1>2, EntryTypes, EntryFields
<1>4. entry.answer # NoData  BY <1>2, LinkEditorConstants
<1>5. form' \in Form /\ picker' \in Picker /\ PickerInv' /\ Honest(form')
      /\ form'.seen = entry.answer
  <2>1. CASE SetForm(Filled(entry.answer))
    <3>1. /\ Filled(entry.answer) \in Form /\ Honest(Filled(entry.answer))
          /\ Filled(entry.answer).seen = entry.answer
      BY <1>2, FilledForm
    <3>2. form' = Filled(entry.answer)  BY <2>1 DEF SetForm
    <3>3. Whole(Filled(entry.answer).expiresAt)  BY <3>1 DEF Honest
    <3>4. form' \in Form /\ picker' \in Picker /\ PickerInv'
      BY <1>1, <2>1, <3>1, <3>3, SetFormStep DEF EditorInv, server
    <3>. QED  BY <3>1, <3>2, <3>4
  <2>2. CASE entry.answer = Data /\ UNCHANGED <<form, picker>>
    BY <1>1, <1>4, <2>2 DEF EditorInv, EditorTypeOK, PickerInv, FormInv, server
  <2>. QED  BY <1>1, <2>1, <2>2
<1>6. EditorTypeOK'  BY <1>1, <1>3, <1>5 DEF EditorInv, EditorTypeOK, server
<1>7. FormInv' /\ LoadedInv'
  BY <1>1, <1>3, <1>4, <1>5 DEF EditorInv, FormInv, LoadedInv, Data
<1>8. AnswersInv' /\ ServedInv'
  BY <1>1, <1>3 DEF EditorInv, AnswersInv, ServedInv, CallDone, server
<1>9. DataTells'
  BY <1>1, <1>3 DEF EditorInv, DataTells, Told, Mends, CallDone, Data, server
<1>. QED  BY <1>5, <1>6, <1>7, <1>8, <1>9 DEF EditorInv

LEMMA QueryStep == ASSUME EditorInv, LinkFails \/ Refetch PROVE EditorInv'
<1>1. entry \in EntryOf(Link)  BY DEF EditorInv, EditorTypeOK
<1>2. /\ entry' \in EntryOf(Link) /\ Calmer(entry, entry')
      /\ UNCHANGED <<server, form, picker, question, editCall, left>>
  BY <1>1, EntryTypes, EntryMoves DEF LinkFails, Refetch
<1>3. CallsKept  BY <1>2 DEF CallsKept, SameCall, CallDone
<1>4. LoadedInv'  BY <1>2 DEF EditorInv, LoadedInv, Data, Calmer
<1>. QED  BY <1>2, <1>3, <1>4, CallSteps DEF EditorInv, EditorTypeOK, FormInv

-----------------------------------------------------------------------------
(* Editing.                                                                 *)
LEMMA EditStep ==
    ASSUME EditorInv, NEW f \in Form, NEW fields \in SUBSET Fields, Edit(f, fields),
           Honest([f EXCEPT !.edited = @ \cup fields]), f.seen = form.seen
    PROVE  EditorInv'
<1>. DEFINE g == [f EXCEPT !.edited = @ \cup fields]
<1>1. g \in Form /\ g.seen = form.seen  BY DEF Form
<1>2. /\ SetForm(g) /\ form' = g
      /\ UNCHANGED <<server, entry, question, editCall, left>>
  BY DEF Edit, SetForm
<1>3. Honest(g) /\ Whole(g.expiresAt)  BY DEF Honest
<1>. HIDE DEF g
<1>4. picker' \in Picker /\ PickerInv'
  BY <1>1, <1>2, <1>3, SetFormStep DEF EditorInv, server
<1>. QED  BY <1>1, <1>2, <1>3, <1>4, FormSteps

LEMMA EditSteps ==
    ASSUME EditorInv,
           \/ \E t \in Titles : EditTitle(t)
           \/ \E a \in Aliases : EditAlias(a)
           \/ TypePassword \/ ClearPassword \/ ClearExpiry
    PROVE  EditorInv'
<1>0. form \in Form /\ Honest(form)  BY DEF EditorInv, EditorTypeOK, FormInv
<1>1. ASSUME NEW t \in Titles, EditTitle(t)  PROVE EditorInv'
  <2>. DEFINE f == [form EXCEPT !.title = t]
  <2>1. f \in Form /\ f.seen = form.seen  BY <1>0 DEF Form
  <2>2. Honest([f EXCEPT !.edited = @ \cup {"title"}])  BY <1>0 DEF Form, Honest
  <2>3. Edit(f, {"title"})  BY <1>1 DEF EditTitle
  <2>. HIDE DEF f
  <2>. QED  BY <2>1, <2>2, <2>3, EditStep DEF Fields
<1>2. ASSUME NEW a \in Aliases, EditAlias(a)  PROVE EditorInv'
  <2>. DEFINE f == [form EXCEPT !.alias = a]
  <2>1. f \in Form /\ f.seen = form.seen  BY <1>0 DEF Form
  <2>2. Honest([f EXCEPT !.edited = @ \cup {"alias"}])  BY <1>0 DEF Form, Honest
  <2>3. Edit(f, {"alias"})  BY <1>2 DEF EditAlias
  <2>. HIDE DEF f
  <2>. QED  BY <2>1, <2>2, <2>3, EditStep DEF Fields
<1>3. ASSUME TypePassword  PROVE EditorInv'
  <2>. DEFINE f == [form EXCEPT !.password = TRUE, !.clear = FALSE]
  <2>1. f \in Form /\ f.seen = form.seen  BY <1>0 DEF Form
  <2>2. Honest([f EXCEPT !.edited = @ \cup {"password"}])  BY <1>0 DEF Form, Honest
  <2>3. Edit(f, {"password"})  BY <1>3 DEF TypePassword
  <2>. HIDE DEF f
  <2>. QED  BY <2>1, <2>2, <2>3, EditStep DEF Fields
<1>4. ASSUME ClearPassword  PROVE EditorInv'
  <2>. DEFINE f == [form EXCEPT !.clear = ~form.clear,
                         !.password = IF form.clear THEN @ ELSE FALSE]
  <2>1. f \in Form /\ f.seen = form.seen  BY <1>0 DEF Form
  <2>2. Honest([f EXCEPT !.edited = @ \cup {"password"}])  BY <1>0 DEF Form, Honest
  <2>3. Edit(f, {"password"})  BY <1>4 DEF ClearPassword
  <2>. HIDE DEF f
  <2>. QED  BY <2>1, <2>2, <2>3, EditStep DEF Fields
<1>5. ASSUME ClearExpiry  PROVE EditorInv'
  <2>. DEFINE f == [form EXCEPT !.expiresAt = NoMoment]
  <2>1. f \in Form /\ f.seen = form.seen  BY <1>0 DEF Form
  <2>2. Honest([f EXCEPT !.edited = @ \cup {"expiresAt"}])  BY <1>0 DEF Form, Honest, Whole
  <2>3. Edit(f, {"expiresAt"})  BY <1>5 DEF ClearExpiry, EditExpiry
  <2>. HIDE DEF f
  <2>. QED  BY <2>1, <2>2, <2>3, EditStep DEF Fields
<1>. QED  BY <1>1, <1>2, <1>3, <1>4, <1>5

(* The picker: a day that is picked, a time, and what it gives to the form. *)
LEMMA Clock == ASSUME EditorTypeOK PROVE clock \in Ticks /\ DayOf(clock) \in 0 .. 1
<1>1. clock \in 0 .. 7  BY LinkEditorConstants DEF EditorTypeOK
<1>2. clock \div 4 \in 0 .. 1  BY <1>1
<1>. QED  BY <1>1, <1>2 DEF Ticks, DayOf

LEMMA PickerSteps ==
    ASSUME EditorInv,
           \/ TogglePicker
           \/ \E d \in Days : PickDay(d)
           \/ \E t \in {0, 2} : PickTime(t)
    PROVE  EditorInv'
<1>0. /\ form \in Form /\ Honest(form) /\ picker \in Picker
      /\ UNCHANGED <<server, entry, form, question, editCall, left>>
  BY DEF EditorInv, EditorTypeOK, FormInv, TogglePicker, PickDay, PickTime
<1>1. CASE TogglePicker
  <2>1. CASE picker.open
    <3>1. picker' = Closed  BY <1>1, <2>1 DEF TogglePicker
    <3>2. picker' \in Picker /\ PickerInv'
      BY <1>0, <3>1, Clock DEF Closed, Picker, PickerInv, Days, EditorInv, server
    <3>. QED  BY <1>0, <3>2, FormSteps
  <2>2. CASE ~picker.open
    <3>. DEFINE p == [picker EXCEPT !.open = TRUE, !.min = DayOf(clock)]
    <3>1. picker' = Showing(p, form.expiresAt)  BY <1>1, <2>2 DEF TogglePicker
    <3>2. DayOf(clock) \in Days  BY Clock DEF EditorInv, Days
    <3>3. p \in Picker /\ p.min = DayOf(clock)  BY <1>0, <3>2 DEF Picker
    <3>4. form.expiresAt \in Ticks \cup {NoMoment} /\ Whole(form.expiresAt)
      BY <1>0 DEF Form, Honest
    <3>. HIDE DEF p
    <3>5. /\ picker' \in Picker /\ picker'.min = DayOf(clock)
          /\ picker'.draft = IF form.expiresAt = NoMoment THEN NoDay ELSE DayOf(form.expiresAt)
      BY <3>1, <3>3, <3>4, Shows
    <3>6. PickerInv'
      BY <1>0, <3>2, <3>5 DEF PickerInv, server, Days
    <3>. QED  BY <1>0, <3>5, <3>6, FormSteps
  <2>. QED  BY <2>1, <2>2
<1>2. ASSUME NEW d \in Days, PickDay(d)  PROVE EditorInv'
  <2>1. /\ picker' = [picker EXCEPT !.draft = d,
                                 !.time = IF form.expiresAt = NoMoment THEN 2 ELSE @]
        /\ d >= picker.min
    BY <1>2 DEF PickDay
  <2>2. picker' \in Picker /\ picker'.min = picker.min /\ picker'.draft = d
    BY <1>0, <2>1 DEF Picker
  <2>3. PickerInv'  BY <1>0, <2>1, <2>2 DEF EditorInv, PickerInv, server
  <2>. QED  BY <1>0, <2>2, <2>3, FormSteps
<1>3. ASSUME NEW t \in {0, 2}, PickTime(t)  PROVE EditorInv'
  <2>1. picker' = [picker EXCEPT !.time = t]  BY <1>3 DEF PickTime
  <2>2. /\ picker' \in Picker /\ picker'.min = picker.min /\ picker'.draft = picker.draft
        /\ picker'.open = picker.open
    BY <1>0, <2>1 DEF Picker
  <2>3. PickerInv'  BY <1>0, <2>2 DEF EditorInv, PickerInv, server
  <2>. QED  BY <1>0, <2>2, <2>3, FormSteps
<1>. QED  BY <1>1, <1>2, <1>3

LEMMA PickedStep ==
    ASSUME EditorInv, NEW t \in Ticks, t % 2 = 0, Picked(t)
    PROVE  EditorInv'
<1>. DEFINE f == [form EXCEPT !.expiresAt = t, !.edited = @ \cup {"expiresAt"}]
<1>0. form \in Form /\ Honest(form)  BY DEF EditorInv, EditorTypeOK, FormInv
<1>1. /\ form' = f /\ picker' = Closed
      /\ UNCHANGED <<server, entry, question, editCall, left>>
  BY DEF Picked
<1>2. f \in Form /\ f.seen = form.seen  BY <1>0 DEF Form, Fields
<1>3. Honest(f)  BY <1>0 DEF Form, Honest, Whole
<1>. HIDE DEF f
<1>4. picker' \in Picker /\ PickerInv'
  BY <1>1, Clock DEF Closed, Picker, PickerInv, Days, EditorInv, server
<1>. QED  BY <1>1, <1>2, <1>3, <1>4, FormSteps

LEMMA Drafted ==
    ASSUME EditorTypeOK
    PROVE  /\ (DayOf(clock) + 1) * 4 + 2 \in Ticks /\ ((DayOf(clock) + 1) * 4 + 2) % 2 = 0
           /\ DayOf((DayOf(clock) + 1) * 4 + 2) = DayOf(clock) + 1
           /\ picker.draft # NoDay =>
                 /\ picker.draft * 4 + picker.time \in Ticks
                 /\ (picker.draft * 4 + picker.time) % 2 = 0
                 /\ DayOf(picker.draft * 4 + picker.time) = picker.draft
<1>1. ASSUME NEW d \in 0 .. 2, NEW t \in {0, 2}
      PROVE  d * 4 + t \in 0 .. 11 /\ (d * 4 + t) % 2 = 0 /\ (d * 4 + t) \div 4 = d
  <2>1. CASE t = 0  BY <2>1
  <2>2. CASE t = 2  BY <2>2
  <2>. QED  BY <2>1, <2>2
<1>2. DayOf(clock) + 1 \in 0 .. 2  BY Clock
<1>3. picker.draft # NoDay => picker.draft \in 0 .. 2 /\ picker.time \in {0, 2}
  BY DEF EditorTypeOK, Picker, Days
<1>. QED  BY <1>1, <1>2, <1>3 DEF Ticks, DayOf

LEMMA EditingStep == ASSUME EditorInv, Editing PROVE EditorInv'
<1>1. CASE ApplyPreset
  BY <1>1, Drafted, PickedStep DEF ApplyPreset, EditorInv
<1>2. CASE ApplyDraft
  <2>. DEFINE t == picker.draft * 4 + picker.time
  <2>1. picker.draft # NoDay /\ Picked(t)  BY <1>2 DEF ApplyDraft
  <2>2. t \in Ticks /\ t % 2 = 0  BY <2>1, Drafted DEF EditorInv
  <2>. HIDE DEF t
  <2>. QED  BY <2>1, <2>2, PickedStep
<1>3. CASE \/ \E t \in Titles : EditTitle(t)
           \/ \E a \in Aliases : EditAlias(a)
           \/ TypePassword \/ ClearPassword \/ ClearExpiry
  BY <1>3, EditSteps
<1>4. CASE \/ TogglePicker
           \/ \E d \in Days : PickDay(d)
           \/ \E t \in {0, 2} : PickTime(t)
  BY <1>4, PickerSteps
<1>. QED  BY <1>1, <1>2, <1>3, <1>4 DEF Editing

-----------------------------------------------------------------------------
(* Calls that do not tell of the link.                                      *)
LEMMA CallTypes ==
    ASSUME EditorInv
    PROVE  /\ NewCall \in EditCall /\ Honest(NewCall.form) /\ NewCall.phase = "new"
           /\ form \in Form /\ Honest(form) /\ question \in EditCall /\ Honest(question.form)
           /\ editCall \in [Calls -> EditCall] /\ entry \in EntryOf(Link) /\ row \in Link
           /\ \A c \in Calls : Honest(editCall[c].form)
<1>1. row \in Link /\ form \in Form /\ question \in EditCall /\ entry \in EntryOf(Link)
  BY DEF EditorInv, EditorTypeOK
<1>2. editCall \in [Calls -> EditCall]  BY DEF EditorInv, EditorTypeOK
<1>3. Honest(form) /\ Honest(question.form) /\ \A c \in Calls : Honest(editCall[c].form)
  BY DEF EditorInv, FormInv
<1>4. NewCall \in EditCall /\ Honest(NewCall.form)  BY <1>1, NewCallType
<1>5. NewCall.phase = "new"  BY DEF NewCall
<1>. QED  BY <1>1, <1>2, <1>3, <1>4, <1>5

LEMMA OneCall ==
    ASSUME EditorInv, NEW c \in Calls, NEW x \in EditCall, Honest(x.form), x.phase # "done",
           ~CallDone(c) \/ gone,
           editCall' = [editCall EXCEPT ![c] = x]
    PROVE  /\ editCall' \in [Calls -> EditCall]
           /\ \A d \in Calls : Honest(editCall'[d].form)
           /\ CallsKept
           /\ \A d \in Calls : d # c => editCall'[d] = editCall[d]
<1>. QED  BY CallTypes DEF CallsKept, SameCall, CallDone

LEMMA SendStep ==
    ASSUME EditorInv, NEW c \in Calls, NEW fields \in EditCall, Honest(fields.form),
           Send(c, fields), Data # NoData, question' = question \/ question' = NewCall
    PROVE  EditorInv'
<1>. DEFINE x == [fields EXCEPT !.phase = "sent"]
<1>1. x \in EditCall /\ x.phase = "sent" /\ Honest(x.form)  BY DEF EditCall
<1>2. /\ editCall' = [editCall EXCEPT ![c] = x] /\ ~CallDone(c)
      /\ UNCHANGED <<server, entry, form, picker, left>>
  BY DEF Send, CallDone
<1>. HIDE DEF x
<1>3. /\ editCall' \in [Calls -> EditCall] /\ CallsKept
      /\ \A d \in Calls : Honest(editCall'[d].form)
  BY <1>1, <1>2, OneCall
<1>4. Calmer(entry, entry') /\ entry' \in EntryOf(Link)  BY <1>2, CallTypes, EntryMoves
<1>5. question' \in EditCall /\ Honest(question'.form)  BY CallTypes
<1>6. LoadedInv'  BY <1>2 DEF LoadedInv, Data
<1>. QED
  BY <1>2, <1>3, <1>4, <1>5, <1>6, CallSteps DEF EditorInv, EditorTypeOK

LEMMA QuestionStep ==
    ASSUME EditorInv, NEW q \in EditCall, Honest(q.form), question' = q,
           q # NewCall => Data # NoData,
           UNCHANGED <<server, entry, form, picker, editCall, left>>
    PROVE  EditorInv'
<1>1. CallsKept  BY DEF CallsKept, SameCall, CallDone
<1>2. Calmer(entry, entry') /\ entry' \in EntryOf(Link)  BY CallTypes, EntryMoves
<1>3. LoadedInv'  BY DEF EditorInv, LoadedInv, Data
<1>. QED  BY <1>1, <1>2, <1>3, CallTypes, CallSteps DEF EditorInv, EditorTypeOK

LEMMA AskStep ==
    ASSUME EditorInv, NEW fields \in EditCall, Honest(fields.form), AskFirst(fields),
           Data # NoData
    PROVE  EditorInv'
<1>. DEFINE x == [fields EXCEPT !.phase = "sent"]
<1>1. x \in EditCall /\ Honest(x.form)  BY DEF EditCall
<1>2. /\ question' = x
      /\ UNCHANGED <<server, entry, form, picker, editCall, left>>
  BY DEF AskFirst
<1>. HIDE DEF x
<1>. QED  BY <1>1, <1>2, QuestionStep

LEMMA FreshCalls ==
    ASSUME EditorInv
    PROVE  /\ \A b \in BOOLEAN :
                 /\ [NewCall EXCEPT !.form = form, !.realias = b] \in EditCall
                 /\ Honest([NewCall EXCEPT !.form = form, !.realias = b].form)
           /\ \A o \in {"save", "toggle", "delete"} :
                 /\ [NewCall EXCEPT !.op = o] \in EditCall
                 /\ Honest([NewCall EXCEPT !.op = o].form)
                 /\ [NewCall EXCEPT !.phase = "over", !.op = o] \in EditCall
                 /\ Honest([NewCall EXCEPT !.phase = "over", !.op = o].form)
                 /\ [NewCall EXCEPT !.phase = "over", !.op = o].phase = "over"
           /\ [NewCall EXCEPT !.op = "toggle", !.status = "DISABLED"] \in EditCall
           /\ Honest([NewCall EXCEPT !.op = "toggle", !.status = "DISABLED"].form)
<1>1. NewCall \in EditCall /\ Honest(NewCall.form) /\ form \in Form /\ Honest(form)
  BY CallTypes
<1>2. ASSUME NEW b \in BOOLEAN
      PROVE  /\ [NewCall EXCEPT !.form = form, !.realias = b] \in EditCall
             /\ [NewCall EXCEPT !.form = form, !.realias = b].form = form
  BY <1>1 DEF EditCall
<1>3. ASSUME NEW o \in {"save", "toggle", "delete"}
      PROVE  /\ [NewCall EXCEPT !.op = o] \in EditCall
             /\ [NewCall EXCEPT !.op = o].form = NewCall.form
             /\ [NewCall EXCEPT !.phase = "over", !.op = o] \in EditCall
             /\ [NewCall EXCEPT !.phase = "over", !.op = o].form = NewCall.form
             /\ [NewCall EXCEPT !.phase = "over", !.op = o].phase = "over"
  BY <1>1 DEF EditCall
<1>4. /\ [NewCall EXCEPT !.op = "toggle", !.status = "DISABLED"] \in EditCall
      /\ [NewCall EXCEPT !.op = "toggle", !.status = "DISABLED"].form = NewCall.form
  BY <1>1 DEF EditCall, EditStatuses
<1>. QED  BY <1>1, <1>2, <1>3, <1>4

LEMMA AskingStep ==
    ASSUME EditorInv,
           \/ AskDeleteLink
           \/ Cancel
           \/ \E c \in Calls : SaveEdit(c) \/ ToggleStatus(c) \/ Confirm(c)
    PROVE  EditorInv'
<1>1. ASSUME NEW c \in Calls, SaveEdit(c)  PROVE EditorInv'
  <2>. DEFINE fields == [NewCall EXCEPT !.form = form,
                                        !.realias = (form.alias # Data.alias)]
  <2>1. /\ Data # NoData
        /\ \/ Send(c, fields) /\ UNCHANGED question
           \/ AskFirst(fields)
    BY <1>1 DEF SaveEdit, Usable, Data
  <2>2. (form.alias # Data.alias) \in BOOLEAN  BY Zenon
  <2>3. fields \in EditCall /\ Honest(fields.form)  BY <2>2, FreshCalls
  <2>. HIDE DEF fields
  <2>. QED  BY <2>1, <2>3, SendStep, AskStep
<1>2. ASSUME NEW c \in Calls, ToggleStatus(c)  PROVE EditorInv'
  <2>. DEFINE fields == [NewCall EXCEPT !.op = "toggle"]
              asking == [NewCall EXCEPT !.op = "toggle", !.status = "DISABLED"]
  <2>1. /\ Data # NoData
        /\ \/ Send(c, fields) /\ UNCHANGED question
           \/ AskFirst(asking)
    BY <1>2 DEF ToggleStatus, Usable, Data
  <2>2. /\ fields \in EditCall /\ Honest(fields.form)
        /\ asking \in EditCall /\ Honest(asking.form)
    BY FreshCalls
  <2>. HIDE DEF fields, asking
  <2>. QED  BY <2>1, <2>2, SendStep, AskStep
<1>3. ASSUME NEW c \in Calls, Confirm(c)  PROVE EditorInv'
  <2>1. question # NewCall /\ Send(c, question) /\ question' = NewCall
    BY <1>3 DEF Confirm
  <2>2. Data # NoData  BY <2>1 DEF EditorInv, LoadedInv
  <2>. QED  BY <2>1, <2>2, CallTypes, SendStep
<1>4. CASE AskDeleteLink
  <2>. DEFINE fields == [NewCall EXCEPT !.op = "delete"]
  <2>1. Data # NoData /\ AskFirst(fields)  BY <1>4 DEF AskDeleteLink, Usable, Data
  <2>2. fields \in EditCall /\ Honest(fields.form)  BY FreshCalls
  <2>. HIDE DEF fields
  <2>. QED  BY <2>1, <2>2, AskStep
<1>5. CASE Cancel
  <2>1. question' = NewCall /\ UNCHANGED <<server, entry, form, picker, editCall, left>>
    BY <1>5 DEF Cancel
  <2>. QED  BY <2>1, CallTypes, QuestionStep
<1>. QED  BY <1>1, <1>2, <1>3, <1>4, <1>5

(* A call that is refused, or over.                                         *)
LEMMA EndingStep ==
    ASSUME EditorInv, NEW c \in Calls,
           Refuse(c) \/ Refused(c) \/ DeleteAnswered(c) \/ Leave(c)
    PROVE  EditorInv'
<1>. DEFINE x == IF Refuse(c) THEN [editCall[c] EXCEPT !.phase = "refused"]
                 ELSE IF DeleteAnswered(c) THEN [editCall[c] EXCEPT !.phase = "leaving"]
                 ELSE [NewCall EXCEPT !.phase = "over", !.op = editCall[c].op]
<1>0. editCall[c] \in EditCall /\ Honest(editCall[c].form) /\ left \in BOOLEAN
  BY CallTypes DEF EditorInv, EditorTypeOK
<1>1. editCall' = [editCall EXCEPT ![c] = x]
  <2>1. CASE Refuse(c)
    <3>1. editCall' = [editCall EXCEPT ![c].phase = "refused"]  BY <2>1 DEF Refuse
    <3>. QED  BY <2>1, <3>1, Zenon
  <2>2. CASE ~Refuse(c) /\ DeleteAnswered(c)
    <3>1. editCall' = [editCall EXCEPT ![c].phase = "leaving"]  BY <2>2 DEF DeleteAnswered
    <3>. QED  BY <2>2, <3>1, Zenon
  <2>3. CASE ~Refuse(c) /\ ~DeleteAnswered(c)
    BY <2>3 DEF Refused, Leave, Finish
  <2>. QED  BY <2>1, <2>2, <2>3
<1>2. x \in EditCall /\ Honest(x.form) /\ x.phase # "done"
  <2>1. editCall[c].op \in {"save", "toggle", "delete"}  BY <1>0 DEF EditCall
  <2>2. /\ [editCall[c] EXCEPT !.phase = "refused"] \in EditCall
        /\ [editCall[c] EXCEPT !.phase = "refused"].form = editCall[c].form
        /\ [editCall[c] EXCEPT !.phase = "leaving"] \in EditCall
        /\ [editCall[c] EXCEPT !.phase = "leaving"].form = editCall[c].form
        /\ [editCall[c] EXCEPT !.phase = "refused"].phase = "refused"
        /\ [editCall[c] EXCEPT !.phase = "leaving"].phase = "leaving"
    BY <1>0 DEF EditCall
  <2>3. /\ [NewCall EXCEPT !.phase = "over", !.op = editCall[c].op] \in EditCall
        /\ Honest([NewCall EXCEPT !.phase = "over", !.op = editCall[c].op].form)
        /\ [NewCall EXCEPT !.phase = "over", !.op = editCall[c].op].phase = "over"
    BY <2>1, FreshCalls
  <2>. QED  BY <1>0, <2>2, <2>3
<1>3. /\ UNCHANGED <<server, form, picker, question>> /\ left' \in BOOLEAN
      /\ entry' = entry \/ entry' = Invalidate(entry, ~left)
      /\ ~CallDone(c) \/ gone
      /\ editCall[c].phase # "new"
  BY <1>0 DEF Refuse, Refused, DeleteAnswered, Leave, CallDone, EditorInv, AnswersInv
<1>. HIDE DEF x
<1>4. /\ editCall' \in [Calls -> EditCall] /\ CallsKept
      /\ \A d \in Calls : Honest(editCall'[d].form)
      /\ \A d \in Calls : d # c => editCall'[d] = editCall[d]
  BY <1>1, <1>2, <1>3, OneCall
<1>5. Calmer(entry, entry') /\ entry' \in EntryOf(Link)
  BY <1>0, <1>3, CallTypes, EntryMoves, EntryTypes
<1>6. LoadedInv'
  BY <1>3, <1>4, <1>5 DEF EditorInv, LoadedInv, Data, Calmer
<1>. QED  BY <1>3, <1>4, <1>5, <1>6, CallTypes, CallSteps

-----------------------------------------------------------------------------
(* The server changes the link.                                             *)
LEMMA LateCalls ==
    ASSUME EditorInv
    PROVE  /\ Late(editCall) \in [Calls -> EditCall]
           /\ \A d \in Calls :
                 /\ Late(editCall)[d].phase = editCall[d].phase
                 /\ Late(editCall)[d].op = editCall[d].op
                 /\ Late(editCall)[d].form = editCall[d].form
                 /\ CallDone(d) => Late(editCall)[d].late
<1>1. ASSUME NEW d \in Calls
      PROVE  /\ Late(editCall)[d] \in EditCall
             /\ Late(editCall)[d].phase = editCall[d].phase
             /\ Late(editCall)[d].op = editCall[d].op
             /\ Late(editCall)[d].form = editCall[d].form
             /\ CallDone(d) => Late(editCall)[d].late
  <2>. DEFINE x == [editCall[d] EXCEPT !.late = TRUE]
  <2>1. editCall[d] \in EditCall  BY CallTypes
  <2>2. Late(editCall)[d] = IF editCall[d].phase = "done" THEN x ELSE editCall[d]
    BY DEF Late
  <2>3. /\ x \in EditCall /\ x.phase = editCall[d].phase /\ x.op = editCall[d].op
        /\ x.form = editCall[d].form /\ x.late
    BY <2>1 DEF EditCall
  <2>. HIDE DEF x
  <2>. QED  BY <2>1, <2>2, <2>3 DEF CallDone
<1>2. Late(editCall) = [d \in Calls |-> Late(editCall)[d]]  BY DEF Late
<1>. QED  BY <1>1, <1>2

LEMMA DoneStep ==
    ASSUME EditorInv, NEW c \in Calls, NEW l \in Link, Done(c, l), editCall[c].phase = "sent",
           \/ editCall[c].op \in {"save", "delete"}
           \/ editCall[c].op = "toggle" /\ l = [row EXCEPT !.status = l.status],
           gone' = (gone \/ editCall[c].op = "delete"), ~gone
    PROVE  EditorInv'
<1>. DEFINE g == Late(editCall)
            x == [g[c] EXCEPT !.phase = "done", !.answer = l]
<1>1. /\ g \in [Calls -> EditCall] /\ g[c] \in EditCall /\ Honest(g[c].form)
      /\ g[c].phase = "sent" /\ g[c].op = editCall[c].op
      /\ \A d \in Calls : /\ g[d].phase = editCall[d].phase /\ g[d].op = editCall[d].op
                          /\ Honest(g[d].form)
                          /\ CallDone(d) => g[d].late
  BY LateCalls, CallTypes
<1>2. /\ row' = l
      /\ UNCHANGED <<clock, elsewhere, entry, form, picker, question, left>>
      /\ editCall' = [g EXCEPT ![c].phase = "done", ![c].answer = l]
  BY DEF Done
<1>3. (gone \/ editCall[c].op = "delete") \in BOOLEAN  BY Zenon DEF EditorInv, EditorTypeOK
<1>. HIDE DEF g
<1>4. editCall' = [g EXCEPT ![c] = x]  BY <1>1, <1>2
<1>5. /\ x \in EditCall /\ Honest(x.form) /\ x.answer = l /\ x.op = editCall[c].op
      /\ x.phase = "done"
  BY <1>1 DEF EditCall
<1>. HIDE DEF x
<1>6. /\ editCall' \in [Calls -> EditCall] /\ editCall'[c] = x
      /\ \A d \in Calls : d # c => editCall'[d] = g[d]
  BY <1>1, <1>4, <1>5
<1>7. EditorTypeOK'
  BY <1>2, <1>3, <1>6 DEF EditorInv, EditorTypeOK
<1>8. PickerInv' /\ FormInv' /\ LoadedInv' /\ ServedInv'
  <2>1. PickerInv' /\ ServedInv'  BY <1>2 DEF EditorInv, PickerInv, ServedInv
  <2>2. FormInv'  BY <1>1, <1>2, <1>5, <1>6 DEF EditorInv, FormInv, Data
  <2>3. LoadedInv'
    <3>1. editCall[c].phase # "new"  OBVIOUS
    <3>. QED  BY <1>2, <3>1 DEF EditorInv, LoadedInv, Data
  <2>. QED  BY <2>1, <2>2, <2>3
<1>9. AnswersInv'
  <2>1. ASSUME NEW d \in Calls, editCall'[d].phase = "done"
        PROVE  /\ ~editCall'[d].late => editCall'[d].answer = l
               /\ editCall'[d].op = "delete" => gone'
    <3>1. CASE d = c  BY <1>5, <1>6, <3>1
    <3>2. CASE d # c
      BY <1>1, <1>6, <2>1, <3>2 DEF EditorInv, AnswersInv, CallDone
    <3>. QED  BY <3>1, <3>2
  <2>. QED  BY <1>2, <2>1 DEF AnswersInv, CallDone
<1>10. DataTells'
  <2>1. ASSUME NEW d \in Link, Told(d), ~gone'  PROVE d = l \/ \E a \in Calls : Mends(a, d)'
    <3>1. CASE editCall[c].op = "save"
      BY <1>5, <1>6, <3>1 DEF Mends, CallDone
    <3>2. CASE editCall[c].op = "toggle" /\ d = row
      <4>1. [d EXCEPT !.status = l.status] = l  BY <3>2
      <4>. QED  BY <1>2, <1>5, <1>6, <3>2, <4>1 DEF Mends, CallDone
    <3>3. CASE \E a \in Calls : CallDone(a)
      <4>1. PICK a \in Calls : CallDone(a)  BY <3>3
      <4>2. a # c  BY <4>1 DEF CallDone
      <4>. QED  BY <1>1, <1>6, <4>1, <4>2 DEF Mends, CallDone
    <3>. QED  BY <2>1, <3>1, <3>2, <3>3 DEF Told, Mends
  <2>2. Data # NoData => entry.data \in Link  BY DataType DEF Data, EditorInv
  <2>3. entry.phase = "served" => entry.answer \in Link  BY DEF EditorInv, ServedInv
  <2>. QED  BY <1>2, <2>1, <2>2, <2>3 DEF EditorInv, DataTells, Data, Told, Mends
<1>. QED  BY <1>7, <1>8, <1>9, <1>10 DEF EditorInv

LEMMA SavedType ==
    ASSUME EditorInv, NEW c \in Calls
    PROVE  Saved(editCall[c]) \in Link
<1>1. editCall[c] \in EditCall /\ row \in Link  BY CallTypes
<1>2. editCall[c].form \in Form /\ editCall[c].realias \in BOOLEAN  BY <1>1 DEF EditCall
<1>. DEFINE f == editCall[c].form
<1>3. /\ f.title \in Titles /\ f.alias \in Aliases /\ f.expiresAt \in Ticks \cup {NoMoment}
      /\ f.password \in BOOLEAN /\ f.clear \in BOOLEAN
  BY <1>2 DEF Form
<1>4. (~f.clear /\ (f.password \/ row.hasPassword)) \in BOOLEAN  BY <1>3
<1>5. Trim[f.title] \in Titles  BY <1>3, LinkEditorConstants
<1>. QED  BY <1>1, <1>2, <1>3, <1>4, <1>5 DEF Saved, Link, EditStatuses

LEMMA ServingStep ==
    ASSUME EditorInv, NEW c \in Calls, ServeSave(c) \/ ServeToggle(c) \/ ServeDelete(c)
    PROVE  EditorInv'
<1>0. editCall[c] \in EditCall /\ row \in Link /\ gone \in BOOLEAN
  BY CallTypes DEF EditorInv, EditorTypeOK
<1>1. CASE ServeSave(c)
  <2>. DEFINE l == Saved(editCall[c])
  <2>1. l \in Link  BY SavedType
  <2>2. /\ Done(c, l) /\ editCall[c].phase = "sent" /\ editCall[c].op = "save" /\ ~gone
        /\ UNCHANGED gone
    BY <1>1 DEF ServeSave
  <2>. HIDE DEF l
  <2>. QED  BY <1>0, <2>1, <2>2, DoneStep
<1>2. CASE ServeToggle(c)
  <2>. DEFINE l == [row EXCEPT !.status = editCall[c].status]
  <2>1. l \in Link /\ l = [row EXCEPT !.status = l.status]  BY <1>0 DEF Link, EditCall
  <2>2. /\ Done(c, l) /\ editCall[c].phase = "sent" /\ editCall[c].op = "toggle" /\ ~gone
        /\ UNCHANGED gone
    BY <1>2 DEF ServeToggle
  <2>. HIDE DEF l
  <2>. QED  BY <1>0, <2>1, <2>2, DoneStep
<1>3. CASE ServeDelete(c)
  <2>1. /\ Done(c, row) /\ editCall[c].phase = "sent" /\ editCall[c].op = "delete" /\ ~gone
        /\ gone' = TRUE
    BY <1>3 DEF ServeDelete
  <2>. QED  BY <1>0, <2>1, DoneStep
<1>. QED  BY <1>1, <1>2, <1>3

-----------------------------------------------------------------------------
(* The page is told.                                                        *)
LEMMA FinishType ==
    ASSUME EditorInv, NEW c \in Calls, Finish(c)
    PROVE  /\ editCall' \in [Calls -> EditCall]
           /\ \A d \in Calls : Honest(editCall'[d].form)
           /\ \A d \in Calls : d # c => editCall'[d] = editCall[d]
           /\ editCall'[c].phase = "over"
<1>. DEFINE x == [NewCall EXCEPT !.phase = "over", !.op = editCall[c].op]
<1>1. editCall[c].op \in {"save", "toggle", "delete"}  BY CallTypes DEF EditCall
<1>2. x \in EditCall /\ Honest(x.form) /\ x.phase = "over"  BY <1>1, FreshCalls
<1>3. editCall' = [editCall EXCEPT ![c] = x]  BY DEF Finish
<1>. HIDE DEF x
<1>. QED  BY <1>2, <1>3, CallTypes

(* The page is told that the link is as in data: the form is filled with it *)
(* or was filled with it before.                                            *)
LEMMA ToldStep ==
    ASSUME EditorInv, NEW c \in Calls, CallDone(c), editCall[c].op \in {"save", "toggle"},
           Finish(c), NEW data \in Link, NEW f \in Form, Honest(f), f.seen = data,
           SetForm(f), UNCHANGED <<server, question, left>>,
           entry' \in EntryOf(Link), Calmer(Cached(c, data), entry'),
           editCall[c].op = "save" => data = editCall[c].answer,
           editCall[c].op = "toggle" =>
               data = [entry.data EXCEPT !.status = editCall[c].answer.status]
    PROVE  EditorInv'
<1>1. /\ editCall' \in [Calls -> EditCall]
      /\ \A d \in Calls : Honest(editCall'[d].form)
      /\ \A d \in Calls : d # c => editCall'[d] = editCall[d]
      /\ editCall'[c].phase = "over"
  BY FinishType
<1>2. entry \in EntryOf(Link) /\ Data # NoData /\ entry.data \in Link /\ row \in Link
  <2>1. Data # NoData  BY DEF EditorInv, LoadedInv, CallDone
  <2>. QED  BY <2>1, CallTypes, DataType DEF EditorInv, Data
<1>3. /\ Cached(c, data).data = data
      /\ Cached(c, data).behind = (entry.behind \/ editCall[c].late)
      /\ Cached(c, data).phase = "served" => Cached(c, data).overtaken
      /\ Cached(c, data).phase = entry.phase /\ Cached(c, data).answer = entry.answer
  <2>1. Put(entry, data) \in EntryOf(Link)  BY <1>2, EntryTypes
  <2>2. /\ Put(entry, data).data = data /\ Put(entry, data).behind = entry.behind
        /\ Put(entry, data).phase = "served" => Put(entry, data).overtaken
        /\ Put(entry, data).phase = entry.phase /\ Put(entry, data).answer = entry.answer
    BY <1>2, EntryFields
  <2>. DEFINE p == Put(entry, data)
  <2>3. Cached(c, data) = [p EXCEPT !.behind = @ \/ editCall[c].late]  BY DEF Cached
  <2>. HIDE DEF p
  <2>4. p \in EntryOf(Link)  BY <2>1 DEF p
  <2>5. /\ p.data = data /\ p.behind = entry.behind
        /\ p.phase = "served" => p.overtaken
        /\ p.phase = entry.phase /\ p.answer = entry.answer
    BY <2>2 DEF p
  <2>. QED  BY <2>3, <2>4, <2>5 DEF EntryOf
<1>4. form' = f /\ form' \in Form /\ picker' \in Picker /\ PickerInv'
  <2>1. Whole(f.expiresAt)  BY DEF Honest
  <2>. QED  BY <2>1, SetFormStep DEF SetForm, EditorInv, server
<1>5. EditorTypeOK'  BY <1>1, <1>4 DEF EditorInv, EditorTypeOK, server
<1>6. entry'.data = data  BY <1>3 DEF Calmer
<1>7. FormInv' /\ LoadedInv'
  <2>1. FormInv'  BY <1>1, <1>4, <1>6 DEF EditorInv, FormInv, Data
  <2>2. entry'.data # NoData  BY <1>6, LinkEditorConstants
  <2>. QED  BY <2>1, <2>2 DEF LoadedInv, Data
<1>8. AnswersInv'
  BY <1>1 DEF EditorInv, AnswersInv, CallDone, server
<1>9. ServedInv'  BY <1>3 DEF EditorInv, ServedInv, Calmer
<1>10. DataTells'
  <2>1. SUFFICES ASSUME ~gone, ~entry'.behind  PROVE Told(entry.data)'
    BY <1>3 DEF DataTells, Data, Calmer, server
  <2>2. ~entry.behind /\ ~editCall[c].late  BY <1>3, <2>1 DEF Calmer
  <2>3. editCall[c].answer = row  BY <2>2 DEF EditorInv, AnswersInv
  <2>4. CASE editCall[c].op = "save"
    BY <1>6, <2>3, <2>4 DEF Told, server
  <2>5. CASE editCall[c].op = "toggle"
    <3>1. data = [entry.data EXCEPT !.status = row.status]  BY <2>3, <2>5
    <3>2. Told(entry.data)  BY <1>2, <2>1, <2>2 DEF EditorInv, DataTells, Data
    <3>3. CASE data = row  BY <1>6, <3>3 DEF Told, server
    <3>4. CASE data # row
      <4>1. entry.data # row  BY <1>2, <3>1, <3>4 DEF Link
      <4>2. PICK a \in Calls : Mends(a, entry.data)  BY <3>2, <4>1 DEF Told
      <4>3. a # c  BY <2>2, <2>5, <3>1, <3>4, <4>2 DEF Mends
      <4>4. CallDone(a) /\ (editCall[a].late \/ editCall[a].op = "save")
        BY <3>1, <3>4, <4>2 DEF Mends
      <4>. QED  BY <1>1, <4>3, <4>4 DEF Told, Mends, CallDone
    <3>. QED  BY <3>3, <3>4
  <2>. QED  BY <2>4, <2>5
<1>. QED  BY <1>4, <1>5, <1>7, <1>8, <1>9, <1>10 DEF EditorInv

LEMMA CachedType ==
    ASSUME EditorInv, NEW c \in Calls, NEW data \in Link
    PROVE  Cached(c, data) \in EntryOf(Link)
<1>1. Put(entry, data) \in EntryOf(Link)  BY CallTypes, EntryTypes
<1>. DEFINE p == Put(entry, data)
<1>2. Cached(c, data) = [p EXCEPT !.behind = @ \/ editCall[c].late]  BY DEF Cached
<1>3. p \in EntryOf(Link)  BY <1>1
<1>. HIDE DEF p
<1>4. p.behind \in BOOLEAN  BY <1>3 DEF EntryOf
<1>5. (p.behind \/ editCall[c].late) \in BOOLEAN  BY <1>4, Zenon
<1>. QED  BY <1>2, <1>3, <1>5 DEF EntryOf

LEMMA AnsweredStep ==
    ASSUME EditorInv, NEW c \in Calls, SaveAnswered(c) \/ ToggleAnswered(c)
    PROVE  EditorInv'
<1>0. /\ editCall[c].answer \in Link /\ left \in BOOLEAN /\ form \in Form /\ Honest(form)
      /\ (Data # NoData => form.seen = Data)
  BY CallTypes DEF EditCall, EditorInv, EditorTypeOK, FormInv
<1>1. CASE SaveAnswered(c)
  <2>. DEFINE fresh == editCall[c].answer
              blank == [form EXCEPT !.password = FALSE, !.clear = FALSE]
  <2>0. PICK f \in {Refilled(fresh, blank), Filled(fresh)} :
            SetForm(IF editCall[c].realias THEN [f EXCEPT !.alias = fresh.alias] ELSE f)
    BY <1>1 DEF SaveAnswered
  <2>. DEFINE g == IF editCall[c].realias THEN [f EXCEPT !.alias = fresh.alias] ELSE f
  <2>1. /\ CallDone(c) /\ editCall[c].op = "save" /\ Finish(c)
        /\ entry' = IF editCall[c].realias THEN Invalidate(Cached(c, fresh), ~left)
                    ELSE Cached(c, fresh)
        /\ SetForm(g)
        /\ UNCHANGED <<server, question, left>>
    BY <1>1, <2>0 DEF SaveAnswered, CallDone
  <2>2. f \in Form /\ Honest(f) /\ f.seen = fresh
    <3>1. CASE fresh = Data /\ f # Filled(fresh)
      <4>1. f = blank  BY <2>0, <3>1 DEF Refilled
      <4>2. Data # NoData  BY <1>0, <3>1, LinkEditorConstants
      <4>3. blank \in Form /\ blank.seen = form.seen  BY <1>0 DEF Form
      <4>4. Honest(blank)  BY <1>0 DEF Form, Honest
      <4>. QED  BY <1>0, <3>1, <4>1, <4>2, <4>3, <4>4
    <3>2. CASE fresh # Data \/ f = Filled(fresh)
      <4>1. f = Filled(fresh)  BY <2>0, <3>2 DEF Refilled
      <4>. QED  BY <1>0, <4>1, FilledForm
    <3>. QED  BY <3>1, <3>2
  <2>3. fresh \in Link  BY <1>0
  <2>. HIDE DEF fresh, blank
  <2>4. g \in Form /\ Honest(g) /\ g.seen = fresh
    BY <2>2, <2>3 DEF Form, Honest, Link
  <2>. HIDE DEF g
  <2>5. Cached(c, fresh) \in EntryOf(Link)  BY <2>3, CachedType
  <2>6. entry' \in EntryOf(Link) /\ Calmer(Cached(c, fresh), entry')
    BY <1>0, <2>1, <2>5, EntryTypes, EntryMoves
  <2>. QED  BY <2>1, <2>3, <2>4, <2>6, ToldStep DEF fresh
<1>2. CASE ToggleAnswered(c)
  <2>. DEFINE data == [entry.data EXCEPT !.status = editCall[c].answer.status]
              f == Refilled(data, form)
  <2>1. /\ CallDone(c) /\ editCall[c].op = "toggle" /\ Finish(c)
        /\ entry' = Cached(c, data) /\ SetForm(f)
        /\ UNCHANGED <<server, question, left>>
    BY <1>2 DEF ToggleAnswered, CallDone, Data
  <2>2. Data # NoData  BY <2>1 DEF EditorInv, LoadedInv, CallDone
  <2>3. data \in Link
    BY <1>0, <2>2, DataType DEF EditorInv, Data, Link
  <2>4. f \in Form /\ Honest(f) /\ f.seen = data
    BY <1>0, <2>2, <2>3, FilledForm DEF Refilled
  <2>. HIDE DEF f, data
  <2>5. entry' \in EntryOf(Link) /\ Calmer(Cached(c, data), entry')
    BY <2>1, <2>3, CachedType, EntryMoves
  <2>. QED  BY <2>1, <2>3, <2>4, <2>5, ToldStep DEF data
<1>. QED  BY <1>1, <1>2

LEMMA AnswerLostStep == ASSUME EditorInv, NEW c \in Calls, AnswerLost(c) PROVE EditorInv'
<1>1. /\ CallDone(c) /\ Finish(c) /\ entry' = Outdated(entry)
      /\ UNCHANGED <<server, form, picker, question, left>>
  BY DEF AnswerLost, CallDone
<1>2. /\ editCall' \in [Calls -> EditCall]
      /\ \A d \in Calls : Honest(editCall'[d].form)
      /\ \A d \in Calls : d # c => editCall'[d] = editCall[d]
      /\ editCall'[c].phase = "over"
  BY <1>1, FinishType
<1>3. /\ entry' \in EntryOf(Link) /\ entry'.data = entry.data
      /\ entry.data # NoData => entry'.behind
      /\ entry'.phase = "served" => entry'.overtaken
      /\ entry'.phase = entry.phase /\ entry'.answer = entry.answer
  BY <1>1, CallTypes, EntryTypes, EntryFields
<1>4. EditorTypeOK' /\ PickerInv'
  BY <1>1, <1>2, <1>3 DEF EditorInv, EditorTypeOK, PickerInv, server
<1>5. FormInv' /\ ServedInv'
  BY <1>1, <1>2, <1>3 DEF EditorInv, FormInv, ServedInv, Data
<1>6. LoadedInv'
  <2>1. Data # NoData  BY <1>1 DEF EditorInv, LoadedInv, CallDone
  <2>. QED  BY <1>3, <2>1 DEF LoadedInv, Data
<1>7. AnswersInv'  BY <1>1, <1>2 DEF EditorInv, AnswersInv, CallDone, server
<1>8. DataTells'  BY <1>3 DEF DataTells, Data
<1>. QED  BY <1>4, <1>5, <1>6, <1>7, <1>8 DEF EditorInv

-----------------------------------------------------------------------------
(* Time, and changes from elsewhere.                                        *)
LEMMA PassStep == ASSUME EditorInv, Pass PROVE EditorInv'
<1>1. /\ clock' \in Instants /\ clock' > clock
      /\ UNCHANGED <<row, gone, elsewhere, entry, form, picker, question, editCall, left>>
  BY DEF Pass
<1>2. DayOf(clock') >= DayOf(clock) /\ DayOf(clock') \in Int
  <2>1. clock \in 0 .. 7 /\ clock' \in 0 .. 7
    BY <1>1, LinkEditorConstants DEF EditorInv, EditorTypeOK
  <2>2. clock' \div 4 >= clock \div 4 /\ clock' \div 4 \in Int  BY <1>1, <2>1
  <2>. QED  BY <2>2 DEF DayOf
<1>3. EditorTypeOK'  BY <1>1 DEF EditorInv, EditorTypeOK
<1>4. PickerInv'
  <2>1. picker.min \in Int /\ DayOf(clock) \in Int
    BY Clock DEF EditorInv, EditorTypeOK, Picker, Days
  <2>. QED  BY <1>1, <1>2, <2>1 DEF EditorInv, PickerInv
<1>5. FormInv' /\ LoadedInv'  BY <1>1 DEF EditorInv, FormInv, LoadedInv, Data
<1>6. CallsKept /\ Calmer(entry, entry')
  BY <1>1, CallTypes, EntryMoves DEF CallsKept, SameCall, CallDone
<1>7. AnswersInv' /\ ServedInv' /\ DataTells'  BY <1>1, <1>6, TellsStay
<1>. QED  BY <1>3, <1>4, <1>5, <1>7 DEF EditorInv

LEMMA BecomeStep ==
    ASSUME EditorInv, NEW l \in Link, Become(l), elsewhere' \in 0 .. MaxElsewhere
    PROVE  EditorInv'
<1>1. /\ row' = l /\ entry' = Outdated(entry) /\ editCall' = Late(editCall)
      /\ UNCHANGED <<clock, gone, form, picker, question, left>>
  BY DEF Become
<1>2. /\ editCall' \in [Calls -> EditCall]
      /\ \A d \in Calls : /\ editCall'[d].phase = editCall[d].phase
                          /\ editCall'[d].op = editCall[d].op
                          /\ Honest(editCall'[d].form)
                          /\ CallDone(d) => editCall'[d].late
  BY <1>1, LateCalls, CallTypes
<1>3. /\ entry' \in EntryOf(Link) /\ entry'.data = entry.data
      /\ entry.data # NoData => entry'.behind
      /\ entry'.phase = "served" => entry'.overtaken
      /\ entry'.phase = entry.phase /\ entry'.answer = entry.answer
  BY <1>1, CallTypes, EntryTypes, EntryFields
<1>4. EditorTypeOK' /\ PickerInv'
  BY <1>1, <1>2, <1>3 DEF EditorInv, EditorTypeOK, PickerInv
<1>5. FormInv' /\ ServedInv'
  BY <1>1, <1>2, <1>3 DEF EditorInv, FormInv, ServedInv, Data
<1>6. LoadedInv'  BY <1>1, <1>2, <1>3 DEF EditorInv, LoadedInv, Data
<1>7. AnswersInv'  BY <1>1, <1>2 DEF EditorInv, AnswersInv, CallDone
<1>8. DataTells'  BY <1>3 DEF DataTells, Data
<1>. QED  BY <1>4, <1>5, <1>6, <1>7, <1>8 DEF EditorInv

LEMMA OthersStep == ASSUME EditorInv, Expire \/ ChangeElsewhere PROVE EditorInv'
<1>0. row \in Link /\ elsewhere \in 0 .. MaxElsewhere
  BY DEF EditorInv, EditorTypeOK
<1>1. CASE Expire
  <2>. DEFINE l == [row EXCEPT !.status = "EXPIRED"]
  <2>1. l \in Link  BY <1>0 DEF Link, EditStatuses
  <2>2. Become(l) /\ elsewhere' = elsewhere  BY <1>1 DEF Expire
  <2>. HIDE DEF l
  <2>. QED  BY <1>0, <2>1, <2>2, BecomeStep
<1>2. CASE ChangeElsewhere
  <2>1. elsewhere' \in 0 .. MaxElsewhere
    <3>1. elsewhere < MaxElsewhere /\ elsewhere' = elsewhere + 1  BY <1>2 DEF ChangeElsewhere
    <3>. QED  BY <1>0, <3>1, LinkEditorConstants
  <2>2. PICK l \in Link : Become(l)
    <3>1. /\ \A t \in Titles \cup {NoTitle} : [row EXCEPT !.title = t] \in Link
          /\ \A t \in Expiries : [row EXCEPT !.expiresAt = t] \in Link
          /\ [row EXCEPT !.status = "EXPIRED"] \in Link
          /\ [row EXCEPT !.hasPassword = ~@] \in Link
      <4>1. Expiries \subseteq Ticks  BY LinkEditorConstants DEF Ticks
      <4>. QED  BY <1>0, <4>1 DEF Link, EditStatuses
    <3>. QED  BY <1>2, <3>1 DEF ChangeElsewhere
  <2>. QED  BY <2>1, <2>2, BecomeStep
<1>. QED  BY <1>1, <1>2

LEMMA CallingStep == ASSUME EditorInv, Calling PROVE EditorInv'
<1>1. ASSUME NEW c \in Calls,
             \/ ServeSave(c) \/ ServeToggle(c) \/ ServeDelete(c)
      PROVE  EditorInv'
  BY <1>1, ServingStep
<1>2. ASSUME NEW c \in Calls,
             Refuse(c) \/ Refused(c) \/ DeleteAnswered(c) \/ Leave(c)
      PROVE  EditorInv'
  BY <1>2, EndingStep
<1>3. ASSUME NEW c \in Calls, SaveAnswered(c) \/ ToggleAnswered(c)  PROVE EditorInv'
  BY <1>3, AnsweredStep
<1>4. ASSUME NEW c \in Calls, AnswerLost(c)  PROVE EditorInv'
  BY <1>4, AnswerLostStep
<1>5. CASE \/ AskDeleteLink
           \/ Cancel
           \/ \E c \in Calls : SaveEdit(c) \/ ToggleStatus(c) \/ Confirm(c)
  BY <1>5, AskingStep
<1>. QED  BY <1>1, <1>2, <1>3, <1>4, <1>5 DEF Calling

LEMMA EditorStep == EditorInv /\ [EditorNext]_editorVars => EditorInv'
<1>. SUFFICES ASSUME EditorInv, [EditorNext]_editorVars PROVE EditorInv'
  OBVIOUS
<1>1. CASE UNCHANGED editorVars
  <2>1. /\ UNCHANGED <<server, entry, form, picker, question, editCall, left>>
        /\ UNCHANGED clock
    BY <1>1 DEF editorVars, server
  <2>2. form \in Form /\ Honest(form) /\ picker \in Picker /\ PickerInv'
    BY <2>1 DEF EditorInv, EditorTypeOK, FormInv, PickerInv
  <2>. QED  BY <2>1, <2>2, FormSteps
<1>. QED
  BY <1>1, ServeLinkStep, LinkArrivesStep, QueryStep, EditingStep, CallingStep, PassStep,
     OthersStep
  DEF EditorNext

(* Every reachable state of the page of a link has its type, for any        *)
(* titles, aliases, expiries, numbers of calls and of changes by others.    *)
THEOREM EditorTypesTheorem == EditorSpec => []EditorTypeOK
<1>1. EditorInv => EditorTypeOK  BY DEF EditorInv
<1>. QED  BY <1>1, InitEditor, EditorStep, PTL DEF EditorSpec

(* What the page shows of its link is what the server has, once its calls   *)
(* are answered: unless something that it was not told of, or was told too  *)
(* late, had happened (setQueryData in links/[id]/page.tsx).                *)
THEOREM ShownLinkTheorem == EditorSpec => []ShownLinkHolds
<1>1. EditorInv => ShownLinkHolds
  BY DEF EditorInv, ShownLinkHolds, DataTells, Data, Told, Mends, CallDone
<1>. QED  BY <1>1, InitEditor, EditorStep, PTL DEF EditorSpec

LEMMA KeptStep == ASSUME EditorInv, NEW c \in Calls, ServeSave(c) PROVE KeptBy(editCall[c])
<1>. DEFINE x == editCall[c]
            f == x.form
<1>1. x \in EditCall /\ f \in Form /\ Honest(f) /\ row \in Link
  <2>1. x \in EditCall /\ Honest(f) /\ row \in Link  BY CallTypes
  <2>. QED  BY <2>1 DEF EditCall
<1>2. row' = Saved(x) /\ ~Over(f.expiresAt, clock)  BY DEF ServeSave, Done
<1>3. f.seen \in Link /\ f.expiresAt \in Ticks \cup {NoMoment}  BY <1>1 DEF Form
<1>. HIDE DEF f
<1>4. /\ row'.title = Trim[f.title] /\ row'.expiresAt = f.expiresAt
      /\ row'.alias = f.alias \/ row'.alias = row.alias
      /\ row'.hasPassword = (~f.clear /\ (f.password \/ row.hasPassword))
      /\ \/ row'.status = row.status
         \/ row.status = "EXPIRED" /\ row'.status = "ACTIVE"
  BY <1>2 DEF Saved, f
<1>5. \/ "title" \in f.edited
      \/ row'.title = Trim[Text(row.title)]
      \/ row.title # f.seen.title
  BY <1>1, <1>4 DEF Honest
<1>6. "alias" \in f.edited \/ row'.alias = row.alias \/ row.alias # f.seen.alias
  BY <1>1, <1>4 DEF Honest
<1>7. "password" \in f.edited \/ row'.hasPassword = row.hasPassword
  <2>1. row.hasPassword \in BOOLEAN  BY <1>1 DEF Link
  <2>. QED  BY <1>1, <1>4, <2>1 DEF Honest
<1>8. \/ "expiresAt" \in f.edited
      \/ row'.expiresAt = Minute(row.expiresAt)
      \/ row.expiresAt # f.seen.expiresAt
  BY <1>1, <1>4 DEF Honest
<1>9. \/ "expiresAt" \in f.edited
      \/ ~Over(row.expiresAt, clock)
      \/ row.expiresAt # f.seen.expiresAt
  <2>1. SUFFICES ASSUME "expiresAt" \notin f.edited, row.expiresAt = f.seen.expiresAt
                 PROVE  ~Over(row.expiresAt, clock)
    OBVIOUS
  <2>2. f.expiresAt = Minute(row.expiresAt)  BY <1>1, <2>1 DEF Honest
  <2>3. clock \in 0 .. 11  BY Clock DEF EditorInv, Ticks
  <2>4. CASE row.expiresAt # NoMoment
    <3>1. row.expiresAt \in 0 .. 11  BY <1>1, <2>4 DEF Link, Ticks
    <3>2. f.expiresAt = row.expiresAt - (row.expiresAt % 2)  BY <2>2, <2>4 DEF Minute
    <3>3. f.expiresAt \in 0 .. 11 /\ f.expiresAt <= row.expiresAt  BY <3>1, <3>2
    <3>4. f.expiresAt # NoMoment  BY <3>3, LinkEditorConstants DEF Ticks
    <3>5. ~(f.expiresAt <= clock)  BY <1>2, <3>4 DEF Over, f
    <3>6. ~(row.expiresAt <= clock)  BY <2>3, <3>1, <3>3, <3>5
    <3>. QED  BY <2>4, <3>6 DEF Over
  <2>. QED  BY <2>4 DEF Over
<1>. QED  BY <1>4, <1>5, <1>6, <1>7, <1>8, <1>9 DEF KeptBy, f

(* No other step gives the form an expiry that counts as edited.            *)
LEMMA Unpicked ==
    ASSUME EditorInv, [EditorNext]_editorVars, ~ApplyPreset, ~ApplyDraft
    PROVE  form'.expiresAt \in {form.expiresAt, NoMoment} \/ form'.edited = {}
<1>0. form \in Form  BY DEF EditorInv, EditorTypeOK
<1>1. ASSUME NEW f, NEW fields, Edit(f, fields), f \in Form,
             f.expiresAt \in {form.expiresAt, NoMoment}
      PROVE  form'.expiresAt \in {form.expiresAt, NoMoment}
  <2>1. form' = [f EXCEPT !.edited = @ \cup fields]  BY <1>1 DEF Edit, SetForm
  <2>. QED  BY <1>1, <2>1 DEF Form
<1>2. CASE \E t \in Titles : EditTitle(t)
  <2>1. PICK t \in Titles : EditTitle(t)  BY <1>2
  <2>. DEFINE f == [form EXCEPT !.title = t]
  <2>2. f \in Form /\ f.expiresAt = form.expiresAt  BY <1>0 DEF Form
  <2>3. Edit(f, {"title"})  BY <2>1 DEF EditTitle
  <2>. HIDE DEF f
  <2>. QED  BY <1>1, <2>2, <2>3
<1>3. CASE \E a \in Aliases : EditAlias(a)
  <2>1. PICK a \in Aliases : EditAlias(a)  BY <1>3
  <2>. DEFINE f == [form EXCEPT !.alias = a]
  <2>2. f \in Form /\ f.expiresAt = form.expiresAt  BY <1>0 DEF Form
  <2>3. Edit(f, {"alias"})  BY <2>1 DEF EditAlias
  <2>. HIDE DEF f
  <2>. QED  BY <1>1, <2>2, <2>3
<1>4. CASE TypePassword
  <2>. DEFINE f == [form EXCEPT !.password = TRUE, !.clear = FALSE]
  <2>1. f \in Form /\ f.expiresAt = form.expiresAt  BY <1>0 DEF Form
  <2>2. Edit(f, {"password"})  BY <1>4 DEF TypePassword
  <2>. HIDE DEF f
  <2>. QED  BY <1>1, <2>1, <2>2
<1>5. CASE ClearPassword
  <2>. DEFINE f == [form EXCEPT !.clear = ~form.clear,
                         !.password = IF form.clear THEN @ ELSE FALSE]
  <2>1. f \in Form /\ f.expiresAt = form.expiresAt  BY <1>0 DEF Form
  <2>2. Edit(f, {"password"})  BY <1>5 DEF ClearPassword
  <2>. HIDE DEF f
  <2>. QED  BY <1>1, <2>1, <2>2
<1>6. CASE ClearExpiry
  <2>. DEFINE f == [form EXCEPT !.expiresAt = NoMoment]
  <2>1. f \in Form /\ f.expiresAt = NoMoment  BY <1>0 DEF Form
  <2>2. Edit(f, {"expiresAt"})  BY <1>6 DEF ClearExpiry, EditExpiry
  <2>. HIDE DEF f
  <2>. QED  BY <1>1, <2>1, <2>2
<1>7. CASE LinkArrives
  <2>1. entry.answer \in Link  BY <1>7 DEF LinkArrives, EditorInv, ServedInv
  <2>2. Filled(entry.answer).edited = {}  BY <2>1, FilledForm
  <2>. QED  BY <1>7, <2>2 DEF LinkArrives, SetForm
<1>8. ASSUME NEW c \in Calls, SaveAnswered(c) \/ ToggleAnswered(c)
      PROVE  form'.expiresAt = form.expiresAt \/ form'.edited = {}
  <2>0. editCall[c].answer \in Link  BY CallTypes DEF EditCall
  <2>1. CASE SaveAnswered(c)
    <3>. DEFINE fresh == editCall[c].answer
                blank == [form EXCEPT !.password = FALSE, !.clear = FALSE]
    <3>1. PICK f \in {Refilled(fresh, blank), Filled(fresh)} :
            form' = IF editCall[c].realias THEN [f EXCEPT !.alias = fresh.alias] ELSE f
      BY <2>1 DEF SaveAnswered, SetForm
    <3>2. blank \in Form /\ blank.expiresAt = form.expiresAt  BY <1>0 DEF Form
    <3>3. f \in Form /\ (f.expiresAt = form.expiresAt \/ f.edited = {})
      BY <2>0, <3>1, <3>2, FilledForm DEF Refilled
    <3>. HIDE DEF fresh, blank
    <3>. QED  BY <3>1, <3>3 DEF Form
  <2>2. CASE ToggleAnswered(c)
    <3>. DEFINE data == [entry.data EXCEPT !.status = editCall[c].answer.status]
    <3>1. form' = Refilled(data, form)  BY <2>2 DEF ToggleAnswered, SetForm, Data
    <3>2. Data # NoData
      BY <2>2 DEF ToggleAnswered, EditorInv, LoadedInv
    <3>3. data \in Link  BY <2>0, <3>2, DataType DEF EditorInv, Data, Link
    <3>. HIDE DEF data
    <3>. QED  BY <3>1, <3>3, FilledForm DEF Refilled
  <2>. QED  BY <1>8, <2>1, <2>2
<1>9. CASE UNCHANGED form  BY <1>9
<1>10. CASE Calling
  BY <1>8, <1>9, <1>10
  DEF Calling, AskDeleteLink, Cancel, SaveEdit, ToggleStatus, Confirm, Send, AskFirst,
      ServeSave, ServeToggle, ServeDelete, Done, Refuse, Refused, DeleteAnswered, Leave,
      AnswerLost
<1>11. CASE Editing
  BY <1>2, <1>3, <1>4, <1>5, <1>6, <1>9, <1>11
  DEF Editing, TogglePicker, PickDay, PickTime
<1>. QED
  BY <1>7, <1>9, <1>10, <1>11
  DEF EditorNext, ServeLink, LinkFails, Refetch, Pass, Expire, ChangeElsewhere, Become,
      editorVars

LEMMA PickedAhead ==
    ASSUME EditorInv, [EditorNext]_editorVars,
           form'.expiresAt \notin {form.expiresAt, NoMoment}, "expiresAt" \in form'.edited
    PROVE  AheadOf(form'.expiresAt, form.expiresAt)
<1>0. /\ form \in Form /\ EditorTypeOK /\ PickerInv /\ DayOf(clock) \in Int
      /\ DayOf(clock) + 1 >= DayOf(clock)
  BY Clock DEF EditorInv, EditorTypeOK
<1>1. CASE ApplyPreset
  <2>1. form'.expiresAt = (DayOf(clock) + 1) * 4 + 2
    BY <1>0, <1>1 DEF ApplyPreset, Picked, Form
  <2>. QED  BY <1>0, <2>1, Drafted DEF AheadOf
<1>2. CASE ApplyDraft
  <2>1. /\ form'.expiresAt = picker.draft * 4 + picker.time /\ picker.draft # NoDay
        /\ picker.open
    BY <1>0, <1>2 DEF ApplyDraft, Picked, Form
  <2>2. DayOf(form'.expiresAt) = picker.draft  BY <1>0, <2>1, Drafted
  <2>3. picker.draft \in Int /\ picker.min \in Int
    BY <1>0, <2>1 DEF EditorTypeOK, Picker, Days
  <2>. QED  BY <1>0, <2>1, <2>2, <2>3 DEF AheadOf, PickerInv
<1>3. CASE ~ApplyPreset /\ ~ApplyDraft
  BY <1>3, Unpicked
<1>. QED  BY <1>1, <1>2, <1>3

(* A save of the form, which sends every field, changes what was edited and *)
(* nothing else, and the picker gives no day that is over: but for what     *)
(* changed under the form, what the form cannot hold (seconds, spaces around*)
(* a title, no title), a status EXPIRED whose time is not over, or a panel  *)
(* open at midnight.                                                        *)
THEOREM FormsTheorem == EditorSpec => FormsAreHonest
<1>1. EditorInv /\ [EditorNext]_editorVars =>
         [\A c \in Calls : ServeSave(c) => KeptBy(editCall[c])]_editorVars
  BY KeptStep
<1>2. EditorInv /\ [EditorNext]_editorVars =>
         [form'.expiresAt \notin {form.expiresAt, NoMoment} /\ "expiresAt" \in form'.edited
             => AheadOf(form'.expiresAt, form.expiresAt)]_editorVars
  BY PickedAhead
<1>. QED
  BY <1>1, <1>2, InitEditor, EditorStep, PTL
  DEF EditorSpec, FormsAreHonest, SavesKeepTheRest, PickedDaysAreAhead
=============================================================================

------------------------------ MODULE Analytics ------------------------------
(***************************************************************************)
(* apps/api/src/analytics/analytics.service.ts: the overview of a          *)
(* workspace and the analytics of a link, whose parts are queries that run *)
(* one by one while clicks are recorded, links deleted and time passes.    *)
(*                                                                         *)
(* A time is a number of hours since a UTC midnight and stands for the     *)
(* last moment of its hour.  Ranges begin and end with days of the         *)
(* server's zone, the bars of the chart are UTC days.  The zone's offset   *)
(* does not change (no daylight saving).  The breakdowns by device,        *)
(* browser, country and so on are queries of their own over the same       *)
(* clicks; groups stands for any one of them.  Questions that are refused, *)
(* names and short URLs are left out.  Nothing is written, so one request  *)
(* stands for all.                                                         *)
(***************************************************************************)
EXTENDS Integers, FiniteSets

CONSTANTS
    Links,      \* links of the workspace
    Clicks,     \* ids of ClickEvent rows
    Moments,    \* bound: the times at which something happens
    Zones,      \* offsets of the server's zone from UTC
    Asked,      \* numbers of days asked for
    Given,      \* times given as from or to
    MaxDays,    \* 365
    MaxTop,     \* 5
    NoTime, NoLink

ASSUME AnalyticsConstants ==
    /\ Moments \subseteq Int /\ Zones \subseteq Int /\ Given \subseteq Int
    /\ MaxTop \in Nat /\ MaxDays \in Nat \ {0} /\ Asked \subseteq 1 .. MaxDays
    /\ NoTime \notin Int /\ NoLink \notin Links

VARIABLES
    zone,       \* the server's zone, chosen once
    now,
    links,      \* links that exist
    events,     \* ClickEvent rows
    ask,        \* the request and its answer
    moved       \* history: the rows that came or went since that request began

vars == <<zone, now, links, events, ask, moved>>

-----------------------------------------------------------------------------
(* The calendar *)

Day == 24

Date(x) == x \div Day                           \* toISOString().slice(0, 10)

StartOfDay(x) == ((x + zone) \div Day) * Day - zone         \* setHours(0, 0, 0, 0)

EndOfDay(x) == StartOfDay(x) + Day - 1          \* setHours(23, 59, 59, 999)

CeilDays(x) == -((-x) \div Day)

Larger(x, y) == IF x > y THEN x ELSE y

Smaller(x, y) == IF x < y THEN x ELSE y

-----------------------------------------------------------------------------
Row == [id : Clicks, at : Moments, link : Links]

Parts == {"total", "today", "leaders", "groups", "chart"}

(* A query's days, from and to. *)
Query == [days : Asked, from : Given \cup {NoTime}, to : Given \cup {NoTime}]

(* link is the one asked about, or NoLink for the overview.  got has the    *)
(* parts that were read; those of a link's answer that it does not have are *)
(* read from the start.  all is history: the rows when the chart was read.  *)
Ask == [phase : {"idle", "found", "reading", "top", "done"},
        link : Links \cup {NoLink}, start : Int, from : Int, to : Int,
        bars : 1 .. MaxDays, got : SUBSET Parts, late : BOOLEAN,
        total : SUBSET Row, today : SUBSET Row, groups : SUBSET Row,
        chart : SUBSET Row, all : SUBSET Row,
        leading : SUBSET Links, top : SUBSET Links]

Nothing == [phase |-> "idle", link |-> NoLink, start |-> 0, from |-> 0, to |-> 0,
            bars |-> 1, got |-> {}, late |-> FALSE, total |-> {}, today |-> {},
            groups |-> {}, chart |-> {}, all |-> {}, leading |-> {}, top |-> {}]

TypeOK ==
    /\ zone \in Zones
    /\ now \in Moments
    /\ links \subseteq Links
    /\ events \subseteq Row
    /\ ask \in Ask
    /\ moved \subseteq Row

Init ==
    /\ zone \in Zones
    /\ now \in Moments /\ \A x \in Moments : now <= x
    /\ links = Links
    /\ events = {}
    /\ ask = Nothing
    /\ moved = {}

Answering == ask.phase \in {"found", "reading", "top"}

-----------------------------------------------------------------------------
(* resolveRange *)

To(q) == EndOfDay(IF q.to = NoTime THEN now ELSE q.to)

From(q) == StartOfDay(IF q.from = NoTime THEN To(q) - (q.days - 1) * Day ELSE q.from)

\* Mutant: as if the ends were days of one calendar.
BarsBetween(from, to) == Smaller(MaxDays, Larger(1, CeilDays(to - from)))

Bars(from, to) == Smaller(MaxDays, Larger(1, CeilDays(to - from) + 1))

(* getDashboardOverview up to its queries: the times it works with. *)
AskOverview(q) ==
    /\ ask.phase = "idle"
    /\ ask' = [Nothing EXCEPT !.phase = "reading", !.start = StartOfDay(now),
                              !.from = From(q), !.to = To(q),
                              !.bars = Bars(From(q), To(q))]
    /\ UNCHANGED <<zone, now, links, events, moved>>

(* getLinkAnalytics: the link with the number of its clicks. *)
AskLink(l) ==
    /\ ask.phase = "idle" /\ l \in links
    /\ ask' = [Nothing EXCEPT !.phase = "found", !.link = l,
                              !.total = {r \in events : r.link = l}]
    /\ UNCHANGED <<zone, now, links, events, moved>>

(* After assertMember: resolveRange.  The brand's hostname is read next. *)
ResolveLink(q) ==
    /\ ask.phase = "found"
    /\ ask' = [ask EXCEPT !.phase = "reading", !.got = {"total", "today", "leaders"},
                          !.from = From(q), !.to = To(q),
                          !.bars = Bars(From(q), To(q))]
    /\ UNCHANGED <<zone, now, links, events, moved>>

-----------------------------------------------------------------------------
(* The queries of Promise.all, in any order *)

(* where: link, or { workspaceId } *)
Scope == {r \in events : ask.link \in {NoLink, r.link}}

InRange == {r \in Scope : ask.from <= r.at /\ r.at <= ask.to}

Read(part, fields) ==
    /\ ask.phase = "reading" /\ part \notin ask.got
    /\ ask' = fields
    /\ UNCHANGED <<zone, now, links, events, moved>>

ReadTotal ==
    Read("total", [ask EXCEPT !.got = ask.got \cup {"total"}, !.total = Scope])

\* Mutant: today is taken from the midnight of UTC.
SinceMidnight == {r \in Scope : Date(now) * Day <= r.at}

Today == {r \in Scope : ask.start <= r.at}

ReadToday ==
    Read("today", [ask EXCEPT !.got = ask.got \cup {"today"}, !.today = Today,
                              !.late = (now > ask.to)])

Hits(R, l) == Cardinality({r \in R : r.link = l})

Clicked(R) == {r.link : r \in R}

(* orderBy count desc, take 5: any MaxTop links that no other one beats. *)
Leads(R, L) ==
    /\ L \subseteq Clicked(R)
    /\ Cardinality(L) = Smaller(MaxTop, Cardinality(Clicked(R)))
    /\ \A l \in L : \A m \in Clicked(R) \ L : Hits(R, l) >= Hits(R, m)

(* topLinkGroups, which only the overview asks for. *)
ReadLeaders ==
    \E L \in SUBSET Links :
        /\ Leads(InRange, L)
        /\ Read("leaders", [ask EXCEPT !.got = ask.got \cup {"leaders"}, !.leading = L])

ReadGroups ==
    Read("groups", [ask EXCEPT !.got = ask.got \cup {"groups"}, !.groups = InRange])

ReadChart ==
    Read("chart", [ask EXCEPT !.got = ask.got \cup {"chart"},
                              !.chart = InRange, !.all = Scope])

(* All have been answered: the overview asks for the links that lead. *)
AllRead ==
    /\ ask.phase = "reading" /\ ask.got = Parts
    /\ ask' = [ask EXCEPT !.phase = IF ask.link = NoLink THEN "top" ELSE "done"]
    /\ UNCHANGED <<zone, now, links, events, moved>>

Found == links \cap ask.leading

(* link.findMany, and the answer. *)
ReadTop ==
    /\ ask.phase = "top"
    /\ ask' = [ask EXCEPT !.phase = "done", !.top = Found]
    /\ UNCHANGED <<zone, now, links, events, moved>>

-----------------------------------------------------------------------------
(* buildDailyClicks: a bar for each of the days up to the one of to. *)

Dates == Date(ask.to) - ask.bars + 1 .. Date(ask.to)

Bar(d) == {r \in ask.chart : Date(r.at) = d}

(* The sum that the pages show as the clicks of the range. *)
Shown == UNION {Bar(d) : d \in Dates}

-----------------------------------------------------------------------------
(* What goes on meanwhile *)

Moving(R) == moved' = IF Answering THEN moved \cup R ELSE moved

Click(c, l) ==
    /\ l \in links /\ \A r \in events : r.id # c
    /\ events' = events \cup {[id |-> c, at |-> now, link |-> l]}
    /\ Moving({[id |-> c, at |-> now, link |-> l]})
    /\ UNCHANGED <<zone, now, links, ask>>

DeleteLink(l) ==
    /\ l \in links
    /\ links' = links \ {l}
    /\ events' = {r \in events : r.link # l}
    /\ Moving({r \in events : r.link = l})
    /\ UNCHANGED <<zone, now, ask>>

Tick ==
    /\ now' \in {x \in Moments : x > now /\ \A y \in Moments : y > now => x <= y}
    /\ UNCHANGED <<zone, links, events, ask, moved>>

Next ==
    \/ \E q \in Query : AskOverview(q) \/ ResolveLink(q)
    \/ \E l \in Links : AskLink(l) \/ DeleteLink(l)
    \/ ReadTotal \/ ReadToday \/ ReadLeaders \/ ReadGroups \/ ReadChart \/ AllRead \/ ReadTop
    \/ \E c \in Clicks, l \in Links : Click(c, l)
    \/ Tick

Spec == Init /\ [][Next]_vars

-----------------------------------------------------------------------------
(* Properties *)

Answered == ask.phase = "done"

(* The chart shows every click of the range, although the range is made of  *)
(* days of the server and the bars are days of UTC: only clicks 365 days or *)
(* more before the last bar are left out.                                   *)
EveryClickHasItsBar ==
    \A r \in ask.chart : r \in Shown \/ Date(r.at) <= Date(ask.to) - MaxDays

(* A bar between the first and the last shows all clicks of its day: no     *)
(* click of a whole day is cut off by the range.                            *)
InnerBarsAreWhole ==
    \A r \in ask.all : Date(r.at) \in Dates \ {Date(ask.to) - ask.bars + 1, Date(ask.to)}
                         => r \in Bar(Date(r.at))

(* The chart has no more than one bar, the first, that the range does not   *)
(* reach (on a server in UTC it has that one).                              *)
OneBarTooMany ==
    ask.from <= ask.to => Date(ask.from) - 1 <= Date(ask.to) - ask.bars + 1

(* The clicks of today are clicks of the last day of a range that ends      *)
(* today, unless they were counted after midnight.                          *)
TodayIsInTheRange ==
    ask.to = EndOfDay(ask.start) /\ ~ask.late =>
        \A r \in ask.today : ask.to - Day < r.at /\ r.at <= ask.to

Differ(A, B) == (A \ B) \cup (B \ A)

(* The numbers of one answer are read by queries of their own while clicks  *)
(* arrive and links are deleted (analytics.service.ts:53), but they differ  *)
(* by no more than the rows that came or went since the request began: the  *)
(* number of all clicks, a breakdown and the clicks of today, each beside   *)
(* the rows that the chart was made from.                                   *)
RowsAgree ==
    Answered =>
        /\ Differ(ask.total, ask.all) \subseteq moved
        /\ Differ(ask.groups, ask.chart) \subseteq moved
        /\ ask.link = NoLink =>
               Differ(ask.today, {r \in ask.all : ask.start <= r.at}) \subseteq moved

(* The overview lists the links with the most clicks of the range: one that *)
(* it leaves out has no more of them than one that it lists, and none at    *)
(* all while there was room in the list, but for rows that came or went.    *)
TopLinksLead ==
    Answered /\ ask.link = NoLink =>
        /\ Cardinality(ask.leading) <= MaxTop
        /\ \A m \in Links \ ask.top :
               Hits(ask.chart \ moved, m) > 0 =>
                   /\ Cardinality(ask.leading) = MaxTop
                   /\ \A l \in ask.top :
                          Hits(ask.chart \cup moved, l) >= Hits(ask.chart \ moved, m)

(* The chart has every click of the range, and whole days but for its ends  *)
(* (analytics.service.ts:478).                                              *)
ChartIsComplete == EveryClickHasItsBar /\ InnerBarsAreWhole

(* The parts of one answer agree with each other: today with the range, the *)
(* numbers with the chart, and the leading links with its clicks.           *)
PartsAgree == TodayIsInTheRange /\ RowsAgree /\ TopLinksLead
=============================================================================

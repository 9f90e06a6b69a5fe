--------------------------- MODULE ClickIngestion ---------------------------
(***************************************************************************)
(* Click tracking: links.service.ts trackClick hands a visit to            *)
(* apps/api/src/links/click-ingestion.service.ts, which queues it in       *)
(* BullMQ for a worker (REDIS_URL set) or persists it in the request.      *)
(* persist writes the ClickEvent row and the DailyLinkStat rollup in one   *)
(* database transaction.                                                   *)
(*                                                                         *)
(* BullMQ is external and modelled from how the service configures it: a   *)
(* job is leased to one worker; a job whose lease ran out, because its     *)
(* process died or its event loop was blocked, is delivered again; a       *)
(* failed job is retried after a delay until its attempts are spent.       *)
(* main.ts enables no shutdown hooks, so onModuleDestroy does not run when *)
(* a process is replaced: stopping is Crash.                               *)
(***************************************************************************)
EXTENDS Naturals, FiniteSets

CONSTANTS
    Links,      \* links that exist at first
    Clicks,     \* tracked visits
    Workers,    \* job slots of all API processes (or requests, without Redis)
    LastDay,    \* bound on the calendar
    Attempts,   \* defaultJobOptions.attempts
    MaxStalled, \* BullMQ's default limit on lost leases
    Queued,     \* REDIS_URL is set
    NoLink, NoClick

ASSUME ClickConstants ==
    /\ LastDay \in Nat /\ Attempts \in Nat \ {0} /\ MaxStalled \in Nat
    /\ Queued \in BOOLEAN
    /\ NoLink \notin Links /\ NoClick \notin Clicks

VARIABLES
    today,      \* UTC day of the clocks
    links,      \* Link rows
    job,        \* the life of each visit
    worker,     \* what each slot is doing
    events,     \* ClickEvent rows
    stats,      \* DailyLinkStat rows, 0 where there is none
    connected   \* slots whose process has its connection to Redis

vars == <<today, links, job, worker, events, stats, connected>>

Days == 0..LastDay

-----------------------------------------------------------------------------
Kinds == {"human", "bot"}       \* isBot of the payload

(* starts, failures and stalls are BullMQ's attemptsStarted, attemptsMade   *)
(* and stalledCounter.  "lost": trackClick's error was logged and dropped.  *)
Job == [state : {"none", "waiting", "active", "delayed", "completed", "failed", "lost"},
        link : Links \cup {NoLink}, kind : Kinds,
        starts : Nat, failures : Nat, stalls : Nat]

(* date is the rollup day chosen before the transaction, day the clickedAt  *)
(* of the transaction, attempt the delivery the slot works on.              *)
Slot == [phase : {"idle", "started", "inserted", "committed"},
         click : Clicks \cup {NoClick}, attempt : Nat,
         date : Days, day : Days, lease : {"held", "lost"}]

(* attempt and date are history: the delivery that wrote the row and the    *)
(* rollup the same transaction counted it in.                               *)
Event == [click : Clicks, link : Links, kind : Kinds, attempt : Nat,
          date : Days, day : Days]

Rollup == [totalClicks : Nat, botClicks : Nat]

TypeOK ==
    /\ today \in Days
    /\ links \subseteq Links
    /\ job \in [Clicks -> Job]
    /\ worker \in [Workers -> Slot]
    /\ events \subseteq Event
    /\ stats \in [Links -> [Days -> Rollup]]
    /\ connected \subseteq Workers

IdleSlot == [phase |-> "idle", click |-> NoClick, attempt |-> 0,
             date |-> 0, day |-> 0, lease |-> "lost"]

NoRollup == [totalClicks |-> 0, botClicks |-> 0]

Init ==
    /\ today = 0
    /\ links = Links
    /\ job = [c \in Clicks |-> [state |-> "none", link |-> NoLink, kind |-> "human",
                                starts |-> 0, failures |-> 0, stalls |-> 0]]
    /\ worker = [w \in Workers |-> IdleSlot]
    /\ events = {}
    /\ stats = [l \in Links |-> [d \in Days |-> NoRollup]]
    /\ connected = Workers

-----------------------------------------------------------------------------
(* The redirect *)

(* handleRedirect reached trackClick with an active link; add() succeeds or *)
(* its error is swallowed, and the visitor is redirected either way.        *)
TrackClick(c, l, k) ==
    /\ job[c].state = "none"
    /\ l \in links
    /\ \E s \in {"waiting", "lost"} :
         job' = [job EXCEPT ![c] = [@ EXCEPT !.state = s, !.link = l, !.kind = k]]
    /\ UNCHANGED <<today, links, worker, events, stats, connected>>

-----------------------------------------------------------------------------
(* persist *)

\* Mutant: the rollup day is read when the upsert runs.
BucketAtCommit(w) == today

(* The day whose rollup counts the click: new Date() before the transaction *)
Bucket(w) == worker[w].date

(* upsert: create with 1, or increment. *)
Bumped(r, k) == [totalClicks |-> r.totalClicks + 1,
                 botClicks |-> r.botClicks + (IF k = "bot" THEN 1 ELSE 0)]

(* A slot takes a job and persist chooses the rollup day.                   *)
Start(w, c) ==
    /\ w \in connected
    /\ worker[w].phase = "idle"
    /\ job[c].state = "waiting"
    /\ job' = [job EXCEPT ![c] = [job[c] EXCEPT !.state = "active", !.starts = @ + 1]]
    /\ worker' = [worker EXCEPT ![w] = [phase |-> "started", click |-> c,
                                        attempt |-> job[c].starts + 1,
                                        date |-> today, day |-> today, lease |-> "held"]]
    /\ UNCHANGED <<today, links, events, stats, connected>>

(* clickEvent.create inside the transaction, whose now() is clickedAt; the  *)
(* foreign key needs the link, and keeps it until the transaction ends.     *)
InsertEvent(w) ==
    /\ worker[w].phase = "started"
    /\ job[worker[w].click].link \in links
    /\ worker' = [worker EXCEPT ![w] = [@ EXCEPT !.phase = "inserted", !.day = today]]
    /\ UNCHANGED <<today, links, job, events, stats, connected>>

EventRow(w) == LET c == worker[w].click IN
    [click |-> c, link |-> job[c].link, kind |-> job[c].kind,
     attempt |-> worker[w].attempt, date |-> Bucket(w), day |-> worker[w].day]

(* dailyLinkStat.upsert and the commit. *)
Commit(w) ==
    LET l == job[worker[w].click].link IN
    /\ worker[w].phase = "inserted"
    /\ events' = events \cup {EventRow(w)}
    /\ stats' = [stats EXCEPT ![l][Bucket(w)] = Bumped(@, job[worker[w].click].kind)]
    /\ worker' = [worker EXCEPT ![w] = [@ EXCEPT !.phase = "committed"]]
    /\ UNCHANGED <<today, links, job, connected>>

(* persist returned: the job is completed, if its lease is still held. *)
Complete(w) ==
    LET c == worker[w].click IN
    /\ worker[w].phase = "committed"
    /\ job' = [job EXCEPT ![c].state = IF worker[w].lease = "held" THEN "completed" ELSE @]
    /\ worker' = [worker EXCEPT ![w] = IdleSlot]
    /\ UNCHANGED <<today, links, events, stats, connected>>

\* Mutant: a failed job is put back without counting the attempt.
RetriedForever(j) == [j EXCEPT !.state = "delayed"]

(* What a failed attempt does to the job: retry, give up, or (without a     *)
(* queue) the error that handleRedirect logs.                               *)
Failed(j) ==
    IF ~Queued THEN [j EXCEPT !.state = "lost", !.failures = @ + 1]
    ELSE [j EXCEPT !.failures = @ + 1,
                   !.state = IF j.failures + 1 < Attempts THEN "delayed" ELSE "failed"]

(* persist threw: no link, a unique violation of two creating upserts, a    *)
(* lost connection, or a commit whose reply was lost.                       *)
Fail(w) ==
    LET c == worker[w].click IN
    /\ worker[w].phase # "idle"
    /\ job' = [job EXCEPT ![c] = IF worker[w].lease = "held" THEN Failed(@) ELSE @]
    /\ worker' = [worker EXCEPT ![w] = IdleSlot]
    /\ UNCHANGED <<today, links, events, stats, connected>>

-----------------------------------------------------------------------------
(* Processes and BullMQ *)

(* The process of the slot dies, uncommitted work with it. *)
Crash(w) ==
    LET c == worker[w].click IN
    /\ worker[w].phase # "idle"
    /\ job' = [job EXCEPT ![c].state = IF Queued THEN @ ELSE "lost"]
    /\ worker' = [worker EXCEPT ![w] = IdleSlot]
    /\ UNCHANGED <<today, links, events, stats, connected>>

(* The lease is not renewed in time; the slot does not know. *)
LoseLease(w) ==
    /\ Queued
    /\ worker[w].phase # "idle"
    /\ worker[w].lease = "held"
    /\ worker' = [worker EXCEPT ![w] = [@ EXCEPT !.lease = "lost"]]
    /\ UNCHANGED <<today, links, job, events, stats, connected>>

(* Redis is away for more than three tries of retryStrategy, which then     *)
(* returns null: the connection is closed for good, although the process    *)
(* lives. Work in hand goes on, its lease is not renewed. The slots of one  *)
(* process lose their connection one by one here.                           *)
Disconnect(w) ==
    /\ Queued
    /\ w \in connected
    /\ connected' = connected \ {w}
    /\ worker' = [worker EXCEPT ![w] = [@ EXCEPT !.lease = "lost"]]
    /\ UNCHANGED <<today, links, job, events, stats>>

(* The process is replaced: nothing in it opens the connection again.       *)
Restart(w) ==
    /\ worker[w].phase = "idle"
    /\ w \notin connected
    /\ connected' = connected \cup {w}
    /\ UNCHANGED <<today, links, job, worker, events, stats>>

Leased(c) == \E w \in Workers : worker[w].click = c /\ worker[w].lease = "held"

\* Mutant: the worker is configured to skip the stalled-job check.
SkipsStalled(c) == FALSE /\ UNCHANGED vars

(* The stalled-job check of any worker that has its connection. *)
RecoverStalled(c) ==
    /\ Queued
    /\ connected # {}
    /\ job[c].state = "active"
    /\ ~Leased(c)
    /\ job' = [job EXCEPT ![c] =
                 [job[c] EXCEPT
                    !.state = IF job[c].stalls < MaxStalled THEN "waiting" ELSE "failed",
                    !.stalls = @ + 1]]
    /\ UNCHANGED <<today, links, worker, events, stats, connected>>

(* The backoff delay is over, and a worker asks for delayed jobs. *)
Promote(c) ==
    /\ connected # {}
    /\ job[c].state = "delayed"
    /\ job' = [job EXCEPT ![c].state = "waiting"]
    /\ UNCHANGED <<today, links, worker, events, stats, connected>>

-----------------------------------------------------------------------------
(* Around it *)

\* Mutant: the events of a deleted link stay.
EventsKept(l) == events

EventsWithout(l) == {e \in events : e.link # l}

StatsWithout(l) == [stats EXCEPT ![l] = [d \in Days |-> NoRollup]]

(* deleteLink (or a deleted workspace): its rows cascade; it waits for the  *)
(* transactions that hold the link's row.                                   *)
DeleteLink(l) ==
    /\ l \in links
    /\ \A w \in Workers : worker[w].phase = "inserted" => job[worker[w].click].link # l
    /\ links' = links \ {l}
    /\ events' = EventsWithout(l)
    /\ stats' = StatsWithout(l)
    /\ UNCHANGED <<today, job, worker, connected>>

Midnight ==
    /\ today < LastDay
    /\ today' = today + 1
    /\ UNCHANGED <<links, job, worker, events, stats, connected>>

-----------------------------------------------------------------------------
WorkerStep(w) == InsertEvent(w) \/ Commit(w) \/ Complete(w) \/ Fail(w)

Next ==
    \/ \E c \in Clicks, l \in Links, k \in Kinds : TrackClick(c, l, k)
    \/ \E w \in Workers : (\E c \in Clicks : Start(w, c)) \/ WorkerStep(w)
    \/ \E w \in Workers : Crash(w) \/ LoseLease(w) \/ Disconnect(w) \/ Restart(w)
    \/ \E c \in Clicks : RecoverStalled(c) \/ Promote(c)
    \/ \E l \in Links : DeleteLink(l)
    \/ Midnight

Spec == Init /\ [][Next]_vars

(* The loops of BullMQ's Worker, each of one process: a slot keeps working  *)
(* and, while it has its connection, takes waiting jobs, ends delays and    *)
(* runs the stalled check. Nothing is assumed of Restart, so a process that *)
(* lost its connection promises nothing more than the work it has in hand.  *)
Fairness ==
    /\ \A w \in Workers : /\ WF_vars(WorkerStep(w))
                          /\ WF_vars(\E c \in Clicks : Start(w, c))
    /\ \A c \in Clicks : WF_vars(RecoverStalled(c)) /\ WF_vars(Promote(c))

FairSpec == Spec /\ Fairness

-----------------------------------------------------------------------------
(* Properties *)

InBucket(l, d) == {e \in events : e.link = l /\ e.date = d}

(* Every daily rollup counts exactly the events its transactions wrote,     *)
(* through failed, repeated and half-done deliveries and deleted links.     *)
RollupsMatchEvents ==
    \A l \in Links, d \in Days :
        /\ stats[l][d].totalClicks = Cardinality(InBucket(l, d))
        /\ stats[l][d].botClicks = Cardinality({e \in InBucket(l, d) : e.kind = "bot"})

Copies(c) == {e \in events : e.click = c}

(* A visit is counted again only for a failed attempt or a lost lease, so   *)
(* at most Attempts + MaxStalled times.                                     *)
RepeatsNeedRedelivery ==
    \A c \in Clicks :
        /\ Cardinality(Copies(c)) <= 1 + job[c].failures + job[c].stalls
        /\ Cardinality(Copies(c)) <= Attempts + MaxStalled

(* A completed job has left its row, unless the link is gone; a job that    *)
(* was dropped used up its attempts or its leases first.                    *)
NothingDroppedEarly ==
    \A c \in Clicks :
        /\ job[c].state = "completed" => Copies(c) # {} \/ job[c].link \notin links
        /\ job[c].state = "failed" => \/ job[c].failures = Attempts
                                      \/ job[c].stalls = MaxStalled + 1

(* persist chooses the rollup day before the row gets its timestamp: around *)
(* midnight a rollup may claim a click early, never late.                   *)
RollupNeverLags == \A e \in events : e.date <= e.day

(* Over all deliveries of a visit: it is counted again only for an attempt  *)
(* or a lease that was lost, and given up only when these are used up       *)
(* (click-ingestion.service.ts:71).                                         *)
AttemptsAreSpent == RepeatsNeedRedelivery /\ NothingDroppedEarly

(* The daily rollups of a link add up to its events, and none of them is    *)
(* counted in a day after its own (click-ingestion.service.ts:116).         *)
RollupsAddUp == RollupsMatchEvents /\ RollupNeverLags

(* No row of a deleted link survives a delivery that overtakes the delete.  *)
NoRowsOfDeletedLinks ==
    \A l \in Links \ links :
        (\A e \in events : e.link # l) /\ stats[l] = [d \in Days |-> NoRollup]

(* As long as one process keeps its connection, every queued visit is       *)
(* settled: no job is retried for ever, forgotten by a worker that died, or *)
(* stuck behind one whose connection ended (click-ingestion.service.ts:68). *)
ClicksSettle ==
    (\E w \in Workers : <>[](w \in connected)) =>
        \A c \in Clicks :
            job[c].state = "waiting" ~> job[c].state \in {"completed", "failed", "lost"}

(* Counting ClickEvent rows, as the dashboards do, implements the ledger:   *)
(* each counter moves by one counted click at a time.                       *)
EventLedger == INSTANCE ClickLedger WITH
    counted <- links,
    total <- [l \in Links |-> Cardinality({e \in events : e.link = l})],
    bots <- [l \in Links |-> Cardinality({e \in events : e.link = l /\ e.kind = "bot"})]

EventsImplementLedger == EventLedger!Spec

(* "jobs are at-least-once and consumers must be idempotent" (ADR-003 of    *)
(* docs/architecture.md), which a delivery repeated after its commit        *)
(* refutes: the payload carries no event id.                                *)
ConsumerIsIdempotent == \A c \in Clicks : Cardinality(Copies(c)) <= 1
-----------------------------------------------------------------------------
(* The inductive invariant behind them *)

(* A busy slot works on a delivery of an existing visit; only a slot whose  *)
(* job is active holds a lease.                                             *)
SlotsTracked ==
    \A w \in Workers :
        IF worker[w].phase = "idle" THEN worker[w].lease = "lost"
        ELSE /\ worker[w].click \in Clicks
             /\ job[worker[w].click].link \in Links
             /\ worker[w].attempt \in 1..job[worker[w].click].starts
             /\ worker[w].date <= worker[w].day
             /\ worker[w].day <= today
             /\ worker[w].lease = "held" => job[worker[w].click].state = "active"
             /\ worker[w].lease = "held" \/ Queued
             /\ worker[w].phase = "inserted" => job[worker[w].click].link \in links
             /\ worker[w].phase = "committed" =>
                    \/ job[worker[w].click].link \notin links
                    \/ \E e \in events : e.click = worker[w].click

(* No two slots work on the same delivery, or hold the lease of one job. *)
DeliveriesDistinct ==
    \A v, w \in Workers :
        (/\ v # w /\ worker[v].phase # "idle" /\ worker[w].phase # "idle"
         /\ worker[v].click = worker[w].click)
        => /\ worker[v].attempt # worker[w].attempt
           /\ worker[v].lease = "lost" \/ worker[w].lease = "lost"

(* Each delivery wrote one row at most, and none before its commit. *)
RowsTracked ==
    /\ IsFiniteSet(events)
    /\ \A e \in events : /\ e.link \in links
                         /\ e.link = job[e.click].link
                         /\ e.attempt \in 1..job[e.click].starts
    /\ \A e, f \in events : e.click = f.click /\ e.attempt = f.attempt => e = f
    /\ \A e \in events, w \in Workers :
            worker[w].phase \in {"started", "inserted"} /\ worker[w].click = e.click
                => worker[w].attempt # e.attempt

(* Every delivery but the first follows a failure or a lost lease. *)
DeliveriesBounded ==
    \A c \in Clicks :
        /\ job[c].starts <= 1 + job[c].failures + job[c].stalls
        /\ job[c].starts <= Attempts + MaxStalled
        /\ job[c].state = "none" => job[c].starts = 0
        /\ job[c].state \in {"waiting", "delayed"} =>
                job[c].starts <= job[c].failures + job[c].stalls
        /\ job[c].state \in {"none", "waiting", "delayed", "active"} =>
                job[c].failures < Attempts /\ job[c].stalls <= MaxStalled
        /\ job[c].state # "none" => job[c].link \in Links

ClickInv ==
    /\ TypeOK
    /\ SlotsTracked
    /\ DeliveriesDistinct
    /\ RowsTracked
    /\ DeliveriesBounded
    /\ RollupsMatchEvents
    /\ NothingDroppedEarly
    /\ RollupNeverLags
    /\ NoRowsOfDeletedLinks
=============================================================================

----------------------------- MODULE ClickProofs -----------------------------
(* The inductive invariant of ClickIngestion, its consequences, and the     *)
(* refinement of ClickLedger.                                               *)
EXTENDS ClickIngestion, FiniteSetTheorems, TLAPS

(* An empty slot is a slot. *)
LEMMA IdleSlotType == ClickConstants => IdleSlot \in Slot
BY DEF ClickConstants, IdleSlot, Slot, Days

(* A job with other counters or another state is a job. *)
LEMMA JobUpdates ==
    ASSUME NEW j \in Job, NEW n \in Nat,
           NEW s \in {"none", "waiting", "active", "delayed", "completed", "failed", "lost"}
    PROVE  /\ [j EXCEPT !.state = s, !.starts = n] \in Job
           /\ [j EXCEPT !.failures = n, !.state = s] \in Job
           /\ [j EXCEPT !.state = s, !.stalls = n] \in Job
BY DEF Job

(* What a failed attempt leaves of a job. *)
LEMMA FailedJob ==
    ASSUME ClickConstants, NEW j \in Job
    PROVE  /\ Failed(j) \in Job
           /\ Failed(j).failures = j.failures + 1
           /\ Failed(j).state \in {"delayed", "failed", "lost"}
           /\ Failed(j).state = "delayed" => j.failures + 1 < Attempts
           /\ Failed(j).state = "failed" => ~(j.failures + 1 < Attempts)
           /\ Failed(j).link = j.link /\ Failed(j).starts = j.starts
           /\ Failed(j).stalls = j.stalls
<1>1. j.failures + 1 \in Nat
  BY DEF Job
<1>2. Failed(j) \in Job
  BY <1>1, JobUpdates DEF Failed
<1>3. Failed(j).failures = j.failures + 1
  BY DEF Failed, Job
<1>4. /\ Failed(j).state \in {"delayed", "failed", "lost"}
      /\ Failed(j).state = "delayed" => j.failures + 1 < Attempts
      /\ Failed(j).state = "failed" => ~(j.failures + 1 < Attempts)
  BY DEF Failed, Job
<1>5. /\ Failed(j).link = j.link /\ Failed(j).starts = j.starts
      /\ Failed(j).stalls = j.stalls
  BY DEF Failed, Job
<1>. QED  BY <1>2, <1>3, <1>4, <1>5

(* A step that touches neither rows nor links keeps what is said of them. *)
LEMMA RowsKept ==
    ASSUME RollupsMatchEvents, RollupNeverLags, NoRowsOfDeletedLinks,
           UNCHANGED <<links, events, stats>>
    PROVE  RollupsMatchEvents' /\ RollupNeverLags' /\ NoRowsOfDeletedLinks'
BY DEF RollupsMatchEvents, InBucket, RollupNeverLags, NoRowsOfDeletedLinks

-----------------------------------------------------------------------------
LEMMA InitInv == ClickConstants /\ Init => ClickInv
<1>. SUFFICES ASSUME ClickConstants, Init PROVE ClickInv
  OBVIOUS
<1>1. TypeOK
  BY IdleSlotType DEF ClickConstants, Init, TypeOK, Job, Kinds, Days, Rollup, NoRollup
<1>2. RollupsMatchEvents
  <2>. SUFFICES ASSUME NEW l \in Links, NEW d \in Days
                PROVE  /\ stats[l][d].totalClicks = Cardinality(InBucket(l, d))
                       /\ stats[l][d].botClicks =
                            Cardinality({e \in InBucket(l, d) : e.kind = "bot"})
    BY DEF RollupsMatchEvents
  <2>1. InBucket(l, d) = {} /\ {e \in InBucket(l, d) : e.kind = "bot"} = {}
    BY DEF Init, InBucket
  <2>. QED  BY <2>1, FS_EmptySet DEF Init, NoRollup
<1>3. RowsTracked
  BY FS_EmptySet DEF Init, RowsTracked
<1>4. SlotsTracked /\ DeliveriesDistinct
  BY DEF Init, SlotsTracked, DeliveriesDistinct, IdleSlot
<1>5. DeliveriesBounded /\ NothingDroppedEarly
  BY DEF Init, DeliveriesBounded, NothingDroppedEarly, ClickConstants
<1>6. RollupNeverLags /\ NoRowsOfDeletedLinks
  BY DEF Init, RollupNeverLags, NoRowsOfDeletedLinks
<1>. QED  BY <1>1, <1>2, <1>3, <1>4, <1>5, <1>6 DEF ClickInv

LEMMA TrackClickStep ==
    ASSUME ClickConstants, ClickInv,
           NEW c \in Clicks, NEW l \in Links, NEW k \in Kinds, TrackClick(c, l, k)
    PROVE  ClickInv'
<1>. USE DEF ClickInv
<1>1. PICK s \in {"waiting", "lost"} :
         job' = [job EXCEPT ![c] = [@ EXCEPT !.state = s, !.link = l, !.kind = k]]
  BY DEF TrackClick
<1>2. /\ job[c].state = "none"
      /\ UNCHANGED <<today, links, worker, events, stats, connected>>
  BY DEF TrackClick
<1>3. /\ job'[c].state = s /\ job'[c].link = l
      /\ job'[c].starts = job[c].starts /\ job'[c].failures = job[c].failures
      /\ job'[c].stalls = job[c].stalls
      /\ \A x \in Clicks : x # c => job'[x] = job[x]
  BY <1>1 DEF TypeOK, Job
<1>4. TypeOK'
  BY <1>1, <1>2 DEF TypeOK, Job
<1>5. job[c].starts = 0
  BY <1>2 DEF DeliveriesBounded
<1>6. \A w \in Workers : worker[w].phase # "idle" => worker[w].click # c
  BY <1>5 DEF SlotsTracked, TypeOK, Slot
<1>7. \A e \in events : e.click # c /\ e.click \in Clicks
  BY <1>5 DEF RowsTracked, TypeOK, Event
<1>8. SlotsTracked'
  BY <1>2, <1>3, <1>6 DEF SlotsTracked
<1>9. DeliveriesDistinct'
  BY <1>2 DEF DeliveriesDistinct
<1>10. RowsTracked'
  BY <1>2, <1>3, <1>7 DEF RowsTracked
<1>11. DeliveriesBounded'
  BY <1>2, <1>3, <1>5 DEF DeliveriesBounded, TypeOK, Job
<1>12. NothingDroppedEarly'
  BY <1>2, <1>3 DEF NothingDroppedEarly, Copies
<1>. QED  BY <1>2, <1>4, <1>8, <1>9, <1>10, <1>11, <1>12, RowsKept

LEMMA StartStep ==
    ASSUME ClickConstants, ClickInv, NEW w \in Workers, NEW c \in Clicks, Start(w, c)
    PROVE  ClickInv'
<1>. USE DEF ClickInv
<1>1. /\ worker[w].phase = "idle" /\ job[c].state = "waiting"
      /\ UNCHANGED <<today, links, events, stats, connected>>
  BY DEF Start
<1>. DEFINE row == [job[c] EXCEPT !.state = "active", !.starts = @ + 1]
<1>0. job[c] \in Job /\ job[c].starts + 1 \in Nat
  BY DEF TypeOK, Job
<1>a. row \in Job
  <2>1. \A n \in Nat : [job[c] EXCEPT !.state = "active", !.starts = n] \in Job
    BY <1>0, JobUpdates
  <2>. QED  BY <1>0, <2>1
<1>b. /\ row.state = "active" /\ row.starts = job[c].starts + 1
      /\ row.link = job[c].link /\ row.failures = job[c].failures
      /\ row.stalls = job[c].stalls
  BY <1>0 DEF Job
<1>c. job' = [job EXCEPT ![c] = row]
  BY DEF Start, TypeOK
<1>. HIDE DEF row
<1>2. /\ job'[c].state = "active" /\ job'[c].starts = job[c].starts + 1
      /\ job'[c].link = job[c].link /\ job'[c].failures = job[c].failures
      /\ job'[c].stalls = job[c].stalls
      /\ \A x \in Clicks : x # c => job'[x] = job[x]
  BY <1>a, <1>b, <1>c DEF TypeOK
<1>3. /\ worker'[w].phase = "started" /\ worker'[w].click = c
      /\ worker'[w].attempt = job[c].starts + 1
      /\ worker'[w].date = today /\ worker'[w].day = today
      /\ worker'[w].lease = "held"
      /\ \A v \in Workers : v # w => worker'[v] = worker[v]
  BY DEF Start, TypeOK
<1>4. TypeOK'
  <2>1. job' \in [Clicks -> Job]
    BY <1>a, <1>b, <1>c DEF TypeOK
  <2>2. worker' \in [Workers -> Slot]
    BY DEF Start, TypeOK, Slot, Job
  <2>. QED  BY <1>1, <2>1, <2>2 DEF TypeOK
<1>5. \A x \in Clicks : job[x].starts \in Nat /\ today \in Nat
  BY DEF TypeOK, Job, Days
<1>6. \A v \in Workers : /\ worker[v].attempt \in Nat
                         /\ worker[v].phase # "idle" => worker[v].click \in Clicks
                         /\ worker[v].lease = "held" => worker[v].click # c
  BY <1>1 DEF SlotsTracked, TypeOK, Slot
<1>7. SlotsTracked'
  <2>1. worker'[w].attempt \in 1..job'[c].starts /\ job'[c].link \in Links
    BY <1>1, <1>2, <1>3, <1>5 DEF DeliveriesBounded
  <2>2. ASSUME NEW v \in Workers, v # w, worker[v].phase # "idle"
        PROVE  /\ worker[v].attempt \in 1..job'[worker[v].click].starts
               /\ job'[worker[v].click].link = job[worker[v].click].link
               /\ worker[v].lease = "held" => job'[worker[v].click].state = "active"
    <3>1. /\ worker[v].click \in Clicks
          /\ worker[v].attempt \in 1..job[worker[v].click].starts
          /\ worker[v].lease = "held" => job[worker[v].click].state = "active"
      BY <2>2 DEF SlotsTracked
    <3>2. CASE worker[v].click = c
      BY <3>1, <3>2, <1>1, <1>2, <1>5
    <3>3. CASE worker[v].click # c
      BY <3>1, <3>3, <1>2
    <3>. QED  BY <3>2, <3>3
  <2>. QED  BY <1>1, <1>2, <1>3, <1>5, <2>1, <2>2 DEF SlotsTracked
<1>8. DeliveriesDistinct'
  <2>. SUFFICES ASSUME NEW u \in Workers, NEW v \in Workers, u # v,
                       worker'[u].phase # "idle", worker'[v].phase # "idle",
                       worker'[u].click = worker'[v].click
                PROVE  /\ worker'[u].attempt # worker'[v].attempt
                       /\ worker'[u].lease = "lost" \/ worker'[v].lease = "lost"
    BY DEF DeliveriesDistinct
  <2>1. \A x \in Workers : x # w /\ worker[x].phase # "idle" /\ worker[x].click = c =>
            worker[x].attempt # job[c].starts + 1 /\ worker[x].lease = "lost"
    BY <1>5, <1>6 DEF SlotsTracked, TypeOK, Slot
  <2>. QED  BY <2>1, <1>3 DEF DeliveriesDistinct
<1>9. RowsTracked'
  <2>1. \A e \in events : e.click \in Clicks /\ e.attempt \in Nat
    BY DEF TypeOK, Event
  <2>2. \A e \in events : e.click = c => e.attempt # job[c].starts + 1
    BY <1>5, <2>1 DEF RowsTracked
  <2>. QED  BY <1>1, <1>2, <1>3, <1>5, <2>1, <2>2 DEF RowsTracked
<1>10. DeliveriesBounded'
  BY <1>1, <1>2, <1>5 DEF DeliveriesBounded, TypeOK, Job, ClickConstants
<1>11. NothingDroppedEarly'
  BY <1>1, <1>2 DEF NothingDroppedEarly, Copies
<1>. QED  BY <1>1, <1>4, <1>7, <1>8, <1>9, <1>10, <1>11, RowsKept

LEMMA InsertEventStep ==
    ASSUME ClickConstants, ClickInv, NEW w \in Workers, InsertEvent(w)
    PROVE  ClickInv'
<1>. USE DEF ClickInv
<1>1. /\ worker[w].phase = "started" /\ job[worker[w].click].link \in links
      /\ UNCHANGED <<today, links, job, events, stats, connected>>
  BY DEF InsertEvent
<1>2. /\ worker'[w].phase = "inserted" /\ worker'[w].day = today
      /\ worker'[w].click = worker[w].click /\ worker'[w].attempt = worker[w].attempt
      /\ worker'[w].date = worker[w].date /\ worker'[w].lease = worker[w].lease
      /\ \A v \in Workers : v # w => worker'[v] = worker[v]
  BY DEF InsertEvent, TypeOK, Slot
<1>3. TypeOK'
  BY <1>1 DEF InsertEvent, TypeOK, Slot
<1>4. worker[w].date \in Nat /\ worker[w].day \in Nat /\ today \in Nat
  BY DEF TypeOK, Slot, Days
<1>5. SlotsTracked'
  BY <1>1, <1>2, <1>4 DEF SlotsTracked
<1>6. DeliveriesDistinct'
  BY <1>1, <1>2 DEF DeliveriesDistinct
<1>7. RowsTracked'
  BY <1>1, <1>2 DEF RowsTracked
<1>8. DeliveriesBounded' /\ NothingDroppedEarly'
  BY <1>1 DEF DeliveriesBounded, NothingDroppedEarly, Copies
<1>. QED  BY <1>1, <1>3, <1>5, <1>6, <1>7, <1>8, RowsKept

(* The counters of a rollup and of its bucket grow together. *)
LEMMA CommitCounts ==
    ASSUME ClickConstants, ClickInv, NEW w \in Workers, Commit(w)
    PROVE  RollupsMatchEvents'
<1>. USE DEF ClickInv
<1>. DEFINE c == worker[w].click
            row == EventRow(w)
            b == worker[w].date
<1>1. /\ worker[w].phase = "inserted" /\ c \in Clicks /\ job[c].link \in links
      /\ job[c].link \in Links /\ b \in Days
  BY DEF Commit, SlotsTracked, TypeOK, Slot
<1>2. row.link = job[c].link /\ row.date = b /\ row.kind = job[c].kind
      /\ row.click = c /\ row.attempt = worker[w].attempt
  BY DEF EventRow, Bucket
<1>3. events' = events \cup {row} /\ row \notin events
  BY <1>1, <1>2 DEF Commit, RowsTracked
<1>4. stats' = [stats EXCEPT ![job[c].link][b] = Bumped(@, job[c].kind)]
  BY DEF Commit, Bucket
<1>. HIDE DEF row, c, b
<1>. SUFFICES ASSUME NEW l \in Links, NEW d \in Days
              PROVE  /\ stats'[l][d].totalClicks = Cardinality(InBucket(l, d)')
                     /\ stats'[l][d].botClicks =
                            Cardinality({e \in InBucket(l, d)' : e.kind = "bot"})
  BY DEF RollupsMatchEvents
<1>. DEFINE B == InBucket(l, d)
            R == {e \in B : e.kind = "bot"}
            B2 == {e \in events' : e.link = l /\ e.date = d}
            R2 == {e \in B2 : e.kind = "bot"}
<1>5. InBucket(l, d)' = B2
  BY DEF InBucket
<1>6. IsFiniteSet(B) /\ IsFiniteSet(R)
  BY FS_Subset DEF RowsTracked, InBucket
<1>7. /\ stats[l][d].totalClicks = Cardinality(B)
      /\ stats[l][d].botClicks = Cardinality(R)
  BY DEF RollupsMatchEvents
<1>8. CASE l = job[c].link /\ d = b
  <2>1. B2 = B \cup {row} /\ row \notin B
    BY <1>2, <1>3, <1>8 DEF InBucket
  <2>2. Cardinality(B2) = Cardinality(B) + 1
    BY <2>1, <1>6, FS_AddElement
  <2>3. stats'[l][d] = Bumped(stats[l][d], job[c].kind)
    BY <1>4, <1>8 DEF TypeOK
  <2>4. CASE job[c].kind = "bot"
    <3>1. R2 = R \cup {row} /\ row \notin R
      BY <2>1, <2>4, <1>2
    <3>2. Cardinality(R2) = Cardinality(R) + 1
      BY <3>1, <1>6, FS_AddElement
    <3>. HIDE DEF B, R, B2, R2
    <3>. QED  BY <3>2, <2>2, <2>3, <2>4, <1>5, <1>7 DEF Bumped, R2
  <2>5. CASE job[c].kind # "bot"
    <3>1. R2 = R
      BY <2>1, <2>5, <1>2
    <3>2. Cardinality(R) \in Nat
      BY <1>6, FS_CardinalityType
    <3>3. Cardinality(R2) = Cardinality(R)
      BY <3>1
    <3>4. /\ stats'[l][d].totalClicks = stats[l][d].totalClicks + 1
          /\ stats'[l][d].botClicks = stats[l][d].botClicks + 0
      BY <2>3, <2>5 DEF Bumped
    <3>. HIDE DEF B, R, B2
    <3>. QED  BY <3>2, <3>3, <3>4, <2>2, <1>5, <1>7 DEF R2
  <2>. QED  BY <2>4, <2>5
<1>9. CASE ~(l = job[c].link /\ d = b)
  <2>1. B2 = B
    BY <1>2, <1>3, <1>9 DEF InBucket
  <2>2. stats'[l][d] = stats[l][d]
    BY <1>1, <1>4, <1>9 DEF TypeOK
  <2>. QED  BY <2>1, <2>2, <1>5, <1>7
<1>. QED  BY <1>8, <1>9

LEMMA CommitStep ==
    ASSUME ClickConstants, ClickInv, NEW w \in Workers, Commit(w)
    PROVE  ClickInv'
<1>. USE DEF ClickInv
<1>. DEFINE c == worker[w].click
            row == EventRow(w)
<1>1. /\ worker[w].phase = "inserted" /\ c \in Clicks /\ job[c].link \in links
      /\ job[c].link \in Links /\ UNCHANGED <<today, links, job, connected>>
  BY DEF Commit, SlotsTracked
<1>2. /\ row.link = job[c].link /\ row.click = c /\ row.attempt = worker[w].attempt
      /\ row.date = worker[w].date /\ row.day = worker[w].day
      /\ row \in Event
  BY <1>1 DEF EventRow, Bucket, TypeOK, Event, Slot, Job
<1>3. events' = events \cup {row}
  BY DEF Commit
<1>4. /\ worker'[w].phase = "committed" /\ worker'[w].day = worker[w].day
      /\ worker'[w].click = worker[w].click /\ worker'[w].attempt = worker[w].attempt
      /\ worker'[w].date = worker[w].date /\ worker'[w].lease = worker[w].lease
      /\ \A v \in Workers : v # w => worker'[v] = worker[v]
  BY DEF Commit, TypeOK, Slot
<1>5. /\ stats' \in [Links -> [Days -> Rollup]]
      /\ \A l \in Links : l # job[c].link => stats'[l] = stats[l]
  <2>1. \A r \in Rollup, k \in Kinds : Bumped(r, k) \in Rollup
    BY DEF Bumped, Rollup
  <2>2. job[c].kind \in Kinds
    BY <1>1 DEF TypeOK, Job
  <2>. QED  BY <1>1, <2>1, <2>2 DEF Commit, TypeOK
<1>6. TypeOK'
  <2>1. worker' \in [Workers -> Slot]
    BY DEF Commit, TypeOK, Slot
  <2>2. events' \subseteq Event
    BY <1>2, <1>3 DEF TypeOK
  <2>. QED  BY <1>1, <1>5, <2>1, <2>2 DEF TypeOK
<1>. HIDE DEF row
<1>7. SlotsTracked'
  BY <1>1, <1>2, <1>3, <1>4 DEF SlotsTracked
<1>8. DeliveriesDistinct'
  BY <1>1, <1>4 DEF DeliveriesDistinct
<1>9. RowsTracked'
  <2>1. IsFiniteSet(events')
    BY <1>3, FS_AddElement DEF RowsTracked
  <2>2. /\ row.link \in links /\ row.link = job[row.click].link
        /\ row.attempt \in 1..job[row.click].starts
    BY <1>1, <1>2 DEF SlotsTracked
  <2>3. \A e \in events : e.click = c => e.attempt # row.attempt
    BY <1>1, <1>2 DEF RowsTracked
  <2>4. \A v \in Workers : v # w /\ worker[v].phase # "idle" /\ worker[v].click = c
            => worker[v].attempt # row.attempt
    BY <1>1, <1>2 DEF DeliveriesDistinct
  <2>. QED  BY <1>1, <1>2, <1>3, <1>4, <2>1, <2>2, <2>3, <2>4 DEF RowsTracked
<1>10. DeliveriesBounded'
  BY <1>1 DEF DeliveriesBounded
<1>11. NothingDroppedEarly'
  <2>1. \A x \in Clicks : Copies(x) # {} => Copies(x)' # {}
    BY <1>3 DEF Copies
  <2>. QED  BY <1>1, <2>1 DEF NothingDroppedEarly
<1>12. RollupNeverLags'
  BY <1>1, <1>2, <1>3 DEF RollupNeverLags, SlotsTracked
<1>13. NoRowsOfDeletedLinks'
  BY <1>1, <1>2, <1>3, <1>5 DEF NoRowsOfDeletedLinks
<1>. QED  BY <1>6, <1>7, <1>8, <1>9, <1>10, <1>11, <1>12, <1>13, CommitCounts

(* What a slot that becomes idle may do to its job: settle it, or drop it   *)
(* or send it back, while its lease is held; otherwise nothing.             *)
Settles(w, c) ==
    /\ UNCHANGED <<today, links, events, stats, connected>>
    /\ job' \in [Clicks -> Job]
    /\ \A x \in Clicks : x # c => job'[x] = job[x]
    /\ job'[c].link = job[c].link /\ job'[c].starts = job[c].starts
    /\ worker' = [worker EXCEPT ![w] = IdleSlot]
    /\ worker[w].phase # "idle" /\ worker[w].click = c
    /\ job'[c] # job[c] => worker[w].lease = "held"

LEMMA SettlesStep ==
    ASSUME ClickConstants, ClickInv, NEW w \in Workers, NEW c \in Clicks, Settles(w, c)
    PROVE  /\ TypeOK' /\ SlotsTracked' /\ DeliveriesDistinct' /\ RowsTracked'
           /\ RollupsMatchEvents' /\ RollupNeverLags' /\ NoRowsOfDeletedLinks'
<1>. USE DEF ClickInv
<1>1. /\ worker'[w].phase = "idle" /\ worker'[w].lease = "lost"
      /\ \A v \in Workers : v # w => worker'[v] = worker[v]
  BY DEF Settles, TypeOK, IdleSlot
<1>2. TypeOK'
  BY IdleSlotType DEF Settles, TypeOK
<1>3. \A x \in Clicks : job'[x].link = job[x].link /\ job'[x].starts = job[x].starts
  BY DEF Settles
<1>4. \A v \in Workers : v # w /\ worker[v].phase # "idle" /\ worker[v].lease = "held"
         => job'[worker[v].click] = job[worker[v].click]
  BY DEF Settles, SlotsTracked, DeliveriesDistinct
<1>5. SlotsTracked'
  BY <1>1, <1>3, <1>4 DEF Settles, SlotsTracked
<1>6. DeliveriesDistinct'
  BY <1>1 DEF Settles, DeliveriesDistinct
<1>7. RowsTracked'
  <2>1. \A e \in events : e.click \in Clicks
    BY DEF TypeOK, Event
  <2>. QED  BY <1>1, <1>3, <2>1 DEF Settles, RowsTracked
<1>. QED  BY <1>2, <1>5, <1>6, <1>7, RowsKept DEF Settles

LEMMA CompleteStep ==
    ASSUME ClickConstants, ClickInv, NEW w \in Workers, Complete(w)
    PROVE  ClickInv'
<1>. USE DEF ClickInv
<1>. DEFINE c == worker[w].click
<1>1. c \in Clicks /\ worker[w].phase = "committed"
  BY DEF Complete, SlotsTracked
<1>2. /\ job'[c].state = (IF worker[w].lease = "held" THEN "completed" ELSE job[c].state)
      /\ job'[c].link = job[c].link /\ job'[c].starts = job[c].starts
      /\ job'[c].failures = job[c].failures /\ job'[c].stalls = job[c].stalls
      /\ \A x \in Clicks : x # c => job'[x] = job[x]
  BY <1>1 DEF Complete, TypeOK, Job
<1>3. job' \in [Clicks -> Job] /\ (worker[w].lease # "held" => job' = job)
  BY <1>1 DEF Complete, TypeOK, Job
<1>4. Settles(w, c)
  BY <1>1, <1>2, <1>3 DEF Complete, Settles
<1>5. worker[w].lease = "held" => job[c].state = "active"
  BY <1>1 DEF SlotsTracked
<1>6. DeliveriesBounded'
  BY <1>2, <1>5 DEF DeliveriesBounded
<1>7. NothingDroppedEarly'
  <2>1. job[c].link \notin links \/ Copies(c) # {}
    BY <1>1 DEF SlotsTracked, Copies
  <2>. QED  BY <1>2, <2>1 DEF Complete, NothingDroppedEarly, Copies
<1>. QED  BY <1>1, <1>4, <1>6, <1>7, SettlesStep

LEMMA FailStep ==
    ASSUME ClickConstants, ClickInv, NEW w \in Workers, Fail(w)
    PROVE  ClickInv'
<1>. USE DEF ClickInv
<1>. DEFINE c == worker[w].click
<1>1. c \in Clicks /\ worker[w].phase # "idle"
  BY DEF Fail, SlotsTracked
<1>2. CASE worker[w].lease = "held"
  <2>1. job' = [job EXCEPT ![c] = Failed(job[c])]
    BY <1>1, <1>2 DEF Fail, TypeOK
  <2>2. /\ Failed(job[c]) \in Job
        /\ Failed(job[c]).failures = job[c].failures + 1
        /\ Failed(job[c]).state \in {"delayed", "failed", "lost"}
        /\ Failed(job[c]).state = "delayed" => job[c].failures + 1 < Attempts
        /\ Failed(job[c]).state = "failed" => ~(job[c].failures + 1 < Attempts)
        /\ Failed(job[c]).link = job[c].link /\ Failed(job[c]).starts = job[c].starts
        /\ Failed(job[c]).stalls = job[c].stalls
    BY <1>1, FailedJob DEF TypeOK
  <2>3. Settles(w, c)
    BY <1>1, <1>2, <2>1, <2>2 DEF Fail, Settles, TypeOK
  <2>4. job[c].state = "active"
    BY <1>1, <1>2 DEF SlotsTracked
  <2>5. /\ job'[c] = Failed(job[c]) /\ \A x \in Clicks : x # c => job'[x] = job[x]
    BY <1>1, <2>1 DEF TypeOK
  <2>6. /\ job[c].starts \in Nat /\ job[c].failures \in Nat /\ job[c].stalls \in Nat
        /\ Attempts \in Nat /\ MaxStalled \in Nat
    BY <1>1 DEF TypeOK, Job, ClickConstants
  <2>7. DeliveriesBounded'
    BY <2>2, <2>4, <2>5, <2>6 DEF DeliveriesBounded
  <2>8. NothingDroppedEarly'
    BY <2>2, <2>4, <2>5, <2>6 DEF Fail, DeliveriesBounded, NothingDroppedEarly, Copies
  <2>. QED  BY <1>1, <2>3, <2>7, <2>8, SettlesStep
<1>3. CASE worker[w].lease # "held"
  <2>1. job' = job
    BY <1>1, <1>3 DEF Fail, TypeOK
  <2>2. Settles(w, c)
    BY <1>1, <2>1 DEF Fail, Settles, TypeOK
  <2>3. DeliveriesBounded' /\ NothingDroppedEarly'
    BY <2>1 DEF Fail, DeliveriesBounded, NothingDroppedEarly, Copies
  <2>. QED  BY <1>1, <2>2, <2>3, SettlesStep
<1>. QED  BY <1>2, <1>3

LEMMA CrashStep ==
    ASSUME ClickConstants, ClickInv, NEW w \in Workers, Crash(w)
    PROVE  ClickInv'
<1>. USE DEF ClickInv
<1>. DEFINE c == worker[w].click
<1>1. c \in Clicks /\ worker[w].phase # "idle" /\ (~Queued => worker[w].lease = "held")
  BY DEF Crash, SlotsTracked
<1>2. /\ job'[c].state = (IF Queued THEN job[c].state ELSE "lost")
      /\ job'[c].link = job[c].link /\ job'[c].starts = job[c].starts
      /\ job'[c].failures = job[c].failures /\ job'[c].stalls = job[c].stalls
      /\ \A x \in Clicks : x # c => job'[x] = job[x]
  BY <1>1 DEF Crash, TypeOK, Job
<1>3. job' \in [Clicks -> Job] /\ (Queued => job' = job)
  <2>1. CASE Queued
    <3>1. job' = job
      BY <1>1, <2>1 DEF Crash, TypeOK, Job
    <3>. QED  BY <3>1 DEF TypeOK
  <2>2. CASE ~Queued
    <3>1. job' = [job EXCEPT ![c].state = "lost"]
      BY <2>2 DEF Crash
    <3>2. [job[c] EXCEPT !.state = "lost"] \in Job
      <4>1. job[c] \in Job
        BY <1>1 DEF TypeOK
      <4>. QED  BY <4>1 DEF Job
    <3>. QED  BY <1>1, <2>2, <3>1, <3>2 DEF TypeOK
  <2>. QED  BY <2>1, <2>2
<1>4. Settles(w, c)
  BY <1>1, <1>2, <1>3 DEF Crash, Settles
<1>5. DeliveriesBounded'
  BY <1>1, <1>2 DEF DeliveriesBounded, SlotsTracked
<1>6. NothingDroppedEarly'
  BY <1>2 DEF Crash, NothingDroppedEarly, Copies
<1>. QED  BY <1>1, <1>4, <1>5, <1>6, SettlesStep

LEMMA LoseLeaseStep ==
    ASSUME ClickConstants, ClickInv, NEW w \in Workers, LoseLease(w)
    PROVE  ClickInv'
<1>. USE DEF ClickInv
<1>1. Queued /\ UNCHANGED <<today, links, job, events, stats, connected>>
  BY DEF LoseLease
<1>2. /\ worker'[w].phase = worker[w].phase /\ worker'[w].day = worker[w].day
      /\ worker'[w].click = worker[w].click /\ worker'[w].attempt = worker[w].attempt
      /\ worker'[w].date = worker[w].date /\ worker'[w].lease = "lost"
      /\ \A v \in Workers : v # w => worker'[v] = worker[v]
  BY DEF LoseLease, TypeOK, Slot
<1>3. TypeOK'
  BY <1>1 DEF LoseLease, TypeOK, Slot
<1>4. SlotsTracked' /\ DeliveriesDistinct'
  BY <1>1, <1>2 DEF SlotsTracked, DeliveriesDistinct
<1>5. RowsTracked'
  BY <1>1, <1>2 DEF RowsTracked
<1>6. DeliveriesBounded' /\ NothingDroppedEarly'
  BY <1>1 DEF DeliveriesBounded, NothingDroppedEarly, Copies
<1>. QED  BY <1>1, <1>3, <1>4, <1>5, <1>6, RowsKept

LEMMA DisconnectStep ==
    ASSUME ClickConstants, ClickInv, NEW w \in Workers, Disconnect(w)
    PROVE  ClickInv'
<1>. USE DEF ClickInv
<1>1. Queued /\ UNCHANGED <<today, links, job, events, stats>>
  BY DEF Disconnect
<1>2. /\ worker'[w].phase = worker[w].phase /\ worker'[w].day = worker[w].day
      /\ worker'[w].click = worker[w].click /\ worker'[w].attempt = worker[w].attempt
      /\ worker'[w].date = worker[w].date /\ worker'[w].lease = "lost"
      /\ \A v \in Workers : v # w => worker'[v] = worker[v]
  BY DEF Disconnect, TypeOK, Slot
<1>3. TypeOK'
  BY <1>1 DEF Disconnect, TypeOK, Slot
<1>4. SlotsTracked' /\ DeliveriesDistinct'
  BY <1>1, <1>2 DEF SlotsTracked, DeliveriesDistinct
<1>5. RowsTracked'
  BY <1>1, <1>2 DEF RowsTracked
<1>6. DeliveriesBounded' /\ NothingDroppedEarly'
  BY <1>1 DEF DeliveriesBounded, NothingDroppedEarly, Copies
<1>. QED  BY <1>1, <1>3, <1>4, <1>5, <1>6, RowsKept

LEMMA RestartStep ==
    ASSUME ClickConstants, ClickInv, NEW w \in Workers, Restart(w)
    PROVE  ClickInv'
<1>. USE DEF ClickInv
<1>1. /\ UNCHANGED <<today, links, job, worker, events, stats>>
      /\ connected' = connected \cup {w}
  BY DEF Restart
<1>2. TypeOK' /\ SlotsTracked' /\ DeliveriesDistinct' /\ RowsTracked'
  BY <1>1 DEF TypeOK, SlotsTracked, DeliveriesDistinct, RowsTracked
<1>3. DeliveriesBounded' /\ NothingDroppedEarly'
  BY <1>1 DEF DeliveriesBounded, NothingDroppedEarly, Copies
<1>. QED  BY <1>1, <1>2, <1>3, RowsKept

(* A job that no slot holds a lease of changes its state or its stalls. *)
LEMMA RequeueStep ==
    ASSUME ClickConstants, ClickInv, NEW c \in Clicks, ~Leased(c),
           UNCHANGED <<today, links, worker, events, stats, connected>>,
           \A x \in Clicks : x # c => job'[x] = job[x],
           job'[c].link = job[c].link, job'[c].starts = job[c].starts,
           job' \in [Clicks -> Job]
    PROVE  /\ TypeOK' /\ SlotsTracked' /\ DeliveriesDistinct' /\ RowsTracked'
           /\ RollupsMatchEvents' /\ RollupNeverLags' /\ NoRowsOfDeletedLinks'
<1>. USE DEF ClickInv
<1>1. TypeOK'
  BY DEF TypeOK
<1>2. \A v \in Workers : worker[v].phase # "idle" /\ worker[v].lease = "held"
         => job'[worker[v].click] = job[worker[v].click]
  BY DEF Leased, SlotsTracked
<1>3. SlotsTracked'
  BY <1>2 DEF SlotsTracked
<1>4. DeliveriesDistinct'
  BY DEF DeliveriesDistinct
<1>5. RowsTracked'
  BY DEF RowsTracked, TypeOK, Event
<1>. QED  BY <1>1, <1>3, <1>4, <1>5, RowsKept

LEMMA RecoverStalledStep ==
    ASSUME ClickConstants, ClickInv, NEW c \in Clicks, RecoverStalled(c)
    PROVE  ClickInv'
<1>. USE DEF ClickInv
<1>. DEFINE row == [job[c] EXCEPT
                      !.state = IF job[c].stalls < MaxStalled THEN "waiting" ELSE "failed",
                      !.stalls = @ + 1]
<1>1. job[c] \in Job /\ job[c].stalls + 1 \in Nat
  BY DEF TypeOK, Job
<1>2. row \in Job
  BY <1>1, JobUpdates DEF Job
<1>3. /\ row.state = (IF job[c].stalls < MaxStalled THEN "waiting" ELSE "failed")
      /\ row.stalls = job[c].stalls + 1 /\ row.link = job[c].link
      /\ row.starts = job[c].starts /\ row.failures = job[c].failures
  BY <1>1 DEF Job
<1>4. job' = [job EXCEPT ![c] = row]
  BY DEF RecoverStalled, TypeOK
<1>. HIDE DEF row
<1>5. /\ job' \in [Clicks -> Job] /\ job'[c] = row
      /\ \A x \in Clicks : x # c => job'[x] = job[x]
  BY <1>2, <1>4 DEF TypeOK
<1>6. /\ job[c].state = "active" /\ ~Leased(c)
      /\ UNCHANGED <<today, links, worker, events, stats, connected>>
  BY DEF RecoverStalled
<1>7. /\ job[c].starts \in Nat /\ job[c].failures \in Nat /\ job[c].stalls \in Nat
      /\ Attempts \in Nat /\ MaxStalled \in Nat
  BY <1>1 DEF Job, ClickConstants
<1>8. DeliveriesBounded'
  BY <1>3, <1>5, <1>6, <1>7 DEF DeliveriesBounded
<1>9. NothingDroppedEarly'
  BY <1>3, <1>5, <1>6, <1>7 DEF NothingDroppedEarly, DeliveriesBounded, Copies
<1>. QED  BY <1>3, <1>5, <1>6, <1>8, <1>9, RequeueStep

LEMMA PromoteStep ==
    ASSUME ClickConstants, ClickInv, NEW c \in Clicks, Promote(c)
    PROVE  ClickInv'
<1>. USE DEF ClickInv
<1>1. /\ job[c].state = "delayed" /\ UNCHANGED <<today, links, worker, events, stats, connected>>
  BY DEF Promote
<1>2. /\ job'[c].state = "waiting" /\ job'[c].link = job[c].link
      /\ job'[c].starts = job[c].starts /\ job'[c].failures = job[c].failures
      /\ job'[c].stalls = job[c].stalls
      /\ \A x \in Clicks : x # c => job'[x] = job[x]
  BY DEF Promote, TypeOK, Job
<1>3. job' \in [Clicks -> Job]
  BY DEF Promote, TypeOK, Job
<1>4. ~Leased(c)
  BY <1>1 DEF Leased, SlotsTracked, TypeOK, Slot
<1>5. DeliveriesBounded'
  BY <1>1, <1>2 DEF DeliveriesBounded
<1>6. NothingDroppedEarly'
  BY <1>1, <1>2 DEF NothingDroppedEarly, Copies
<1>. QED  BY <1>1, <1>2, <1>3, <1>4, <1>5, <1>6, RequeueStep

LEMMA DeleteLinkStep ==
    ASSUME ClickConstants, ClickInv, NEW l \in Links, DeleteLink(l)
    PROVE  ClickInv'
<1>. USE DEF ClickInv
<1>1. /\ UNCHANGED <<today, job, worker, connected>> /\ links' = links \ {l}
      /\ events' = {e \in events : e.link # l}
      /\ stats' = [stats EXCEPT ![l] = [d \in Days |-> NoRollup]]
      /\ \A w \in Workers : worker[w].phase = "inserted" => job[worker[w].click].link # l
  BY DEF DeleteLink, EventsWithout, StatsWithout
<1>2. TypeOK'
  <2>1. NoRollup \in Rollup
    BY DEF NoRollup, Rollup
  <2>. QED  BY <1>1, <2>1 DEF TypeOK
<1>3. SlotsTracked'
  <2>1. \A e \in events : e.link = job[e.click].link
    BY DEF RowsTracked
  <2>. QED  BY <1>1, <2>1 DEF SlotsTracked
<1>4. DeliveriesDistinct'
  BY <1>1 DEF DeliveriesDistinct
<1>5. RowsTracked'
  <2>1. IsFiniteSet(events')
    BY <1>1, FS_Subset DEF RowsTracked
  <2>. QED  BY <1>1, <2>1 DEF RowsTracked
<1>6. DeliveriesBounded'
  BY <1>1 DEF DeliveriesBounded
<1>7. NothingDroppedEarly'
  <2>1. \A c \in Clicks : job[c].link # l => Copies(c)' = Copies(c)
    BY <1>1 DEF Copies, RowsTracked
  <2>. QED  BY <1>1, <2>1 DEF NothingDroppedEarly
<1>8. RollupNeverLags'
  BY <1>1 DEF RollupNeverLags
<1>9. NoRowsOfDeletedLinks'
  <2>1. stats'[l] = [d \in Days |-> NoRollup]
        /\ \A m \in Links : m # l => stats'[m] = stats[m]
    BY <1>1 DEF TypeOK
  <2>. QED  BY <1>1, <2>1 DEF NoRowsOfDeletedLinks
<1>10. RollupsMatchEvents'
  <2>. SUFFICES ASSUME NEW m \in Links, NEW d \in Days
                PROVE  /\ stats'[m][d].totalClicks = Cardinality(InBucket(m, d)')
                       /\ stats'[m][d].botClicks =
                              Cardinality({e \in InBucket(m, d)' : e.kind = "bot"})
    BY DEF RollupsMatchEvents
  <2>1. CASE m = l
    <3>1. InBucket(m, d)' = {} /\ {e \in InBucket(m, d)' : e.kind = "bot"} = {}
      BY <1>1, <2>1 DEF InBucket
    <3>2. stats'[m][d] = NoRollup
      BY <1>1, <2>1 DEF TypeOK
    <3>. QED  BY <3>1, <3>2, FS_EmptySet DEF NoRollup
  <2>2. CASE m # l
    <3>1. InBucket(m, d)' = InBucket(m, d) /\ stats'[m] = stats[m]
      BY <1>1, <2>2 DEF InBucket, TypeOK
    <3>. QED  BY <3>1 DEF RollupsMatchEvents
  <2>. QED  BY <2>1, <2>2
<1>. QED  BY <1>2, <1>3, <1>4, <1>5, <1>6, <1>7, <1>8, <1>9, <1>10

LEMMA MidnightStep == ClickConstants /\ ClickInv /\ Midnight => ClickInv'
<1>. SUFFICES ASSUME ClickConstants, ClickInv, Midnight PROVE ClickInv'
  OBVIOUS
<1>. USE DEF ClickInv
<1>1. UNCHANGED <<links, job, worker, events, stats, connected>> /\ today' = today + 1
      /\ today' \in Days /\ today \in Nat
  BY DEF Midnight, TypeOK, Days, ClickConstants
<1>2. TypeOK' /\ DeliveriesDistinct' /\ RowsTracked' /\ DeliveriesBounded'
  BY <1>1 DEF TypeOK, DeliveriesDistinct, RowsTracked, DeliveriesBounded
<1>3. SlotsTracked'
  BY <1>1 DEF SlotsTracked, TypeOK, Slot, Days
<1>4. NothingDroppedEarly'
  BY <1>1 DEF NothingDroppedEarly, Copies
<1>. QED  BY <1>1, <1>2, <1>3, <1>4, RowsKept

LEMMA StutterStep == ClickInv /\ UNCHANGED vars => ClickInv'
<1>. SUFFICES ASSUME ClickInv, UNCHANGED vars PROVE ClickInv'
  OBVIOUS
<1>1. TypeOK' /\ DeliveriesDistinct' /\ RowsTracked' /\ DeliveriesBounded' /\ SlotsTracked'
  BY DEF ClickInv, vars, TypeOK, DeliveriesDistinct, RowsTracked, DeliveriesBounded,
         SlotsTracked
<1>2. NothingDroppedEarly'
  BY DEF ClickInv, vars, NothingDroppedEarly, Copies
<1>. QED  BY <1>1, <1>2, RowsKept DEF ClickInv, vars

-----------------------------------------------------------------------------
(* The invariant holds for any number of visits, slots, links and days, and *)
(* for any limit on attempts and lost leases.                               *)
THEOREM ClickInvariant == Spec => []ClickInv
<1>1. Init => ClickInv
  BY InitInv, ClickConstants
<1>2. ClickInv /\ [Next]_vars => ClickInv'
  <2>. SUFFICES ASSUME ClickInv, Next \/ UNCHANGED vars PROVE ClickInv'
    BY DEF Next
  <2>. USE ClickConstants
  <2>1. ASSUME NEW c \in Clicks, NEW l \in Links, NEW k \in Kinds, TrackClick(c, l, k)
        PROVE  ClickInv'
    BY <2>1, TrackClickStep
  <2>2. ASSUME NEW w \in Workers, NEW c \in Clicks, Start(w, c) PROVE ClickInv'
    BY <2>2, StartStep
  <2>3. ASSUME NEW w \in Workers, WorkerStep(w) PROVE ClickInv'
    BY <2>3, InsertEventStep, CommitStep, CompleteStep, FailStep DEF WorkerStep
  <2>4. ASSUME NEW w \in Workers, Crash(w) \/ LoseLease(w) \/ Disconnect(w) \/ Restart(w)
        PROVE  ClickInv'
    BY <2>4, CrashStep, LoseLeaseStep, DisconnectStep, RestartStep
  <2>5. ASSUME NEW c \in Clicks, RecoverStalled(c) \/ Promote(c) PROVE ClickInv'
    BY <2>5, RecoverStalledStep, PromoteStep
  <2>6. ASSUME NEW l \in Links, DeleteLink(l) PROVE ClickInv'
    BY <2>6, DeleteLinkStep
  <2>. QED  BY <2>1, <2>2, <2>3, <2>4, <2>5, <2>6, MidnightStep, StutterStep DEF Next
<1>. QED  BY <1>1, <1>2, PTL DEF Spec

(* Every variable keeps its type.                                           *)
THEOREM TypeCorrectness == Spec => []TypeOK
BY ClickInvariant, PTL DEF ClickInv

(* The rollups, the deleted rows, the late clicks and the dropped jobs. *)
THEOREM RollupTheorem == Spec => []RollupsMatchEvents
BY ClickInvariant, PTL DEF ClickInv

THEOREM RollupDayTheorem == Spec => []RollupNeverLags
BY ClickInvariant, PTL DEF ClickInv

THEOREM DeletedLinksTheorem == Spec => []NoRowsOfDeletedLinks
BY ClickInvariant, PTL DEF ClickInv

THEOREM DroppedTheorem == Spec => []NothingDroppedEarly
BY ClickInvariant, PTL DEF ClickInv

(* The rows of a visit are told apart by the delivery that wrote them, and  *)
(* there are no more deliveries than failures, lost leases and one.         *)
LEMMA FewCopies == ClickConstants /\ ClickInv => RepeatsNeedRedelivery
<1>. SUFFICES ASSUME ClickConstants, ClickInv, NEW c \in Clicks
              PROVE  /\ Cardinality(Copies(c)) <= 1 + job[c].failures + job[c].stalls
                     /\ Cardinality(Copies(c)) <= Attempts + MaxStalled
  BY DEF RepeatsNeedRedelivery
<1>. DEFINE n == job[c].starts
            f == [e \in Copies(c) |-> e.attempt]
<1>1. n \in Nat /\ IsFiniteSet(1..n) /\ Cardinality(1..n) = n
  <2>1. n \in Nat
    BY DEF ClickInv, TypeOK, Job
  <2>2. /\ IsFiniteSet(1..n)
        /\ Cardinality(1..n) = IF 1 > n THEN 0 ELSE n - 1 + 1
    BY <2>1, FS_Interval
  <2>. QED  BY <2>1, <2>2
<1>2. f \in Injection(Copies(c), 1..n)
  BY DEF ClickInv, RowsTracked, Copies, Injection, IsInjective
<1>3. Cardinality(Copies(c)) <= n
  BY <1>1, <1>2, FS_Injection
<1>4. IsFiniteSet(Copies(c))
  BY FS_Subset DEF ClickInv, RowsTracked, Copies
<1>5. Cardinality(Copies(c)) \in Nat
  BY <1>4, FS_CardinalityType
<1>6. n <= 1 + job[c].failures + job[c].stalls /\ n <= Attempts + MaxStalled
  BY DEF ClickInv, DeliveriesBounded
<1>. QED  BY <1>1, <1>3, <1>5, <1>6 DEF ClickInv, TypeOK, Job, ClickConstants

(* A visit is counted at most Attempts + MaxStalled times. *)
THEOREM RepeatsTheorem == Spec => []RepeatsNeedRedelivery
<1>1. ClickInv => RepeatsNeedRedelivery
  BY FewCopies, ClickConstants
<1>. QED  BY <1>1, ClickInvariant, PTL

(* Both bounds of the deliveries, and both statements about rollups.        *)
THEOREM AttemptsTheorem == Spec => []AttemptsAreSpent
<1>1. RepeatsNeedRedelivery /\ NothingDroppedEarly => AttemptsAreSpent
  BY DEF AttemptsAreSpent
<1>. QED  BY <1>1, RepeatsTheorem, DroppedTheorem, PTL

(* The sums of the rollups, and the day they are counted in.                *)
THEOREM RollupSumsTheorem == Spec => []RollupsAddUp
<1>1. RollupsMatchEvents /\ RollupNeverLags => RollupsAddUp
  BY DEF RollupsAddUp
<1>. QED  BY <1>1, RollupTheorem, RollupDayTheorem, PTL

-----------------------------------------------------------------------------
(* The rows of a link and of a kind, as the ledger counts them. *)
OfLink(l) == {e \in events : e.link = l}
OfBots(l) == {e \in events : e.link = l /\ e.kind = "bot"}

(* One new row counts once for its link, and not for another. *)
LEMMA NewRowCounts ==
    ASSUME IsFiniteSet(events), NEW x \in Links, x \in links, links' = links,
           NEW row, row.link = x, row \notin events, events' = events \cup {row}
    PROVE  EventLedger!Count(x)
<1>. DEFINE total == [l \in Links |-> Cardinality(OfLink(l))]
            bots == [l \in Links |-> Cardinality(OfBots(l))]
<1>1. IsFiniteSet(OfLink(x)) /\ IsFiniteSet(OfBots(x))
  BY FS_Subset DEF OfLink, OfBots
<1>2. /\ OfLink(x)' = OfLink(x) \cup {row} /\ row \notin OfLink(x)
      /\ \A l \in Links : l # x => OfLink(l)' = OfLink(l) /\ OfBots(l)' = OfBots(l)
  BY DEF OfLink, OfBots
<1>3. Cardinality(OfLink(x))' = Cardinality(OfLink(x)) + 1
  BY <1>1, <1>2, FS_AddElement
<1>4. total' = [total EXCEPT ![x] = @ + 1]
  BY <1>2, <1>3
<1>5. bots' \in {bots, [bots EXCEPT ![x] = @ + 1]}
  <2>1. CASE row.kind = "bot"
    <3>1. OfBots(x)' = OfBots(x) \cup {row} /\ row \notin OfBots(x)
      BY <2>1 DEF OfBots
    <3>2. Cardinality(OfBots(x))' = Cardinality(OfBots(x)) + 1
      BY <1>1, <3>1, FS_AddElement
    <3>3. bots' = [bots EXCEPT ![x] = @ + 1]
      BY <1>2, <3>2
    <3>. QED  BY <3>3
  <2>2. CASE row.kind # "bot"
    <3>1. OfBots(x)' = OfBots(x)
      BY <2>2 DEF OfBots
    <3>2. bots' = bots
      BY <1>2, <3>1
    <3>. QED  BY <3>2
  <2>. QED  BY <2>1, <2>2
<1>. QED  BY <1>4, <1>5 DEF EventLedger!Count, OfLink, OfBots

LEMMA LedgerStep ==
    ASSUME ClickConstants, ClickInv, [Next]_vars
    PROVE  [EventLedger!Next]_<<links,
              [l \in Links |-> Cardinality(OfLink(l))],
              [l \in Links |-> Cardinality(OfBots(l))]>>
<1>. DEFINE total == [l \in Links |-> Cardinality(OfLink(l))]
            bots == [l \in Links |-> Cardinality(OfBots(l))]
<1>1. ASSUME NEW w \in Workers, Commit(w)
      PROVE  EventLedger!Next
  <2>1. PICK x \in Links, row \in {EventRow(w)} :
            /\ x = job[worker[w].click].link /\ x \in links /\ row.link = x
            /\ row.click = worker[w].click /\ row.attempt = worker[w].attempt
    BY <1>1 DEF ClickInv, Commit, SlotsTracked, EventRow
  <2>2. links' = links /\ events' = events \cup {row} /\ row \notin events
    BY <1>1, <2>1 DEF Commit, ClickInv, RowsTracked
  <2>3. EventLedger!Count(x)
    BY <2>1, <2>2, NewRowCounts DEF ClickInv, RowsTracked
  <2>. QED  BY <2>3 DEF EventLedger!Next
<1>2. ASSUME NEW x \in Links, DeleteLink(x)
      PROVE  EventLedger!Next
  <2>1. links' = links \ {x} /\ events' = {e \in events : e.link # x}
    BY <1>2 DEF DeleteLink, EventsWithout
  <2>2. OfLink(x)' = {} /\ OfBots(x)' = {}
    BY <2>1 DEF OfLink, OfBots
  <2>3. \A l \in Links : l # x => OfLink(l)' = OfLink(l) /\ OfBots(l)' = OfBots(l)
    BY <2>1 DEF OfLink, OfBots
  <2>4. total' = [total EXCEPT ![x] = 0] /\ bots' = [bots EXCEPT ![x] = 0]
    BY <2>2, <2>3, FS_EmptySet
  <2>5. EventLedger!Remove(x)
    BY <2>1, <2>4 DEF EventLedger!Remove, OfLink, OfBots
  <2>. QED  BY <2>5 DEF EventLedger!Next
<1>3. ASSUME UNCHANGED <<links, events>>
      PROVE  UNCHANGED <<links, total, bots>>
  BY <1>3 DEF OfLink, OfBots
<1>4. \/ UNCHANGED <<links, events>>
      \/ \E w \in Workers : Commit(w)
      \/ \E l \in Links : DeleteLink(l)
  BY DEF Next, vars, WorkerStep, TrackClick, Start, InsertEvent, Complete, Fail, Crash,
         LoseLease, Disconnect, Restart, RecoverStalled, Promote, Midnight
<1>. QED  BY <1>1, <1>2, <1>3, <1>4

(* Counting the ClickEvent rows implements the ledger, however deliveries   *)
(* fail, repeat or overtake a deletion.                                     *)
THEOREM LedgerTheorem == Spec => EventsImplementLedger
<1>1. Init => EventLedger!Init
  BY FS_EmptySet DEF Init, EventLedger!Init, EventLedger!Zero
<1>2. ClickInv /\ [Next]_vars => [EventLedger!Next]_<<links,
              [l \in Links |-> Cardinality({e \in events : e.link = l})],
              [l \in Links |-> Cardinality({e \in events : e.link = l /\ e.kind = "bot"})]>>
  BY LedgerStep, ClickConstants DEF OfLink, OfBots
<1>. QED  BY <1>1, <1>2, ClickInvariant, PTL
           DEF Spec, EventsImplementLedger, EventLedger!Spec
=============================================================================

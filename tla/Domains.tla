------------------------------- MODULE Domains -------------------------------
(***************************************************************************)
(* Custom domains: apps/api/src/domains/domains.service.ts with the panel  *)
(* of the web client that calls it (DomainSettings, its cached lists and   *)
(* the switch between workspaces), and what the rows are read for: the     *)
(* hostname of a workspace's short URLs and the workspace whose links a    *)
(* hostname opens (links.service.ts).                                      *)
(*                                                                         *)
(* Every awaited step is an action.  The check of the caller's role and    *)
(* the first look at the rows are one step: a row or a workspace that goes *)
(* in between is met by the second.  The caller may manage all workspaces  *)
(* (roles are in Workspaces).  A row's id stands for its verification      *)
(* token too, which is drawn with it.  A record once put into DNS stays:   *)
(* the code looks only at the moment of verification.  The dates drawn for *)
(* verifiedAt are different and in order: clocks of several API processes  *)
(* that disagree, and two dates of one millisecond, are left out.  A cached*)
(* list is a set: its order, and a row listed twice, are left out.         *)
(***************************************************************************)
EXTENDS Integers, FiniteSets

CONSTANTS
    Workspaces,
    Hosts,      \* hostnames, none of them the platform's
    Ids,        \* ids of Domain rows, with their tokens
    Calls,      \* calls of the panel
    MaxTime,    \* bound: number of dates drawn for verifiedAt
    Initially,  \* rows and times of verification to begin with
    NoId, NoHost, NoWorkspace

Row == [id : Ids, ws : Workspaces, host : Hosts]

\* @unique hostname
OneEach(R) == \A x \in R, y \in R : x.id = y.id \/ x.host = y.host => x = y

ASSUME DomainsConstants ==
    /\ NoId \notin Ids /\ NoHost \notin Hosts /\ NoWorkspace \notin Workspaces
    /\ MaxTime \in Nat
    /\ \A s \in Initially :
          /\ s.rows \subseteq Row /\ OneEach(s.rows)
          /\ s.time \in 0 .. MaxTime /\ s.at \in [Ids -> 0 .. s.time]

VARIABLES
    alive,      \* workspaces
    rows,       \* Domain rows
    at,         \* verifiedAt of each id, 0 for null
    time,       \* the last date drawn
    born,       \* ids ever drawn
    dns,        \* ids whose token is in the TXT record of their hostname
    call,       \* calls of the panel
    current,    \* the workspace that the tab shows
    cache,      \* the cached ['domains', workspace]
    fetch,      \* its request under way
    visit,      \* a redirect
    told        \* history: what the panel was told of each id, and late lists

server == <<alive, rows, at, time, born>>
tab == <<current, cache, fetch, told>>
vars == <<server, dns, call, tab, visit>>

-----------------------------------------------------------------------------
(* A row as a list has it. *)
Item == [id : Ids, ws : Workspaces, verified : BOOLEAN]

(* empty: undefined, nothing was loaded yet. *)
Cached == [empty : BOOLEAN, items : SUBSET Item]

(* late is history: an answer of the panel came in between. *)
Fetch == [phase : {"none", "sent", "served"}, items : SUBSET Item, late : BOOLEAN]

(* date is the one drawn for verifiedAt.  over is history: the rows that    *)
(* other calls marked since then.                                           *)
Call == [phase : {"new", "sent", "checked", "proved", "ok", "done"},
         kind : {"create", "verify", "remove"}, ws : Workspaces \cup {NoWorkspace},
         id : Ids \cup {NoId}, host : Hosts \cup {NoHost},
         date : 0 .. MaxTime, over : SUBSET Ids]

(* moved is history: the row of the hostname went while the visit was on.   *)
Visit == [phase : {"none", "found", "opened", "refused"}, host : Hosts \cup {NoHost},
          ws : Workspaces \cup {NoWorkspace}, moved : BOOLEAN]

Told == [created : SUBSET Ids, removed : SUBSET Ids, late : SUBSET Workspaces]

TypeOK ==
    /\ alive \subseteq Workspaces
    /\ rows \subseteq Row /\ OneEach(rows)
    /\ at \in [Ids -> 0 .. MaxTime]
    /\ time \in 0 .. MaxTime
    /\ born \subseteq Ids
    /\ dns \subseteq Ids
    /\ call \in [Calls -> Call]
    /\ current \in Workspaces
    /\ cache \in [Workspaces -> Cached]
    /\ fetch \in [Workspaces -> Fetch]
    /\ visit \in Visit
    /\ told \in Told

NewCall == [phase |-> "new", kind |-> "create", ws |-> NoWorkspace, id |-> NoId,
            host |-> NoHost, date |-> 0, over |-> {}]

NoFetch == [phase |-> "none", items |-> {}, late |-> FALSE]

NoVisit == [phase |-> "none", host |-> NoHost, ws |-> NoWorkspace, moved |-> FALSE]

Init ==
    /\ alive = Workspaces
    /\ \E s \in Initially :
          /\ rows = s.rows /\ at = s.at /\ time = s.time
          /\ born = {i \in Ids : at[i] > 0 \/ \E r \in rows : r.id = i}
          /\ dns = {i \in Ids : at[i] > 0}
    /\ call = [c \in Calls |-> NewCall]
    /\ current \in Workspaces
    /\ cache = [w \in Workspaces |-> [empty |-> TRUE, items |-> {}]]
    /\ fetch = [w \in Workspaces |-> NoFetch]
    /\ visit = NoVisit
    /\ told = [created |-> {}, removed |-> {}, late |-> {}]

-----------------------------------------------------------------------------
(* The panel: calls *)

Shown == cache[current].items

Begin(c, fields) ==
    /\ call[c].phase = "new"
    /\ call' = [call EXCEPT ![c] = fields]
    /\ UNCHANGED <<server, dns, tab, visit>>

(* handleCreate *)
Create(c, h) ==
    Begin(c, [NewCall EXCEPT !.phase = "sent", !.ws = current, !.host = h])

(* verifyDomain: of a row that is shown as pending. *)
Verify(c, x) ==
    /\ x \in Shown /\ ~x.verified
    /\ Begin(c, [NewCall EXCEPT !.phase = "sent", !.kind = "verify", !.ws = current,
                                !.id = x.id])

(* removeDomain, once confirmed. *)
Remove(c, x) ==
    /\ x \in Shown
    /\ Begin(c, [NewCall EXCEPT !.phase = "sent", !.kind = "remove", !.ws = current,
                                !.id = x.id])

-----------------------------------------------------------------------------
(* The server: domains.service.ts *)

Moves(c, phase) == call' = [call EXCEPT ![c].phase = phase]

(* create: assertRole, and the hostname is not registered. *)
CheckCreate(c) ==
    /\ call[c].phase = "sent" /\ call[c].kind = "create"
    /\ Moves(c, IF call[c].ws \in alive /\ \A r \in rows : r.host # call[c].host
                  THEN "checked" ELSE "done")
    /\ UNCHANGED <<server, dns, tab, visit>>

(* getOwnedDomain *)
Owned(c) == {r \in rows : r.id = call[c].id /\ r.ws = call[c].ws}

CheckOwned(c) ==
    /\ call[c].phase = "sent" /\ call[c].kind \in {"verify", "remove"}
    /\ \/ /\ Owned(c) = {}
          /\ Moves(c, "done")
       \/ \E r \in Owned(c) :
              call' = [call EXCEPT ![c].phase = "checked", ![c].host = r.host]
    /\ UNCHANGED <<server, dns, tab, visit>>

(* resolveTxt, and the row's token is among the values: new Date() is drawn *)
(* before the update is sent.                                               *)
LookUp(c) ==
    /\ call[c].phase = "checked" /\ call[c].kind = "verify"
    /\ \/ /\ call[c].id \notin dns
          /\ Moves(c, "done")
          /\ UNCHANGED time
       \/ /\ call[c].id \in dns /\ time < MaxTime
          /\ time' = time + 1
          /\ call' = [call EXCEPT ![c].phase = "proved", ![c].date = time + 1]
    /\ UNCHANGED <<alive, rows, at, born, dns, tab, visit>>

(* The insert, which the unique hostname may refuse. *)
Insert(c) ==
    /\ call[c].phase = "checked" /\ call[c].kind = "create"
    /\ \/ /\ call[c].ws \in alive /\ \A r \in rows : r.host # call[c].host
          /\ \E i \in Ids \ born :
                /\ rows' = rows \cup {[id |-> i, ws |-> call[c].ws, host |-> call[c].host]}
                /\ born' = born \cup {i}
                /\ call' = [call EXCEPT ![c].phase = "ok", ![c].id = i]
          /\ UNCHANGED <<alive, at, time>>
       \/ /\ ~(call[c].ws \in alive /\ \A r \in rows : r.host # call[c].host)
          /\ Moves(c, "done")
          /\ UNCHANGED server
    /\ UNCHANGED <<dns, tab, visit>>

\* Mutant: the update finds its row by the hostname.
MarkedByHost(c) == {r \in rows : r.host = call[c].host}

Marked(c) == {r \in rows : r.id = call[c].id}

(* The others that have drawn their date learn what was marked since.       *)
Committed(c) ==
    [d \in Calls |->
        IF d = c THEN [call[d] EXCEPT !.phase = "ok"]
        ELSE IF call[d].phase = "proved"
               THEN [call[d] EXCEPT !.over = @ \cup {call[c].id}]
        ELSE call[d]]

(* The update of verifiedAt, by id: of two calls under way the one that     *)
(* drew the later date may come first.                                      *)
Mark(c) ==
    /\ call[c].phase = "proved"
    /\ at' = [i \in Ids |-> IF \E r \in Marked(c) : r.id = i THEN call[c].date ELSE at[i]]
    /\ IF Marked(c) = {} THEN Moves(c, "done") ELSE call' = Committed(c)
    /\ UNCHANGED <<alive, rows, time, born, dns, tab, visit>>

(* A visit that found the row of a hostname, and the rows that stay. *)
Overtaken(stay) ==
    [visit EXCEPT !.moved = \/ visit.moved
                            \/ /\ visit.phase = "found"
                               /\ \E r \in rows \ stay : r.host = visit.host]

(* The delete, by id. *)
Delete(c) ==
    /\ call[c].phase = "checked" /\ call[c].kind = "remove"
    /\ rows' = {r \in rows : r.id # call[c].id}
    /\ Moves(c, IF rows' = rows THEN "done" ELSE "ok")
    /\ visit' = Overtaken(rows')
    /\ UNCHANGED <<alive, at, time, born, dns, tab>>

(* workspaces.service.ts remove: the rows go with their workspace. *)
RemoveWorkspace(w) ==
    /\ w \in alive
    /\ alive' = alive \ {w}
    /\ rows' = {r \in rows : r.ws # w}
    /\ visit' = Overtaken(rows')
    /\ UNCHANGED <<at, time, born, dns, call, tab>>

(* Somebody puts the token he was shown into the record of the hostname. *)
Publish(i) ==
    /\ \E r \in rows : r.id = i
    /\ i \notin dns
    /\ dns' = dns \cup {i}
    /\ UNCHANGED <<server, call, tab, visit>>

-----------------------------------------------------------------------------
(* The panel: answers and lists *)

\* Mutant: the list of the workspace that is shown when the answer comes.
ListOfTheDay(c) == current

(* queryKey: captured with the handler. *)
List(c) == call[c].ws

\* Mutant: the list is left as it was.
KeptItems(c, I) == I

(* setQueryData's updaters; a list that is not there counts as empty. *)
UpdatedItems(c, I) ==
    CASE call[c].kind = "create" ->
             I \cup {[id |-> call[c].id, ws |-> call[c].ws, verified |-> FALSE]}
      [] call[c].kind = "verify" ->
             {IF x.id = call[c].id THEN [x EXCEPT !.verified = TRUE] ELSE x : x \in I}
      [] call[c].kind = "remove" -> {x \in I : x.id # call[c].id}

(* What the panel was told.  A list is late when a fetch that is under way, *)
(* or a row that was removed meanwhile, is going to contradict it.          *)
News(c) ==
    [created |-> IF call[c].kind = "create" THEN told.created \cup {call[c].id}
                   ELSE told.created,
     removed |-> IF call[c].kind = "remove" THEN told.removed \cup {call[c].id}
                   ELSE told.removed,
     late |-> IF call[c].kind = "create" /\ call[c].id \in told.removed
                THEN told.late \cup {call[c].ws} ELSE told.late]

Answer(c) ==
    /\ call[c].phase = "ok"
    /\ Moves(c, "done")
    /\ cache' = [cache EXCEPT ![List(c)] =
                     [empty |-> FALSE, items |-> UpdatedItems(c, cache[List(c)].items)]]
    /\ fetch' = [fetch EXCEPT ![List(c)].late = (fetch[List(c)].phase # "none")]
    /\ told' = News(c)
    /\ UNCHANGED <<server, dns, visit, current>>

(* selectWorkspace: drops the lists of links, and leaves this one. *)
Select(w) ==
    /\ w # current
    /\ current' = w
    /\ UNCHANGED <<server, dns, call, cache, fetch, told, visit>>

(* useQuery: when the panel appears with nothing or an old list, or again.  *)
Load ==
    /\ fetch[current].phase = "none"
    /\ fetch' = [fetch EXCEPT ![current] = [NoFetch EXCEPT !.phase = "sent"]]
    /\ UNCHANGED <<server, dns, call, current, cache, told, visit>>

(* domains.service.ts list *)
Listed(w) == {[id |-> r.id, ws |-> r.ws, verified |-> at[r.id] > 0] :
                  r \in {s \in rows : s.ws = w}}

ServeList(w) ==
    /\ fetch[w].phase = "sent"
    /\ fetch' = [fetch EXCEPT ![w] = IF w \in alive
                     THEN [fetch[w] EXCEPT !.phase = "served", !.items = Listed(w)]
                     ELSE NoFetch]
    /\ UNCHANGED <<server, dns, call, current, cache, told, visit>>

(* The list, or an error that leaves the one that was there.                *)
ListArrives(w) ==
    /\ fetch[w].phase = "served"
    /\ fetch' = [fetch EXCEPT ![w] = NoFetch]
    /\ \/ /\ cache' = [cache EXCEPT ![w] = [empty |-> FALSE, items |-> fetch[w].items]]
          /\ told' = [told EXCEPT !.late = IF fetch[w].late THEN told.late \cup {w}
                                             ELSE told.late \ {w}]
       \/ UNCHANGED <<cache, told>>
    /\ UNCHANGED <<server, dns, call, current, visit>>

-----------------------------------------------------------------------------
(* What the rows are for: links.service.ts *)

Verified(w) == {r \in rows : r.ws = w /\ at[r.id] > 0}

\* Mutant: the one that was verified last.
NewestBrand(w) == {r \in Verified(w) : \A s \in Verified(w) : at[s.id] <= at[r.id]}

(* resolveBrandHostname: the row whose hostname is in the short URLs.       *)
Brand(w) == {r \in Verified(w) : \A s \in Verified(w) : at[r.id] <= at[s.id]}

(* resolveVerifiedDomain *)
Resolved(h) == {r \in rows : r.host = h /\ at[r.id] > 0}

(* handleRedirect and unlockRedirect: the row of the hostname. *)
Resolve(h) ==
    /\ visit.phase = "none"
    /\ \/ /\ Resolved(h) = {}
          /\ visit' = [visit EXCEPT !.phase = "refused", !.host = h]
       \/ \E r \in Resolved(h) :
              visit' = [visit EXCEPT !.phase = "found", !.host = h, !.ws = r.ws]
    /\ UNCHANGED <<server, dns, call, tab>>

(* The link, of workspace w: opened only under a hostname of w.             *)
Open(w) ==
    /\ visit.phase = "found" /\ w \in alive
    /\ visit' = [visit EXCEPT !.phase = IF w = visit.ws THEN "opened" ELSE "refused",
                              !.ws = w]
    /\ UNCHANGED <<server, dns, call, tab>>

-----------------------------------------------------------------------------
Step(c) ==
    \/ \E h \in Hosts : Create(c, h)
    \/ \E x \in Item : Verify(c, x) \/ Remove(c, x)
    \/ CheckCreate(c) \/ CheckOwned(c) \/ LookUp(c)
    \/ Insert(c) \/ Mark(c) \/ Delete(c)
    \/ Answer(c)

Next ==
    \/ \E c \in Calls : Step(c)
    \/ \E w \in Workspaces : RemoveWorkspace(w) \/ Select(w)
                              \/ ServeList(w) \/ ListArrives(w) \/ Open(w)
    \/ \E i \in Ids : Publish(i)
    \/ \E h \in Hosts : Resolve(h)
    \/ Load

Spec == Init /\ [][Next]_vars

-----------------------------------------------------------------------------
(* Properties *)

(* Whoever verified a hostname had the token of this very row in its DNS:   *)
(* a verification that was decided on a row that is gone never marks the    *)
(* row that another workspace registered for the same hostname since.       *)
VerifiedMeansProven == \A r \in rows : at[r.id] > 0 => r.id \in dns

(* Under a custom hostname only links of the workspace that verified it are *)
(* opened, unless its row went after the visit found it.                    *)
RedirectsStayHome ==
    [][visit'.phase = "opened" /\ visit.phase # "opened" =>
           \/ visit.moved
           \/ \E r \in Verified(visit'.ws) : r.host = visit.host /\ r.id \in dns]_vars

(* The hostname in a workspace's short URLs changes only when its row goes, *)
(* is verified once more by a call that found it pending, or gives way to   *)
(* one whose verification had drawn its date before this row was marked,    *)
(* and was marked after it: short URLs that were handed out do not move     *)
(* because another domain is verified later (domains.service.ts:67).        *)
BrandHolds ==
    [][\A w \in Workspaces : \A r \in Brand(w) :
           \/ r \in Brand(w)' \/ r \notin rows' \/ at'[r.id] > at[r.id]
           \/ \E c \in Calls : Mark(c) /\ r.id \in call[c].over]_vars

(* A custom hostname opens, and short URLs name, what their workspace has   *)
(* verified, through calls and removals in any order.                       *)
HostsStayHome == RedirectsStayHome /\ BrandHolds

(* The list of a workspace has rows of this workspace only, whatever is     *)
(* shown when the answer of a call or a list arrives.                       *)
NothingCrossesOver ==
    \A w \in Workspaces : \A x \in cache[w].items \cup fetch[w].items : x.ws = w

(* What the panel was told stays true in its lists: a row whose removal was *)
(* answered does not come back, one whose creation was answered does not    *)
(* vanish, except by a list that was under way at that answer.              *)
ToldStaysTold ==
    \A w \in Workspaces \ told.late :
        /\ \A x \in cache[w].items : x.id \notin told.removed
        /\ \A r \in rows : r.ws = w /\ r.id \in told.created =>
               \E x \in cache[w].items : x.id = r.id
-----------------------------------------------------------------------------
(* What the handlers implement (module HostRegistry): the row of a hostname *)
(* is the claim of its workspace.                                           *)
Claims ==
    {[id |-> r.id, ws |-> r.ws, host |-> r.host, proven |-> at[r.id] > 0] : r \in rows}

Registry == INSTANCE HostRegistry
    WITH open <- alive, claims <- Claims, drawn <- born, published <- dns

(* Registering, verifying and removing a hostname take several awaited      *)
(* steps each, and happen at one of them, whatever else is under way: a     *)
(* claim is made while nobody has the hostname, and is proven by a token    *)
(* that was published for this very claim.                                  *)
HostsImplementRegistry ==
    [][UNCHANGED <<alive, rows, at, born, dns>> \/ Registry!Next]_vars
=============================================================================

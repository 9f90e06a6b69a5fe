------------------------------ MODULE LinksPage ------------------------------
(***************************************************************************)
(* The page that lists a workspace's links: apps/web/src/app/(app)/links/  *)
(* page.tsx with its cached queries, the questions it asks before it       *)
(* changes a link, and what the API answers (getUserLinks, createLink,     *)
(* updateLinkStatus and deleteLink of links.service.ts).                   *)
(*                                                                         *)
(* One workspace.  A search text matches the links of Found; the form's    *)
(* fields, the overview's numbers, copying and QR codes are left out.      *)
(* What the page reads in one answer is read in one step at the server,    *)
(* and so is a call's check and write: who else may write in between is    *)
(* the subject of module Links.                                            *)
(***************************************************************************)
EXTENDS Integers, Sequences, SequencesExt, QueryCache, Subsequences

CONSTANTS
    PageLinks,
    Found,      \* links that the search text matches
    MaxListCalls,   \* bound: calls of the page
    PageSize,
    Lists,      \* what the workspace may have to begin with, newest first
    NoLink

ListStatuses == {"ACTIVE", "DISABLED", "EXPIRED"}

Items == [link : PageLinks, status : ListStatuses]

ASSUME LinksPageConstants ==
    /\ Found \subseteq PageLinks /\ NoLink \notin PageLinks
    /\ Cardinality(PageLinks) \in Nat \ {0}
    /\ PageSize \in Nat \ {0} /\ MaxListCalls \in Nat
    /\ \A s \in Lists : s \in Seq(Items)

VARIABLES
    store,      \* the workspace's links, newest first
    due,        \* ACTIVE links whose expiresAt has passed
    born,       \* links ever created
    cache,      \* the cached lists
    view,       \* the page's own state
    dialog,     \* the question that useConfirm shows
    listCall,       \* calls of the page
    hurried     \* history: answers to deletions that met another page

pageVars == <<store, due, born, cache, view, dialog, listCall, hurried>>

-----------------------------------------------------------------------------
Filters == ListStatuses \cup {"ALL"}

PageNumbers == -1 .. Cardinality(PageLinks)         \* bound

Keys == [search : BOOLEAN, status : {"ALL", "ACTIVE"}, page : PageNumbers]

ListCalls == 1 .. MaxListCalls      \* in the order they are made

Page == [rows : BoundedSeq(Items, PageSize), page : Nat \ {0}, total : Nat]

(* last is what handleDeleteLink saw when it was clicked: the only link of *)
(* a page that is not the first.                                           *)
ListCall == [phase : {"new", "sent", "done", "refused", "copying", "over"},
         op : {"create", "toggle", "delete"}, link : PageLinks \cup {NoLink},
         status : ListStatuses, page : PageNumbers, last : BOOLEAN]

NewListCall == [phase |-> "new", op |-> "create", link |-> NoLink, status |-> "ACTIVE",
            page |-> 1, last |-> FALSE]

PageTypeOK ==
    /\ store \in Seq(Items)
    /\ due \subseteq PageLinks
    /\ born \subseteq PageLinks
    /\ cache \in [Keys -> EntryOf(Page)]
    /\ view \in [input : BOOLEAN, search : BOOLEAN, status : {"ALL", "ACTIVE"},
                 page : PageNumbers]
    /\ dialog \in ListCall
    /\ listCall \in [ListCalls -> ListCall]
    /\ hurried \in Nat

-----------------------------------------------------------------------------
(* The server *)

LinksOf(rows) == {rows[i].link : i \in DOMAIN rows}

Current(x, passed) ==
    IF x.status = "ACTIVE" /\ x.link \in passed THEN [x EXCEPT !.status = "EXPIRED"] ELSE x

Wanted(k, x) ==
    /\ k.status \in {"ALL", x.status}
    /\ k.search => x.link \in Found

(* buildListQuery leaves page 0 out, and the API's default is 1. *)
AskedPage(k) == IF k.page = 0 THEN 1 ELSE k.page

Chosen(k, rows) == Subsequence(rows, {i \in DOMAIN rows : Wanted(k, rows[i])})

RestFrom(k, rows) ==      \* Mutant: the page is not cut off
    Slice(Chosen(k, rows), (AskedPage(k) - 1) * PageSize, Len(rows))

RowsOf(k, rows) == Slice(Chosen(k, rows), (AskedPage(k) - 1) * PageSize, PageSize)

(* getUserLinks, of rows whose expiry has passed for some.                 *)
ListIn(k, rows, passed) ==
    [rows |-> [i \in DOMAIN RowsOf(k, rows) |-> Current(RowsOf(k, rows)[i], passed)],
     page |-> AskedPage(k),
     total |-> Len(Chosen(k, rows))]

ListOf(k) == ListIn(k, store, due)

Write(l, status) ==
    [i \in DOMAIN store |->
        IF store[i].link = l THEN [store[i] EXCEPT !.status = status] ELSE store[i]]

Without(rows, l) == Subsequence(rows, {i \in DOMAIN rows : rows[i].link # l})

Outdate(c) == [k \in Keys |-> Outdated(c[k])]

PageInit ==
    /\ store \in Lists
    /\ due = {}
    /\ born = LinksOf(store)
    /\ view = [input |-> FALSE, search |-> FALSE, status |-> "ALL", page |-> 1]
    /\ cache = [k \in Keys |->
                    IF k = [search |-> FALSE, status |-> "ALL", page |-> 1]
                    THEN Want(NewEntry) ELSE NewEntry]
    /\ dialog = NewListCall
    /\ listCall = [c \in ListCalls |-> NewListCall]
    /\ hurried = 0

Met(list) == {list.rows[i].link : i \in DOMAIN list.rows} \cap due

(* The list of an entry is read; links met as expired are marked.  The API *)
(* refuses a page below 1.                                                 *)
ServeList(k) ==
    /\ cache[k].phase = "sent" /\ k.page >= 0
    /\ LET met == Met(ListOf(k))
           served == [cache EXCEPT ![k] = Serve(@, ListOf(k))]
       IN IF met = {}
          THEN cache' = served /\ UNCHANGED <<store, due>>
          ELSE /\ store' = [i \in DOMAIN store |-> IF store[i].link \in met
                                THEN Current(store[i], due) ELSE store[i]]
               /\ due' = due \ met
               /\ cache' = Outdate(served)
    /\ UNCHANGED <<born, view, dialog, listCall, hurried>>

ListArrives(k) ==
    /\ cache[k].phase = "served"
    /\ cache' = [cache EXCEPT ![k] = Arrive(@)]
    /\ UNCHANGED <<store, due, born, view, dialog, listCall, hurried>>

ListFails(k) ==
    /\ cache[k].phase = "sent" /\ k.page < 0
    /\ cache' = [cache EXCEPT ![k] = Fail(@)]
    /\ UNCHANGED <<store, due, born, view, dialog, listCall, hurried>>

-----------------------------------------------------------------------------
(* The page *)

KeyOf(v) == [search |-> v.search, status |-> v.status, page |-> v.page]

Key == KeyOf(view)

Shown == cache[Key]

ListRows == IF Shown.data = NoData THEN <<>> ELSE Shown.data.rows

(* While the first answer is awaited a placeholder is all the page shows.  *)
ListUsable == dialog = NewListCall /\ ~Loading(Shown)

OpenedAt(c, k) == {[c EXCEPT ![k] = e] : e \in Opened(c[k])}

(* A new filter is rendered with the old page once, then with the first.   *)
Filtered(v) ==
    LET first == [v EXCEPT !.page = 1]
    IN /\ view' = first
       /\ \E c \in OpenedAt(cache, KeyOf(v)) :
             cache' \in IF v.page = 1 THEN {c} ELSE OpenedAt(c, KeyOf(first))
       /\ hurried' = 0

Type ==
    /\ ListUsable
    /\ view' = [view EXCEPT !.input = ~@]
    /\ UNCHANGED <<store, due, born, cache, dialog, listCall, hurried>>

(* The timer of 300 ms. *)
Debounce ==
    /\ view.search # view.input
    /\ Filtered([view EXCEPT !.search = view.input])
    /\ UNCHANGED <<store, due, born, dialog, listCall>>

ChooseStatus(s) ==
    /\ ListUsable /\ s # view.status
    /\ Filtered([view EXCEPT !.status = s])
    /\ UNCHANGED <<store, due, born, dialog, listCall>>

PageCount ==
    IF Shown.data.total = 0 THEN 1 ELSE (Shown.data.total + PageSize - 1) \div PageSize

Turn(page) ==
    /\ ListUsable /\ ~Fetching(Shown)
    /\ Shown.data # NoData /\ Shown.data.total > 0
    /\ \/ page = view.page - 1 /\ view.page > 1
       \/ page = view.page + 1 /\ view.page < PageCount
    /\ page \in PageNumbers
    /\ view' = [view EXCEPT !.page = page]
    /\ cache' \in OpenedAt(cache, KeyOf(view'))
    /\ UNCHANGED <<store, due, born, dialog, listCall, hurried>>

InvalidatedShown == [cache EXCEPT ![Key] = Invalidate(@, TRUE)]     \* Mutant: this list only

Invalidated == [k \in Keys |-> Invalidate(cache[k], k = Key)]

RefreshList ==
    /\ ListUsable /\ ~Fetching(Shown)
    /\ cache' = Invalidated
    /\ UNCHANGED <<store, due, born, view, dialog, listCall, hurried>>

-----------------------------------------------------------------------------
(* Calls *)

SendFromList(c, fields) ==
    /\ listCall[c].phase = "new" /\ \A d \in 1 .. c - 1 : listCall[d].phase # "new"
    /\ listCall' = [listCall EXCEPT ![c] = [fields EXCEPT !.phase = "sent"]]

Creating == \E c \in ListCalls : listCall[c].op = "create" /\ listCall[c].phase \in
                                     {"sent", "done", "refused", "copying"}

SubmitLink(c) ==
    /\ ListUsable /\ ~Creating
    /\ SendFromList(c, NewListCall)
    /\ UNCHANGED <<store, due, born, cache, view, dialog, hurried>>

(* handleToggleStatus; the menu has no such item for an expired link.      *)
ToggleOf(x) ==
    [NewListCall EXCEPT !.op = "toggle", !.link = x.link, !.page = view.page,
                    !.status = IF x.status = "ACTIVE" THEN "DISABLED" ELSE "ACTIVE"]

Activate(c, x) ==
    /\ ListUsable /\ x.status = "DISABLED"
    /\ SendFromList(c, ToggleOf(x))
    /\ UNCHANGED <<store, due, born, cache, view, dialog, hurried>>

Question(fields) ==
    /\ ListUsable
    /\ dialog' = [fields EXCEPT !.phase = "sent"]
    /\ UNCHANGED <<store, due, born, cache, view, listCall, hurried>>

AskDeactivate(x) == x.status = "ACTIVE" /\ Question(ToggleOf(x))

DeleteOfAnyPage(x) ==       \* Mutant: the first page is not told apart
    [NewListCall EXCEPT !.op = "delete", !.link = x.link, !.page = view.page,
                    !.last = (Len(ListRows) = 1)]

DeleteOf(x) ==
    [NewListCall EXCEPT !.op = "delete", !.link = x.link, !.page = view.page,
                    !.last = (Len(ListRows) = 1 /\ view.page > 1)]

AskDelete(x) == Question(DeleteOf(x))

ConfirmInList(c) ==
    /\ dialog # NewListCall
    /\ SendFromList(c, dialog)
    /\ dialog' = NewListCall
    /\ UNCHANGED <<store, due, born, cache, view, hurried>>

CancelInList ==
    /\ dialog # NewListCall
    /\ dialog' = NewListCall
    /\ UNCHANGED <<store, due, born, cache, view, listCall, hurried>>

(* createLink *)
ServeCreate(c, l) ==
    /\ listCall[c].phase = "sent" /\ listCall[c].op = "create" /\ l \notin born
    /\ store' = <<[link |-> l, status |-> "ACTIVE"]>> \o store
    /\ born' = born \cup {l}
    /\ listCall' = [listCall EXCEPT ![c].phase = "done", ![c].link = l]
    /\ UNCHANGED <<due, cache, view, dialog, hurried>>

(* updateLinkStatus *)
ServeListToggle(c) ==
    /\ listCall[c].phase = "sent" /\ listCall[c].op = "toggle"
    /\ listCall[c].link \in LinksOf(store)
    /\ listCall[c].status = "ACTIVE" => listCall[c].link \notin due
    /\ store' = Write(listCall[c].link, listCall[c].status)
    /\ listCall' = [listCall EXCEPT ![c].phase = "done"]
    /\ UNCHANGED <<due, born, cache, view, dialog, hurried>>

(* deleteLink *)
ServeListDelete(c) ==
    /\ listCall[c].phase = "sent" /\ listCall[c].op = "delete"
    /\ listCall[c].link \in LinksOf(store)
    /\ store' = Without(store, listCall[c].link)
    /\ listCall' = [listCall EXCEPT ![c].phase = "done"]
    /\ UNCHANGED <<due, born, cache, view, dialog, hurried>>

(* A taken alias, a link that is gone or expired. *)
RefuseCall(c) ==
    /\ listCall[c].phase = "sent"
    /\ \/ listCall[c].op = "create"
       \/ listCall[c].op = "toggle" /\ listCall[c].status = "ACTIVE" /\ listCall[c].link \in due
       \/ listCall[c].op # "create" /\ listCall[c].link \notin LinksOf(store)
    /\ listCall' = [listCall EXCEPT ![c].phase = "refused"]
    /\ UNCHANGED <<store, due, born, cache, view, dialog, hurried>>

ListOver(c) == listCall' = [listCall EXCEPT ![c].phase = "over"]

(* Only the message is shown. *)
ListRefused(c) ==
    /\ listCall[c].phase = "refused"
    /\ ListOver(c)
    /\ UNCHANGED <<store, due, born, cache, view, dialog, hurried>>

(* The answer of what was done is lost, which looks the same to the page.  *)
ListAnswerLost(c) ==
    /\ listCall[c].phase = "done"
    /\ ListOver(c)
    /\ cache' = Outdate(cache)
    /\ UNCHANGED <<store, due, born, view, dialog, hurried>>

(* The filters are reset; the short URL goes to the clipboard first.       *)
Created(c) ==
    /\ listCall[c].phase = "done" /\ listCall[c].op = "create"
    /\ view' = [input |-> FALSE, search |-> FALSE, status |-> "ALL", page |-> 1]
    /\ cache' \in IF view' = view THEN {cache} ELSE OpenedAt(cache, KeyOf(view'))
    /\ hurried' = 0
    /\ listCall' = [listCall EXCEPT ![c].phase = "copying"]
    /\ UNCHANGED <<store, due, born, dialog>>

Copied(c) ==
    /\ listCall[c].phase = "copying"
    /\ ListOver(c)
    /\ cache' = Invalidated
    /\ UNCHANGED <<store, due, born, view, dialog, hurried>>

Toggled(c) ==
    /\ listCall[c].phase = "done" /\ listCall[c].op = "toggle"
    /\ ListOver(c)
    /\ cache' = Invalidated
    /\ UNCHANGED <<store, due, born, view, dialog, hurried>>

(* The page goes back by one when the deleted link had been its last.      *)
Deleted(c) ==
    /\ listCall[c].phase = "done" /\ listCall[c].op = "delete"
    /\ ListOver(c)
    /\ IF listCall[c].last
       THEN /\ view.page - 1 \in PageNumbers
            /\ view' = [view EXCEPT !.page = @ - 1]
            /\ cache' \in OpenedAt(Invalidated, KeyOf(view'))
            /\ hurried' = IF view.page = listCall[c].page THEN hurried ELSE hurried + 1
       ELSE /\ cache' = Invalidated
            /\ UNCHANGED <<view, hurried>>
    /\ UNCHANGED <<store, due, born, dialog>>

-----------------------------------------------------------------------------
(* Time *)

BecomesDue(l) ==
    /\ [link |-> l, status |-> "ACTIVE"] \in {store[i] : i \in DOMAIN store}
    /\ l \notin due
    /\ due' = due \cup {l}
    /\ cache' = Outdate(cache)
    /\ UNCHANGED <<store, born, view, dialog, listCall, hurried>>

Reading ==
    \E k \in Keys : ServeList(k) \/ ListArrives(k) \/ ListFails(k)

Looking ==
    \/ Type \/ Debounce \/ RefreshList
    \/ \E s \in {"ALL", "ACTIVE"} : ChooseStatus(s)
    \/ Turn(view.page - 1) \/ Turn(view.page + 1)

Changing ==
    \/ \E i \in DOMAIN ListRows : AskDeactivate(ListRows[i]) \/ AskDelete(ListRows[i])
    \/ CancelInList
    \/ \E c \in ListCalls :
          \/ SubmitLink(c) \/ ConfirmInList(c)
          \/ \E i \in DOMAIN ListRows : Activate(c, ListRows[i])
          \/ \E l \in PageLinks : ServeCreate(c, l)
          \/ ServeListToggle(c) \/ ServeListDelete(c) \/ RefuseCall(c)
          \/ ListRefused(c) \/ ListAnswerLost(c)
          \/ Created(c) \/ Copied(c) \/ Toggled(c) \/ Deleted(c)

PageNext == Reading \/ Looking \/ Changing \/ \E l \in PageLinks : BecomesDue(l)

PageSpec == PageInit /\ [][PageNext]_pageVars

-----------------------------------------------------------------------------
(* The page counts from 1 (links/page.tsx:775, 234): it falls below only   *)
(* when a deletion that was asked for on the last link of a page is        *)
(* answered after the user has turned to another, once for each of these.  *)
PagerIsHonest == view.page + hurried >= 1

(* A list that is shown, is not being fetched and has no error is what the *)
(* server has, once the page's own calls are answered: unless a link       *)
(* expired since, an answer was lost, or the answer shown had been read    *)
(* before a change and arrived after its refresh                           *)
(* (links/page.tsx:107 refreshWorkspaceData).                              *)
ListIsCurrent ==
    /\ Shown.data # NoData /\ ~Fetching(Shown) /\ ~Shown.failed
    /\ \A c \in ListCalls : listCall[c].phase \notin {"done", "copying"}
    => \/ Shown.behind
       \/ Shown.data = ListOf(Key)
=============================================================================

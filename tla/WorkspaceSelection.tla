------------------------- MODULE WorkspaceSelection -------------------------
(***************************************************************************)
(* Which workspace a tab of the web client is in: contexts/workspace-      *)
(* context.tsx with the switcher that calls it (components/workspace-      *)
(* switcher.tsx) and the panel that renames and deletes the workspace      *)
(* (WorkspaceSettings of workspace-panels.tsx, which workspace/page.tsx    *)
(* mounts anew for every workspace).                                       *)
(*                                                                         *)
(* The user owns the workspaces (roles are in Workspaces and MemberPanel). *)
(* What the API does for a call is one step.  Names that were typed are    *)
(* kept, slugs are not: one is typed to create a workspace, which is       *)
(* refused when it is taken, or to confirm a deletion.  The data cached    *)
(* for a workspace that is left (workspace-data) is not kept here.         *)
(***************************************************************************)
EXTENDS Integers, Sequences, FiniteSets, QueryCache, Subsequences

CONSTANTS
    Spaces,         \* workspaces, those that are not created yet too
    Titles,         \* names of workspaces
    Waits,          \* calls of the tab
    BeginsWith,     \* the user's workspaces to begin with, newest first
    TitleOf,        \* and their names
    MaxEvents,      \* bound: reloads, other tabs, other owners, requests of the list
    NoSpace, NoTitle

ListedSpace == [space : Spaces, title : Titles]

ASSUME SelectionConstants ==
    /\ NoSpace \notin Spaces /\ NoTitle \notin Titles
    /\ NoData \notin Seq(ListedSpace)
    /\ BeginsWith \in Seq(Spaces) /\ TitleOf \in [Spaces -> Titles]
    /\ MaxEvents \in Nat

VARIABLES
    held,       \* the user's workspaces, newest first
    title,      \* the names of all that ever were
    list,       \* the cached ['workspaces']
    picked,     \* selectedId
    stored,     \* urlytix_workspace_id in localStorage
    form,       \* the panel of the workspace that is shown
    asked,      \* the deletion that useConfirm asks about
    wait,       \* calls of the tab
    past        \* history, see Past

selectionVars == <<held, title, list, picked, stored, form, asked, wait, past>>

-----------------------------------------------------------------------------
Form == [space : Spaces \cup {NoSpace}, title : Titles \cup {NoTitle},
         saving : BOOLEAN, deleting : BOOLEAN]

(* same: the panel that asked is still the one on the page.                *)
Asked == [space : Spaces \cup {NoSpace}, same : BOOLEAN]

(* adrift: the page that waited for the call was reloaded.  late is        *)
(* history: a later call has changed the same workspace since.             *)
Wait == [phase : {"new", "sent", "adrift", "done", "failed", "over"},
         op : {"create", "rename", "delete"}, space : Spaces \cup {NoSpace},
         title : Titles \cup {NoTitle}, same : BOOLEAN, late : BOOLEAN]

(* chosen: the workspace that the user switched to or created last, while  *)
(* the tab has reason to show it.  typed: the names given to a workspace.  *)
Past == [chosen : Spaces \cup {NoSpace}, typed : [Spaces -> SUBSET Titles],
         events : 0 .. MaxEvents]

SelectionTypeOK ==
    /\ held \in Seq(Spaces)
    /\ title \in [Spaces -> Titles]
    /\ list \in EntryOf({list.data, list.answer})
    /\ \A d \in {list.data, list.answer} : d # NoData => d \in Seq(ListedSpace)
    /\ picked \in Spaces \cup {NoSpace}
    /\ stored \in Spaces \cup {NoSpace}
    /\ form \in Form
    /\ asked \in Asked
    /\ wait \in [Waits -> Wait]
    /\ past \in Past

NoForm == [space |-> NoSpace, title |-> NoTitle, saving |-> FALSE, deleting |-> FALSE]

NothingAsked == [space |-> NoSpace, same |-> FALSE]

NoWait == [phase |-> "new", op |-> "create", space |-> NoSpace, title |-> NoTitle,
           same |-> FALSE, late |-> FALSE]

WaitOver == [NoWait EXCEPT !.phase = "over"]

SelectionInit ==
    /\ held = BeginsWith
    /\ title = TitleOf
    /\ list = Want(NewEntry)
    /\ stored \in Elements(BeginsWith) \cup {NoSpace}
    /\ picked = stored
    /\ form = NoForm
    /\ asked = NothingAsked
    /\ wait = [a \in Waits |-> NoWait]
    /\ past = [chosen |-> NoSpace, events |-> 0,
               typed |-> [w \in Spaces |->
                             IF w \in Elements(BeginsWith) THEN {TitleOf[w]} ELSE {}]]

-----------------------------------------------------------------------------
(* The tab *)

ShownBy(e) == IF e.data = NoData THEN <<>> ELSE e.data

SpacesOf(e) == {x.space : x \in Elements(ShownBy(e))}

(* The first of the list that is the workspace: find.                      *)
FindIn(s, w) == s[CHOOSE i \in DOMAIN s :
                    s[i].space = w /\ \A j \in 1 .. (i - 1) : s[j].space # w]

CurrentIn(e, w) ==
    IF w \in SpacesOf(e) THEN {FindIn(ShownBy(e), w)}
    ELSE IF ShownBy(e) # <<>> THEN {ShownBy(e)[1]} ELSE {}

SpaceIn(e, w) == IF CurrentIn(e, w) = {} THEN NoSpace
                 ELSE (CHOOSE x \in CurrentIn(e, w) : TRUE).space

CurrentSpace == SpaceIn(list, picked)

ShownTitle == (CHOOSE x \in CurrentIn(list, picked) : TRUE).title

\* Mutant: the effect forgets the workspace while there is no list
EffectUnloaded(e, w, kept) == SpaceIn(e, w)

(* What the effect of the provider leaves in localStorage.                 *)
Effect(e, w, kept) ==
    IF CurrentIn(e, w) # {} THEN SpaceIn(e, w)
    ELSE IF e.data # NoData THEN NoSpace ELSE kept

(* It runs when the list or the workspace shown is another.                *)
StoredAfter(e, w, kept) ==
    IF CurrentIn(e, w) = CurrentIn(list, picked) /\ e.data = list.data THEN kept
    ELSE Effect(e, w, kept)

\* Mutant: the panel stays as it is when the tab turns to another workspace
FormStays(e, w) ==
    IF form.title = NoTitle
    THEN [NoForm EXCEPT !.space = SpaceIn(e, w),
            !.title = IF CurrentIn(e, w) = {} THEN NoTitle
                      ELSE (CHOOSE x \in CurrentIn(e, w) : TRUE).title]
    ELSE [form EXCEPT !.space = SpaceIn(e, w)]

(* The panel as it is mounted for a workspace.                             *)
FormFor(e, w) ==
    IF CurrentIn(e, w) = {} THEN NoForm
    ELSE LET x == CHOOSE x \in CurrentIn(e, w) : TRUE
         IN [NoForm EXCEPT !.space = x.space, !.title = x.title]

(* A render with list e, selectedId w, localStorage as kept: another       *)
(* workspace has its own panel, which is none of those that asked.         *)
Render(e, w, kept, shown, waits) ==
    /\ list' = e
    /\ picked' = w
    /\ stored' = StoredAfter(e, w, kept)
    /\ IF SpaceIn(e, w) = CurrentSpace
       THEN form' = shown /\ wait' = waits /\ UNCHANGED asked
       ELSE /\ form' = FormFor(e, w)
            /\ wait' = [a \in Waits |-> [waits[a] EXCEPT !.same = FALSE]]
            /\ asked' = [asked EXCEPT !.same = FALSE]

(* A dialog is modal.                                                      *)
AtHand == asked = NothingAsked

Choose(e, w) == IF w \in SpacesOf(e) THEN w ELSE NoSpace

(* selectWorkspace *)
SelectSpace(w) ==
    /\ AtHand /\ w \in SpacesOf(list)
    /\ Render(list, w, w, form, wait)
    /\ past' = [past EXCEPT !.chosen = w]
    /\ UNCHANGED <<held, title>>

SendWait(a, fields) ==
    /\ wait[a].phase = "new"
    /\ wait' = [wait EXCEPT ![a] = fields]

(* The form of the switcher: its button waits for the answer, and it is    *)
(* not at hand before the first list is there or has failed.               *)
CreateForm ==
    /\ AtHand /\ ~Loading(list)
    /\ \A b \in Waits : wait[b].op = "create" => wait[b].phase \in {"new", "adrift", "over"}

(* handleCreate *)
CreateSpace(a, t) ==
    /\ CreateForm
    /\ SendWait(a, [NoWait EXCEPT !.phase = "sent", !.title = t])
    /\ UNCHANGED <<held, title, list, picked, stored, form, asked, past>>

TypeTitle(t) ==
    /\ AtHand /\ CurrentSpace # NoSpace /\ form.title # t
    /\ form' = [form EXCEPT !.title = t]
    /\ past' = [past EXCEPT !.typed[CurrentSpace] = @ \cup {t}]
    /\ UNCHANGED <<held, title, list, picked, stored, asked, wait>>

(* handleSubmit, updateWorkspace *)
RenameSpace(a) ==
    /\ AtHand /\ CurrentSpace # NoSpace
    /\ ~form.saving /\ form.title # ShownTitle
    /\ SendWait(a, [NoWait EXCEPT !.phase = "sent", !.op = "rename", !.space = CurrentSpace,
                              !.title = form.title, !.same = TRUE])
    /\ form' = [form EXCEPT !.saving = TRUE]
    /\ UNCHANGED <<held, title, list, picked, stored, asked, past>>

(* handleDelete: canDelete, the slug typed, then the question.             *)
AskDeletion ==
    /\ AtHand /\ CurrentSpace # NoSpace
    /\ Len(ShownBy(list)) > 1 /\ ~form.deleting
    /\ asked' = [space |-> CurrentSpace, same |-> TRUE]
    /\ UNCHANGED <<held, title, list, picked, stored, form, wait, past>>

AnswerDeletion(a) ==
    /\ ~AtHand
    /\ asked' = NothingAsked
    /\ \/ UNCHANGED <<wait, form>>
       \/ /\ SendWait(a, [NoWait EXCEPT !.phase = "sent", !.op = "delete",
                                    !.space = asked.space, !.same = asked.same])
          /\ form' = [form EXCEPT !.deleting = @ \/ asked.same]
    /\ UNCHANGED <<held, title, list, picked, stored, past>>

-----------------------------------------------------------------------------
(* The API: workspaces.service.ts *)

WithoutSpace(s, w) == Subsequence(s, {i \in DOMAIN s : s[i] # w})

(* The call is over for the server; a call for the same workspace that was *)
(* answered before it, but not received, has become late.                  *)
Replied(a, outcome) ==
    wait' = [b \in Waits |->
        IF b = a THEN IF wait[a].phase = "adrift" THEN WaitOver
                      ELSE [wait[a] EXCEPT !.phase = outcome.phase,
                                           !.space = outcome.space]
        ELSE [wait[b] EXCEPT !.late = @ \/ (/\ wait[b].phase = "done"
                                            /\ wait[b].space = outcome.space
                                            /\ outcome.phase = "done")]]

(* A tab that was reloaded is not told.                                    *)
Untold(a) == IF wait[a].phase = "adrift" THEN list' = Outdated(list) ELSE UNCHANGED list

Asks(a, op) == wait[a].phase \in {"sent", "adrift"} /\ wait[a].op = op

Refuse(a) ==
    /\ wait[a].phase \in {"sent", "adrift"}
    /\ CASE wait[a].op = "create" -> TRUE      \* the slug is taken
         [] wait[a].op = "rename" -> wait[a].space \notin Elements(held)
         [] OTHER -> wait[a].space \notin Elements(held) \/ Len(held) <= 1
    /\ Replied(a, [phase |-> "failed", space |-> wait[a].space])
    /\ UNCHANGED <<held, title, list, picked, stored, form, asked, past>>

PerformCreate(a) ==
    /\ Asks(a, "create")
    /\ \E w \in Spaces :
          /\ past.typed[w] = {}         \* a new id
          /\ held' = <<w>> \o held
          /\ title' = [title EXCEPT ![w] = wait[a].title]
          /\ past' = [past EXCEPT !.typed[w] = {wait[a].title}]
          /\ Replied(a, [phase |-> "done", space |-> w])
    /\ Untold(a)
    /\ UNCHANGED <<picked, stored, form, asked>>

PerformRename(a) ==
    /\ Asks(a, "rename") /\ wait[a].space \in Elements(held)
    /\ title' = [title EXCEPT ![wait[a].space] = wait[a].title]
    /\ Replied(a, [phase |-> "done", space |-> wait[a].space])
    /\ Untold(a)
    /\ UNCHANGED <<held, picked, stored, form, asked, past>>

PerformDelete(a) ==
    /\ Asks(a, "delete") /\ wait[a].space \in Elements(held) /\ Len(held) > 1
    /\ held' = WithoutSpace(held, wait[a].space)
    /\ Replied(a, [phase |-> "done", space |-> wait[a].space])
    /\ Untold(a)
    /\ UNCHANGED <<title, picked, stored, form, asked, past>>

-----------------------------------------------------------------------------
(* The tab: answers *)

(* finally: of the panel that asked, if it is still there.                 *)
Released(a) ==
    IF ~wait[a].same THEN form
    ELSE IF wait[a].op = "rename" THEN [form EXCEPT !.saving = FALSE]
    ELSE [form EXCEPT !.deleting = FALSE]

(* An answer that was overtaken by another leaves what was before.         *)
PutLate(a, data) == [Put(list, data) EXCEPT !.behind = @ \/ wait[a].late]

Over(a) == [wait EXCEPT ![a] = WaitOver]

(* createWorkspace: the list is begun by the answer when there is none.    *)
EndCreate(a) ==
    /\ wait[a].phase = "done" /\ wait[a].op = "create"
    /\ LET w == wait[a].space
           e == PutLate(a, <<[space |-> w, title |-> wait[a].title]>> \o ShownBy(list))
       IN Render([e EXCEPT !.behind = @ \/ list.data = NoData], w, w, form, Over(a))
    /\ past' = [past EXCEPT !.chosen = wait[a].space]
    /\ UNCHANGED <<held, title>>

Retitled(s, w, t) ==
    [i \in DOMAIN s |-> IF s[i].space = w THEN [s[i] EXCEPT !.title = t] ELSE s[i]]

(* updateWorkspace *)
EndRename(a) ==
    /\ wait[a].phase = "done" /\ wait[a].op = "rename"
    /\ Render(PutLate(a, Retitled(ShownBy(list), wait[a].space, wait[a].title)),
              picked, stored, Released(a), Over(a))
    /\ UNCHANGED <<held, title, past>>

(* deleteWorkspace: the selection is given up, whatever it is by now.      *)
EndDelete(a) ==
    /\ wait[a].phase = "done" /\ wait[a].op = "delete"
    /\ LET kept == {i \in DOMAIN ShownBy(list) : ShownBy(list)[i].space # wait[a].space}
       IN Render(PutLate(a, Subsequence(ShownBy(list), kept)),
                 NoSpace, NoSpace, Released(a), Over(a))
    /\ past' = [past EXCEPT !.chosen = NoSpace]
    /\ UNCHANGED <<held, title>>

EndFailed(a) ==
    /\ wait[a].phase = "failed"
    /\ form' = Released(a)
    /\ wait' = Over(a)
    /\ UNCHANGED <<held, title, list, picked, stored, asked, past>>

(* The request or its answer is lost.                                      *)
LoseCall(a) ==
    /\ wait[a].phase \in {"sent", "done"}
    /\ wait' = [wait EXCEPT ![a].phase = "failed"]
    /\ list' = IF wait[a].phase = "done" THEN Outdated(list) ELSE list
    /\ UNCHANGED <<held, title, picked, stored, form, asked, past>>

-----------------------------------------------------------------------------
(* The list *)

OfServer == [i \in DOMAIN held |-> [space |-> held[i], title |-> title[held[i]]]]

ServeSpaces ==
    /\ list.phase = "sent"
    /\ list' = Serve(list, OfServer)
    /\ UNCHANGED <<held, title, picked, stored, form, asked, wait, past>>

SpacesArrive ==
    /\ list.phase = "served"
    /\ Render(Arrive(list), picked, stored, form, wait)
    /\ past' = [past EXCEPT !.chosen = Choose(Arrive(list), @)]
    /\ UNCHANGED <<held, title>>

SpacesFail ==
    /\ list.phase # "none"
    /\ list' = Fail(list)
    /\ UNCHANGED <<held, title, picked, stored, form, asked, wait, past>>

Happens ==
    /\ past.events < MaxEvents
    /\ past' = [past EXCEPT !.events = @ + 1]

(* The user tries again, the network is back, or the page is entered from  *)
(* one that does not read the list.                                        *)
AskForSpaces ==
    /\ ~Fetching(list)
    /\ list' = Want(list)
    /\ Happens
    /\ UNCHANGED <<held, title, picked, stored, form, asked, wait>>

-----------------------------------------------------------------------------
(* Other tabs, other owners, a new start *)

(* Whoever else writes makes calls late that were answered, not received.  *)
Overtake(w) == wait' = [a \in Waits |-> [wait[a] EXCEPT !.late =
                            @ \/ (wait[a].phase = "done" /\ wait[a].space = w)]]

OtherRenames(w, t) ==
    /\ w \in Elements(held) /\ title[w] # t
    /\ title' = [title EXCEPT ![w] = t]
    /\ past.events < MaxEvents
    /\ past' = [past EXCEPT !.events = @ + 1, !.typed[w] = @ \cup {t}]
    /\ list' = Outdated(list)
    /\ Overtake(w)
    /\ UNCHANGED <<held, picked, stored, form, asked>>

OtherRemoves(w) ==
    /\ w \in Elements(held)
    /\ held' = WithoutSpace(held, w)
    /\ Happens
    /\ list' = Outdated(list)
    /\ Overtake(w)
    /\ UNCHANGED <<title, picked, stored, form, asked>>

(* Another tab shares the localStorage: what it leaves there is chosen too.*)
OtherTab(w) ==
    /\ stored # w
    /\ stored' = w
    /\ past.events < MaxEvents
    /\ past' = [past EXCEPT !.events = @ + 1, !.chosen = NoSpace]
    /\ UNCHANGED <<held, title, list, picked, form, asked, wait>>

Reload ==
    /\ Happens
    /\ picked' = stored
    /\ list' = Want(NewEntry)
    /\ form' = NoForm
    /\ asked' = NothingAsked
    /\ wait' = [a \in Waits |-> IF wait[a].phase = "sent"
                                THEN [wait[a] EXCEPT !.phase = "adrift", !.same = FALSE]
                                ELSE IF wait[a].phase \in {"done", "failed"} THEN WaitOver
                                ELSE wait[a]]
    /\ stored' = Effect(NewEntry, stored, stored)
    /\ UNCHANGED <<held, title>>

(* The page with the panels is left and opened again.                      *)
OpenPanels ==
    /\ AtHand
    /\ FormFor(list, picked) # form
    /\ form' = FormFor(list, picked)
    /\ wait' = [a \in Waits |-> [wait[a] EXCEPT !.same = FALSE]]
    /\ UNCHANGED <<held, title, list, picked, stored, asked, past>>

SelectionNext ==
    \/ \E w \in Spaces : SelectSpace(w)
    \/ \E a \in Waits, t \in Titles : CreateSpace(a, t)
    \/ \E t \in Titles : TypeTitle(t)
    \/ \E a \in Waits : RenameSpace(a)
    \/ AskDeletion
    \/ \E a \in Waits : AnswerDeletion(a)
    \/ \E a \in Waits : Refuse(a) \/ PerformCreate(a) \/ PerformRename(a) \/ PerformDelete(a)
    \/ \E a \in Waits : EndCreate(a) \/ EndRename(a) \/ EndDelete(a) \/ EndFailed(a)
    \/ \E a \in Waits : LoseCall(a)
    \/ ServeSpaces \/ SpacesArrive \/ SpacesFail \/ AskForSpaces
    \/ \E w \in Spaces, t \in Titles : OtherRenames(w, t)
    \/ \E w \in Spaces : OtherRemoves(w) \/ OtherTab(w)
    \/ Reload \/ OpenPanels

-----------------------------------------------------------------------------
(* A workspace that the user switched to or created stays the one shown,   *)
(* through answers in any order, reloads and lists that are read again:    *)
(* until a list without it has come, a deletion has been answered, or      *)
(* another tab has chosen (contexts/workspace-context.tsx).                *)
SelectionHolds ==
    list.data # NoData /\ past.chosen # NoSpace => CurrentSpace = past.chosen

(* The name typed for one workspace never becomes the name of another,     *)
(* whatever is selected while a rename is under way: the panel and the     *)
(* call are bound to the workspace that was shown (workspace/page.tsx,     *)
(* updateWorkspace of workspace-context.tsx).                              *)
NamesStayHome ==
    /\ \A w \in Elements(held) : title[w] \in past.typed[w]
    /\ \A x \in Elements(ShownBy(list)) : x.title \in past.typed[x.space]

(* Once the tab waits for nothing, its list is what the server has, unless *)
(* someone else made a change, an answer was lost or overtook another, or  *)
(* a list was under way while a change was answered: the list is put       *)
(* together from the answers (setQueryData in workspace-context.tsx).      *)
ListHolds ==
    (/\ list.data # NoData /\ ~list.behind /\ ~list.marked /\ ~Fetching(list)
     /\ \A a \in Waits : wait[a].phase \in {"new", "over"})
        => Elements(list.data) = Elements(OfServer)

(* Both: the workspaces and names that are shown (workspace-context.tsx,    *)
(* workspace-panels.tsx:63).                                                *)
SpacesShownHold == NamesStayHome /\ ListHolds
=============================================================================

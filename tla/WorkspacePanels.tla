--------------------------- MODULE WorkspacePanels ---------------------------
(***************************************************************************)
(* The panels of the workspace page that list members and API keys         *)
(* (MemberSettings and ApiKeySettings of workspace-panels.tsx, with        *)
(* useWorkspaceAccess, which says what the user may do), and what the API  *)
(* does for them (workspaces.service.ts, api-keys.service.ts).             *)
(*                                                                         *)
(* What the API does for a call is one step (its steps are in Workspaces). *)
(* A list is a set: its order, and a row listed twice, are left out.  Of a *)
(* key only its id is kept, which stands for its secret too.               *)
(***************************************************************************)
EXTENDS Integers, FiniteSets, QueryCache

CONSTANTS
    Teams,      \* workspaces
    People,     \* users
    Self,       \* the one who uses the tab
    ApiKeys,    \* ids of API keys, with their secrets
    Jobs,       \* calls of the panels
    FirstRanks, \* the memberships there may be to begin with
    FirstKeys,  \* and the keys: of which workspace
    MaxOthers,  \* bound: changes by others, lists asked for again
    NoTeam, Nobody, NoKey

Ranks == {"OWNER", "ADMIN", "MEMBER", "VIEWER"}

Given == Ranks \ {"OWNER"}      \* AssignableWorkspaceRole

Managers == {"OWNER", "ADMIN"}

\* "NONE": no member
Memberships == [People -> Ranks \cup {"NONE"}]

ASSUME PanelsConstants ==
    /\ NoTeam \notin Teams /\ Nobody \notin People /\ NoKey \notin ApiKeys
    /\ Self \in People /\ MaxOthers \in Nat
    /\ FirstRanks \subseteq [Teams -> Memberships]
    /\ FirstKeys \in [ApiKeys -> Teams \cup {NoTeam}]

VARIABLES
    ranks,      \* Membership rows
    keyTeam,    \* ApiKey rows: their workspace, NoTeam before they are created
    revoked,    \* keys with revokedAt
    here,       \* the workspace that the page shows
    members,    \* the cached ['workspace-members', workspace]
    keyLists,   \* the cached ['api-keys', workspace]
    panel,      \* what the panels of this workspace keep
    query,      \* what useConfirm asks about
    job,        \* calls of the panels
    others      \* bound: changes by others, lists asked for again

rowsOfPanels == <<ranks, keyTeam, revoked>>
caches == <<members, keyLists>>
panelVars == <<rowsOfPanels, here, caches, panel, query, job, others>>

-----------------------------------------------------------------------------
(* adding, updating, creating: the buttons wait for an answer.  open: the  *)
(* form for a key.  secret: the key whose secret is shown.                 *)
Panel == [adding : BOOLEAN, updating : People \cup {Nobody}, creating : BOOLEAN,
          open : BOOLEAN, secret : ApiKeys \cup {NoKey}]

(* same: the panel that made the call is still on the page.  late is       *)
(* history: a later call has changed the same row since.                   *)
Job == [phase : {"new", "sent", "done", "failed", "over"},
        op : {"add", "role", "remove", "create", "revoke"},
        team : Teams \cup {NoTeam}, person : People \cup {Nobody},
        rank : Ranks \cup {"NONE"}, key : ApiKeys \cup {NoKey},
        same : BOOLEAN, late : BOOLEAN]

PanelsTypeOK ==
    /\ ranks \in [Teams -> Memberships]
    /\ keyTeam \in [ApiKeys -> Teams \cup {NoTeam}]
    /\ revoked \subseteq ApiKeys
    /\ here \in Teams
    /\ members \in [Teams -> EntryOf(Memberships)]
    /\ keyLists \in [Teams -> EntryOf(SUBSET ApiKeys)]
    /\ panel \in Panel
    /\ query \in Job
    /\ job \in [Jobs -> Job]
    /\ others \in 0 .. MaxOthers

NewPanel == [adding |-> FALSE, updating |-> Nobody, creating |-> FALSE, open |-> FALSE,
             secret |-> NoKey]

NewJob == [phase |-> "new", op |-> "add", team |-> NoTeam, person |-> Nobody,
           rank |-> "NONE", key |-> NoKey, same |-> FALSE, late |-> FALSE]

JobOver == [NewJob EXCEPT !.phase = "over"]

PanelsInit ==
    /\ ranks \in FirstRanks
    /\ keyTeam = FirstKeys
    /\ revoked = {}
    /\ here \in Teams
    /\ members = [w \in Teams |-> IF w = here THEN Want(NewEntry) ELSE NewEntry]
    /\ keyLists = members
    /\ panel = NewPanel
    /\ query = NewJob
    /\ job = [j \in Jobs |-> NewJob]
    /\ others = 0

-----------------------------------------------------------------------------
(* The page *)

(* What the cached list says of someone: find.                             *)
RankShown(p) == IF members[here].data = NoData THEN "NONE" ELSE members[here].data[p]

(* useWorkspaceAccess *)
CanManage == RankShown(Self) \in Managers

Free == query = NewJob      \* a dialog is modal

(* The panels are keyed by the workspace.                                  *)
PanelOf(w) == NewPanel

(* Another workspace is chosen; it may be shown from the caches, which are *)
(* fetched again once they are old.                                        *)
ShowTeam(w) ==
    /\ Free /\ w # here
    /\ here' = w
    /\ \E m \in Opened(members[w]), k \in Opened(keyLists[w]) :
          /\ members' = [members EXCEPT ![w] = m]
          /\ keyLists' = [keyLists EXCEPT ![w] = k]
    /\ panel' = PanelOf(w)
    /\ job' = [j \in Jobs |-> [job[j] EXCEPT !.same = FALSE]]
    /\ UNCHANGED <<rowsOfPanels, query, others>>

Ask(j, fields) ==
    /\ job[j].phase = "new"
    /\ job' = [job EXCEPT ![j] = fields]
    /\ UNCHANGED <<rowsOfPanels, here, caches, others>>

Of(op) == [NewJob EXCEPT !.phase = "sent", !.op = op, !.team = here, !.same = TRUE]

(* handleAdd *)
AddMember(j, p, r) ==
    /\ Free /\ CanManage /\ ~panel.adding
    /\ panel' = [panel EXCEPT !.adding = TRUE]
    /\ Ask(j, [Of("add") EXCEPT !.person = p, !.rank = r])
    /\ UNCHANGED query

(* Whose row has buttons.                                                  *)
CanEdit(p) == CanManage /\ p # Self /\ RankShown(p) \in Given

(* handleRoleChange: the row is disabled as long as it is the last one     *)
(* that was changed.                                                       *)
ChangeRank(j, p, r) ==
    /\ Free /\ CanEdit(p) /\ panel.updating # p
    /\ RankShown(p) # r
    /\ panel' = [panel EXCEPT !.updating = p]
    /\ Ask(j, [Of("role") EXCEPT !.person = p, !.rank = r])
    /\ UNCHANGED query

(* handleRemove, revokeKey: until the dialog is answered.                  *)
Inquire(about) ==
    /\ Free
    /\ query' = about
    /\ UNCHANGED <<rowsOfPanels, here, caches, panel, job, others>>

AskRemoval(p) == CanEdit(p) /\ Inquire([Of("remove") EXCEPT !.person = p])

AskRevoke(k) ==
    /\ CanManage /\ keyLists[here].data # NoData /\ k \in keyLists[here].data
    /\ Inquire([Of("revoke") EXCEPT !.key = k])

AgreeTo(j) ==
    /\ ~Free
    /\ query' = NewJob
    /\ Ask(j, query)
    /\ UNCHANGED panel

Decline ==
    /\ ~Free
    /\ query' = NewJob
    /\ UNCHANGED <<rowsOfPanels, here, caches, panel, job, others>>

(* The dialogs of the keys: one for a new key, one for its secret.         *)
KeyDialogs ==
    /\ Free
    /\ \/ ~panel.open /\ CanManage /\ panel' = [panel EXCEPT !.open = TRUE]
       \/ panel.open /\ panel' = [panel EXCEPT !.open = FALSE]
       \/ panel.secret # NoKey /\ panel' = [panel EXCEPT !.secret = NoKey]
    /\ UNCHANGED <<rowsOfPanels, here, caches, query, job, others>>

(* handleCreate *)
CreateKey(j) ==
    /\ Free /\ panel.open /\ ~panel.creating
    /\ panel' = [panel EXCEPT !.creating = TRUE]
    /\ Ask(j, Of("create"))
    /\ UNCHANGED query

-----------------------------------------------------------------------------
(* The API *)

RankOf(j, p) == ranks[job[j].team][p]

Manages(j) == RankOf(j, Self) \in Managers

(* updateMemberRole, removeMember: of someone who is not an OWNER, nor an  *)
(* ADMIN when the actor is one.                                            *)
MayEdit(j) ==
    LET p == job[j].person IN
    /\ Manages(j) /\ p # Self
    /\ RankOf(j, p) \in Given
    /\ ~(RankOf(j, Self) = "ADMIN" /\ RankOf(j, p) = "ADMIN")

Accepted(j) ==
    CASE job[j].op = "add" -> Manages(j) /\ job[j].person # Self
      [] job[j].op \in {"role", "remove"} -> MayEdit(j)
      [] job[j].op = "create" -> Manages(j)
      [] job[j].op = "revoke" -> Manages(j) /\ keyTeam[job[j].key] = job[j].team

(* What was answered before for the same row, and not received, is late.   *)
Handled(j, k) ==
    job' = [i \in Jobs |->
        IF i = j THEN [job[j] EXCEPT !.phase = "done", !.key = k]
        ELSE [job[i] EXCEPT !.late = @ \/ (/\ job[i].phase = "done"
                                           /\ job[i].team = job[j].team
                                           /\ job[i].person = job[j].person
                                           /\ job[i].key = k)]]

Perform(j) ==
    /\ job[j].phase = "sent" /\ Accepted(j)
    /\ UNCHANGED <<here, caches, panel, query, others>>

(* addMember (an upsert), updateMemberRole and removeMember.               *)
WriteMember(j) ==
    /\ job[j].op \in {"add", "role", "remove"}
    /\ Perform(j)
    /\ ranks' = [ranks EXCEPT ![job[j].team][job[j].person] = job[j].rank]
    /\ Handled(j, NoKey)
    /\ UNCHANGED <<keyTeam, revoked>>

InsertKey(j) ==
    /\ job[j].op = "create"
    /\ Perform(j)
    /\ \E k \in ApiKeys :
          /\ keyTeam[k] = NoTeam
          /\ keyTeam' = [keyTeam EXCEPT ![k] = job[j].team]
          /\ Handled(j, k)
    /\ UNCHANGED <<ranks, revoked>>

RevokeKey(j) ==
    /\ job[j].op = "revoke"
    /\ Perform(j)
    /\ revoked' = revoked \cup {job[j].key}
    /\ Handled(j, job[j].key)
    /\ UNCHANGED <<ranks, keyTeam>>

RefuseJob(j) ==
    /\ job[j].phase = "sent" /\ ~Accepted(j)
    /\ job' = [job EXCEPT ![j].phase = "failed"]
    /\ UNCHANGED <<rowsOfPanels, here, caches, panel, query, others>>

-----------------------------------------------------------------------------
(* The page: answers *)

(* setAdding, setUpdatingUserId and setCreating, of a panel that is there. *)
Freed(j) ==
    IF ~job[j].same THEN panel
    ELSE CASE job[j].op = "add" -> [panel EXCEPT !.adding = FALSE]
           [] job[j].op = "role" -> [panel EXCEPT !.updating = Nobody]
           [] job[j].op = "create" -> [panel EXCEPT !.creating = FALSE]
           [] OTHER -> panel

\* Mutant: the list of the workspace that is shown by now
CacheShown(j) == here

(* queryKey, as it was when the call was made.                             *)
CacheOf(j) == job[j].team

PutInto(e, j, data) ==
    [Put(e, data) EXCEPT !.behind = e.behind \/ job[j].late \/ e.data = NoData]

(* Upserted, replaced if there, or filtered.                               *)
MembersAfter(j, old) ==
    [old EXCEPT ![job[j].person] = IF job[j].op = "role" /\ @ = "NONE" THEN @ ELSE job[j].rank]

MembersOr(e) == IF e.data = NoData THEN [p \in People |-> "NONE"] ELSE e.data

EndMember(j) ==
    /\ job[j].phase = "done" /\ job[j].op \in {"add", "role", "remove"}
    /\ LET w == CacheOf(j) IN
       members' = [members EXCEPT ![w] = PutInto(@, j, MembersAfter(j, MembersOr(@)))]
    /\ panel' = Freed(j)
    /\ job' = [job EXCEPT ![j] = JobOver]
    /\ UNCHANGED <<rowsOfPanels, here, keyLists, query, others>>

KeysOr(e) == IF e.data = NoData THEN {} ELSE e.data

(* The key is shown where it was created; its secret is what the panel     *)
(* that asked for it shows.                                                *)
EndKey(j) ==
    /\ job[j].phase = "done" /\ job[j].op \in {"create", "revoke"}
    /\ LET w == CacheOf(j)
           k == job[j].key
           data == IF job[j].op = "create" THEN KeysOr(keyLists[w]) \cup {k}
                   ELSE KeysOr(keyLists[w]) \ {k}
       IN keyLists' = [keyLists EXCEPT ![w] = PutInto(@, j, data)]
    /\ panel' = IF job[j].op = "create" /\ job[j].same
                THEN [Freed(j) EXCEPT !.secret = job[j].key, !.open = FALSE] ELSE Freed(j)
    /\ job' = [job EXCEPT ![j] = JobOver]
    /\ UNCHANGED <<rowsOfPanels, here, members, query, others>>

EndRefused(j) ==
    /\ job[j].phase = "failed"
    /\ panel' = Freed(j)
    /\ job' = [job EXCEPT ![j] = JobOver]
    /\ UNCHANGED <<rowsOfPanels, here, caches, query, others>>

(* The request or its answer is lost.                                      *)
LoseJob(j) ==
    /\ job[j].phase \in {"sent", "done"}
    /\ job' = [job EXCEPT ![j].phase = "failed"]
    /\ LET w == job[j].team IN
       IF job[j].phase = "sent" THEN UNCHANGED caches
       ELSE IF job[j].op \in {"create", "revoke"}
       THEN keyLists' = [keyLists EXCEPT ![w] = Outdated(@)] /\ UNCHANGED members
       ELSE members' = [members EXCEPT ![w] = Outdated(@)] /\ UNCHANGED keyLists
    /\ UNCHANGED <<rowsOfPanels, here, panel, query, others>>

-----------------------------------------------------------------------------
(* The lists *)

LiveKeys(w) == {k \in ApiKeys : keyTeam[k] = w /\ k \notin revoked}

(* One step of a request: get and list are for members.                    *)
StepOf(e, w, data) ==
    CASE e.phase = "sent" -> IF ranks[w][Self] = "NONE" THEN {Fail(e)}
                             ELSE {Serve(e, data), Fail(e)}
      [] e.phase = "served" -> {Arrive(e), Fail(e)}
      [] OTHER -> {}

FetchMembers(w) ==
    /\ \E e \in StepOf(members[w], w, ranks[w]) : members' = [members EXCEPT ![w] = e]
    /\ UNCHANGED <<rowsOfPanels, here, keyLists, panel, query, job, others>>

FetchKeys(w) ==
    /\ \E e \in StepOf(keyLists[w], w, LiveKeys(w)) : keyLists' = [keyLists EXCEPT ![w] = e]
    /\ UNCHANGED <<rowsOfPanels, here, members, panel, query, job, others>>

(* The user tries again, or another page has shown the switcher.           *)
AskAgain ==
    /\ others < MaxOthers
    /\ others' = others + 1
    /\ \/ members' = [members EXCEPT ![here] = Want(@)] /\ UNCHANGED keyLists
       \/ keyLists' = [keyLists EXCEPT ![here] = Want(@)] /\ UNCHANGED members
    /\ UNCHANGED <<rowsOfPanels, here, panel, query, job>>

-----------------------------------------------------------------------------
(* Others *)

(* Answers that are under way become late.                                 *)
OvertakeAt(w) == job' = [j \in Jobs |-> [job[j] EXCEPT !.late =
                             @ \/ (job[j].phase = "done" /\ job[j].team = w)]]

OtherSetsRank(w, p, r) ==
    /\ others < MaxOthers /\ others' = others + 1
    /\ ranks[w][p] # r
    /\ ranks' = [ranks EXCEPT ![w][p] = r]
    /\ members' = [members EXCEPT ![w] = Outdated(@)]
    /\ OvertakeAt(w)
    /\ UNCHANGED <<keyTeam, revoked, here, keyLists, panel, query>>

OtherRevokes(k) ==
    /\ others < MaxOthers /\ others' = others + 1
    /\ keyTeam[k] # NoTeam /\ k \notin revoked
    /\ revoked' = revoked \cup {k}
    /\ keyLists' = [keyLists EXCEPT ![keyTeam[k]] = Outdated(@)]
    /\ OvertakeAt(keyTeam[k])
    /\ UNCHANGED <<ranks, keyTeam, here, members, panel, query>>

PanelsNext ==
    \/ \E w \in Teams : ShowTeam(w) \/ FetchMembers(w) \/ FetchKeys(w)
    \/ \E j \in Jobs, p \in People, r \in Given : AddMember(j, p, r) \/ ChangeRank(j, p, r)
    \/ \E p \in People : AskRemoval(p)
    \/ \E k \in ApiKeys : AskRevoke(k) \/ OtherRevokes(k)
    \/ \E j \in Jobs : AgreeTo(j) \/ CreateKey(j)
    \/ \E j \in Jobs : WriteMember(j) \/ InsertKey(j) \/ RevokeKey(j) \/ RefuseJob(j)
    \/ \E j \in Jobs : EndMember(j) \/ EndKey(j) \/ EndRefused(j) \/ LoseJob(j)
    \/ \E w \in Teams, p \in People, r \in Ranks \cup {"NONE"} : OtherSetsRank(w, p, r)
    \/ Decline \/ KeyDialogs \/ AskAgain

PanelsSpec == PanelsInit /\ [][PanelsNext]_panelVars

-----------------------------------------------------------------------------
Settled(e, w) ==
    /\ e.data # NoData /\ ~e.behind /\ ~e.marked /\ ~Fetching(e)
    /\ \A j \in Jobs : job[j].team = w => job[j].phase \in {"new", "over"}

(* Once a workspace's calls and lists are answered, the panels show the    *)
(* members and keys that it has, and so what the user may do, whatever     *)
(* workspace was shown in between: unless someone else made a change, an   *)
(* answer was lost or overtook another, or a list was under way while a    *)
(* change was answered (setQueryData in workspace-panels.tsx).             *)
ListsHold ==
    \A w \in Teams : /\ Settled(members[w], w) => members[w].data = ranks[w]
                     /\ Settled(keyLists[w], w) => keyLists[w].data = LiveKeys(w)

(* A secret is shown only with the panel of the workspace its key is for,  *)
(* even when its answer comes after the user has gone to another one and   *)
(* come back (ApiKeySettings, keyed by the workspace).                     *)
SecretsStayHome == panel.secret # NoKey => keyTeam[panel.secret] = here

(* Both: the panels show what is so, where it is so.                       *)
PanelsHold == ListsHold /\ SecretsStayHome
=============================================================================

----------------------------- MODULE AdminUsers -----------------------------
(***************************************************************************)
(* The administration of users: the page apps/web/src/app/(app)/admin/     *)
(* users/page.tsx with its cached lists and details, the handlers of       *)
(* admin.service.ts behind it, PlatformAdminGuard, and the promotion of    *)
(* the configured addresses to SUPER_ADMIN.                                *)
(*                                                                         *)
(* updateUser is two steps, its check and its write.  A search text is a   *)
(* filter as the status is, and left out; so are the numbers shown, and    *)
(* the sessions that are ended (module Sessions).                          *)
(***************************************************************************)
EXTENDS Integers, Sequences, SequencesExt, QueryCache, Subsequences

CONSTANTS
    Accounts,       \* User rows, the newest first: a sequence
    Admin,          \* the one who uses the page
    Configured,     \* those whose address is in PLATFORM_ADMIN_EMAILS
    FirstAdmins,    \* SUPER_ADMIN to begin with
    AdminCalls,
    RowsPerPage,
    MaxElsewhere,   \* bound: changes by other administrators
    NoAccount

Users == {Accounts[i] : i \in DOMAIN Accounts}

ASSUME AdminConstants ==
    /\ Accounts \in Seq(Users)
    /\ Admin \in Users /\ Admin \in FirstAdmins /\ NoAccount \notin Users
    /\ Configured \subseteq Users /\ FirstAdmins \subseteq Users
    /\ RowsPerPage \in Nat \ {0} /\ MaxElsewhere \in Nat

VARIABLES
    account,    \* User.platformRole and User.disabledAt
    userLists,  \* the cached ['admin', 'users', { status, page }]
    details,    \* the cached ['admin', 'users', selectedId]
    looking,    \* status, page and selectedId
    sure,       \* what useConfirm asks about
    update,     \* calls of the page
    late,       \* history: promoted when suspended, or about to be
    elsewhere   \* bound: changes by other administrators

adminVars == <<account, userLists, details, looking, sure, update, late, elsewhere>>

-----------------------------------------------------------------------------
AccountFilters == {"all", "active", "disabled"}

ListKeys == [status : AccountFilters, page : 1 .. Len(Accounts) + 1]

(* AdminUserSummary *)
Summary == [id : Users, admin : BOOLEAN, disabled : BOOLEAN]

UserPage == [rows : BoundedSeq(Summary, RowsPerPage), pages : 1 .. Len(Accounts) + 1]

Update == [phase : {"new", "sent", "checked", "done", "refused", "settling", "over"},
           op : {"update", "revoke"}, id : Users \cup {NoAccount}, disabled : BOOLEAN]

NewUpdate == [phase |-> "new", op |-> "update", id |-> NoAccount, disabled |-> FALSE]

AdminTypeOK ==
    /\ account \in [Users -> [admin : BOOLEAN, disabled : BOOLEAN]]
    /\ userLists \in [ListKeys -> EntryOf(UserPage)]
    /\ details \in [Users -> EntryOf(Summary)]
    /\ looking \in [status : AccountFilters, page : 1 .. Len(Accounts) + 1,
                    selected : Users \cup {NoAccount}]
    /\ sure \in Update
    /\ update \in [AdminCalls -> Update]
    /\ late \subseteq Configured
    /\ elsewhere \in 0 .. MaxElsewhere

FirstKey == [status |-> "all", page |-> 1]

AdminInit ==
    /\ account = [u \in Users |-> [admin |-> u \in FirstAdmins, disabled |-> FALSE]]
    /\ userLists = [k \in ListKeys |-> IF k = FirstKey THEN Want(NewEntry) ELSE NewEntry]
    /\ details = [u \in Users |-> NewEntry]
    /\ looking = [status |-> "all", page |-> 1, selected |-> NoAccount]
    /\ sure = NewUpdate
    /\ update = [a \in AdminCalls |-> NewUpdate]
    /\ late = {}
    /\ elsewhere = 0

-----------------------------------------------------------------------------
(* The server *)

(* PlatformAdminGuard: what it refuses is not done.                        *)
Passes == account[Admin].admin /\ ~account[Admin].disabled

(* toAdminUserSummary, also what getUser answers.                          *)
SummaryIn(u, users) == [id |-> u, admin |-> users[u].admin, disabled |-> users[u].disabled]

SummaryOf(u) == SummaryIn(u, account)

(* listUsers *)
Matching(status, users) ==
    Subsequence(Accounts, {i \in DOMAIN Accounts :
                               \/ status = "all"
                               \/ users[Accounts[i]].disabled = (status = "disabled")})

PagesFor(total) == IF total = 0 THEN 1 ELSE (total + RowsPerPage - 1) \div RowsPerPage

UserPageFrom(all, shown, users) ==
    [rows |-> [i \in DOMAIN shown |-> SummaryIn(shown[i], users)], pages |-> PagesFor(Len(all))]

UserPageIn(k, users) ==
    LET all == Matching(k.status, users)
    IN UserPageFrom(all, Slice(all, (k.page - 1) * RowsPerPage, RowsPerPage), users)

UserPageOf(k) == UserPageIn(k, account)

(* One step of a request.                                                  *)
AdminStepOf(e, data) ==
    CASE e.phase = "sent" -> IF Passes THEN {Serve(e, data), Fail(e)} ELSE {Fail(e)}
      [] e.phase = "served" -> {Arrive(e), Fail(e)}
      [] OTHER -> {}

FetchUsers(k) ==
    /\ \E e \in AdminStepOf(userLists[k], UserPageOf(k)) :
          userLists' = [userLists EXCEPT ![k] = e]
    /\ UNCHANGED <<account, details, looking, sure, update, late, elsewhere>>

FetchDetail(u) ==
    /\ \E e \in AdminStepOf(details[u], SummaryOf(u)) : details' = [details EXCEPT ![u] = e]
    /\ UNCHANGED <<account, userLists, looking, sure, update, late, elsewhere>>

AllOutdated ==
    /\ userLists' = [k \in ListKeys |-> Outdated(userLists[k])]
    /\ details' = [u \in Users |-> Outdated(details[u])]

\* Mutant: updateUser looks at the actor only
SparesActor(a) == update[a].disabled => update[a].id # Admin

(* Nobody suspends themselves, nor a SUPER_ADMIN.                          *)
Spares(a) ==
    update[a].disabled => update[a].id # Admin /\ ~account[update[a].id].admin

AdminUnchanged == UNCHANGED <<looking, sure, late, elsewhere>>

CheckUpdate(a) ==
    /\ update[a].phase = "sent"
    /\ update' = [update EXCEPT ![a].phase =
                      IF Passes /\ (update[a].op = "update" => Spares(a)) THEN "checked"
                      ELSE "refused"]
    /\ AdminUnchanged /\ UNCHANGED <<account, userLists, details>>

(* The transaction; revokeSessions writes nothing that is kept here.       *)
WriteUpdate(a) ==
    /\ update[a].phase = "checked"
    /\ update' = [update EXCEPT ![a].phase = "done"]
    /\ account' = IF update[a].op = "revoke" THEN account
                  ELSE [account EXCEPT ![update[a].id].disabled = update[a].disabled]
    /\ AdminUnchanged /\ UNCHANGED <<userLists, details>>

(* onModuleInit of PlatformAdminBootstrapService, which asks nothing but   *)
(* the address, and getMe, which has read a row that was not suspended.    *)
Promote(u) ==
    /\ u \in Configured /\ ~account[u].admin
    /\ account' = [account EXCEPT ![u].admin = TRUE]
    /\ late' = IF \/ account[u].disabled
                  \/ \E a \in AdminCalls : /\ update[a].phase = "checked"
                                           /\ update[a].id = u /\ update[a].disabled
               THEN late \cup {u} ELSE late
    /\ AllOutdated
    /\ UNCHANGED <<looking, sure, update, elsewhere>>

(* Another administrator, in one step.                                     *)
OtherUpdates(u) ==
    /\ elsewhere < MaxElsewhere /\ elsewhere' = elsewhere + 1
    /\ ~account[u].admin
    /\ account' = [account EXCEPT ![u].disabled = ~@]
    /\ AllOutdated
    /\ UNCHANGED <<looking, sure, update, late>>

-----------------------------------------------------------------------------
(* The page *)

UserListKey == [status |-> looking.status, page |-> looking.page]

ShownUsers == userLists[UserListKey]

(* A dialog is modal, and at first there is only a placeholder.            *)
AdminUsable == sure = NewUpdate /\ ~Loading(ShownUsers)

LookAt(v) ==
    /\ looking' = v
    /\ UNCHANGED <<account, sure, update, late, elsewhere>>

OpenUsers(k) ==
    \E e \in Opened(userLists[k]) : userLists' = [userLists EXCEPT ![k] = e]

(* The filter's onChange, and the buttons below the table.                 *)
Filter(status) ==
    /\ AdminUsable /\ status # looking.status
    /\ LookAt([looking EXCEPT !.status = status, !.page = 1])
    /\ OpenUsers([status |-> status, page |-> 1])
    /\ UNCHANGED details

TurnTo(page) ==
    /\ AdminUsable
    /\ ShownUsers.data # NoData /\ ShownUsers.data.rows # <<>>
    /\ \/ page = looking.page - 1 /\ looking.page > 1
       \/ page = looking.page + 1 /\ looking.page < ShownUsers.data.pages
    /\ LookAt([looking EXCEPT !.page = page])
    /\ OpenUsers([status |-> looking.status, page |-> page])
    /\ UNCHANGED details

RowsShown == IF ShownUsers.data = NoData THEN {}
             ELSE {ShownUsers.data.rows[i] : i \in DOMAIN ShownUsers.data.rows}

Select(u) ==
    /\ AdminUsable
    /\ u # looking.selected /\ \E x \in RowsShown : x.id = u
    /\ LookAt([looking EXCEPT !.selected = u])
    /\ \E e \in Opened(details[u]) : details' = [details EXCEPT ![u] = e]
    /\ UNCHANGED userLists

(* selected: the row of the list, or else the detail.                      *)
Selected ==
    LET id == looking.selected
        rows == {x \in RowsShown : x.id = id}
    IN IF id = NoAccount THEN {}
       ELSE IF Loading(details[id]) THEN {}
       ELSE IF rows # {} THEN rows
       ELSE {details[id].data} \ {NoData}

Pending(op) == \E a \in AdminCalls : /\ update[a].op = op
                                     /\ update[a].phase \notin {"new", "over"}

Wonder(about) ==
    /\ AdminUsable
    /\ sure' = [about EXCEPT !.phase = "sent"]
    /\ UNCHANGED <<account, userLists, details, looking, update, late, elsewhere>>

(* handleToggleDisabled, handleRevokeSessions *)
AskToggle(x) ==
    /\ ~Pending("update") /\ x.id # Admin /\ ~x.admin
    /\ Wonder([NewUpdate EXCEPT !.id = x.id, !.disabled = ~x.disabled])

AskRevocation(x) ==
    ~Pending("revoke") /\ Wonder([NewUpdate EXCEPT !.op = "revoke", !.id = x.id])

AnswerSure(a, yes) ==
    /\ sure # NewUpdate /\ sure' = NewUpdate
    /\ IF yes THEN update[a].phase = "new" /\ update' = [update EXCEPT ![a] = sure]
       ELSE UNCHANGED update
    /\ UNCHANGED <<account, userLists, details, looking, late, elsewhere>>

\* Mutant: only the list that is shown is fetched again
ListInvalidated ==
    /\ userLists' = [userLists EXCEPT ![UserListKey] = Invalidate(@, TRUE)]
    /\ UNCHANGED details

(* invalidateQueries({ queryKey: ['admin'] }) *)
AdminInvalidated ==
    /\ userLists' = [k \in ListKeys |-> Invalidate(userLists[k], k = UserListKey)]
    /\ details' = [u \in Users |-> Invalidate(details[u], u = looking.selected)]

(* onSuccess, which waits until what is shown was fetched, and onError.    *)
UpdateAnswered(a) ==
    /\ update[a].phase = "done"
    /\ update' = [update EXCEPT ![a].phase = "settling"]
    /\ AdminInvalidated
    /\ AdminUnchanged /\ UNCHANGED account

UpdateOver(a) ==
    /\ update[a].phase \in {"refused", "settling"}
    /\ update' = [update EXCEPT ![a].phase = "over"]
    /\ AdminUnchanged /\ UNCHANGED <<account, userLists, details>>

(* The request or its answer is lost.                                      *)
LoseUpdate(a) ==
    /\ update[a].phase \in {"sent", "done"}
    /\ update' = [update EXCEPT ![a].phase = "refused"]
    /\ IF update[a].phase = "sent" THEN UNCHANGED <<userLists, details>> ELSE AllOutdated
    /\ AdminUnchanged /\ UNCHANGED account

(* onRetry *)
RetryUsers ==
    /\ ShownUsers.failed /\ ~Fetching(ShownUsers) /\ sure = NewUpdate
    /\ userLists' = [userLists EXCEPT ![UserListKey] = Want(@)]
    /\ AdminUnchanged /\ UNCHANGED <<account, details, update>>

AdminNext ==
    \/ \E k \in ListKeys : FetchUsers(k)
    \/ \E u \in Users : FetchDetail(u) \/ Promote(u) \/ OtherUpdates(u) \/ Select(u)
    \/ \E s \in AccountFilters : Filter(s)
    \/ TurnTo(looking.page - 1) \/ TurnTo(looking.page + 1) \/ RetryUsers
    \/ \E x \in Selected : AskToggle(x) \/ AskRevocation(x)
    \/ \E a \in AdminCalls, yes \in BOOLEAN : AnswerSure(a, yes)
    \/ \E a \in AdminCalls :
          \/ CheckUpdate(a) \/ WriteUpdate(a) \/ UpdateAnswered(a)
          \/ UpdateOver(a) \/ LoseUpdate(a)

AdminSpec == AdminInit /\ [][AdminNext]_adminVars

-----------------------------------------------------------------------------
(* A SUPER_ADMIN is suspended only when they were promoted while suspended,*)
(* or by an updateUser that had checked their role before the promotion    *)
(* (admin.service.ts:238).                                                 *)
AdminsStayEnabled == \A u \in Users : account[u].admin /\ account[u].disabled => u \in late

(* A list or a detail that was fetched and is not marked is what the       *)
(* server has, once the page's own changes are answered: unless someone    *)
(* else made a change since, an answer was lost, or the first request for  *)
(* it was under way while a change was answered (admin/users/page.tsx:81). *)
Fetched(e) == e.data # NoData /\ ~e.marked /\ ~Fetching(e) /\ ~e.behind

UsersHold ==
    (\A a \in AdminCalls : update[a].phase # "done") =>
        /\ \A k \in ListKeys : Fetched(userLists[k]) => userLists[k].data = UserPageOf(k)
        /\ \A u \in Users : Fetched(details[u]) => details[u].data = SummaryOf(u)
=============================================================================

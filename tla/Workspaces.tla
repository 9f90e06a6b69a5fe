----------------------------- MODULE Workspaces -----------------------------
(***************************************************************************)
(* Workspaces, their members and the links that belong to them:            *)
(* apps/api/src/workspaces/workspaces.service.ts, the authorization of     *)
(* apps/api/src/links/links.service.ts and the deployment's                *)
(* workspaces/workspace-backfill.ts.                                       *)
(*                                                                         *)
(* Every handler reads memberships in one or more awaited queries and      *)
(* writes afterwards without testing them again; req[r] is what it has     *)
(* seen so far.  Names and slugs are left out, and of links everything but *)
(* who created them and which workspace they are in.                       *)
(***************************************************************************)
EXTENDS Naturals, FiniteSets

CONSTANTS
    Users, WorkspaceIds, Links,
    Requests,       \* concurrent HTTP requests, and the deployment's backfill
    NoUser, NoWorkspace

ASSUME WorkspaceConstants ==
    NoUser \notin Users /\ NoWorkspace \notin WorkspaceIds

VARIABLES
    workspace,  \* Workspace rows
    role,       \* Membership rows: role[w][u], or "none"
    link,       \* Link rows
    late,       \* history: links created while their workspace was removed
    req         \* what each request has seen, until it writes

vars == <<workspace, role, link, late, req>>

-----------------------------------------------------------------------------
Roles == {"OWNER", "ADMIN", "MEMBER", "VIEWER"}
Assignable == Roles \ {"OWNER"}             \* AddMemberDto, UpdateMemberRoleDto
Managers == {"OWNER", "ADMIN"}
Writers == {"OWNER", "ADMIN", "MEMBER"}     \* LINK_WRITE_ROLES

(* home is history: the workspace the link was created in. *)
LinkRow == [status : {"unused", "live", "deleted"}, creator : Users \cup {NoUser},
            workspace : WorkspaceIds \cup {NoWorkspace},
            home : WorkspaceIds \cup {NoWorkspace}]

Looked == {"update looked", "kick looked"}
Cleared == {"update cleared", "kick cleared"}

(* op is the handler with how far it got.  missed is history: what changed  *)
(* under the request after it looked: the actor's membership, the target's, *)
(* or one of the actor's OWNER memberships.                                 *)
Request == [op : {"idle", "remove", "counted", "purge", "add", "update", "kick",
                  "create", "find", "write", "backfill"} \cup Looked \cup Cleared,
            actor : Users \cup {NoUser},
            workspace : WorkspaceIds \cup {NoWorkspace},
            target : Users \cup {NoUser},
            role : Assignable \cup {"none"},    \* to be written
            seen : Roles \cup {"none"},         \* the target's, when looked at
            links : SUBSET Links,
            missed : SUBSET {"actor", "target", "owned"}]

Idle == [op |-> "idle", actor |-> NoUser, workspace |-> NoWorkspace, target |-> NoUser,
         role |-> "none", seen |-> "none", links |-> {}, missed |-> {}]

TypeOK ==
    /\ workspace \in [WorkspaceIds -> {"unused", "live", "deleted"}]
    /\ role \in [WorkspaceIds -> [Users -> Roles \cup {"none"}]]
    /\ link \in [Links -> LinkRow]
    /\ late \subseteq Links
    /\ req \in [Requests -> Request]
    /\ \A r \in Requests : req[r].op \in Looked \cup Cleared => req[r].seen \in Assignable

Init ==
    /\ workspace = [w \in WorkspaceIds |-> "unused"]
    /\ role = [w \in WorkspaceIds |-> [u \in Users |-> "none"]]
    /\ link = [l \in Links |-> [status |-> "unused", creator |-> NoUser,
                                workspace |-> NoWorkspace, home |-> NoWorkspace]]
    /\ late = {}
    /\ req = [r \in Requests |-> Idle]

LinksOf(w) == {l \in Links : link[l].status = "live" /\ link[l].workspace = w}

Joined(u) == {w \in WorkspaceIds : role[w][u] # "none"}

Owned(u) == {w \in WorkspaceIds : role[w][u] = "OWNER"}

\* Mutant: any member passes for any role.
HasAnyRole(u, w, roles) == role[w][u] # "none"

(* assertRole, assertMember *)
HasRole(u, w, roles) == role[w][u] \in roles

(* Rows locked by the transaction of a removal in progress. *)
Locked(l) == \E q \in Requests : req[q].op = "purge" /\ l \in req[q].links

(* History: the requests that looked at a membership of users us in w.      *)
Overtake(w, us) ==
    [q \in Requests |->
        [req[q] EXCEPT !.missed = @
            \cup (IF req[q].workspace = w /\ req[q].actor \in us THEN {"actor"} ELSE {})
            \cup (IF req[q].workspace = w /\ req[q].target \in us THEN {"target"} ELSE {})
            \cup (IF req[q].actor \in us /\ role[w][req[q].actor] = "OWNER"
                  THEN {"owned"} ELSE {})]]

Ends(r) == req' = [req EXCEPT ![r] = Idle]

-----------------------------------------------------------------------------
(* Workspaces *)

(* create, and the provisioning of a personal workspace by register. *)
Create(u, w) ==
    /\ workspace[w] = "unused"
    /\ workspace' = [workspace EXCEPT ![w] = "live"]
    /\ role' = [role EXCEPT ![w][u] = "OWNER"]
    /\ UNCHANGED <<link, late, req>>

(* remove: assertRole; the slug is confirmed. *)
Remove(r, u, w) ==
    /\ req[r].op = "idle"
    /\ HasRole(u, w, {"OWNER"})
    /\ req' = [req EXCEPT ![r] = [Idle EXCEPT !.op = "remove", !.actor = u, !.workspace = w]]
    /\ UNCHANGED <<workspace, role, link, late>>

\* Mutant: the last owned workspace counts as another one.
CountsItself(u) == Cardinality(Owned(u)) > 0

MayRemove(u) == Cardinality(Owned(u)) > 1

(* remove: the count of the actor's OWNER memberships. *)
CountOwned(r) ==
    /\ req[r].op = "remove"
    /\ MayRemove(req[r].actor)
    /\ req' = [req EXCEPT ![r] = [req[r] EXCEPT !.op = "counted",
                                                !.missed = req[r].missed \ {"owned"}]]
    /\ UNCHANGED <<workspace, role, link, late>>

(* remove: the first statement of the transaction, link.deleteMany. *)
PurgeLinks(r) ==
    /\ req[r].op = "counted"
    /\ \A l \in LinksOf(req[r].workspace) : ~Locked(l)
    /\ req' = [req EXCEPT ![r] = [req[r] EXCEPT !.op = "purge",
                                                !.links = LinksOf(req[r].workspace)]]
    /\ UNCHANGED <<workspace, role, link, late>>

Purged(r) == req[r].links

(* remove: workspace.delete and the commit.  Memberships cascade, links     *)
(* that appeared since the first statement are set free.                    *)
RemoveWorkspace(r) ==
    LET w == req[r].workspace IN
    /\ req[r].op = "purge"
    /\ workspace[w] = "live"
    /\ workspace' = [workspace EXCEPT ![w] = "deleted"]
    /\ role' = [role EXCEPT ![w] = [u \in Users |-> "none"]]
    /\ link' = [l \in Links |->
                  IF l \in Purged(r) THEN [link[l] EXCEPT !.status = "deleted"]
                  ELSE IF l \in LinksOf(w) THEN [link[l] EXCEPT !.workspace = NoWorkspace]
                  ELSE link[l]]
    /\ req' = [Overtake(w, {u \in Users : role[w][u] # "none"}) EXCEPT ![r] = Idle]
    /\ UNCHANGED late

-----------------------------------------------------------------------------
(* Members *)

SetRole(r, w, u, x) ==
    /\ role' = [role EXCEPT ![w][u] = x]
    /\ req' = [Overtake(w, {u}) EXCEPT ![r] = Idle]

(* addMember up to its upsert *)
AddMember(r, a, w, u, x) ==
    /\ req[r].op = "idle"
    /\ HasRole(a, w, Managers)
    /\ u # a
    /\ req' = [req EXCEPT ![r] = [Idle EXCEPT !.op = "add", !.actor = a, !.workspace = w,
                                              !.target = u, !.role = x]]
    /\ UNCHANGED <<workspace, role, link, late>>

(* addMember's upsert: it creates the membership or updates the one there   *)
(* is, of whatever role; the foreign key needs the workspace.               *)
UpsertMember(r) ==
    /\ req[r].op = "add"
    /\ workspace[req[r].workspace] = "live"
    /\ SetRole(r, req[r].workspace, req[r].target, req[r].role)
    /\ UNCHANGED <<workspace, link, late>>

(* updateMemberRole (x is a role) and removeMember (x is "none"): the       *)
(* assertRole of the actor, ...                                             *)
ManageMember(r, a, w, u, x) ==
    /\ req[r].op = "idle"
    /\ HasRole(a, w, Managers)
    /\ u # a
    /\ req' = [req EXCEPT ![r] =
                 [Idle EXCEPT !.op = IF x = "none" THEN "kick" ELSE "update",
                              !.actor = a, !.workspace = w, !.target = u, !.role = x]]
    /\ UNCHANGED <<workspace, role, link, late>>

MayBeManaged(x) == x \notin {"none", "OWNER"}

(* ... the membership of the target, ...                                    *)
LookAtTarget(r) ==
    LET x == role[req[r].workspace][req[r].target] IN
    /\ req[r].op \in {"update", "kick"}
    /\ MayBeManaged(x)
    /\ req' = [req EXCEPT ![r] =
                 [req[r] EXCEPT
                    !.op = IF req[r].op = "kick" THEN "kick looked" ELSE "update looked",
                    !.seen = x,
                    !.missed = req[r].missed \ {"target"}]]
    /\ UNCHANGED <<workspace, role, link, late>>

(* No admin manages another; an actor without a membership passes. *)
MayManage(a, x) == ~(a = "ADMIN" /\ x = "ADMIN")

(* ... the membership of the actor again, ...                               *)
LookAtActor(r) ==
    /\ req[r].op \in Looked
    /\ MayManage(role[req[r].workspace][req[r].actor], req[r].seen)
    /\ req' = [req EXCEPT ![r] =
                 [req[r] EXCEPT
                    !.op = IF req[r].op = "kick looked" THEN "kick cleared"
                           ELSE "update cleared"]]
    /\ UNCHANGED <<workspace, role, link, late>>

(* ... and the write, of a row that must still be there.                    *)
WriteMember(r) ==
    /\ req[r].op \in Cleared
    /\ role[req[r].workspace][req[r].target] # "none"
    /\ SetRole(r, req[r].workspace, req[r].target, req[r].role)
    /\ UNCHANGED <<workspace, link, late>>

-----------------------------------------------------------------------------
(* Links *)

(* createLink: the assertRole, ...                                          *)
CreateLink(r, u, w) ==
    /\ req[r].op = "idle"
    /\ HasRole(u, w, Writers)
    /\ req' = [req EXCEPT ![r] = [Idle EXCEPT !.op = "create", !.actor = u, !.workspace = w]]
    /\ UNCHANGED <<workspace, role, link, late>>

(* ... and, after the DNS lookup, the insert; the foreign key needs the     *)
(* workspace.                                                               *)
InsertLink(r, l) ==
    LET w == req[r].workspace IN
    /\ req[r].op = "create"
    /\ link[l].status = "unused"
    /\ workspace[w] = "live"
    /\ link' = [link EXCEPT ![l] = [status |-> "live", creator |-> req[r].actor,
                                    workspace |-> w, home |-> w]]
    /\ late' = IF \E q \in Requests : req[q].op = "purge" /\ req[q].workspace = w
               THEN late \cup {l} ELSE late
    /\ Ends(r)
    /\ UNCHANGED <<workspace, role>>

(* findAccessibleLink with write access: the link, ...                      *)
FindLink(r, u, l) ==
    /\ req[r].op = "idle"
    /\ link[l].status = "live"
    /\ link[l].workspace # NoWorkspace
    /\ req' = [req EXCEPT ![r] = [Idle EXCEPT !.op = "find", !.actor = u, !.links = {l},
                                              !.workspace = link[l].workspace]]
    /\ UNCHANGED <<workspace, role, link, late>>

(* ... and the actor's membership of its workspace.                         *)
Authorize(r) ==
    /\ req[r].op = "find"
    /\ HasRole(req[r].actor, req[r].workspace, Writers)
    /\ req' = [req EXCEPT ![r] = [req[r] EXCEPT !.op = "write", !.missed = {}]]
    /\ UNCHANGED <<workspace, role, link, late>>

(* The write by id of updateLink and updateLinkStatus (of fields that are   *)
(* module Links' concern) or deleteLink.  It waits for a removal that has   *)
(* locked the row.                                                          *)
WriteLink(r, l) ==
    /\ req[r].op = "write"
    /\ req[r].links = {l}
    /\ ~Locked(l)
    /\ link[l].status = "live"
    /\ link' \in {link, [link EXCEPT ![l].status = "deleted"]}
    /\ Ends(r)
    /\ UNCHANGED <<workspace, role, late>>

-----------------------------------------------------------------------------
(* The deployment's backfill *)

(* link.updateMany({ userId, workspaceId: null }) *)
Adopted(u, w) ==
    [l \in Links |->
        IF link[l].status = "live" /\ link[l].creator = u /\ link[l].workspace = NoWorkspace
        THEN [link[l] EXCEPT !.workspace = w] ELSE link[l]]

(* backfillUserWorkspaces for one user, in a transaction: a membership is   *)
(* looked for (the oldest one; memberships have no age here), ...           *)
FindMembership(r, u) ==
    /\ req[r].op = "idle"
    /\ \E w \in IF Joined(u) = {} THEN {NoWorkspace} ELSE Joined(u) :
          req' = [req EXCEPT ![r] =
                    [Idle EXCEPT !.op = "backfill", !.actor = u, !.workspace = w]]
    /\ UNCHANGED <<workspace, role, link, late>>

(* ... a user without one gets a workspace, and the user's links without    *)
(* workspace go to it; the foreign key needs it to be there.                *)
AdoptLinks(r, w) ==
    /\ req[r].op = "backfill"
    /\ IF req[r].workspace = NoWorkspace
       THEN /\ workspace[w] = "unused"
            /\ workspace' = [workspace EXCEPT ![w] = "live"]
            /\ role' = [role EXCEPT ![w][req[r].actor] = "OWNER"]
       ELSE /\ w = req[r].workspace
            /\ workspace[w] = "live"
            /\ UNCHANGED <<workspace, role>>
    /\ link' = Adopted(req[r].actor, w)
    /\ Ends(r)
    /\ UNCHANGED late

(* A refusal or an error ends a handler, and rolls its transaction back.    *)
Fail(r) == req[r].op # "idle" /\ Ends(r) /\ UNCHANGED <<workspace, role, link, late>>

-----------------------------------------------------------------------------
WorkspaceStep(r) ==
    \/ \E u \in Users, w \in WorkspaceIds : Remove(r, u, w)
    \/ CountOwned(r) \/ PurgeLinks(r) \/ RemoveWorkspace(r)

MemberStep(r) ==
    \/ \E a, u \in Users, w \in WorkspaceIds, x \in Assignable : AddMember(r, a, w, u, x)
    \/ UpsertMember(r)
    \/ \E a, u \in Users, w \in WorkspaceIds, x \in Assignable \cup {"none"} :
            ManageMember(r, a, w, u, x)
    \/ LookAtTarget(r) \/ LookAtActor(r) \/ WriteMember(r)

LinkStep(r) ==
    \/ \E u \in Users, w \in WorkspaceIds : CreateLink(r, u, w)
    \/ \E u \in Users, l \in Links : FindLink(r, u, l)
    \/ Authorize(r)
    \/ \E l \in Links : InsertLink(r, l) \/ WriteLink(r, l)

BackfillStep(r) ==
    \/ \E u \in Users : FindMembership(r, u)
    \/ \E w \in WorkspaceIds : AdoptLinks(r, w)

Next ==
    \/ \E u \in Users, w \in WorkspaceIds : Create(u, w)
    \/ \E r \in Requests :
          WorkspaceStep(r) \/ MemberStep(r) \/ LinkStep(r) \/ BackfillStep(r) \/ Fail(r)

Spec == Init /\ [][Next]_vars

-----------------------------------------------------------------------------
(* Properties.  Every handler decides on what it read some time before it   *)
(* writes; each property says that this, a membership that changed in       *)
(* between (missed), is the only way past the rule it states.               *)

Manages(r, w) == role[w][req[r].actor] \in Managers \/ "actor" \in req[r].missed

(* The memberships of a workspace change, as long as it lives, only by a    *)
(* handler whose actor is OWNER or ADMIN there.                             *)
ManagersOnly ==
    [][\A w \in WorkspaceIds, u \in Users :
         (role'[w][u] # role[w][u] /\ workspace[w] = "live" /\ workspace'[w] = "live")
           => \E r \in Requests : /\ req[r].workspace = w
                                  /\ req[r].target = u /\ req[r].actor # u
                                  /\ req'[r].op = "idle"
                                  /\ Manages(r, w)]_vars

(* updateMemberRole and removeMember never touch an OWNER, whatever happens *)
(* between their checks and their write, and touch an ADMIN for an OWNER.   *)
PeersAreSpared ==
    [][\A r \in Requests :
         LET w == req[r].workspace
             u == req[r].target
         IN (/\ req[r].op \in Cleared
             /\ req'[r].op = "idle" /\ role'[w][u] # role[w][u])
              => /\ role[w][u] # "OWNER"
                 /\ role[w][u] = "ADMIN" => \/ role[w][req[r].actor] = "OWNER"
                                           \/ req[r].missed \cap {"actor", "target"} # {}]_vars

(* Only a link's creators and editors in its own workspace create or delete *)
(* it, apart from the removal of the workspace: a link that moved between   *)
(* findAccessibleLink and the write moved because the membership ended.     *)
LinkWritersBelong ==
    [][\A r \in Requests, l \in Links :
         (req[r].op \in {"create", "write"} /\ req'[r].op = "idle" /\ link'[l] # link[l])
           => \/ "actor" \in req[r].missed
              \/ /\ link'[l].workspace = req[r].workspace
                 /\ role[link'[l].workspace][req[r].actor] \in Writers]_vars

(* A workspace is removed by its OWNER, who keeps another one: unless the   *)
(* memberships that say so changed after remove counted them.               *)
OwnersKeepOne ==
    [][\A r \in Requests : \A w \in WorkspaceIds :
         (req[r].op = "purge" /\ workspace[w] = "live" /\ workspace'[w] = "deleted"
            /\ req[r].workspace = w /\ req'[r].op = "idle")
           => \/ req[r].missed \cap {"actor", "owned"} # {}
              \/ /\ role[w][req[r].actor] = "OWNER"
                 /\ \E v \in WorkspaceIds : role'[v][req[r].actor] = "OWNER"]_vars

(* A link is in the workspace it was created in, which exists; only links   *)
(* created between the two statements of a removal lose theirs, and may be  *)
(* adopted by another.                                                      *)
OrphansCameLate ==
    \A l \in Links : link[l].status = "live" =>
        /\ link[l].workspace # link[l].home => l \in late
        /\ link[l].workspace # NoWorkspace => workspace[link[l].workspace] = "live"

(* What remove may take: not the actor's last workspace, and no link its    *)
(* workspace, but for requests that it overtook (workspaces.service.ts:81). *)
RemovalsSpare == OwnersKeepOne /\ []OrphansCameLate

(* Who may change which membership (workspaces.service.ts:112-214).         *)
RolesDecide == ManagersOnly /\ PeersAreSpared

-----------------------------------------------------------------------------
(* The inductive invariant: what each request still knows, of what it read, *)
(* about the rows it will write.                                            *)

MembersBelong ==
    \A w \in WorkspaceIds, u \in Users : role[w][u] # "none" => workspace[w] = "live"

LinksHaveHomes == \A l \in Links : link[l].status = "live" => link[l].home \in WorkspaceIds

Placed(r) ==
    req[r].op \notin {"idle", "backfill"} =>
        /\ req[r].actor \in Users
        /\ req[r].workspace \in WorkspaceIds
        /\ workspace[req[r].workspace] # "unused"

OwnerKnows(r) ==
    req[r].op \in {"remove", "counted", "purge"} =>
        LET u == req[r].actor
            w == req[r].workspace
        IN /\ role[w][u] = "OWNER" \/ "actor" \in req[r].missed
           /\ req[r].op # "remove" =>
                \/ \E v \in WorkspaceIds \ {w} : role[v][u] = "OWNER"
                \/ req[r].missed \cap {"actor", "owned"} # {}

PurgeKnows(r) ==
    req[r].op = "purge" => LinksOf(req[r].workspace) \subseteq req[r].links \cup late

ManagerKnows(r) ==
    req[r].op \in {"add", "update", "kick"} \cup Looked \cup Cleared =>
        /\ req[r].target \in Users \ {req[r].actor}
        /\ Manages(r, req[r].workspace)

PeerKnows(r) ==
    req[r].op \in Looked \cup Cleared =>
        LET a == role[req[r].workspace][req[r].actor]
            x == role[req[r].workspace][req[r].target]
        IN /\ x # "OWNER"
           /\ x = req[r].seen \/ "target" \in req[r].missed
           /\ (req[r].op \in Cleared /\ req[r].seen = "ADMIN") =>
                 a = "OWNER" \/ "actor" \in req[r].missed

WriterKnows(r) ==
    LET w == req[r].workspace IN
    /\ req[r].op \in {"create", "write"} =>
         role[w][req[r].actor] \in Writers \/ "actor" \in req[r].missed
    /\ req[r].op \in {"find", "write"} => \A l \in req[r].links :
         /\ link[l].status # "unused"
         /\ (link[l].status = "live" /\ workspace[w] = "live") => link[l].workspace = w

Knows(r) ==
    /\ Placed(r) /\ OwnerKnows(r) /\ PurgeKnows(r)
    /\ ManagerKnows(r) /\ PeerKnows(r) /\ WriterKnows(r)

WorkspacesInv ==
    /\ TypeOK
    /\ MembersBelong
    /\ LinksHaveHomes
    /\ OrphansCameLate
    /\ \A r \in Requests : Knows(r)

-----------------------------------------------------------------------------
(* What the documents and the interface say and the code does not keep.     *)

(* "An admin cannot change another admin's role", and the owner's role is   *)
(* not changed either (the refusals of updateMemberRole).                   *)
AdminsKeepTheirRole ==
    [][\A w \in WorkspaceIds, u \in Users :
         (role[w][u] \in Managers /\ role'[w][u] # role[w][u] /\ workspace'[w] = "live")
           => \E r \in Requests : /\ req[r].workspace = w /\ req[r].target = u
                                  /\ role[w][u] = "ADMIN"
                                  /\ role[w][req[r].actor] # "ADMIN"]_vars

(* "You cannot delete your last owned workspace": a removal leaves its      *)
(* actor another workspace of their own.                                    *)
LastWorkspaceStays ==
    [][\A r \in Requests : \A w \in WorkspaceIds :
         (req[r].op = "purge" /\ req[r].workspace = w /\ workspace'[w] # workspace[w])
           => \E v \in WorkspaceIds : role'[v][req[r].actor] = "OWNER"]_vars
=============================================================================

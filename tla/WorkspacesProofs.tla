-------------------------- MODULE WorkspacesProofs --------------------------
(* Theorems about module Workspaces, for any sets of users, workspaces,     *)
(* links and concurrent requests.                                           *)
EXTENDS Workspaces, FiniteSetTheorems, TLAPS

-----------------------------------------------------------------------------
(* What the helpers of the model return *)

LEMMA IdleType == Idle \in Request /\ Idle.op = "idle"
BY DEF Idle, Request

LEMMA OvertakeType ==
    ASSUME TypeOK, NEW w, NEW us
    PROVE  /\ Overtake(w, us) \in [Requests -> Request]
           /\ \A q \in Requests :
                LET o == Overtake(w, us)[q] IN
                /\ o.op = req[q].op /\ o.actor = req[q].actor
                /\ o.workspace = req[q].workspace /\ o.target = req[q].target
                /\ o.role = req[q].role /\ o.seen = req[q].seen /\ o.links = req[q].links
                /\ req[q].missed \subseteq o.missed
                /\ (req[q].workspace = w /\ req[q].actor \in us) => "actor" \in o.missed
                /\ (req[q].workspace = w /\ req[q].target \in us) => "target" \in o.missed
                /\ (req[q].actor \in us /\ role[w][req[q].actor] = "OWNER")
                     => "owned" \in o.missed
<1> DEFINE S(q) == req[q].missed
              \cup (IF req[q].workspace = w /\ req[q].actor \in us THEN {"actor"} ELSE {})
              \cup (IF req[q].workspace = w /\ req[q].target \in us THEN {"target"} ELSE {})
              \cup (IF req[q].actor \in us /\ role[w][req[q].actor] = "OWNER"
                    THEN {"owned"} ELSE {})
<1>1. Overtake(w, us) = [q \in Requests |-> [req[q] EXCEPT !.missed = S(q)]]
  BY DEF Overtake
<1>2. \A q \in Requests : S(q) \in SUBSET {"actor", "target", "owned"}
  BY DEF TypeOK, Request
<1> HIDE DEF S
<1>3. \A q \in Requests : [req[q] EXCEPT !.missed = S(q)] \in Request
  BY <1>2 DEF TypeOK, Request
<1>4. Overtake(w, us) \in [Requests -> Request]
  BY <1>1, <1>3
<1>5. ASSUME NEW q \in Requests
      PROVE  LET o == Overtake(w, us)[q] IN
                /\ o.op = req[q].op /\ o.actor = req[q].actor
                /\ o.workspace = req[q].workspace /\ o.target = req[q].target
                /\ o.role = req[q].role /\ o.seen = req[q].seen /\ o.links = req[q].links
                /\ o.missed = S(q)
  BY <1>1 DEF TypeOK, Request
<1> QED
  BY <1>4, <1>5 DEF S

(* A user with more than one workspace has another one. *)
LEMMA AnotherOwned ==
    ASSUME TypeOK, NEW u \in Users, NEW w \in WorkspaceIds, MayRemove(u)
    PROVE  \E v \in WorkspaceIds \ {w} : role[v][u] = "OWNER"
<1>1. SUFFICES ASSUME \A v \in WorkspaceIds \ {w} : role[v][u] # "OWNER" PROVE FALSE
  OBVIOUS
<1>2. Owned(u) = {} \/ Owned(u) = {w}
  BY <1>1 DEF Owned
<1>3. Cardinality({}) = 0
  BY FS_EmptySet
<1>4. Cardinality({w}) = 1
  BY FS_Singleton
<1> QED
  BY <1>2, <1>3, <1>4 DEF MayRemove

-----------------------------------------------------------------------------
(* What a step leaves of the knowledge of the requests that do not take it. *)

Same(q) ==
    /\ req'[q].op = req[q].op /\ req'[q].actor = req[q].actor
    /\ req'[q].workspace = req[q].workspace /\ req'[q].target = req[q].target
    /\ req'[q].seen = req[q].seen /\ req'[q].links = req[q].links
    /\ req[q].missed \subseteq req'[q].missed

Told(q) ==
    \A w \in WorkspaceIds, u \in Users : role'[w][u] # role[w][u] =>
        \/ workspace[w] = "unused"
        \/ /\ (w = req[q].workspace /\ u = req[q].actor) => "actor" \in req'[q].missed
           /\ (w = req[q].workspace /\ u = req[q].target) => "target" \in req'[q].missed
           /\ (u = req[q].actor /\ role[w][u] = "OWNER") => "owned" \in req'[q].missed

Follows(q) == req'[q].op = "idle" \/ (Same(q) /\ Told(q))

(* How rows evolve: no id is used twice, no OWNER is made but of a new      *)
(* workspace, links keep to their workspace, and those that enter one under *)
(* a purge are late.                                                        *)
Evolves ==
    /\ \A w \in WorkspaceIds : /\ workspace[w] # "unused" => workspace'[w] # "unused"
                               /\ workspace[w] = "deleted" => workspace'[w] = "deleted"
    /\ \A w \in WorkspaceIds, u \in Users :
         role'[w][u] = "OWNER" => role[w][u] = "OWNER" \/ workspace[w] = "unused"
    /\ late \subseteq late'
    /\ \A l \in Links :
         /\ link[l].status # "unused" => link'[l].status # "unused"
         /\ link[l].status = "deleted" => link'[l].status = "deleted"
         /\ (link'[l].status = "live" /\ link[l].status = "live") =>
              \/ link'[l].workspace = link[l].workspace
              \/ link[l].workspace = NoWorkspace
              \/ workspace'[link[l].workspace] = "deleted"
    /\ \A q \in Requests, l \in Links :
         (req[q].op = "purge" /\ link'[l].status = "live"
            /\ link'[l].workspace = req[q].workspace)
           => l \in late' \cup LinksOf(req[q].workspace)

LEMMA KnowsKept ==
    ASSUME WorkspacesInv, TypeOK', MembersBelong', Evolves, NEW q \in Requests, Follows(q)
    PROVE  Knows(q)'
<1>1. CASE req'[q].op = "idle"
  BY <1>1 DEF Knows, Placed, OwnerKnows, PurgeKnows, ManagerKnows, PeerKnows, WriterKnows,
              Looked, Cleared
<1>2. CASE Same(q) /\ Told(q)
  <2> USE <1>2
  <2>1. Knows(q)
    BY DEF WorkspacesInv
  <2>2. Placed(q)'
    BY <2>1 DEF Knows, Placed, Same, Evolves
  <2>3. OwnerKnows(q)'
    <3>1. SUFFICES ASSUME req[q].op \in {"remove", "counted", "purge"} PROVE OwnerKnows(q)'
      BY DEF Same, OwnerKnows
    <3> DEFINE u == req[q].actor
               w == req[q].workspace
    <3>2. u \in Users /\ w \in WorkspaceIds /\ workspace[w] # "unused"
      BY <2>1, <3>1 DEF Knows, Placed
    <3>3. role'[w][u] = "OWNER" \/ "actor" \in req'[q].missed
      BY <2>1, <3>1, <3>2 DEF Knows, OwnerKnows, Same, Told
    <3>4. ASSUME req[q].op # "remove"
          PROVE  \/ \E v \in WorkspaceIds \ {w} : role'[v][u] = "OWNER"
                 \/ req'[q].missed \cap {"actor", "owned"} # {}
      <4>1. CASE req[q].missed \cap {"actor", "owned"} # {}
        BY <4>1 DEF Same
      <4>2. CASE \E v \in WorkspaceIds \ {w} : role[v][u] = "OWNER"
        <5>1. PICK v \in WorkspaceIds \ {w} : role[v][u] = "OWNER"
          BY <4>2
        <5>2. workspace[v] # "unused"
          BY <3>2, <5>1 DEF WorkspacesInv, MembersBelong
        <5> QED
          BY <3>2, <5>1, <5>2 DEF Told
      <4> QED
        BY <2>1, <3>1, <3>4, <4>1, <4>2 DEF Knows, OwnerKnows
    <3> QED
      BY <3>3, <3>4 DEF OwnerKnows, Same
  <2>4. PurgeKnows(q)'
    <3>1. SUFFICES ASSUME req[q].op = "purge", NEW l \in Links,
                          link'[l].status = "live", link'[l].workspace = req[q].workspace
                   PROVE  l \in req[q].links \cup late'
      BY DEF PurgeKnows, LinksOf, Same
    <3>2. l \in late' \cup LinksOf(req[q].workspace)
      BY <3>1 DEF Evolves
    <3>3. LinksOf(req[q].workspace) \subseteq req[q].links \cup late
      BY <2>1, <3>1 DEF Knows, PurgeKnows
    <3> QED
      BY <3>2, <3>3 DEF Evolves
  <2>5. ManagerKnows(q)'
    BY <2>1 DEF Knows, ManagerKnows, Placed, Manages, Managers, Same, Told, Looked, Cleared
  <2>6. PeerKnows(q)'
    <3>1. SUFFICES ASSUME req[q].op \in Looked \cup Cleared PROVE PeerKnows(q)'
      BY DEF Same, PeerKnows
    <3> DEFINE w == req[q].workspace
               a == req[q].actor
               u == req[q].target
    <3>2. /\ a \in Users /\ u \in Users /\ w \in WorkspaceIds /\ workspace[w] # "unused"
          /\ role[w][u] # "OWNER"
          /\ role[w][u] = req[q].seen \/ "target" \in req[q].missed
          /\ (req[q].op \in Cleared /\ req[q].seen = "ADMIN") =>
               role[w][a] = "OWNER" \/ "actor" \in req[q].missed
      BY <2>1, <3>1 DEF Knows, Placed, ManagerKnows, PeerKnows, Looked, Cleared
    <3>3. role'[w][u] # "OWNER"
      BY <3>2 DEF Evolves
    <3>4. role'[w][u] = req[q].seen \/ "target" \in req'[q].missed
      BY <3>2 DEF Told, Same
    <3>5. (req[q].op \in Cleared /\ req[q].seen = "ADMIN") =>
             role'[w][a] = "OWNER" \/ "actor" \in req'[q].missed
      BY <3>2 DEF Told, Same
    <3> QED
      BY <3>3, <3>4, <3>5 DEF PeerKnows, Same
  <2>7. WriterKnows(q)'
    <3> DEFINE w == req[q].workspace
    <3>1. ASSUME req[q].op \in {"create", "write"}
          PROVE  role'[w][req[q].actor] \in Writers \/ "actor" \in req'[q].missed
      BY <2>1, <3>1 DEF Knows, WriterKnows, Placed, Same, Told
    <3>2. ASSUME req[q].op \in {"find", "write"}, NEW l \in req[q].links
          PROVE  /\ link'[l].status # "unused"
                 /\ (link'[l].status = "live" /\ workspace'[w] = "live") => link'[l].workspace = w
      <4>1. /\ w \in WorkspaceIds /\ workspace[w] # "unused"
            /\ l \in Links /\ link[l].status # "unused"
            /\ (link[l].status = "live" /\ workspace[w] = "live") => link[l].workspace = w
        BY <2>1, <3>2 DEF Knows, WriterKnows, Placed, WorkspacesInv, TypeOK, Request
      <4>2. workspace'[w] = "live" => workspace[w] = "live"
        BY <4>1 DEF Evolves, WorkspacesInv, TypeOK
      <4>3. link[l].status \in {"unused", "live", "deleted"}
        BY <4>1 DEF WorkspacesInv, TypeOK, LinkRow
      <4> QED
        BY <4>1, <4>2, <4>3, WorkspaceConstants DEF Evolves
    <3> QED
      BY <3>1, <3>2 DEF WriterKnows, Same
  <2> QED
    BY <2>2, <2>3, <2>4, <2>5, <2>6, <2>7 DEF Knows
<1> QED
  BY <1>1, <1>2 DEF Follows

-----------------------------------------------------------------------------
(* Each action preserves the invariant.  Those that only read share a       *)
(* lemma: they change what their own request knows.                         *)

LEMMA Asking ==
    ASSUME TypeOK, NEW r \in Requests, NEW row \in Request, req' = [req EXCEPT ![r] = row]
    PROVE  /\ req' \in [Requests -> Request]
           /\ req'[r] = row
           /\ \A q \in Requests \ {r} : req'[q] = req[q]
BY DEF TypeOK

LEMMA LookStep ==
    ASSUME WorkspacesInv, NEW r \in Requests, NEW row \in Request,
           req' = [req EXCEPT ![r] = row], UNCHANGED <<workspace, role, link, late>>,
           row.op \in Looked \cup Cleared => row.seen \in Assignable,
           Knows(r)'
    PROVE  WorkspacesInv'
<1>1. /\ req' \in [Requests -> Request]
      /\ req'[r] = row
      /\ \A q \in Requests \ {r} : req'[q] = req[q]
  BY Asking DEF WorkspacesInv
<1>2. TypeOK'
  BY <1>1 DEF WorkspacesInv, TypeOK
<1>3. MembersBelong' /\ LinksHaveHomes' /\ OrphansCameLate'
  BY DEF WorkspacesInv, MembersBelong, LinksHaveHomes, OrphansCameLate
<1>4. Evolves
  BY DEF Evolves, LinksOf
<1>5. ASSUME NEW q \in Requests PROVE Knows(q)'
  <2>1. CASE q = r
    BY <2>1
  <2>2. CASE q # r
    <3>1. Follows(q)
      BY <1>1, <2>2 DEF Follows, Same, Told
    <3> QED
      BY <1>2, <1>3, <1>4, <3>1, KnowsKept
  <2> QED
    BY <2>1, <2>2
<1> QED
  BY <1>2, <1>3, <1>5 DEF WorkspacesInv

LEMMA IdleKnows ==
    ASSUME NEW r \in Requests, req'[r] = Idle
    PROVE  Knows(r)'
BY DEF Knows, Placed, OwnerKnows, PurgeKnows, ManagerKnows, PeerKnows, WriterKnows, Idle,
       Looked, Cleared

LEMMA RemoveStep ==
    ASSUME WorkspacesInv, NEW r \in Requests, NEW u \in Users, NEW w \in WorkspaceIds,
           Remove(r, u, w)
    PROVE  WorkspacesInv'
<1> DEFINE row == [Idle EXCEPT !.op = "remove", !.actor = u, !.workspace = w]
<1>1. row \in Request /\ row.op = "remove" /\ row.actor = u /\ row.workspace = w
  BY DEF Idle, Request
<1>2. req' = [req EXCEPT ![r] = row] /\ UNCHANGED <<workspace, role, link, late>>
  BY DEF Remove
<1> HIDE DEF row
<1>3. req'[r] = row
  BY <1>1, <1>2, Asking DEF WorkspacesInv
<1>4. role[w][u] = "OWNER" /\ workspace[w] = "live"
  BY DEF Remove, HasRole, WorkspacesInv, MembersBelong
<1>5. Knows(r)'
  BY <1>1, <1>2, <1>3, <1>4 DEF Knows, Placed, OwnerKnows, PurgeKnows, ManagerKnows,
       PeerKnows, WriterKnows, Looked, Cleared
<1> QED
  BY <1>1, <1>2, <1>5, LookStep DEF Looked, Cleared

LEMMA CountStep ==
    ASSUME WorkspacesInv, NEW r \in Requests, CountOwned(r)
    PROVE  WorkspacesInv'
<1> DEFINE row == [req[r] EXCEPT !.op = "counted", !.missed = req[r].missed \ {"owned"}]
<1>0. req[r] \in Request /\ Knows(r) /\ req[r].op = "remove"
  BY DEF WorkspacesInv, TypeOK, CountOwned
<1>1. /\ row \in Request /\ row.op = "counted" /\ row.actor = req[r].actor
      /\ row.workspace = req[r].workspace /\ row.missed = req[r].missed \ {"owned"}
  BY <1>0 DEF Request
<1>2. req' = [req EXCEPT ![r] = row] /\ UNCHANGED <<workspace, role, link, late>>
  BY DEF CountOwned
<1> HIDE DEF row
<1>3. req'[r] = row
  BY <1>1, <1>2, Asking DEF WorkspacesInv
<1>4. \E v \in WorkspaceIds \ {req[r].workspace} : role[v][req[r].actor] = "OWNER"
  BY <1>0, AnotherOwned DEF CountOwned, Knows, Placed, WorkspacesInv
<1>5. Knows(r)'
  BY <1>0, <1>1, <1>2, <1>3, <1>4 DEF Knows, Placed, OwnerKnows, PurgeKnows, ManagerKnows,
       PeerKnows, WriterKnows, Looked, Cleared
<1> QED
  BY <1>1, <1>2, <1>5, LookStep DEF Looked, Cleared

LEMMA PurgeStep ==
    ASSUME WorkspacesInv, NEW r \in Requests, PurgeLinks(r)
    PROVE  WorkspacesInv'
<1> DEFINE row == [req[r] EXCEPT !.op = "purge", !.links = LinksOf(req[r].workspace)]
<1>0. req[r] \in Request /\ Knows(r) /\ req[r].op = "counted"
  BY DEF WorkspacesInv, TypeOK, PurgeLinks
<1>1. /\ row \in Request /\ row.op = "purge" /\ row.actor = req[r].actor
      /\ row.workspace = req[r].workspace /\ row.missed = req[r].missed
      /\ row.links = LinksOf(req[r].workspace)
  BY <1>0 DEF Request, LinksOf
<1>2. req' = [req EXCEPT ![r] = row] /\ UNCHANGED <<workspace, role, link, late>>
  BY DEF PurgeLinks
<1> HIDE DEF row
<1>3. req'[r] = row
  BY <1>1, <1>2, Asking DEF WorkspacesInv
<1>4. LinksOf(req[r].workspace)' = LinksOf(req[r].workspace)
  BY <1>1, <1>2, <1>3 DEF LinksOf
<1>5. Knows(r)'
  BY <1>0, <1>1, <1>2, <1>3, <1>4 DEF Knows, Placed, OwnerKnows, PurgeKnows, ManagerKnows,
       PeerKnows, WriterKnows, Looked, Cleared
<1> QED
  BY <1>1, <1>2, <1>5, LookStep DEF Looked, Cleared

LEMMA AddStep ==
    ASSUME WorkspacesInv, NEW r \in Requests, NEW a \in Users, NEW u \in Users,
           NEW w \in WorkspaceIds, NEW x \in Assignable, AddMember(r, a, w, u, x)
    PROVE  WorkspacesInv'
<1> DEFINE row == [Idle EXCEPT !.op = "add", !.actor = a, !.workspace = w,
                               !.target = u, !.role = x]
<1>1. /\ row \in Request /\ row.op = "add" /\ row.actor = a /\ row.workspace = w
      /\ row.target = u
  BY DEF Idle, Request
<1>2. req' = [req EXCEPT ![r] = row] /\ UNCHANGED <<workspace, role, link, late>>
  BY DEF AddMember
<1> HIDE DEF row
<1>3. req'[r] = row
  BY <1>1, <1>2, Asking DEF WorkspacesInv
<1>4. role[w][a] \in Managers /\ workspace[w] = "live" /\ u # a
  BY DEF AddMember, HasRole, WorkspacesInv, MembersBelong, Managers
<1>5. Knows(r)'
  BY <1>1, <1>2, <1>3, <1>4 DEF Knows, Placed, OwnerKnows, PurgeKnows, ManagerKnows,
       Manages, PeerKnows, WriterKnows, Looked, Cleared
<1> QED
  BY <1>1, <1>2, <1>5, LookStep DEF Looked, Cleared

LEMMA ManageStep ==
    ASSUME WorkspacesInv, NEW r \in Requests, NEW a \in Users, NEW u \in Users,
           NEW w \in WorkspaceIds, NEW x \in Assignable \cup {"none"},
           ManageMember(r, a, w, u, x)
    PROVE  WorkspacesInv'
<1> DEFINE op == IF x = "none" THEN "kick" ELSE "update"
           row == [Idle EXCEPT !.op = op, !.actor = a, !.workspace = w,
                               !.target = u, !.role = x]
<1>1. /\ row \in Request /\ row.op \in {"kick", "update"} /\ row.actor = a
      /\ row.workspace = w /\ row.target = u
  BY DEF Idle, Request
<1>2. req' = [req EXCEPT ![r] = row] /\ UNCHANGED <<workspace, role, link, late>>
  BY DEF ManageMember
<1> HIDE DEF row
<1>3. req'[r] = row
  BY <1>1, <1>2, Asking DEF WorkspacesInv
<1>4. role[w][a] \in Managers /\ workspace[w] = "live" /\ u # a
  BY DEF ManageMember, HasRole, WorkspacesInv, MembersBelong, Managers
<1>5. Knows(r)'
  BY <1>1, <1>2, <1>3, <1>4 DEF Knows, Placed, OwnerKnows, PurgeKnows, ManagerKnows,
       Manages, PeerKnows, WriterKnows, Looked, Cleared
<1> QED
  BY <1>1, <1>2, <1>5, LookStep DEF Looked, Cleared

LEMMA TargetStep ==
    ASSUME WorkspacesInv, NEW r \in Requests, LookAtTarget(r)
    PROVE  WorkspacesInv'
<1> DEFINE x == role[req[r].workspace][req[r].target]
           op == IF req[r].op = "kick" THEN "kick looked" ELSE "update looked"
           row == [req[r] EXCEPT !.op = op, !.seen = x, !.missed = req[r].missed \ {"target"}]
<1>0. req[r] \in Request /\ Knows(r) /\ req[r].op \in {"update", "kick"}
  BY DEF WorkspacesInv, TypeOK, LookAtTarget
<1>1. x \in Assignable
  BY <1>0 DEF LookAtTarget, MayBeManaged, Knows, Placed, ManagerKnows, WorkspacesInv, TypeOK,
              Assignable
<1>2. req' = [req EXCEPT ![r] = row] /\ UNCHANGED <<workspace, role, link, late>>
  BY DEF LookAtTarget
<1>3. op \in Looked
  BY DEF Looked
<1> HIDE DEF x, op
<1>4. /\ row \in Request /\ row.op = op /\ row.actor = req[r].actor
      /\ row.workspace = req[r].workspace /\ row.target = req[r].target
      /\ row.seen = x /\ row.missed = req[r].missed \ {"target"}
  BY <1>0, <1>1, <1>3 DEF Request, Assignable
<1> HIDE DEF row
<1>5. req'[r] = row
  BY <1>2, <1>4, Asking DEF WorkspacesInv
<1>6. /\ req[r].actor \in Users /\ req[r].workspace \in WorkspaceIds
      /\ workspace[req[r].workspace] # "unused"
      /\ req[r].target \in Users \ {req[r].actor}
      /\ Manages(r, req[r].workspace)
  BY <1>0 DEF Knows, Placed, ManagerKnows
<1>7. Placed(r)' /\ ManagerKnows(r)'
  BY <1>2, <1>4, <1>5, <1>6 DEF Placed, ManagerKnows, Manages
<1>8. PeerKnows(r)'
  BY <1>1, <1>2, <1>3, <1>4, <1>5 DEF PeerKnows, Assignable, x, Looked, Cleared
<1>9. OwnerKnows(r)' /\ PurgeKnows(r)' /\ WriterKnows(r)'
  BY <1>3, <1>4, <1>5 DEF OwnerKnows, PurgeKnows, WriterKnows, Looked
<1> QED
  BY <1>1, <1>2, <1>4, <1>7, <1>8, <1>9, LookStep DEF Knows

LEMMA ActorStep ==
    ASSUME WorkspacesInv, NEW r \in Requests, LookAtActor(r)
    PROVE  WorkspacesInv'
<1> DEFINE op == IF req[r].op = "kick looked" THEN "kick cleared" ELSE "update cleared"
           row == [req[r] EXCEPT !.op = op]
<1>0. req[r] \in Request /\ Knows(r) /\ req[r].op \in Looked /\ req[r].seen \in Assignable
  BY DEF WorkspacesInv, TypeOK, LookAtActor
<1>2. req' = [req EXCEPT ![r] = row] /\ UNCHANGED <<workspace, role, link, late>>
  BY DEF LookAtActor
<1>3. op \in Cleared
  BY DEF Cleared
<1> HIDE DEF op
<1>4. /\ row \in Request /\ row.op = op /\ row.actor = req[r].actor
      /\ row.workspace = req[r].workspace /\ row.target = req[r].target
      /\ row.seen = req[r].seen /\ row.missed = req[r].missed
  BY <1>0, <1>3 DEF Request
<1> HIDE DEF row
<1>5. req'[r] = row
  BY <1>2, <1>4, Asking DEF WorkspacesInv
<1>7. Placed(r)' /\ ManagerKnows(r)'
  BY <1>0, <1>2, <1>3, <1>4, <1>5 DEF Knows, Placed, ManagerKnows, Manages, Looked, Cleared
<1>8. PeerKnows(r)'
  BY <1>0, <1>2, <1>3, <1>4, <1>5 DEF Knows, PeerKnows, ManagerKnows, Manages, Managers,
       LookAtActor, MayManage
<1>9. OwnerKnows(r)' /\ PurgeKnows(r)' /\ WriterKnows(r)'
  BY <1>3, <1>4, <1>5 DEF OwnerKnows, PurgeKnows, WriterKnows, Cleared
<1> QED
  BY <1>0, <1>2, <1>4, <1>7, <1>8, <1>9, LookStep DEF Knows

LEMMA CreateLinkStep ==
    ASSUME WorkspacesInv, NEW r \in Requests, NEW u \in Users, NEW w \in WorkspaceIds,
           CreateLink(r, u, w)
    PROVE  WorkspacesInv'
<1> DEFINE row == [Idle EXCEPT !.op = "create", !.actor = u, !.workspace = w]
<1>1. row \in Request /\ row.op = "create" /\ row.actor = u /\ row.workspace = w
  BY DEF Idle, Request
<1>2. req' = [req EXCEPT ![r] = row] /\ UNCHANGED <<workspace, role, link, late>>
  BY DEF CreateLink
<1> HIDE DEF row
<1>3. req'[r] = row
  BY <1>1, <1>2, Asking DEF WorkspacesInv
<1>4. role[w][u] \in Writers /\ workspace[w] = "live"
  BY DEF CreateLink, HasRole, Writers, WorkspacesInv, MembersBelong
<1>5. Knows(r)'
  BY <1>1, <1>2, <1>3, <1>4 DEF Knows, Placed, OwnerKnows, PurgeKnows, ManagerKnows,
       PeerKnows, WriterKnows, Looked, Cleared
<1> QED
  BY <1>1, <1>2, <1>5, LookStep DEF Looked, Cleared

LEMMA FindLinkStep ==
    ASSUME WorkspacesInv, NEW r \in Requests, NEW u \in Users, NEW l \in Links,
           FindLink(r, u, l)
    PROVE  WorkspacesInv'
<1> DEFINE w == link[l].workspace
           row == [Idle EXCEPT !.op = "find", !.actor = u, !.links = {l}, !.workspace = w]
<1>1. /\ w \in WorkspaceIds /\ workspace[w] = "live" /\ link[l].status = "live"
  BY DEF FindLink, WorkspacesInv, TypeOK, LinkRow, OrphansCameLate
<1>2. req' = [req EXCEPT ![r] = row] /\ UNCHANGED <<workspace, role, link, late>>
  BY DEF FindLink
<1> HIDE DEF w
<1>3. /\ row \in Request /\ row.op = "find" /\ row.actor = u /\ row.workspace = w
      /\ row.links = {l}
  BY <1>1 DEF Idle, Request
<1> HIDE DEF row
<1>4. req'[r] = row
  BY <1>2, <1>3, Asking DEF WorkspacesInv
<1>5. Knows(r)'
  BY <1>1, <1>2, <1>3, <1>4 DEF w, Knows, Placed, OwnerKnows, PurgeKnows, ManagerKnows,
       PeerKnows, WriterKnows, Looked, Cleared
<1> QED
  BY <1>2, <1>3, <1>5, LookStep DEF Looked, Cleared

LEMMA AuthorizeStep ==
    ASSUME WorkspacesInv, NEW r \in Requests, Authorize(r)
    PROVE  WorkspacesInv'
<1> DEFINE row == [req[r] EXCEPT !.op = "write", !.missed = {}]
<1>0. req[r] \in Request /\ Knows(r) /\ req[r].op = "find"
  BY DEF WorkspacesInv, TypeOK, Authorize
<1>1. /\ row \in Request /\ row.op = "write" /\ row.actor = req[r].actor
      /\ row.workspace = req[r].workspace /\ row.links = req[r].links
  BY <1>0 DEF Request
<1>2. req' = [req EXCEPT ![r] = row] /\ UNCHANGED <<workspace, role, link, late>>
  BY DEF Authorize
<1> HIDE DEF row
<1>3. req'[r] = row
  BY <1>1, <1>2, Asking DEF WorkspacesInv
<1>4. role[req[r].workspace][req[r].actor] \in Writers
  BY DEF Authorize, HasRole
<1>5. Knows(r)'
  BY <1>0, <1>1, <1>2, <1>3, <1>4 DEF Knows, Placed, OwnerKnows, PurgeKnows, ManagerKnows,
       PeerKnows, WriterKnows, Looked, Cleared
<1> QED
  BY <1>1, <1>2, <1>5, LookStep DEF Looked, Cleared

LEMMA FindMembershipStep ==
    ASSUME WorkspacesInv, NEW r \in Requests, NEW u \in Users, FindMembership(r, u)
    PROVE  WorkspacesInv'
<1>1. PICK w \in WorkspaceIds \cup {NoWorkspace} :
        req' = [req EXCEPT ![r] = [Idle EXCEPT !.op = "backfill", !.actor = u, !.workspace = w]]
  BY DEF FindMembership, Joined
<1> DEFINE row == [Idle EXCEPT !.op = "backfill", !.actor = u, !.workspace = w]
<1>2. row \in Request /\ row.op = "backfill"
  BY DEF Idle, Request
<1>3. req' = [req EXCEPT ![r] = row] /\ UNCHANGED <<workspace, role, link, late>>
  BY <1>1 DEF FindMembership
<1> HIDE DEF row
<1>4. req'[r] = row
  BY <1>2, <1>3, Asking DEF WorkspacesInv
<1>5. Knows(r)'
  BY <1>2, <1>4 DEF Knows, Placed, OwnerKnows, PurgeKnows, ManagerKnows, PeerKnows,
       WriterKnows, Looked, Cleared
<1> QED
  BY <1>2, <1>3, <1>5, LookStep DEF Looked, Cleared

LEMMA FailStep ==
    ASSUME WorkspacesInv, NEW r \in Requests, Fail(r)
    PROVE  WorkspacesInv'
<1>1. req' = [req EXCEPT ![r] = Idle] /\ UNCHANGED <<workspace, role, link, late>>
  BY DEF Fail, Ends
<1>2. req'[r] = Idle
  BY <1>1, IdleType, Asking DEF WorkspacesInv
<1>3. Knows(r)'
  BY <1>2, IdleKnows
<1>4. Idle.op \notin Looked \cup Cleared
  BY IdleType DEF Looked, Cleared
<1> QED
  BY <1>1, <1>3, <1>4, IdleType, LookStep

(* The steps that change rows: it is enough that they keep the parts of the *)
(* invariant about rows, and that the other requests follow.                *)
LEMMA ChangeStep ==
    ASSUME WorkspacesInv, NEW r \in Requests, TypeOK', MembersBelong', LinksHaveHomes',
           OrphansCameLate', Evolves, req'[r] = Idle,
           \A q \in Requests \ {r} : Follows(q)
    PROVE  WorkspacesInv'
<1>1. ASSUME NEW q \in Requests PROVE Follows(q)
  BY DEF Follows, Idle
<1> QED
  BY <1>1, KnowsKept DEF WorkspacesInv

LEMMA CreateStep ==
    ASSUME WorkspacesInv, NEW u \in Users, NEW w \in WorkspaceIds, Create(u, w)
    PROVE  WorkspacesInv'
<1>1. TypeOK'
  BY DEF Create, WorkspacesInv, TypeOK, Roles
<1>2. MembersBelong'
  BY DEF Create, WorkspacesInv, TypeOK, MembersBelong
<1>3. LinksHaveHomes' /\ OrphansCameLate'
  BY DEF Create, WorkspacesInv, TypeOK, LinkRow, LinksHaveHomes, OrphansCameLate
<1>4. Evolves
  BY DEF Create, WorkspacesInv, TypeOK, Evolves, LinksOf
<1>5. ASSUME NEW q \in Requests PROVE Follows(q)
  BY DEF Create, WorkspacesInv, TypeOK, Follows, Same, Told
<1> QED
  BY <1>1, <1>2, <1>3, <1>4, <1>5, KnowsKept DEF WorkspacesInv

(* A request that is overtaken is told. *)
LEMMA Overtaken ==
    ASSUME TypeOK, NEW r \in Requests, NEW w \in WorkspaceIds, NEW us,
           req' = [Overtake(w, us) EXCEPT ![r] = Idle],
           \A v \in WorkspaceIds, u \in Users :
             role'[v][u] # role[v][u] => v = w /\ u \in us
    PROVE  /\ req' \in [Requests -> Request]
           /\ req'[r] = Idle
           /\ \A q \in Requests :
                req'[q].op \in Looked \cup Cleared => req'[q].seen \in Assignable
           /\ \A q \in Requests \ {r} : Follows(q)
<1>1. Overtake(w, us) \in [Requests -> Request]
  BY OvertakeType
<1>2. req' \in [Requests -> Request] /\ req'[r] = Idle
  BY <1>1, IdleType
<1>3. ASSUME NEW q \in Requests \ {r} PROVE req'[q] = Overtake(w, us)[q]
  BY <1>1
<1>4. ASSUME NEW q \in Requests \ {r} PROVE Same(q) /\ Told(q)
  BY <1>3, OvertakeType DEF Same, Told
<1>5. ASSUME NEW q \in Requests, req'[q].op \in Looked \cup Cleared
      PROVE  req'[q].seen \in Assignable
  <2>1. q # r
    BY <1>2, <1>5 DEF Idle, Looked, Cleared
  <2>2. req'[q].op = req[q].op /\ req'[q].seen = req[q].seen
    BY <1>4, <2>1 DEF Same
  <2> QED
    BY <1>5, <2>2 DEF TypeOK
<1> QED
  BY <1>2, <1>4, <1>5 DEF Follows

LEMMA SetRoleStep ==
    ASSUME WorkspacesInv, NEW r \in Requests, NEW w \in WorkspaceIds, NEW u \in Users,
           NEW x \in Assignable \cup {"none"}, SetRole(r, w, u, x),
           workspace[w] = "live", UNCHANGED <<workspace, link, late>>
    PROVE  WorkspacesInv'
<1>1. /\ role' = [role EXCEPT ![w][u] = x]
      /\ role' \in [WorkspaceIds -> [Users -> Roles \cup {"none"}]]
  BY DEF SetRole, WorkspacesInv, TypeOK, Assignable
<1>2. \A v \in WorkspaceIds, y \in Users : role'[v][y] # role[v][y] => v = w /\ y = u
  BY <1>1 DEF WorkspacesInv, TypeOK
<1>3. role'[w][u] = x
  BY <1>1 DEF WorkspacesInv, TypeOK
<1>4. /\ req' \in [Requests -> Request]
      /\ req'[r] = Idle
      /\ \A q \in Requests :
           req'[q].op \in Looked \cup Cleared => req'[q].seen \in Assignable
      /\ \A q \in Requests \ {r} : Follows(q)
  <2>1. req' = [Overtake(w, {u}) EXCEPT ![r] = Idle]
    BY DEF SetRole
  <2>2. \A v \in WorkspaceIds, y \in Users : role'[v][y] # role[v][y] => v = w /\ y \in {u}
    BY <1>2
  <2>3. TypeOK
    BY DEF WorkspacesInv
  <2> HIDE DEF SetRole
  <2> QED
    BY <2>1, <2>2, <2>3, Overtaken
<1>5. TypeOK'
  BY <1>1, <1>4 DEF WorkspacesInv, TypeOK
<1>6. MembersBelong'
  BY <1>2 DEF WorkspacesInv, MembersBelong
<1>7. LinksHaveHomes' /\ OrphansCameLate'
  BY DEF WorkspacesInv, LinksHaveHomes, OrphansCameLate
<1>8. Evolves
  BY <1>2, <1>3 DEF Evolves, LinksOf, Assignable
<1> QED
  BY <1>4, <1>5, <1>6, <1>7, <1>8, ChangeStep

LEMMA UpsertStep ==
    ASSUME WorkspacesInv, NEW r \in Requests, UpsertMember(r)
    PROVE  WorkspacesInv'
<1>1. Knows(r) /\ req[r] \in Request /\ req[r].op = "add"
  BY DEF UpsertMember, WorkspacesInv, TypeOK
<1>2. /\ req[r].workspace \in WorkspaceIds /\ req[r].target \in Users
      /\ req[r].role \in Assignable \cup {"none"}
  BY <1>1 DEF Knows, Placed, ManagerKnows, Request
<1> QED
  BY <1>2, SetRoleStep DEF UpsertMember

LEMMA WriteMemberStep ==
    ASSUME WorkspacesInv, NEW r \in Requests, WriteMember(r)
    PROVE  WorkspacesInv'
<1>1. Knows(r) /\ req[r] \in Request /\ req[r].op \in Cleared
  BY DEF WriteMember, WorkspacesInv, TypeOK
<1>2. /\ req[r].workspace \in WorkspaceIds /\ req[r].target \in Users
      /\ req[r].role \in Assignable \cup {"none"}
  BY <1>1 DEF Knows, Placed, ManagerKnows, Request, Cleared
<1>3. workspace[req[r].workspace] = "live"
  BY <1>2 DEF WriteMember, WorkspacesInv, MembersBelong
<1> QED
  BY <1>2, <1>3, SetRoleStep DEF WriteMember

LEMMA RemoveWorkspaceStep ==
    ASSUME WorkspacesInv, NEW r \in Requests, RemoveWorkspace(r)
    PROVE  WorkspacesInv'
<1> DEFINE w == req[r].workspace
           us == {u \in Users : role[w][u] # "none"}
<1>0. TypeOK /\ Knows(r) /\ w \in WorkspaceIds /\ workspace[w] = "live" /\ req[r].op = "purge"
  BY DEF RemoveWorkspace, WorkspacesInv, Knows, Placed
<1>1. /\ workspace' = [workspace EXCEPT ![w] = "deleted"]
      /\ role' = [role EXCEPT ![w] = [u \in Users |-> "none"]]
      /\ req' = [Overtake(w, us) EXCEPT ![r] = Idle]
      /\ late' = late
  BY DEF RemoveWorkspace
<1> HIDE DEF us
<1>2. ASSUME NEW l \in Links
      PROVE  link'[l] = IF l \in req[r].links THEN [link[l] EXCEPT !.status = "deleted"]
                        ELSE IF l \in LinksOf(w) THEN [link[l] EXCEPT !.workspace = NoWorkspace]
                        ELSE link[l]
  BY DEF RemoveWorkspace, Purged
<1>3. DOMAIN link' = Links /\ link' = [l \in Links |-> link'[l]]
  BY DEF RemoveWorkspace
<1> HIDE DEF w
<1>4. \A l \in Links :
        /\ link'[l] \in LinkRow /\ link'[l].home = link[l].home
        /\ \/ l \in req[r].links /\ link'[l].status = "deleted"
           \/ /\ l \in LinksOf(w) \ req[r].links
              /\ link'[l].status = "live" /\ link'[l].workspace = NoWorkspace
           \/ l \notin LinksOf(w) /\ link'[l] = link[l]
  <2>1. SUFFICES ASSUME NEW l \in Links
                 PROVE  /\ link'[l] \in LinkRow /\ link'[l].home = link[l].home
                        /\ \/ l \in req[r].links /\ link'[l].status = "deleted"
                           \/ /\ l \in LinksOf(w) \ req[r].links
                              /\ link'[l].status = "live" /\ link'[l].workspace = NoWorkspace
                           \/ l \notin LinksOf(w) /\ link'[l] = link[l]
    OBVIOUS
  <2>2. link[l] \in LinkRow
    BY <1>0 DEF TypeOK
  <2>3. CASE l \in req[r].links
    BY <1>2, <2>2, <2>3 DEF LinkRow
  <2>4. CASE l \in LinksOf(w) \ req[r].links
    <3>1. link'[l] = [link[l] EXCEPT !.workspace = NoWorkspace]
      BY <1>2, <2>4
    <3>2. link[l].status = "live"
      BY <2>4 DEF LinksOf
    <3> QED
      BY <2>2, <2>4, <3>1, <3>2 DEF LinkRow
  <2>5. CASE l \notin LinksOf(w) \cup req[r].links
    BY <1>2, <2>2, <2>5
  <2> QED
    BY <2>3, <2>4, <2>5
<1>5. /\ \A v \in WorkspaceIds : workspace'[v] = IF v = w THEN "deleted" ELSE workspace[v]
      /\ \A v \in WorkspaceIds, y \in Users :
           role'[v][y] = IF v = w THEN "none" ELSE role[v][y]
  BY <1>0, <1>1 DEF TypeOK
<1>6. \A v \in WorkspaceIds, y \in Users : role'[v][y] # role[v][y] => v = w /\ y \in us
  BY <1>5 DEF us
<1>7. /\ req' \in [Requests -> Request]
      /\ req'[r] = Idle
      /\ \A q \in Requests :
           req'[q].op \in Looked \cup Cleared => req'[q].seen \in Assignable
      /\ \A q \in Requests \ {r} : Follows(q)
  <2>1. TypeOK /\ w \in WorkspaceIds
    BY <1>0
  <2>2. req' = [Overtake(w, us) EXCEPT ![r] = Idle]
    BY <1>1
  <2> QED
    BY <1>6, <2>1, <2>2, Overtaken
<1>8. TypeOK'
  <2>1. /\ workspace' \in [WorkspaceIds -> {"unused", "live", "deleted"}]
        /\ role' \in [WorkspaceIds -> [Users -> Roles \cup {"none"}]]
    BY <1>0, <1>1 DEF TypeOK
  <2>2. link' \in [Links -> LinkRow]
    BY <1>3, <1>4
  <2> QED
    BY <1>0, <1>1, <1>7, <2>1, <2>2 DEF TypeOK
<1>9. MembersBelong'
  BY <1>5 DEF WorkspacesInv, MembersBelong
<1>10. LinksHaveHomes'
  BY <1>4 DEF WorkspacesInv, LinksHaveHomes, LinksOf
<1>11. OrphansCameLate'
  <2>1. SUFFICES ASSUME NEW l \in Links, link'[l].status = "live"
                 PROVE  /\ link'[l].workspace # link'[l].home => l \in late
                        /\ link'[l].workspace # NoWorkspace
                             => workspace'[link'[l].workspace] = "live"
    BY <1>1 DEF OrphansCameLate
  <2>2. CASE l \in LinksOf(w) \ req[r].links /\ link'[l].workspace = NoWorkspace
    BY <1>0, <2>2 DEF Knows, PurgeKnows, w
  <2>3. CASE l \notin LinksOf(w) /\ link'[l] = link[l]
    <3>1. link[l].workspace # w /\ link[l].workspace \in WorkspaceIds \cup {NoWorkspace}
      BY <1>0, <2>1, <2>3 DEF LinksOf, TypeOK, LinkRow
    <3> QED
      BY <1>5, <2>1, <2>3, <3>1 DEF WorkspacesInv, OrphansCameLate
  <2> QED
    BY <1>4, <2>1, <2>2, <2>3
<1>12. Evolves
  <2>1. /\ \A v \in WorkspaceIds : /\ workspace[v] # "unused" => workspace'[v] # "unused"
                                   /\ workspace[v] = "deleted" => workspace'[v] = "deleted"
        /\ \A v \in WorkspaceIds, u \in Users :
             role'[v][u] = "OWNER" => role[v][u] = "OWNER" \/ workspace[v] = "unused"
        /\ late \subseteq late'
    BY <1>1, <1>5
  <2>2. ASSUME NEW l \in Links
        PROVE  /\ link[l].status # "unused" => link'[l].status # "unused"
               /\ link[l].status = "deleted" => link'[l].status = "deleted"
               /\ (link'[l].status = "live" /\ link[l].status = "live") =>
                    \/ link'[l].workspace = link[l].workspace
                    \/ link[l].workspace = NoWorkspace
                    \/ workspace'[link[l].workspace] = "deleted"
    BY <1>0, <1>4, <1>5 DEF LinksOf
  <2>3. ASSUME NEW q \in Requests, NEW l \in Links, req[q].op = "purge",
               link'[l].status = "live", link'[l].workspace = req[q].workspace
        PROVE  l \in LinksOf(req[q].workspace)
    <3>1. req[q].workspace # NoWorkspace
      BY <2>3, WorkspaceConstants DEF WorkspacesInv, Knows, Placed
    <3> QED
      BY <1>4, <2>3, <3>1 DEF LinksOf
  <2> QED
    BY <2>1, <2>2, <2>3 DEF Evolves
<1> QED
  BY <1>7, <1>8, <1>9, <1>10, <1>11, <1>12, ChangeStep

(* The steps that write links and end their request. *)
LEMMA Ended ==
    ASSUME TypeOK, NEW r \in Requests, Ends(r),
           \A v \in WorkspaceIds, u \in Users :
             role'[v][u] # role[v][u] => workspace[v] = "unused"
    PROVE  /\ req' \in [Requests -> Request]
           /\ req'[r] = Idle
           /\ \A q \in Requests :
                req'[q].op \in Looked \cup Cleared => req'[q].seen \in Assignable
           /\ \A q \in Requests \ {r} : Follows(q)
<1>1. /\ req' \in [Requests -> Request] /\ req'[r] = Idle
      /\ \A q \in Requests \ {r} : req'[q] = req[q]
  BY IdleType, Asking DEF Ends
<1>2. ASSUME NEW q \in Requests \ {r} PROVE Follows(q)
  BY <1>1 DEF Follows, Same, Told
<1>3. ASSUME NEW q \in Requests, req'[q].op \in Looked \cup Cleared
      PROVE  req'[q].seen \in Assignable
  <2>1. q # r
    BY <1>1, <1>3, IdleType DEF Looked, Cleared
  <2> QED
    BY <1>1, <1>3, <2>1 DEF TypeOK
<1> QED
  BY <1>1, <1>2, <1>3

LEMMA InsertStep ==
    ASSUME WorkspacesInv, NEW r \in Requests, NEW l \in Links, InsertLink(r, l)
    PROVE  WorkspacesInv'
<1> DEFINE w == req[r].workspace
           a == req[r].actor
           row == [status |-> "live", creator |-> a, workspace |-> w, home |-> w]
<1>0. /\ TypeOK /\ w \in WorkspaceIds /\ a \in Users /\ workspace[w] = "live"
      /\ link[l].status = "unused"
  BY DEF InsertLink, WorkspacesInv, Knows, Placed
<1>1. /\ link' = [link EXCEPT ![l] = row]
      /\ UNCHANGED <<workspace, role>>
      /\ Ends(r)
  BY DEF InsertLink
<1>2. /\ late' \subseteq Links /\ late \subseteq late'
      /\ (\E q \in Requests : req[q].op = "purge" /\ req[q].workspace = w) => l \in late'
  BY <1>0 DEF InsertLink, TypeOK
<1>3. /\ row \in LinkRow /\ row.status = "live" /\ row.workspace = w /\ row.home = w
  BY <1>0 DEF LinkRow
<1> HIDE DEF row, w, a
<1>4. /\ link' \in [Links -> LinkRow]
      /\ link'[l] = row
      /\ \A k \in Links \ {l} : link'[k] = link[k]
  BY <1>0, <1>1, <1>3 DEF TypeOK
<1>5. /\ req' \in [Requests -> Request]
      /\ req'[r] = Idle
      /\ \A q \in Requests :
           req'[q].op \in Looked \cup Cleared => req'[q].seen \in Assignable
      /\ \A q \in Requests \ {r} : Follows(q)
  <2>1. \A v \in WorkspaceIds, u \in Users :
          role'[v][u] # role[v][u] => workspace[v] = "unused"
    BY <1>1
  <2> QED
    BY <1>0, <1>1, <2>1, Ended
<1>6. TypeOK'
  BY <1>0, <1>1, <1>2, <1>4, <1>5 DEF TypeOK
<1>7. MembersBelong'
  BY <1>1 DEF WorkspacesInv, MembersBelong
<1>8. LinksHaveHomes'
  BY <1>0, <1>3, <1>4 DEF WorkspacesInv, LinksHaveHomes
<1>9. OrphansCameLate'
  BY <1>0, <1>1, <1>2, <1>3, <1>4 DEF WorkspacesInv, OrphansCameLate
<1>10. Evolves
  <2>1. ASSUME NEW q \in Requests, NEW k \in Links, req[q].op = "purge",
               link'[k].status = "live", link'[k].workspace = req[q].workspace
        PROVE  k \in late' \cup LinksOf(req[q].workspace)
    BY <1>2, <1>3, <1>4, <2>1 DEF LinksOf
  <2> QED
    BY <1>0, <1>1, <1>2, <1>3, <1>4, <2>1 DEF Evolves
<1> QED
  BY <1>5, <1>6, <1>7, <1>8, <1>9, <1>10, ChangeStep

LEMMA WriteLinkStep ==
    ASSUME WorkspacesInv, NEW r \in Requests, NEW l \in Links, WriteLink(r, l)
    PROVE  WorkspacesInv'
<1>1. TypeOK /\ Ends(r) /\ UNCHANGED <<workspace, role, late>>
  BY DEF WriteLink, WorkspacesInv
<1>2. /\ link' \in [Links -> LinkRow]
      /\ \A k \in Links : \/ link'[k] = link[k]
                          \/ link'[k].status = "deleted" /\ link[k].status = "live"
  <2>1. CASE link' = link
    BY <1>1, <2>1 DEF TypeOK
  <2>2. CASE link' = [link EXCEPT ![l].status = "deleted"]
    <3> DEFINE row == [link[l] EXCEPT !.status = "deleted"]
    <3>1. row \in LinkRow /\ row.status = "deleted"
      BY <1>1 DEF TypeOK, LinkRow
    <3>2. link' = [link EXCEPT ![l] = row]
      BY <2>2
    <3> HIDE DEF row
    <3>3. link[l].status = "live"
      BY DEF WriteLink
    <3> QED
      BY <1>1, <3>1, <3>2, <3>3 DEF TypeOK
  <2> QED
    BY <2>1, <2>2 DEF WriteLink
<1>3. /\ req' \in [Requests -> Request]
      /\ req'[r] = Idle
      /\ \A q \in Requests :
           req'[q].op \in Looked \cup Cleared => req'[q].seen \in Assignable
      /\ \A q \in Requests \ {r} : Follows(q)
  <2>1. \A v \in WorkspaceIds, u \in Users :
          role'[v][u] # role[v][u] => workspace[v] = "unused"
    BY <1>1
  <2> QED
    BY <1>1, <2>1, Ended
<1>4. TypeOK'
  BY <1>1, <1>2, <1>3 DEF TypeOK
<1>5. MembersBelong'
  BY <1>1 DEF WorkspacesInv, MembersBelong
<1>6. LinksHaveHomes' /\ OrphansCameLate'
  BY <1>1, <1>2 DEF WorkspacesInv, LinksHaveHomes, OrphansCameLate
<1>7. Evolves
  BY <1>1, <1>2 DEF Evolves, LinksOf
<1> QED
  BY <1>3, <1>4, <1>5, <1>6, <1>7, ChangeStep

LEMMA AdoptStep ==
    ASSUME WorkspacesInv, NEW r \in Requests, NEW w \in WorkspaceIds, AdoptLinks(r, w)
    PROVE  WorkspacesInv'
<1> DEFINE a == req[r].actor
<1>0. TypeOK /\ Ends(r) /\ late' = late
  BY DEF AdoptLinks, WorkspacesInv
<1>1. /\ workspace' \in [WorkspaceIds -> {"unused", "live", "deleted"}]
      /\ workspace'[w] = "live" /\ workspace[w] # "deleted"
      /\ \A v \in WorkspaceIds \ {w} : workspace'[v] = workspace[v]
  BY DEF AdoptLinks, WorkspacesInv, TypeOK
<1>2. /\ role' \in [WorkspaceIds -> [Users -> Roles \cup {"none"}]]
      /\ \A v \in WorkspaceIds, u \in Users :
           role'[v][u] # role[v][u] => v = w /\ workspace[v] = "unused"
  <2>1. CASE workspace[w] = "unused" /\ role' = [role EXCEPT ![w][a] = "OWNER"]
    <3> HIDE DEF a
    <3> QED
      BY <1>0, <2>1 DEF TypeOK, Roles
  <2>2. CASE role' = role
    BY <1>0, <2>2 DEF TypeOK
  <2> QED
    BY <2>1, <2>2 DEF AdoptLinks
<1>3. /\ link' \in [Links -> LinkRow]
      /\ \A l \in Links :
           /\ link'[l].status = link[l].status /\ link'[l].home = link[l].home
           /\ \/ link'[l].workspace = link[l].workspace
              \/ /\ link[l].status = "live" /\ link[l].workspace = NoWorkspace
                 /\ link'[l].workspace = w
  <2>1. link' = Adopted(a, w)
    BY DEF AdoptLinks
  <2> HIDE DEF a
  <2>2. ASSUME NEW l \in Links
        PROVE  /\ link'[l] \in LinkRow
               /\ link'[l].status = link[l].status /\ link'[l].home = link[l].home
               /\ \/ link'[l].workspace = link[l].workspace
                  \/ /\ link[l].status = "live" /\ link[l].workspace = NoWorkspace
                     /\ link'[l].workspace = w
    <3>1. link[l] \in LinkRow
      BY <1>0 DEF TypeOK
    <3>2. CASE link[l].status = "live" /\ link[l].creator = a /\ link[l].workspace = NoWorkspace
      <4>1. link'[l] = [link[l] EXCEPT !.workspace = w]
        BY <2>1, <3>2 DEF Adopted
      <4> QED
        BY <3>1, <3>2, <4>1 DEF LinkRow
    <3>3. CASE ~(link[l].status = "live" /\ link[l].creator = a
                 /\ link[l].workspace = NoWorkspace)
      <4>1. link'[l] = link[l]
        BY <2>1, <3>3 DEF Adopted
      <4> QED
        BY <3>1, <4>1
    <3> QED
      BY <3>2, <3>3
  <2>3. link' = [l \in Links |-> link'[l]]
    BY <2>1 DEF Adopted
  <2> QED
    BY <2>2, <2>3
<1>4. /\ req' \in [Requests -> Request]
      /\ req'[r] = Idle
      /\ \A q \in Requests :
           req'[q].op \in Looked \cup Cleared => req'[q].seen \in Assignable
      /\ \A q \in Requests \ {r} : Follows(q)
  <2>1. \A v \in WorkspaceIds, u \in Users :
          role'[v][u] # role[v][u] => workspace[v] = "unused"
    BY <1>2
  <2> QED
    BY <1>0, <2>1, Ended
<1>5. TypeOK'
  BY <1>0, <1>1, <1>2, <1>3, <1>4 DEF TypeOK
<1>6. MembersBelong'
  BY <1>1, <1>2 DEF WorkspacesInv, MembersBelong
<1>7. LinksHaveHomes'
  BY <1>3 DEF WorkspacesInv, LinksHaveHomes
<1>8. \A l \in Links : (link[l].status = "live" /\ link[l].workspace = NoWorkspace) => l \in late
  BY WorkspaceConstants DEF WorkspacesInv, LinksHaveHomes, OrphansCameLate
<1>9. OrphansCameLate'
  <2>1. SUFFICES ASSUME NEW l \in Links, link[l].status = "live"
                 PROVE  /\ link'[l].workspace # link[l].home => l \in late
                        /\ link'[l].workspace # NoWorkspace
                             => workspace'[link'[l].workspace] = "live"
    BY <1>0, <1>3 DEF OrphansCameLate
  <2>2. link[l].workspace \in WorkspaceIds \cup {NoWorkspace}
    BY <1>0 DEF TypeOK, LinkRow
  <2> QED
    BY <1>1, <1>3, <1>8, <2>1, <2>2 DEF WorkspacesInv, OrphansCameLate
<1>10. Evolves
  <2>1. ASSUME NEW q \in Requests, NEW l \in Links, req[q].op = "purge",
               link'[l].status = "live", link'[l].workspace = req[q].workspace
        PROVE  l \in late' \cup LinksOf(req[q].workspace)
    BY <1>0, <1>3, <1>8, <2>1 DEF LinksOf
  <2>2. \A v \in WorkspaceIds, u \in Users :
          role'[v][u] = "OWNER" => role[v][u] = "OWNER" \/ workspace[v] = "unused"
    BY <1>2
  <2> QED
    BY <1>0, <1>1, <1>3, <2>1, <2>2 DEF Evolves
<1> QED
  BY <1>4, <1>5, <1>6, <1>7, <1>9, <1>10, ChangeStep

LEMMA WorkspacesInit == Init => WorkspacesInv
<1> SUFFICES ASSUME Init PROVE WorkspacesInv
  OBVIOUS
<1>1. \A r \in Requests : req[r] = Idle
  BY DEF Init
<1>2. TypeOK
  <2>1. req \in [Requests -> Request]
    BY IdleType DEF Init
  <2>2. \A r \in Requests : req[r].op \notin Looked \cup Cleared
    BY <1>1, IdleType DEF Looked, Cleared
  <2> QED
    BY <2>1, <2>2 DEF Init, TypeOK, LinkRow
<1>3. MembersBelong /\ LinksHaveHomes /\ OrphansCameLate
  BY DEF Init, MembersBelong, LinksHaveHomes, OrphansCameLate
<1>4. ASSUME NEW r \in Requests PROVE Knows(r)
  BY <1>1, IdleType DEF Knows, Placed, OwnerKnows, PurgeKnows, ManagerKnows, PeerKnows,
       WriterKnows, Looked, Cleared
<1> QED
  BY <1>2, <1>3, <1>4 DEF WorkspacesInv

LEMMA StutterStep ==
    ASSUME WorkspacesInv, UNCHANGED vars
    PROVE  WorkspacesInv'
<1>1. ASSUME NEW r \in Requests PROVE Knows(r)'
  BY DEF WorkspacesInv, vars, Knows, Placed, OwnerKnows, PurgeKnows, ManagerKnows, Manages,
         PeerKnows, WriterKnows, LinksOf
<1>2. TypeOK'
  BY DEF WorkspacesInv, vars, TypeOK
<1> QED
  BY <1>1, <1>2 DEF WorkspacesInv, vars, MembersBelong, LinksHaveHomes, OrphansCameLate

LEMMA WorkspacesStep == WorkspacesInv /\ [Next]_vars => WorkspacesInv'
<1> SUFFICES ASSUME WorkspacesInv, [Next]_vars PROVE WorkspacesInv'
  OBVIOUS
<1>1. ASSUME NEW r \in Requests, WorkspaceStep(r) PROVE WorkspacesInv'
  BY <1>1, RemoveStep, CountStep, PurgeStep, RemoveWorkspaceStep DEF WorkspaceStep
<1>2. ASSUME NEW r \in Requests, MemberStep(r) PROVE WorkspacesInv'
  BY <1>2, AddStep, UpsertStep, ManageStep, TargetStep, ActorStep, WriteMemberStep DEF MemberStep
<1>3. ASSUME NEW r \in Requests, LinkStep(r) PROVE WorkspacesInv'
  BY <1>3, CreateLinkStep, FindLinkStep, AuthorizeStep, InsertStep, WriteLinkStep DEF LinkStep
<1>4. ASSUME NEW r \in Requests, BackfillStep(r) PROVE WorkspacesInv'
  BY <1>4, FindMembershipStep, AdoptStep DEF BackfillStep
<1> QED
  BY <1>1, <1>2, <1>3, <1>4, CreateStep, FailStep, StutterStep DEF Next

-----------------------------------------------------------------------------
(* The invariant, and what it says of single steps                          *)

(* The inductive invariant: what every request still knows of the rows it   *)
(* is about to write.                                                       *)
THEOREM WorkspacesInvariant == Spec => []WorkspacesInv
BY WorkspacesInit, WorkspacesStep, PTL DEF Spec

(* Rows and requests have their types.                                      *)
THEOREM TypeCorrectness == Spec => []TypeOK
<1>1. WorkspacesInv => TypeOK
  BY DEF WorkspacesInv
<1> QED
  BY <1>1, WorkspacesInvariant, PTL

(* Only links inserted while their workspace was removed are in another     *)
(* workspace than the one they were created in, and no link is in a         *)
(* workspace that is gone.                                                  *)
THEOREM OrphansTheorem == Spec => []OrphansCameLate
<1>1. WorkspacesInv => OrphansCameLate
  BY DEF WorkspacesInv
<1> QED
  BY <1>1, WorkspacesInvariant, PTL

(* The actions of one request leave the progress of the others alone. *)
LEMMA OthersGoOn ==
    ASSUME TypeOK, NEW r \in Requests, NEW q \in Requests \ {r}, NEW w, NEW us,
           req' = [Overtake(w, us) EXCEPT ![r] = Idle]
    PROVE  req'[q].op = req[q].op
<1>1. Overtake(w, us) \in [Requests -> Request] /\ Overtake(w, us)[q].op = req[q].op
  BY OvertakeType
<1> QED
  BY <1>1

(* A membership changes when its workspace is made or removed, and          *)
(* otherwise in the last statement of a handler that has it for its target. *)
LEMMA RoleChange ==
    ASSUME WorkspacesInv, [Next]_vars, NEW w \in WorkspaceIds, NEW u \in Users,
           role'[w][u] # role[w][u]
    PROVE  \/ workspace[w] = "unused"
           \/ \E r \in Requests :
                /\ req[r].workspace = w
                /\ \/ RemoveWorkspace(r)
                   \/ /\ UpsertMember(r) \/ WriteMember(r)
                      /\ req[r].target = u
<1>1. ASSUME NEW r \in Requests, WorkspaceStep(r)
      PROVE  RemoveWorkspace(r) /\ req[r].workspace = w
  BY <1>1 DEF WorkspaceStep, Remove, CountOwned, PurgeLinks, RemoveWorkspace, WorkspacesInv,
              TypeOK
<1>2. ASSUME NEW r \in Requests, MemberStep(r)
      PROVE  /\ UpsertMember(r) \/ WriteMember(r)
             /\ req[r].workspace = w /\ req[r].target = u
  <2>1. UpsertMember(r) \/ WriteMember(r)
    BY <1>2 DEF MemberStep, AddMember, ManageMember, LookAtTarget, LookAtActor
  <2>2. role' = [role EXCEPT ![req[r].workspace][req[r].target] = req[r].role]
    BY <2>1 DEF UpsertMember, WriteMember, SetRole
  <2>3. role \in [WorkspaceIds -> [Users -> Roles \cup {"none"}]]
    BY DEF WorkspacesInv, TypeOK
  <2> DEFINE v == req[r].workspace
             t == req[r].target
             x == req[r].role
  <2>4. role' = [role EXCEPT ![v][t] = x]
    BY <2>2
  <2> HIDE DEF v, t, x
  <2>5. v = w /\ t = u
    BY <2>3, <2>4
  <2> QED
    BY <2>1, <2>5 DEF v, t
<1>3. ASSUME NEW r \in Requests, LinkStep(r) \/ Fail(r) PROVE FALSE
  BY <1>3 DEF LinkStep, CreateLink, FindLink, Authorize, InsertLink, WriteLink, Fail
<1>4. ASSUME NEW r \in Requests, BackfillStep(r) PROVE workspace[w] = "unused"
  BY <1>4 DEF BackfillStep, FindMembership, AdoptLinks, WorkspacesInv, TypeOK
<1>5. ASSUME NEW v \in Users, NEW x \in WorkspaceIds, Create(v, x)
      PROVE  workspace[w] = "unused"
  BY <1>5 DEF Create, WorkspacesInv, TypeOK
<1>6. ~ UNCHANGED vars
  BY DEF vars
<1> QED
  BY <1>1, <1>2, <1>3, <1>4, <1>5, <1>6 DEF Next

(* The memberships of a living workspace change only by a handler whose     *)
(* actor manages it, or was overtaken by a change of its own membership.    *)
THEOREM ManagersTheorem == Spec => ManagersOnly
<1>1. ASSUME WorkspacesInv, [Next]_vars, NEW w \in WorkspaceIds, NEW u \in Users,
             role'[w][u] # role[w][u], workspace[w] = "live", workspace'[w] = "live"
      PROVE  \E r \in Requests : /\ req[r].workspace = w
                                 /\ req[r].target = u /\ req[r].actor # u
                                 /\ req'[r].op = "idle"
                                 /\ Manages(r, w)
  <2>1. PICK r \in Requests :
               /\ req[r].workspace = w
               /\ \/ RemoveWorkspace(r)
                  \/ /\ UpsertMember(r) \/ WriteMember(r)
                     /\ req[r].target = u
    BY <1>1, RoleChange
  <2>2. ~ RemoveWorkspace(r)
    BY <1>1, <2>1 DEF RemoveWorkspace, WorkspacesInv, TypeOK
  <2>3. req[r].op \in {"add"} \cup Cleared
    BY <2>1, <2>2 DEF UpsertMember, WriteMember
  <2>4. req[r].target \in Users \ {req[r].actor} /\ Manages(r, w)
    BY <1>1, <2>1, <2>3 DEF WorkspacesInv, Knows, ManagerKnows
  <2>5. req' = [Overtake(w, {u}) EXCEPT ![r] = Idle]
    BY <2>1, <2>2 DEF UpsertMember, WriteMember, SetRole
  <2>6. req'[r].op = "idle"
    BY <1>1, <2>5, IdleType, OvertakeType DEF WorkspacesInv
  <2> QED
    BY <2>1, <2>2, <2>4, <2>6
<1>2. ASSUME WorkspacesInv, [Next]_vars
      PROVE  \A w \in WorkspaceIds, u \in Users :
               (role'[w][u] # role[w][u] /\ workspace[w] = "live" /\ workspace'[w] = "live")
                 => \E r \in Requests : /\ req[r].workspace = w
                                        /\ req[r].target = u /\ req[r].actor # u
                                        /\ req'[r].op = "idle"
                                        /\ Manages(r, w)
  BY <1>1, <1>2
<1> QED
  BY <1>2, WorkspacesInvariant, PTL DEF Spec, ManagersOnly

(* No OWNER is ever demoted or removed through the handlers of members, and *)
(* no ADMIN but by an OWNER or a handler that was overtaken.                *)
THEOREM PeersTheorem == Spec => PeersAreSpared
<1>1. ASSUME WorkspacesInv, [Next]_vars, NEW r \in Requests, req[r].op \in Cleared,
             req'[r].op = "idle",
             role'[req[r].workspace][req[r].target] # role[req[r].workspace][req[r].target]
      PROVE  LET w == req[r].workspace
                 u == req[r].target
             IN /\ role[w][u] # "OWNER"
                /\ role[w][u] = "ADMIN" => \/ role[w][req[r].actor] = "OWNER"
                                          \/ req[r].missed \cap {"actor", "target"} # {}
  <2>1. PeerKnows(r)
    BY <1>1 DEF WorkspacesInv, Knows
  <2> QED
    BY <1>1, <2>1 DEF PeerKnows
<1>2. ASSUME WorkspacesInv, [Next]_vars
      PROVE  \A r \in Requests :
               LET w == req[r].workspace
                   u == req[r].target
               IN (/\ req[r].op \in Cleared
                   /\ req'[r].op = "idle" /\ role'[w][u] # role[w][u])
                    => /\ role[w][u] # "OWNER"
                       /\ role[w][u] = "ADMIN" => \/ role[w][req[r].actor] = "OWNER"
                                                 \/ req[r].missed \cap {"actor", "target"} # {}
  BY <1>1, <1>2
<1> QED
  BY <1>2, WorkspacesInvariant, PTL DEF Spec, PeersAreSpared

(* Only a request ends itself. *)
LEMMA OnlyWritersWrite ==
    ASSUME WorkspacesInv, [Next]_vars, NEW r \in Requests, NEW l \in Links,
           req[r].op \in {"create", "write"}, req'[r].op = "idle", link'[l] # link[l]
    PROVE  InsertLink(r, l) \/ WriteLink(r, l)
<1>1. ASSUME NEW q \in Requests, RemoveWorkspace(q) PROVE FALSE
  <2>1. q # r
    BY <1>1 DEF RemoveWorkspace
  <2>2. req'[r].op = req[r].op
    BY <1>1, <2>1, OthersGoOn DEF RemoveWorkspace, WorkspacesInv
  <2> QED
    BY <2>2
<1>2. ASSUME NEW q \in Requests, NEW k \in Links, InsertLink(q, k) \/ WriteLink(q, k)
      PROVE  q = r /\ k = l
  BY <1>2 DEF InsertLink, WriteLink, Ends, WorkspacesInv, TypeOK
<1>3. ASSUME NEW q \in Requests, NEW w \in WorkspaceIds, AdoptLinks(q, w) PROVE FALSE
  BY <1>3 DEF AdoptLinks, Ends, WorkspacesInv, TypeOK
<1>4. link' # link
  OBVIOUS
<1>5. ASSUME NEW q \in Requests, WorkspaceStep(q) PROVE FALSE
  BY <1>1, <1>4, <1>5 DEF WorkspaceStep, Remove, CountOwned, PurgeLinks
<1>6. ASSUME NEW q \in Requests, MemberStep(q) \/ Fail(q) PROVE FALSE
  BY <1>4, <1>6 DEF MemberStep, AddMember, UpsertMember, ManageMember, LookAtTarget,
                    LookAtActor, WriteMember, Fail
<1>7. ASSUME NEW q \in Requests, LinkStep(q) PROVE InsertLink(r, l) \/ WriteLink(r, l)
  BY <1>2, <1>4, <1>7 DEF LinkStep, CreateLink, FindLink, Authorize
<1>8. ASSUME NEW q \in Requests, BackfillStep(q) PROVE FALSE
  BY <1>3, <1>4, <1>8 DEF BackfillStep, FindMembership
<1> QED
  BY <1>4, <1>5, <1>6, <1>7, <1>8 DEF Next, Create, vars

(* Links are created and deleted by members of their workspace who may      *)
(* write, or by requests that were overtaken by a change of membership.     *)
THEOREM WritersTheorem == Spec => LinkWritersBelong
<1>1. ASSUME WorkspacesInv, [Next]_vars, NEW r \in Requests, NEW l \in Links,
             req[r].op \in {"create", "write"}, req'[r].op = "idle", link'[l] # link[l]
      PROVE  \/ "actor" \in req[r].missed
             \/ /\ link'[l].workspace = req[r].workspace
                /\ role[link'[l].workspace][req[r].actor] \in Writers
  <2> DEFINE w == req[r].workspace
             a == req[r].actor
  <2> SUFFICES ASSUME "actor" \notin req[r].missed
               PROVE  link'[l].workspace = w /\ role[w][a] \in Writers
    OBVIOUS
  <2>1. /\ TypeOK /\ WriterKnows(r) /\ w \in WorkspaceIds /\ a \in Users
    BY <1>1 DEF WorkspacesInv, Knows, Placed
  <2>2. role[w][a] \in Writers
    BY <1>1, <2>1 DEF WriterKnows
  <2>3. workspace[w] = "live"
    BY <1>1, <2>1, <2>2 DEF WorkspacesInv, MembersBelong, Writers
  <2>4. CASE InsertLink(r, l)
    BY <2>1, <2>2, <2>4 DEF InsertLink, TypeOK
  <2>5. CASE WriteLink(r, l)
    <3>1. req[r].op = "write" /\ req[r].links = {l} /\ link[l].status = "live"
      BY <2>5 DEF WriteLink
    <3>2. link[l].workspace = w
      BY <2>1, <2>3, <3>1 DEF WriterKnows
    <3>3. link'[l] = [link[l] EXCEPT !.status = "deleted"]
      BY <1>1, <2>1, <2>5 DEF WriteLink, TypeOK
    <3> QED
      BY <2>1, <2>2, <3>2, <3>3 DEF TypeOK, LinkRow
  <2> QED
    BY <1>1, <2>4, <2>5, OnlyWritersWrite
<1>2. ASSUME WorkspacesInv, [Next]_vars
      PROVE  \A r \in Requests, l \in Links :
               (req[r].op \in {"create", "write"} /\ req'[r].op = "idle" /\ link'[l] # link[l])
                 => \/ "actor" \in req[r].missed
                    \/ /\ link'[l].workspace = req[r].workspace
                       /\ role[link'[l].workspace][req[r].actor] \in Writers
  BY <1>1, <1>2
<1> QED
  BY <1>2, WorkspacesInvariant, PTL DEF Spec, LinkWritersBelong

(* A workspace is removed by its OWNER, who keeps another one, or by a      *)
(* request that was overtaken by a change of the memberships it counted.    *)
THEOREM OwnersTheorem == Spec => OwnersKeepOne
<1>1. ASSUME WorkspacesInv, [Next]_vars, NEW r \in Requests, NEW w \in WorkspaceIds,
             req[r].op = "purge", workspace[w] = "live", workspace'[w] = "deleted",
             req[r].workspace = w, req'[r].op = "idle"
      PROVE  \/ req[r].missed \cap {"actor", "owned"} # {}
             \/ /\ role[w][req[r].actor] = "OWNER"
                /\ \E v \in WorkspaceIds : role'[v][req[r].actor] = "OWNER"
  <2>1. TypeOK /\ OwnerKnows(r)
    BY <1>1 DEF WorkspacesInv, Knows
  <2>2. \E q \in Requests : RemoveWorkspace(q) /\ req[q].workspace = w
    <3>1. workspace' # workspace
      BY <1>1
    <3>2. ASSUME NEW q \in Requests, RemoveWorkspace(q) PROVE req[q].workspace = w
      BY <1>1, <2>1, <3>2 DEF RemoveWorkspace, TypeOK
    <3>3. ASSUME NEW q \in Requests, NEW v \in WorkspaceIds, AdoptLinks(q, v) PROVE FALSE
      BY <1>1, <2>1, <3>3 DEF AdoptLinks, TypeOK
    <3>4. ASSUME NEW u \in Users, NEW v \in WorkspaceIds, Create(u, v) PROVE FALSE
      BY <1>1, <2>1, <3>4 DEF Create, TypeOK
    <3>5. ASSUME NEW q \in Requests, MemberStep(q) \/ LinkStep(q) \/ Fail(q) PROVE FALSE
      BY <3>1, <3>5 DEF MemberStep, AddMember, UpsertMember, ManageMember, LookAtTarget,
           LookAtActor, WriteMember, LinkStep, CreateLink, FindLink, Authorize, InsertLink,
           WriteLink, Fail
    <3>6. ASSUME NEW q \in Requests, BackfillStep(q) PROVE FALSE
      BY <3>1, <3>3, <3>6 DEF BackfillStep, FindMembership
    <3>7. ASSUME NEW q \in Requests, WorkspaceStep(q) PROVE RemoveWorkspace(q)
      BY <3>1, <3>7 DEF WorkspaceStep, Remove, CountOwned, PurgeLinks
    <3> QED
      BY <1>1, <3>1, <3>2, <3>4, <3>5, <3>6, <3>7 DEF Next, vars
  <2>3. RemoveWorkspace(r)
    <3>1. PICK q \in Requests : RemoveWorkspace(q)
      BY <2>2
    <3>2. q # r => req'[r].op = req[r].op
      BY <2>1, <3>1, OthersGoOn DEF RemoveWorkspace
    <3> QED
      BY <1>1, <3>1, <3>2
  <2>4. \A v \in WorkspaceIds \ {w} : role'[v] = role[v]
    BY <1>1, <2>1, <2>3 DEF RemoveWorkspace, TypeOK
  <2>5. \/ req[r].missed \cap {"actor", "owned"} # {}
        \/ /\ role[w][req[r].actor] = "OWNER"
           /\ \E v \in WorkspaceIds \ {w} : role[v][req[r].actor] = "OWNER"
    BY <1>1, <2>1 DEF OwnerKnows
  <2> QED
    BY <2>4, <2>5
<1>2. ASSUME WorkspacesInv, [Next]_vars
      PROVE  \A r \in Requests : \A w \in WorkspaceIds :
               (req[r].op = "purge" /\ workspace[w] = "live" /\ workspace'[w] = "deleted"
                  /\ req[r].workspace = w /\ req'[r].op = "idle")
                 => \/ req[r].missed \cap {"actor", "owned"} # {}
                    \/ /\ role[w][req[r].actor] = "OWNER"
                       /\ \E v \in WorkspaceIds : role'[v][req[r].actor] = "OWNER"
  BY <1>1, <1>2
<1> QED
  BY <1>2, WorkspacesInvariant, PTL DEF Spec, OwnersKeepOne

(* What the two rules of each pair say together.                           *)
THEOREM RolesTheorem == Spec => RolesDecide
BY ManagersTheorem, PeersTheorem DEF RolesDecide

THEOREM RemovalsTheorem == Spec => RemovalsSpare
BY OwnersTheorem, OrphansTheorem DEF RemovalsSpare
=============================================================================

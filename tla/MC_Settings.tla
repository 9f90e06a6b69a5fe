----------------------------- MODULE MC_Settings -----------------------------
(* The instances of TwoFactor, of the panels of the workspace page and of    *)
(* the administration of users, for TLC: one of them moves, the others stay  *)
(* as they begin.  Of the panels, one list moves: that of the members or     *)
(* that of the keys.                                                         *)
EXTENDS TwoFactor, WorkspacePanels, AdminUsers, TLC

CONSTANTS A, B, me, p1, u1, k1, j1, j2, a1, a2

VARIABLE part


allVars == <<part, vars, panelVars, adminVars>>

AllInit ==
    /\ part \in {"two-factor", "members", "keys", "admin"}
    /\ Init /\ PanelsInit /\ AdminInit
    /\ here = A

AllNext ==
    /\ UNCHANGED part
    /\ \/ part = "two-factor" /\ Next /\ UNCHANGED <<panelVars, adminVars>>
       \/ part \in {"members", "keys"} /\ PanelsNext /\ UNCHANGED <<vars, adminVars>>
       \/ part = "admin" /\ AdminNext /\ UNCHANGED <<vars, panelVars>>

AllSpec == AllInit /\ [][AllNext]_allVars

-----------------------------------------------------------------------------
(* Bound: at most two pages wait for the server at once, and one when both   *)
(* batches of backup codes were given out.                                   *)
TwoAtOnce ==
    Cardinality({p \in Pages : req[p].op # "idle"})
      + Cardinality({t \in Tabs : tab[t].me # "none"})
      <= (IF \E k \in Codes : code[k] = "unused" THEN 2 ELSE 1)

-----------------------------------------------------------------------------
(* The panels: a workspace whose OWNER the user is, one whose ADMIN.         *)
Two(mine, other) == [p \in People |-> IF p = Self THEN mine ELSE other]

MCRanks == [w \in Teams |-> IF w = A THEN Two("OWNER", "ADMIN") ELSE Two("ADMIN", "MEMBER")]

MCFirstRanks == {MCRanks}

MCFirstKeys == [k \in ApiKeys |-> IF k = k1 THEN A ELSE NoTeam]

Running == {j \in Jobs : job[j].phase \notin {"new", "over"}}

Loads(lists) == {w \in Teams : Fetching(lists[w])}

Made == Cardinality({j \in Jobs : job[j].phase # "new"})

(* Bound: two calls or changes by others, a failed list before the second;   *)
(* two calls, lists or dialogs at once; VIEWER is left out, which is to the  *)
(* page what MEMBER is.  The keys are looked at once the members are there.  *)
(* The calls are alike: j1 is made first.                                    *)
PanelsBound ==
    /\ job[j1].phase = "new" => job[j2].phase = "new"
    /\ Made + others <= 2
    /\ Made + others = 2 => \A w \in Teams : ~members[w].failed /\ ~keyLists[w].failed
    /\ Cardinality(Running) + (IF Free THEN 0 ELSE 1) + Cardinality(Loads(members))
         + (IF part = "keys" THEN Cardinality(Loads(keyLists)) ELSE 0) <= 2

MembersOnly ==
    /\ \A w \in Teams : keyLists[w] \in {NewEntry, Want(NewEntry)}
    /\ \A p \in People : ranks[A][p] # "VIEWER"
    /\ ranks[B] = MCRanks[B]
    /\ \A j \in Running : job[j].op \notin {"create", "revoke"}
    /\ ~panel.open

KeysOnly ==
    /\ \A w \in Teams : Fetching(members[w]) => keyLists[w] \in {NewEntry, Want(NewEntry)}
    /\ ranks = MCRanks
    /\ \A w \in Teams : ~members[w].failed
    /\ \A j \in Running : job[j].op \in {"create", "revoke"}
    /\ panel.open => panel.secret = NoKey /\ \A j \in Running : job[j].op = "create"

-----------------------------------------------------------------------------
(* The administrator and one account that may be promoted, one to a page.    *)
MCAccounts == <<u1, me>>

UsedLists == {k \in ListKeys : userLists[k] # NewEntry}

UsedDetails == {u \in Users : details[u] # NewEntry}

Calls == Cardinality({a \in AdminCalls : update[a].phase # "new"}) + elsewhere

(* Bound: two calls or changes by others; two calls, lists or dialogs at     *)
(* once; three lists or details, two beside the second call, where no        *)
(* request fails.                                                            *)
AdminBound ==
    /\ update[a1].phase = "new" => update[a2].phase = "new"
    /\ looking.status # "active"
    /\ Cardinality(UsedLists) + Cardinality(UsedDetails) <= (IF Calls = 2 THEN 2 ELSE 3)
    /\ Calls <= 2
    /\ Calls = 2 => /\ \A k \in ListKeys : ~userLists[k].failed
                    /\ \A u \in Users : ~details[u].failed
    /\ Cardinality({k \in ListKeys : Fetching(userLists[k])})
         + Cardinality({u \in Users : Fetching(details[u])})
         + Cardinality({a \in AdminCalls : update[a].phase \notin {"new", "settling", "over"}})
         + (IF sure = NewUpdate THEN 0 ELSE 1) <= 2

Bounded ==
    CASE part = "two-factor" -> TwoAtOnce
      [] part = "members" -> PanelsBound /\ MembersOnly
      [] part = "keys" -> PanelsBound /\ KeysOnly
      [] part = "admin" -> AdminBound

Symmetry == Permutations(Tabs) \cup Permutations(Logins)
              \cup Permutations(Secrets) \cup Permutations(Codes)
=============================================================================

----------------------------- MODULE MC_Domains -----------------------------
(* The instances of Domains and of the choice of a workspace, for TLC: one  *)
(* of the two moves, the other stays as it begins.                          *)
EXTENDS Domains, WorkspaceSelection, TLC

CONSTANTS A, B, C, H, K, d1, d2, d3, ta, tb, tc

VARIABLE part       \* which of the two moves

allVars == <<part, vars, selectionVars>>

AllInit ==
    /\ part \in {"domains", "selection"}
    /\ Init /\ SelectionInit
    /\ part = "domains" => stored = NoSpace
    /\ part = "selection" => time = 0 /\ current = A

AllNext ==
    /\ UNCHANGED part
    /\ \/ part = "domains" /\ Next /\ UNCHANGED selectionVars
       \/ part = "selection" /\ SelectionNext /\ UNCHANGED vars

AllSpec == AllInit /\ [][AllNext]_allVars

-----------------------------------------------------------------------------
(* Domains: two workspaces that want two hostnames. One has one of them, or *)
(* both, and verified one of these or none.                                 *)

Domain(i, w, h) == [id |-> i, ws |-> w, host |-> h]

OnlyOne == {Domain(d1, A, H)}

Both == OnlyOne \cup {Domain(d2, A, K)}

MCInitially ==
    { [rows |-> OnlyOne, at |-> [i \in Ids |-> 0], time |-> 0],
      [rows |-> Both, at |-> [i \in Ids |-> 0], time |-> 0],
      [rows |-> Both, at |-> [i \in Ids |-> IF i = d1 THEN 1 ELSE 0], time |-> 1] }

(* Bound: a visit begins, and goes on, while no list is being loaded, and   *)
(* nothing happens after it; without a visit everything may.                *)
VisitAtTheEnd ==
    part = "domains" =>
        /\ visit.phase \in {"none", "found"}
        /\ visit.phase = "found" => UNCHANGED <<fetch, current>>
        /\ visit' # visit => \A w \in Workspaces : fetch[w].phase = "none"

-----------------------------------------------------------------------------
(* The choice: two workspaces and one that may be created. *)

MCBeginsWith == <<B, A>>

MCTitleOf == [w \in Spaces |-> IF w = A THEN ta ELSE IF w = B THEN tb ELSE tc]

Pending == {a \in Waits : wait[a].phase \in {"sent", "adrift", "done", "failed"}}

Begun == {a \in Waits : wait[a].phase # "new"}

-----------------------------------------------------------------------------
(* Bound: one list of domains at a time, and only one workspace that is     *)
(* removed; three calls or events, two at once, one new name for one of the *)
(* workspaces, and for the one created.                                     *)
Bounded ==
    /\ B \in alive
    /\ \A v, w \in Workspaces :
           fetch[v].phase # "none" /\ fetch[w].phase # "none" => v = w
    /\ Cardinality(Begun) + past.events <= 3
    /\ Cardinality(Pending) + (IF Fetching(list) THEN 1 ELSE 0) + (IF AtHand THEN 0 ELSE 1) <= 2
    /\ \A w \in Spaces : past.typed[w] \subseteq {MCTitleOf[w], tc}
    /\ ~(tc \in past.typed[A] /\ tc \in past.typed[B])
    /\ \A a \in Waits : wait[a].op = "create" => wait[a].title \in {tc, NoTitle}

Symmetry == Permutations(Calls) \cup Permutations(Waits)
=============================================================================

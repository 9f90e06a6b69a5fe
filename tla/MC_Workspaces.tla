--------------------------- MODULE MC_Workspaces ---------------------------
(* Small instances of module Workspaces for TLC. *)
EXTENDS Workspaces, TLC

Symmetry == Permutations(Users) \cup Permutations(WorkspaceIds)
              \cup Permutations(Links) \cup Permutations(Requests)

Involved == {u \in Users : \/ \E w \in WorkspaceIds : role[w][u] # "none"
                           \/ \E l \in Links : link[l].creator = u
                           \/ \E r \in Requests : u \in {req[r].actor, req[r].target}}

Opened == {w \in WorkspaceIds : workspace[w] # "unused"}

Linked == \E l \in Links : link[l].status # "unused"

(* Bound: one workspace and all users, whose memberships interleave, or one *)
(* user and all workspaces, which are counted and removed; two users when   *)
(* there is a link.                                                         *)
OneUserOrOneWorkspace ==
    /\ Cardinality(Involved) <= 1 \/ Cardinality(Opened) <= 1
    /\ Linked => Cardinality(Involved) <= 2
=============================================================================

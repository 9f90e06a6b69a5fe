------------------------------ MODULE MC_Links ------------------------------
(* The instances of Links and of the page that lists links, for TLC: one of *)
(* the two moves, the other stays as it begins.                             *)
EXTENDS Links, LinksPage, TLC

CONSTANTS p1, p2

VARIABLE part       \* which of the two moves

allVars == <<part, vars, pageVars>>

AllInit ==
    /\ part \in {"requests", "page"}
    /\ Init /\ PageInit

AllNext ==
    /\ UNCHANGED part
    /\ \/ part = "requests" /\ Next /\ UNCHANGED pageVars
       \/ part = "page" /\ PageNext /\ UNCHANGED vars

AllSpec == AllInit /\ [][AllNext]_allVars

-----------------------------------------------------------------------------
MCLists == { <<[link |-> p1, status |-> "ACTIVE"], [link |-> p2, status |-> "DISABLED"]>> }

Used == {c \in ListCalls : listCall[c].phase # "new"}

(* Bound: a few lists at a time; two requests on their way, three as long   *)
(* as one call was made; one call when a link expires.                      *)
Bounded ==
    /\ Cardinality({k \in Keys : cache[k] # NewEntry}) <= (IF Used = {} THEN 3 ELSE 2)
    /\ Cardinality({k \in Keys : Fetching(cache[k])}) <= 2
    /\ Cardinality({k \in Keys : Fetching(cache[k])})
         + Cardinality({c \in Used : listCall[c].phase # "over"})
         + (IF dialog # NewListCall THEN 1 ELSE 0)
         <= (IF Cardinality(Used) = 2 THEN 2 ELSE 3)
    /\ ~(view.input /\ view.status # "ALL")
    /\ due # {} \/ (\E i \in DOMAIN store : store[i].status = "EXPIRED") =>
          Cardinality(Used) + Cardinality(due) <= 1

Symmetry == Permutations(Hashes) \cup Permutations(Requests)
=============================================================================

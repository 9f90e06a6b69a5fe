---------------------------- MODULE HostRegistry ----------------------------
(***************************************************************************)
(* What apps/api/src/domains/domains.service.ts promises of hostnames:     *)
(* each is claimed by one workspace at a time, every claim has a token of  *)
(* its own, and only a claim whose token was published for it is proven;   *)
(* it stays so until it is released or its workspace goes.                 *)
(***************************************************************************)
CONSTANTS Workspaces, Hosts, Ids

VARIABLES
    open,       \* workspaces that exist
    claims,     \* of hostnames, by id
    drawn,      \* ids of claims that were ever made
    published   \* those whose token was published

registry == <<open, claims, drawn, published>>

Claimed == [id : Ids, ws : Workspaces, host : Hosts, proven : BOOLEAN]

(* One workspace at most has a hostname, and it has proved it if it says so. *)
Sound ==
    /\ \A a, b \in claims : a.host = b.host \/ a.id = b.id => a = b
    /\ \A a \in claims : a.id \in drawn /\ (a.proven => a.id \in published)

Init ==
    /\ open = Workspaces
    /\ claims \subseteq Claimed
    /\ drawn \subseteq Ids
    /\ published \subseteq Ids
    /\ Sound

Claim(w, h, i) ==
    /\ w \in open
    /\ \A a \in claims : a.host # h
    /\ i \notin drawn
    /\ claims' = claims \cup {[id |-> i, ws |-> w, host |-> h, proven |-> FALSE]}
    /\ drawn' = drawn \cup {i}
    /\ UNCHANGED <<open, published>>

Publish(a) ==
    /\ published' = published \cup {a.id}
    /\ UNCHANGED <<open, claims, drawn>>

Prove(a) ==
    /\ a.id \in published
    /\ claims' = (claims \ {a}) \cup {[a EXCEPT !.proven = TRUE]}
    /\ UNCHANGED <<open, drawn, published>>

Release(a) ==
    /\ claims' = claims \ {a}
    /\ UNCHANGED <<open, drawn, published>>

Close(w) ==
    /\ w \in open
    /\ open' = open \ {w}
    /\ claims' = {a \in claims : a.ws # w}
    /\ UNCHANGED <<drawn, published>>

Next ==
    \/ \E w \in Workspaces, h \in Hosts, i \in Ids : Claim(w, h, i)
    \/ \E a \in claims : Publish(a) \/ Prove(a) \/ Release(a)
    \/ \E w \in Workspaces : Close(w)

Spec == Init /\ [][Next]_registry
=============================================================================

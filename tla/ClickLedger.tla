----------------------------- MODULE ClickLedger -----------------------------
(***************************************************************************)
(* What click tracking promises the dashboard: for each link two counters, *)
(* all clicks and bot clicks among them.  A counted click adds one to the  *)
(* first and, for a bot, to the second in the same step; counters vanish   *)
(* with their link and never move otherwise.                               *)
(***************************************************************************)
EXTENDS Naturals

CONSTANT Links

VARIABLES
    counted,    \* links that exist
    total,      \* clicks of each link
    bots        \* bot clicks of each link

Zero == [l \in Links |-> 0]

Init == counted = Links /\ total = Zero /\ bots = Zero

Count(l) ==
    /\ l \in counted
    /\ total' = [total EXCEPT ![l] = @ + 1]
    /\ bots' \in {bots, [bots EXCEPT ![l] = @ + 1]}
    /\ UNCHANGED counted

Remove(l) ==
    /\ counted' = counted \ {l}
    /\ total' = [total EXCEPT ![l] = 0]
    /\ bots' = [bots EXCEPT ![l] = 0]

Next == \E l \in Links : Count(l) \/ Remove(l)

Spec == Init /\ [][Next]_<<counted, total, bots>>
=============================================================================

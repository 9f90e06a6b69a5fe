---------------------------- MODULE MC_TwoFactor ----------------------------
(* Symmetry and a bound for the runs of TwoFactor. *)
EXTENDS TwoFactor, TLC

Symmetry == Permutations(Tabs) \cup Permutations(Logins)
              \cup Permutations(Secrets) \cup Permutations(Codes)

(* Bound: at most two pages wait for the server at once. *)
TwoAtOnce ==
    Cardinality({p \in Pages : req[p].op # "idle"})
      + Cardinality({t \in Tabs : tab[t].me # "none"}) <= 2
=============================================================================

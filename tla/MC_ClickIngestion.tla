-------------------------- MODULE MC_ClickIngestion --------------------------
(* Symmetry for the runs of ClickIngestion.                                 *)
EXTENDS ClickIngestion, TLC

Symmetry == Permutations(Clicks) \cup Permutations(Links) \cup Permutations(Workers)
=============================================================================

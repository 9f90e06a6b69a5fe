---------------------------- MODULE Subsequences ----------------------------
(* What filter(), WHERE, skip and take leave of a sequence of rows.         *)
EXTENDS Integers, Sequences, FiniteSets

Elements(s) == {s[i] : i \in DOMAIN s}

UpTo(places, i) == {j \in places : j <= i}

(* What is at these places, in their order: at the k-th place when k of     *)
(* them come no later.                                                      *)
Subsequence(s, places) ==
    [k \in 1 .. Cardinality(places) |->
        s[CHOOSE i \in places : Cardinality(UpTo(places, i)) = k]]

(* skip and take: what comes after the first skip, no more than take.       *)
Slice(s, skip, take) ==
    [i \in 1 .. (IF Len(s) - skip > take THEN take ELSE Len(s) - skip) |-> s[skip + i]]
=============================================================================

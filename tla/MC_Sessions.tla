---------------------------- MODULE MC_Sessions ----------------------------
(* The instance of module Sessions for TLC.  One user: no handler relates   *)
(* two, and the proofs cover any number.                                    *)
EXTENDS Sessions, TLC

Symmetry == Permutations(Passwords) \cup Permutations(SessionIds)
              \cup Permutations(TokenIds) \cup Permutations(Requests)
              \cup Permutations(Users)

Used == {s \in SessionIds : session[s].status # "unused"}

NoChallenges == twoFactor = {} /\ challenges = {}

NoLinks == \A t \in TokenIds : token[t].status = "unused"

Words == {session[s].pw : s \in Used} \cup {req[r].pw : r \in Requests}
           \cup {password[u] : u \in Users}

(* Bound: three sessions of one password without two-factor and reset       *)
(* links, or two sessions with one challenge at a time or one reset link, or *)
(* one session with two reset links.                                        *)
OneFeature ==
    \/ /\ NoChallenges /\ NoLinks
       /\ Cardinality(Used) = 3 => Cardinality(Words \ {NoPassword}) <= 1
    \/ Cardinality(Used) <= 2 /\ NoLinks /\ Cardinality(challenges) <= 1
    \/ /\ Cardinality(Used) <= 2 /\ NoChallenges
       /\ Cardinality(Used) = 2 => \E t \in TokenIds : token[t].status = "unused"
=============================================================================

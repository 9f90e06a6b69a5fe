---------------------------- MODULE AccountStore ----------------------------
(***************************************************************************)
(* What apps/api/src/auth/auth.service.ts promises to accounts: each       *)
(* operation happens at one moment, and on what is true at that moment.    *)
(* Who is signed in depends on the present password and on nobody being    *)
(* suspended; a refresh cookie is exchanged while it is good, which ends   *)
(* it; a mailed reset link is good for one new password and supersedes the *)
(* one before.                                                             *)
(***************************************************************************)
CONSTANTS Users, Passwords, SessionIds, TokenIds, NoUser, NoPassword, NoSession

VARIABLES
    enabled,    \* users with an account that is not suspended
    word,       \* their passwords, NoPassword without an account
    door,       \* sessions: not yet given out, open for someone, or closed
    link        \* reset links: not yet mailed, good for someone, or void

store == <<enabled, word, door, link>>

NewDoor == [is |-> "new", user |-> NoUser, pw |-> NoPassword]
ClosedDoor == [is |-> "closed", user |-> NoUser, pw |-> NoPassword]
OpenDoor(u, p) == [is |-> "open", user |-> u, pw |-> p]

NewLink == [is |-> "new", user |-> NoUser]
VoidLink == [is |-> "void", user |-> NoUser]
GoodLink(u) == [is |-> "good", user |-> u]

Init ==
    /\ enabled = {}
    /\ word = [u \in Users |-> NoPassword]
    /\ door = [s \in SessionIds |-> NewDoor]
    /\ link = [t \in TokenIds |-> NewLink]

DoorsOf(u) == {s \in SessionIds : door[s].is = "open" /\ door[s].user = u}
LinksOf(u) == {t \in TokenIds : link[t].is = "good" /\ link[t].user = u}

Closed(S) == [s \in SessionIds |-> IF s \in S THEN ClosedDoor ELSE door[s]]
Voided(T) == [t \in TokenIds |-> IF t \in T THEN VoidLink ELSE link[t]]

-----------------------------------------------------------------------------
SignUp(u, p, s) ==
    /\ word[u] = NoPassword
    /\ door[s] = NewDoor
    /\ enabled' = enabled \cup {u}
    /\ word' = [word EXCEPT ![u] = p]
    /\ door' = [door EXCEPT ![s] = OpenDoor(u, p)]
    /\ UNCHANGED link

SignIn(u, s) ==
    /\ u \in enabled
    /\ door[s] = NewDoor
    /\ door' = [door EXCEPT ![s] = OpenDoor(u, word[u])]
    /\ UNCHANGED <<enabled, word, link>>

Exchange(s, t) ==
    /\ door[s].is = "open"
    /\ door[s].user \in enabled
    /\ door[t] = NewDoor
    /\ door' = [door EXCEPT ![s] = ClosedDoor, ![t] = door[s]]
    /\ UNCHANGED <<enabled, word, link>>

Close(S) ==
    /\ door' = Closed(S)
    /\ \A s \in S : door[s].is = "open"
    /\ UNCHANGED <<enabled, word, link>>

(* By someone who is signed in, and may keep one session. *)
ChangePassword(u, p, keep) ==
    /\ word[u] # NoPassword
    /\ word' = [word EXCEPT ![u] = p]
    /\ door' = [s \in SessionIds |->
                  IF s \notin DoorsOf(u) THEN door[s]
                  ELSE IF s = keep THEN OpenDoor(u, p) ELSE ClosedDoor]
    /\ UNCHANGED <<enabled, link>>

(* The link that supersedes is a step of its own: in between no link of     *)
(* theirs is good.                                                          *)
VoidLinks(T) ==
    /\ link' = Voided(T)
    /\ \A t \in T : link[t].is = "good"
    /\ UNCHANGED <<enabled, word, door>>

Mail(u, t) ==
    /\ word[u] # NoPassword
    /\ link[t] = NewLink
    /\ LinksOf(u) = {}
    /\ link' = [link EXCEPT ![t] = GoodLink(u)]
    /\ UNCHANGED <<enabled, word, door>>

ResetPassword(u, t, p) ==
    /\ t \in LinksOf(u)
    /\ word' = [word EXCEPT ![u] = p]
    /\ link' = Voided(LinksOf(u))
    /\ door' = Closed(DoorsOf(u))
    /\ UNCHANGED enabled

Suspend(u) ==
    /\ word[u] # NoPassword
    /\ enabled' = enabled \ {u}
    /\ door' = Closed(DoorsOf(u))
    /\ UNCHANGED <<word, link>>

Restore(u) ==
    /\ word[u] # NoPassword
    /\ enabled' = enabled \cup {u}
    /\ UNCHANGED <<word, door, link>>

Next ==
    \/ \E u \in Users, p \in Passwords, s \in SessionIds : SignUp(u, p, s)
    \/ \E u \in Users, s \in SessionIds : SignIn(u, s)
    \/ \E s, t \in SessionIds : Exchange(s, t)
    \/ \E S \in SUBSET SessionIds : Close(S)
    \/ \E u \in Users, p \in Passwords, keep \in SessionIds \cup {NoSession} :
          ChangePassword(u, p, keep)
    \/ \E T \in SUBSET TokenIds : VoidLinks(T)
    \/ \E u \in Users, t \in TokenIds : Mail(u, t)
    \/ \E u \in Users, t \in TokenIds, p \in Passwords : ResetPassword(u, t, p)
    \/ \E u \in Users : Suspend(u) \/ Restore(u)

Spec == Init /\ [][Next]_store

-----------------------------------------------------------------------------
(* Whoever has an open session is not suspended and proved the password     *)
(* that holds; one reset link at most is good for a user.                   *)
Sound ==
    /\ \A s \in SessionIds : door[s].is = "open" =>
          door[s].user \in enabled /\ door[s].pw = word[door[s].user]
    /\ \A u \in Users, a, b \in TokenIds : a \in LinksOf(u) /\ b \in LinksOf(u) => a = b
=============================================================================

--------------------------- MODULE SessionsProofs ---------------------------
(* Theorems about module Sessions, for any sets of users, passwords,       *)
(* sessions, reset tokens and concurrent requests.                         *)
EXTENDS Sessions, TLAPS

-----------------------------------------------------------------------------
(* What the helpers of the model return *)

LEMMA IdleType == Idle \in Request
BY DEF Idle, Request, Misses

LEMMA RevokedType ==
    ASSUME TypeOK, NEW S
    PROVE  /\ Revoked(S) \in [SessionIds -> SessionRow]
           /\ \A s \in SessionIds :
                /\ s \notin S => Revoked(S)[s] = session[s]
                /\ s \in S => Revoked(S)[s] = [session[s] EXCEPT !.status = "revoked"]
BY DEF TypeOK, Revoked, SessionRow

LEMMA RevokedFields ==
    ASSUME TypeOK, NEW S, NEW s \in SessionIds
    PROVE  /\ Revoked(S)[s].status = IF s \in S THEN "revoked" ELSE session[s].status
           /\ Revoked(S)[s].user = session[s].user
           /\ Revoked(S)[s].parent = session[s].parent
           /\ Revoked(S)[s].pw = session[s].pw
           /\ Revoked(S)[s].missed = session[s].missed
BY DEF Revoked

LEMMA SpentType ==
    ASSUME TypeOK, NEW T
    PROVE  /\ Spent(T) \in [TokenIds -> TokenRow]
           /\ \A t \in TokenIds : Spent(T)[t].user = token[t].user
           /\ \A t \in TokenIds :
                Spent(T)[t].status = IF t \in T THEN "spent" ELSE token[t].status
BY DEF TypeOK, Spent, TokenRow

LEMMA OvertakeType ==
    ASSUME TypeOK, NEW S, NEW T, NEW U
    PROVE  /\ Overtake(S, T, U) \in [Requests -> Request]
           /\ \A q \in Requests :
                /\ Overtake(S, T, U)[q].op = req[q].op
                /\ Overtake(S, T, U)[q].user = req[q].user
                /\ Overtake(S, T, U)[q].session = req[q].session
                /\ Overtake(S, T, U)[q].token = req[q].token
                /\ Overtake(S, T, U)[q].pw = req[q].pw
                /\ req[q].missed \subseteq Overtake(S, T, U)[q].missed
                /\ req[q].session \in S => "ended" \in Overtake(S, T, U)[q].missed
                /\ req[q].user \in U => "swept" \in Overtake(S, T, U)[q].missed
BY DEF TypeOK, Overtake, Request, Misses

LEMMA OvertakeForgotType ==
    ASSUME TypeOK, NEW u
    PROVE  /\ OvertakeForgot(u) \in [Requests -> Request]
           /\ \A q \in Requests :
                /\ OvertakeForgot(u)[q].op = req[q].op
                /\ OvertakeForgot(u)[q].user = req[q].user
                /\ OvertakeForgot(u)[q].session = req[q].session
                /\ OvertakeForgot(u)[q].token = req[q].token
                /\ OvertakeForgot(u)[q].pw = req[q].pw
                /\ req[q].missed \subseteq OvertakeForgot(u)[q].missed
                /\ req[q].op = "forgot" /\ req[q].user = u
                      => "ended" \in OvertakeForgot(u)[q].missed
BY DEF TypeOK, OvertakeForgot, Request, Misses

LEMMA OvertakeChallengesType ==
    ASSUME TypeOK, NEW u
    PROVE  /\ OvertakeChallenges(u) \subseteq Challenge
           /\ \A d \in OvertakeChallenges(u) :
                IF d.user = u THEN d.missed = {"swept"} ELSE d \in challenges
BY DEF TypeOK, OvertakeChallenges, Challenge, Misses

-----------------------------------------------------------------------------
(* Each action preserves the invariant.  The six actions that end sessions  *)
(* (S) and outdate credentials of users (U) share one lemma.                *)

EndsSessions(S, U) ==
    \A s \in SessionIds :
        /\ session'[s].user = session[s].user
        /\ session'[s].parent = session[s].parent
        /\ session'[s].missed = session[s].missed
        /\ session'[s].status = IF s \in S THEN "revoked" ELSE session[s].status
        /\ s \in S => Unrevoked(s)
        /\ session[s].user \notin U => session'[s].pw = session[s].pw

Overtakes(S, U) ==
    \A q \in Requests :
        \/ req'[q].op = "idle"
        \/ /\ req'[q].op = req[q].op
           /\ req'[q].user = req[q].user
           /\ req'[q].session = req[q].session
           /\ req'[q].token = req[q].token
           /\ req'[q].pw = req[q].pw
           /\ req[q].missed \subseteq req'[q].missed
           /\ req[q].session \in S => "ended" \in req'[q].missed
           /\ req[q].user \in U => "swept" \in req'[q].missed

KeepsAccounts(U) ==
    \A u \in Users :
        /\ account'[u] = "absent" <=> account[u] = "absent"
        /\ u \notin U => account'[u] = account[u] /\ password'[u] = password[u]

KeepsChallenges(U) ==
    \A d \in challenges' :
        \/ d \in challenges /\ d.user \notin U
        \/ "swept" \in d.missed /\ account[d.user] # "absent"

LEMMA SweepStep ==
    ASSUME SessionsInv, TypeOK', NEW S, NEW U,
           EndsSessions(S, U), Overtakes(S, U), KeepsAccounts(U), KeepsChallenges(U),
           \A t \in TokenIds :
                /\ token'[t].status = "unused" <=> token[t].status = "unused"
                /\ token'[t].user = token[t].user,
           \A s \in SessionIds :
                session[s].user \in U /\ session'[s].status = "live" =>
                    \/ "swept" \in session[s].missed
                    \/ /\ account'[session[s].user] = "active"
                       /\ password'[session[s].user] = session'[s].pw
    PROVE  SessionsInv'
<1>. USE DEF SessionsInv
<1>1. Owned'
  <2>1. ASSUME NEW r \in Requests, req'[r].op # "idle"
        PROVE  /\ req'[r].user \in Users /\ account'[req'[r].user] # "absent"
               /\ req'[r].op = "reset" => /\ req'[r].token \in TokenIds
                                         /\ token'[req'[r].token].status # "unused"
                                         /\ token'[req'[r].token].user = req'[r].user
    BY <2>1 DEF Owned, Overtakes, KeepsAccounts
  <2>2. ASSUME NEW s \in SessionIds, session'[s].status # "unused"
        PROVE  session'[s].user \in Users /\ account'[session'[s].user] # "absent"
    BY <2>2 DEF Owned, EndsSessions, KeepsAccounts, Unrevoked
  <2>3. ASSUME NEW t \in TokenIds, token'[t].status # "unused"
        PROVE  token'[t].user \in Users /\ account'[token'[t].user] # "absent"
    BY <2>3 DEF Owned, KeepsAccounts
  <2>4. ASSUME NEW d \in challenges'
        PROVE  account'[d.user] # "absent"
    BY <2>4 DEF Owned, KeepsChallenges, KeepsAccounts, TypeOK, Challenge
  <2>. QED
    BY <2>1, <2>2, <2>3, <2>4 DEF Owned
<1>2. Checked'
  <2>1. ASSUME NEW r \in Requests, req'[r].op \in {"issue", "refresh"}
        PROVE  Vouched(req[r].user, req[r].pw, req[r].missed)' 
    BY <2>1 DEF Overtakes, KeepsAccounts, Owned, Checked, Vouched
  <2>2. ASSUME NEW s \in SessionIds, Live(s)'
        PROVE  Vouched(session[s].user, session[s].pw, session[s].missed)'
    BY <2>2 DEF EndsSessions, KeepsAccounts, Owned, Checked, Vouched, Live
  <2>3. ASSUME NEW d \in challenges'
        PROVE  Vouched(d.user, d.pw, d.missed)'
    BY <2>3 DEF KeepsChallenges, KeepsAccounts, Owned, Checked, Vouched, TypeOK, Challenge
  <2>. QED
    BY <2>1, <2>2, <2>3 DEF Checked
<1>3. RefreshesTracked'
  BY DEF EndsSessions, Overtakes, RefreshesTracked, Unrevoked
<1>4. ParentsEnded'
  BY DEF EndsSessions, ParentsEnded, Ended, Unrevoked, TypeOK, SessionRow
<1>5. RotationIsUnique' /\ EndedSessionsHaveNoHeirs'
  BY <1>4
  DEF EndsSessions, RotationIsUnique, EndedSessionsHaveNoHeirs, Unrevoked, TypeOK,
       SessionRow
<1>. QED
  BY <1>1, <1>2, <1>3, <1>4, <1>5

LEMMA EndSessionStep ==
    ASSUME SessionsInv, NEW x \in SessionIds, EndSession(x)
    PROVE  SessionsInv'
<1>. USE DEF SessionsInv
<1>1. TypeOK'
  BY RevokedType, OvertakeType DEF EndSession, TypeOK
<1>2. EndsSessions({x}, {})
  BY RevokedFields DEF EndSession, EndsSessions
<1>3. Overtakes({x}, {})
  BY OvertakeType DEF EndSession, Overtakes
<1>4. KeepsAccounts({}) /\ KeepsChallenges({})
  BY DEF EndSession, KeepsAccounts, KeepsChallenges
<1>. QED
  BY <1>1, <1>2, <1>3, <1>4, SweepStep DEF EndSession

LEMMA RevokeOtherSessionsStep ==
    ASSUME SessionsInv, NEW u \in Users, NEW keep \in SessionIds \cup {NoSession},
           RevokeOtherSessions(u, keep)
    PROVE  SessionsInv'
<1>. USE DEF SessionsInv
<1>. DEFINE S == Swept(u, keep)
<1>1. TypeOK'
  BY RevokedType, OvertakeType DEF RevokeOtherSessions, TypeOK
<1>2. EndsSessions(S, {})
  BY RevokedFields DEF RevokeOtherSessions, EndsSessions, Swept
<1>3. Overtakes(S, {})
  BY OvertakeType DEF RevokeOtherSessions, Overtakes
<1>4. KeepsAccounts({}) /\ KeepsChallenges({})
  BY DEF RevokeOtherSessions, KeepsAccounts, KeepsChallenges
<1>. QED
  BY <1>1, <1>2, <1>3, <1>4, SweepStep DEF RevokeOtherSessions

LEMMA CommitResetStep ==
    ASSUME SessionsInv, NEW r \in Requests, CommitReset(r)
    PROVE  SessionsInv'
<1>. USE DEF SessionsInv
<1>. DEFINE u == req[r].user
            S == Swept(u, NoSession)
            T == TokensOf(u) \cup {req[r].token}
<1>0. u \in Users /\ account[u] # "absent" /\ req[r].pw \in Passwords \cup {NoPassword}
  BY DEF CommitReset, Owned, TypeOK, Request
<1>1. TypeOK'
  BY <1>0, IdleType, RevokedType, SpentType, OvertakeType, OvertakeChallengesType
  DEF CommitReset, TypeOK
<1>2. EndsSessions(S, {u})
  BY RevokedFields DEF CommitReset, EndsSessions, Swept
<1>3. Overtakes(S, {u})
  BY OvertakeType, IdleType DEF CommitReset, Overtakes, Idle
<1>4. KeepsAccounts({u}) /\ KeepsChallenges({u})
  BY <1>0, OvertakeChallengesType DEF CommitReset, KeepsAccounts, KeepsChallenges, TypeOK
<1>5. \A t \in TokenIds :
        /\ token'[t].status = "unused" <=> token[t].status = "unused"
        /\ token'[t].user = token[t].user
  BY SpentType DEF CommitReset, TokensOf, Unspent, Owned
<1>6. ASSUME NEW s \in SessionIds, session[s].user = u
      PROVE  session'[s].status # "live"
  BY <1>2, <1>6, ConstantsAreDisjoint DEF EndsSessions, Swept, Unrevoked
<1>. QED
  BY <1>1, <1>2, <1>3, <1>4, <1>5, <1>6, SweepStep

LEMMA CommitChangeStep ==
    ASSUME SessionsInv, NEW r \in Requests, CommitChange(r)
    PROVE  SessionsInv'
<1>. USE DEF SessionsInv
<1>. DEFINE u == req[r].user
            keep == req[r].session
            S == Swept(u, keep)
<1>0. /\ u \in Users /\ account[u] # "absent"
      /\ req[r].pw \in Passwords \cup {NoPassword}
  BY DEF CommitChange, Owned, TypeOK, Request
<1>1. /\ session' \in [SessionIds -> SessionRow]
      /\ EndsSessions(S, {u})
  <2>1. \A s \in SessionIds :
          session'[s] = IF s = keep /\ session[s].user = u
                        THEN [session[s] EXCEPT !.pw = req[r].pw]
                        ELSE IF s \in S THEN [session[s] EXCEPT !.status = "revoked"]
                                        ELSE session[s]
    BY RevokedType DEF CommitChange
  <2>2. session' = [s \in SessionIds |-> session'[s]]
    BY DEF CommitChange
  <2>3. keep \notin S /\ \A s \in S : s \in SessionIds /\ Unrevoked(s)
    BY DEF Swept
  <2>4. session \in [SessionIds -> SessionRow]
    BY DEF TypeOK
  <2>5. ASSUME NEW s \in SessionIds
        PROVE  session'[s] \in SessionRow
    <3>1. CASE s = keep /\ session[s].user = u
      BY <1>0, <2>1, <2>4, <3>1 DEF SessionRow
    <3>2. CASE ~(s = keep /\ session[s].user = u)
      BY <2>1, <3>2, RevokedType DEF CommitChange
    <3>. QED
      BY <3>1, <3>2
  <2>6. EndsSessions(S, {u})
    BY <2>1, <2>3, <2>4 DEF EndsSessions, SessionRow
  <2>. QED
    BY <2>2, <2>5, <2>6
<1>2. TypeOK'
  BY <1>0, <1>1, IdleType, OvertakeType, OvertakeChallengesType DEF CommitChange, TypeOK
<1>3. Overtakes(S, {u})
  BY OvertakeType, IdleType DEF CommitChange, Overtakes, Idle
<1>4. KeepsAccounts({u}) /\ KeepsChallenges({u})
  BY <1>0, OvertakeChallengesType DEF CommitChange, KeepsAccounts, KeepsChallenges, TypeOK
<1>5. ASSUME NEW s \in SessionIds, session[s].user = u, session'[s].status = "live"
      PROVE  \/ "swept" \in session[s].missed
             \/ account'[u] = "active" /\ password'[u] = session'[s].pw
  <2>1. s = keep /\ session[s].status = "live"
    BY <1>1, <1>5 DEF EndsSessions, Swept, Unrevoked
  <2>2. session'[s].pw = req[r].pw
    BY <1>5, <2>1 DEF CommitChange, TypeOK, SessionRow
  <2>3. "swept" \in session[s].missed \/ account[u] = "active"
    BY <1>5, <2>1 DEF Checked, Vouched, Live
  <2>. QED
    BY <1>0, <2>2, <2>3 DEF CommitChange, TypeOK
<1>. QED
  BY <1>1, <1>2, <1>3, <1>4, <1>5, SweepStep DEF CommitChange

LEMMA DisableUserStep ==
    ASSUME SessionsInv, NEW u \in Users, DisableUser(u)
    PROVE  SessionsInv'
<1>. USE DEF SessionsInv
<1>. DEFINE S == Swept(u, NoSession)
<1>1. TypeOK'
  BY RevokedType, OvertakeType, OvertakeChallengesType DEF DisableUser, TypeOK
<1>2. EndsSessions(S, {u})
  BY RevokedFields DEF DisableUser, EndsSessions, Swept
<1>3. Overtakes(S, {u})
  BY OvertakeType DEF DisableUser, Overtakes
<1>4. KeepsAccounts({u}) /\ KeepsChallenges({u})
  BY OvertakeChallengesType DEF DisableUser, KeepsAccounts, KeepsChallenges, TypeOK
<1>5. ASSUME NEW s \in SessionIds, session[s].user = u
      PROVE  session'[s].status # "live"
  BY <1>2, <1>5, ConstantsAreDisjoint DEF EndsSessions, Swept, Unrevoked
<1>. QED
  BY <1>1, <1>2, <1>3, <1>4, <1>5, SweepStep DEF DisableUser

LEMMA RevokeSessionsStep ==
    ASSUME SessionsInv, NEW u \in Users, RevokeSessions(u)
    PROVE  SessionsInv'
<1>. USE DEF SessionsInv
<1>. DEFINE S == Swept(u, NoSession)
<1>1. TypeOK'
  BY RevokedType, OvertakeType, OvertakeChallengesType DEF RevokeSessions, TypeOK
<1>2. EndsSessions(S, {u})
  BY RevokedFields DEF RevokeSessions, EndsSessions, Swept
<1>3. Overtakes(S, {u})
  BY OvertakeType DEF RevokeSessions, Overtakes
<1>4. KeepsAccounts({u}) /\ KeepsChallenges({u})
  BY OvertakeChallengesType DEF RevokeSessions, KeepsAccounts, KeepsChallenges, TypeOK
<1>5. ASSUME NEW s \in SessionIds, session[s].user = u
      PROVE  session'[s].status # "live"
  BY <1>2, <1>5, ConstantsAreDisjoint DEF EndsSessions, Swept, Unrevoked
<1>. QED
  BY <1>1, <1>2, <1>3, <1>4, <1>5, SweepStep DEF RevokeSessions

LEMMA LoginStep ==
    ASSUME SessionsInv, NEW r \in Requests, NEW u \in Users, NEW p \in Passwords,
           Login(r, u, p)
    PROVE  SessionsInv'
<1>. USE ConstantsAreDisjoint DEF SessionsInv
<1>. DEFINE next == [op |-> "issue", user |-> u, session |-> NoSession,
                     token |-> NoToken, pw |-> p, missed |-> {}]
            made == [user |-> u, pw |-> p, missed |-> {}]
<1>1. \/ req' = [req EXCEPT ![r] = next] /\ challenges' = challenges
      \/ req' = req /\ challenges' = challenges \cup {made}
  BY DEF Login, Idle
<1>2. next \in Request /\ made \in Challenge
  BY DEF Request, Challenge, Misses
<1>3. /\ account[u] = "active" /\ password[u] = p
      /\ UNCHANGED <<account, password, twoFactor, session, token>>
  BY DEF Login
<1>4. TypeOK'
  BY <1>1, <1>2, <1>3 DEF TypeOK
<1>5. Owned' /\ RefreshesTracked'
  BY <1>1, <1>2, <1>3 DEF Owned, RefreshesTracked, Unrevoked, TypeOK
<1>6. Checked'
  BY <1>1, <1>3 DEF Checked, Vouched, Live, TypeOK
<1>7. ParentsEnded' /\ RotationIsUnique' /\ EndedSessionsHaveNoHeirs'
  BY <1>3 DEF ParentsEnded, Ended, RotationIsUnique, EndedSessionsHaveNoHeirs, Unrevoked
<1>. QED
  BY <1>4, <1>5, <1>6, <1>7

LEMMA RefreshStep ==
    ASSUME SessionsInv, NEW r \in Requests, NEW s \in SessionIds, Refresh(r, s)
    PROVE  SessionsInv'
<1>. USE ConstantsAreDisjoint DEF SessionsInv
<1>. DEFINE next == [Idle EXCEPT !.op = "refresh", !.session = s,
                                 !.user = session[s].user,
                                 !.pw = session[s].pw,
                                 !.missed = session[s].missed \cap {"swept"}]
<1>1. req' = [req EXCEPT ![r] = next]
  BY DEF Refresh
<1>2. /\ next \in Request
      /\ next.op = "refresh" /\ next.session = s
      /\ next.user = session[s].user /\ next.pw = session[s].pw
      /\ next.missed = session[s].missed \cap {"swept"}
  BY IdleType DEF Request, Misses, TypeOK, SessionRow
<1>. HIDE DEF next
<1>3. /\ Live(s) /\ session[s].user \in Users
      /\ account[session[s].user] = "active"
      /\ UNCHANGED <<account, password, twoFactor, session, token, challenges>>
  BY DEF Refresh, RefreshAccepts, Live, Owned
<1>4. TypeOK'
  BY <1>1, <1>2, <1>3 DEF TypeOK
<1>5. Owned' /\ RefreshesTracked'
  BY <1>1, <1>2, <1>3 DEF Owned, RefreshesTracked, Live, Unrevoked, TypeOK
<1>6. Checked'
  BY <1>1, <1>2, <1>3 DEF Checked, Vouched, Live
<1>7. ParentsEnded' /\ RotationIsUnique' /\ EndedSessionsHaveNoHeirs'
  BY <1>3 DEF ParentsEnded, Ended, RotationIsUnique, EndedSessionsHaveNoHeirs, Unrevoked
<1>. QED
  BY <1>4, <1>5, <1>6, <1>7

(* The successor n is born only while its parent is unrevoked, or carries   *)
(* the mark of having been overtaken; either way the parent is ended after. *)
LEMMA RotateStep ==
    ASSUME SessionsInv, NEW r \in Requests, NEW n \in SessionIds, Rotate(r, n)
    PROVE  SessionsInv'
<1>. USE ConstantsAreDisjoint DEF SessionsInv
<1>. DEFINE old == req[r].session
            row == [status |-> "live", user |-> req[r].user, parent |-> old,
                    pw |-> req[r].pw, missed |-> req[r].missed]
<1>1. /\ old \in SessionIds /\ old # n /\ session[old].status # "unused"
      /\ Unrevoked(old) \/ "ended" \in req[r].missed
      /\ req[r] \in Request /\ req[r].op = "refresh"
      /\ req[r].user \in Users /\ account[req[r].user] # "absent"
      /\ UNCHANGED <<account, password, twoFactor, token, challenges>>
  BY DEF Rotate, RefreshesTracked, Owned, TypeOK
<1>2. session \in [SessionIds -> SessionRow]
  BY DEF TypeOK
<1>3. /\ session'[n] = row
      /\ session'[old] = [session[old] EXCEPT
                            !.status = IF Unrevoked(old) THEN "rotated" ELSE session[old].status]
      /\ \A s \in SessionIds \ {n, old} : session'[s] = session[s]
  BY <1>1, <1>2 DEF Rotate, IssuedRow
<1>4. session' \in [SessionIds -> SessionRow]
  <2>1. session' = [s \in SessionIds |-> session'[s]]
    BY <1>2 DEF Rotate
  <2>2. row \in SessionRow
    BY <1>1 DEF Request, SessionRow
  <2>3. session'[old] \in SessionRow
    BY <1>1, <1>2, <1>3 DEF SessionRow
  <2>. QED
    BY <1>2, <1>3, <2>1, <2>2, <2>3
<1>5. \A q \in Requests :
        IF q = r THEN req'[q] = Idle
        ELSE /\ req'[q].op = req[q].op
             /\ req'[q].user = req[q].user
             /\ req'[q].session = req[q].session
             /\ req'[q].token = req[q].token
             /\ req'[q].pw = req[q].pw
             /\ req[q].missed \subseteq req'[q].missed
             /\ req[q].session = old => "ended" \in req'[q].missed
  BY OvertakeType DEF Rotate
<1>6. TypeOK'
  BY <1>1, <1>4, IdleType, OvertakeType DEF Rotate, TypeOK
<1>7. /\ session'[old].status = IF Unrevoked(old) THEN "rotated" ELSE session[old].status
      /\ session'[old].status \in {"rotated", "revoked"}
      /\ session'[old].status = "revoked" => "ended" \in req[r].missed
  <2>1. session'[old].status = IF Unrevoked(old) THEN "rotated" ELSE session[old].status
    BY <1>3
  <2>2. session[old].status \in {"live", "expired", "rotated", "revoked"}
    BY <1>1, <1>2 DEF SessionRow
  <2>. QED
    BY <1>1, <2>1, <2>2 DEF Unrevoked
<1>8. \A s \in SessionIds \ {n} :
        /\ session'[s].user = session[s].user
        /\ session'[s].parent = session[s].parent
        /\ session'[s].pw = session[s].pw
        /\ session'[s].missed = session[s].missed
        /\ Live(s)' => Live(s)
        /\ session'[s].status # "unused" => session[s].status # "unused"
        /\ s # old => session'[s].status = session[s].status
        /\ Ended(s) => session'[s].status = session[s].status
  BY <1>2, <1>3 DEF Live, Unrevoked, Ended, SessionRow
<1>9. Owned'
  BY <1>1, <1>3, <1>5, <1>8 DEF Owned, Idle
<1>10. Checked'
  BY <1>1, <1>3, <1>5, <1>8 DEF Checked, Vouched, Live, Idle
<1>11. RefreshesTracked'
  BY <1>1, <1>2, <1>3, <1>5, <1>8 DEF RefreshesTracked, Unrevoked, Idle, SessionRow
<1>12. \A s \in SessionIds : session[s].parent # n
  BY DEF Rotate, ParentsEnded, Ended, SessionRow
<1>13. ParentsEnded'
  <2>1. ASSUME NEW s \in SessionIds, s # n, session[s].parent # NoSession
        PROVE  Ended(session[s].parent)'
    <3>1. session[s].parent \in SessionIds \ {n} /\ Ended(session[s].parent)
      BY <1>2, <1>12, <2>1 DEF ParentsEnded, SessionRow
    <3>2. session'[session[s].parent].status = session[session[s].parent].status
      BY <1>8, <3>1
    <3>3. session'[s].parent = session[s].parent
      BY <1>8, <2>1
    <3>. QED
      BY <3>1, <3>2, <3>3 DEF Ended
  <2>2. session'[n].parent = old
    BY <1>3
  <2>. QED
    BY <1>7, <1>8, <2>1, <2>2 DEF ParentsEnded, Ended
<1>14. \A s \in SessionIds : session[s].parent = old => "ended" \in req[r].missed
  BY <1>1 DEF ParentsEnded, Ended, Unrevoked
<1>15. RotationIsUnique'
  <2>1. ASSUME NEW a \in SessionIds, session'[a].parent # NoSession
        PROVE  ~Unrevoked(session[a].parent)'
    BY <1>13, <2>1 DEF ParentsEnded, Ended, Unrevoked
  <2>2. ASSUME NEW a \in SessionIds, NEW b \in SessionIds, a # b,
               session'[a].parent # NoSession, session'[a].parent = session'[b].parent
        PROVE  "ended" \in session'[a].missed \cup session'[b].missed
    BY <1>3, <1>8, <1>14, <2>2 DEF RotationIsUnique
  <2>. QED
    BY <2>1, <2>2 DEF RotationIsUnique
<1>16. EndedSessionsHaveNoHeirs'
  <2>1. ASSUME NEW s \in SessionIds, s # n, session'[s].parent # NoSession,
               session'[session'[s].parent].status = "revoked"
        PROVE  "ended" \in session'[s].missed
    <3>1. session'[s].parent = session[s].parent /\ session'[s].missed = session[s].missed
      BY <1>8, <2>1
    <3>2. session[s].parent \in SessionIds \ {n} /\ Ended(session[s].parent)
      BY <1>2, <1>12, <2>1, <3>1 DEF ParentsEnded, SessionRow
    <3>3. session[session[s].parent].status = "revoked"
      BY <1>8, <2>1, <3>1, <3>2
    <3>. QED
      BY <2>1, <3>1, <3>3 DEF EndedSessionsHaveNoHeirs
  <2>2. session'[n].parent = old /\ session'[n].missed = req[r].missed
    BY <1>3
  <2>. QED
    BY <1>7, <2>1, <2>2 DEF EndedSessionsHaveNoHeirs
<1>. QED
  BY <1>6, <1>9, <1>10, <1>11, <1>13, <1>15, <1>16

LEMMA ForgotPasswordStep ==
    ASSUME SessionsInv, NEW r \in Requests, NEW u \in Users, ForgotPassword(r, u)
    PROVE  SessionsInv'
<1>. USE ConstantsAreDisjoint DEF SessionsInv
<1>. DEFINE next == [Idle EXCEPT !.op = "forgot", !.user = u]
<1>1. /\ account[u] # "absent"
      /\ token' = Spent(TokensOf(u))
      /\ req' = [Overtake({}, TokensOf(u), {}) EXCEPT ![r] = next]
      /\ UNCHANGED <<account, password, twoFactor, session, challenges>>
  BY DEF ForgotPassword
<1>2. next \in Request /\ next.op = "forgot" /\ next.user = u
  BY IdleType DEF Request
<1>. HIDE DEF next
<1>3. \A q \in Requests :
        IF q = r THEN req'[q] = next
        ELSE /\ req'[q].op = req[q].op
             /\ req'[q].user = req[q].user
             /\ req'[q].session = req[q].session
             /\ req'[q].token = req[q].token
             /\ req'[q].pw = req[q].pw
             /\ req[q].missed \subseteq req'[q].missed
  BY <1>1, OvertakeType
<1>4. \A t \in TokenIds :
        /\ token'[t].user = token[t].user
        /\ token'[t].status = "unused" <=> token[t].status = "unused"
  BY <1>1, SpentType DEF TokensOf, Unspent
<1>5. TypeOK'
  BY <1>1, <1>2, SpentType, OvertakeType DEF TypeOK
<1>6. Owned'
  BY <1>1, <1>2, <1>3, <1>4 DEF Owned
<1>7. Checked'
  BY <1>1, <1>2, <1>3 DEF Checked, Vouched, Live
<1>8. RefreshesTracked'
  BY <1>1, <1>2, <1>3 DEF RefreshesTracked, Unrevoked
<1>9. ParentsEnded' /\ RotationIsUnique' /\ EndedSessionsHaveNoHeirs'
  BY <1>1 DEF ParentsEnded, Ended, RotationIsUnique, EndedSessionsHaveNoHeirs, Unrevoked
<1>. QED
  BY <1>5, <1>6, <1>7, <1>8, <1>9

LEMMA ExpireSessionStep ==
    ASSUME SessionsInv, NEW x \in SessionIds, ExpireSession(x)
    PROVE  SessionsInv'
<1>. USE ConstantsAreDisjoint DEF SessionsInv
<1>1. session \in [SessionIds -> SessionRow]
  BY DEF TypeOK
<1>2. /\ session' = [session EXCEPT ![x] = [session[x] EXCEPT !.status = "expired"]]
      /\ session[x].status = "live"
      /\ UNCHANGED <<account, password, twoFactor, token, challenges, req>>
  BY DEF ExpireSession, Live
<1>3. /\ session' \in [SessionIds -> SessionRow]
      /\ \A s \in SessionIds :
            /\ session'[s].user = session[s].user
            /\ session'[s].parent = session[s].parent
            /\ session'[s].pw = session[s].pw
            /\ session'[s].missed = session[s].missed
            /\ session'[s].status = IF s = x THEN "expired" ELSE session[s].status
  BY <1>1, <1>2 DEF SessionRow
<1>4. TypeOK'
  BY <1>2, <1>3 DEF TypeOK
<1>5. Owned' /\ Checked'
  BY <1>2, <1>3 DEF Owned, Checked, Vouched, Live
<1>6. RefreshesTracked'
  BY <1>2 DEF RefreshesTracked, Unrevoked
<1>7. ParentsEnded'
  BY <1>1, <1>2 DEF ParentsEnded, Ended, SessionRow
<1>8. RotationIsUnique' /\ EndedSessionsHaveNoHeirs'
  BY <1>2, <1>3 DEF RotationIsUnique, EndedSessionsHaveNoHeirs, Unrevoked, SessionRow
<1>. QED
  BY <1>4, <1>5, <1>6, <1>7, <1>8

LEMMA RegisterStep ==
    ASSUME SessionsInv, NEW u \in Users, NEW p \in Passwords, NEW n \in SessionIds,
           Register(u, p, n)
    PROVE  SessionsInv'
<1>. USE ConstantsAreDisjoint DEF SessionsInv
<1>1. TypeOK'
  BY IdleType DEF Register, IssuedRow, TypeOK, SessionRow, Request
<1>2. Owned'
  BY DEF Register, IssuedRow, Idle, Owned, TypeOK, SessionRow, Request
<1>3. Checked'
  BY DEF Register, IssuedRow, Checked, Vouched, Live, TypeOK, SessionRow
<1>4. RefreshesTracked'
  BY DEF Register, IssuedRow, Idle, RefreshesTracked, Unrevoked
<1>5. ParentsEnded' /\ RotationIsUnique' /\ EndedSessionsHaveNoHeirs'
  BY DEF Register, IssuedRow, Idle, ParentsEnded, Ended, RotationIsUnique,
       EndedSessionsHaveNoHeirs, Unrevoked
<1>. QED
  BY <1>1, <1>2, <1>3, <1>4, <1>5

LEMMA VerifyTwoFactorStep ==
    ASSUME SessionsInv, NEW r \in Requests, NEW c \in challenges,
           VerifyTwoFactor(r, c)
    PROVE  SessionsInv'
<1>. USE ConstantsAreDisjoint DEF SessionsInv
<1>1. TypeOK'
  BY IdleType DEF VerifyTwoFactor, TypeOK, Challenge, Request
<1>2. Owned'
  BY DEF VerifyTwoFactor, Idle, Owned, TypeOK, Challenge, Request
<1>3. Checked'
  BY DEF VerifyTwoFactor, Checked, Vouched, Live, TypeOK, SessionRow
<1>4. RefreshesTracked'
  BY IdleType DEF VerifyTwoFactor, Idle, RefreshesTracked, Unrevoked
<1>5. ParentsEnded' /\ RotationIsUnique' /\ EndedSessionsHaveNoHeirs'
  BY DEF VerifyTwoFactor, ParentsEnded, Ended, RotationIsUnique,
       EndedSessionsHaveNoHeirs, Unrevoked
<1>. QED
  BY <1>1, <1>2, <1>3, <1>4, <1>5

LEMMA IssueSessionStep ==
    ASSUME SessionsInv, NEW r \in Requests, NEW n \in SessionIds,
           IssueSession(r, n)
    PROVE  SessionsInv'
<1>. USE ConstantsAreDisjoint DEF SessionsInv
<1>1. TypeOK'
  BY IdleType DEF IssueSession, IssuedRow, TypeOK, SessionRow, Request
<1>2. Owned'
  BY DEF IssueSession, IssuedRow, Idle, Owned, TypeOK, SessionRow, Request
<1>3. Checked'
  BY DEF IssueSession, IssuedRow, Idle, Checked, Vouched, Live, Unrevoked, TypeOK
<1>4. RefreshesTracked'
  BY DEF IssueSession, IssuedRow, Idle, RefreshesTracked, Unrevoked
<1>5. ParentsEnded' /\ RotationIsUnique' /\ EndedSessionsHaveNoHeirs'
  BY DEF IssueSession, IssuedRow, RefreshesTracked, ParentsEnded, Ended,
       RotationIsUnique, EndedSessionsHaveNoHeirs, Unrevoked
<1>. QED
  BY <1>1, <1>2, <1>3, <1>4, <1>5

LEMMA SetTwoFactorStep ==
    ASSUME SessionsInv, NEW u \in Users,
           SetTwoFactor(u)
    PROVE  SessionsInv'
<1>. USE ConstantsAreDisjoint DEF SessionsInv
<1>1. TypeOK'
  BY DEF SetTwoFactor, TypeOK
<1>2. Owned'
  BY DEF SetTwoFactor, Owned, TypeOK
<1>3. Checked'
  BY DEF SetTwoFactor, Checked, Vouched, Live, Unrevoked, TypeOK
<1>4. RefreshesTracked'
  BY DEF SetTwoFactor, RefreshesTracked, Unrevoked
<1>5. ParentsEnded' /\ RotationIsUnique' /\ EndedSessionsHaveNoHeirs'
  BY DEF SetTwoFactor, ParentsEnded, Ended, RotationIsUnique, EndedSessionsHaveNoHeirs,
       Unrevoked
<1>. QED
  BY <1>1, <1>2, <1>3, <1>4, <1>5

LEMMA CreateResetTokenRequests ==
    ASSUME TypeOK, NEW r \in Requests, NEW t \in TokenIds, CreateResetToken(r, t)
    PROVE  /\ req' \in [Requests -> Request]
           /\ \A q \in Requests :
                IF q = r THEN req'[q] = Idle
                ELSE /\ req'[q].op = req[q].op
                     /\ req'[q].user = req[q].user
                     /\ req'[q].session = req[q].session
                     /\ req'[q].token = req[q].token
                     /\ req'[q].pw = req[q].pw
                     /\ req[q].missed \subseteq req'[q].missed
                     /\ req[q].op = "forgot" /\ req[q].user = req[r].user
                           => "ended" \in req'[q].missed
<1>. DEFINE g == OvertakeForgot(req[r].user)
<1>1. g \in [Requests -> Request]
  BY OvertakeForgotType
<1>2. req' = [g EXCEPT ![r] = Idle]
  BY DEF CreateResetToken
<1>. HIDE DEF g
<1>3. \A q \in Requests : req'[q] = IF q = r THEN Idle ELSE g[q]
  BY <1>1, <1>2
<1>4. req' \in [Requests -> Request]
  BY <1>1, <1>2, IdleType
<1>. USE DEF g
<1>. QED
  BY <1>3, <1>4, OvertakeForgotType

LEMMA CreateResetTokenStep ==
    ASSUME SessionsInv, NEW r \in Requests, NEW t \in TokenIds,
           CreateResetToken(r, t)
    PROVE  SessionsInv'
<1>. USE ConstantsAreDisjoint DEF SessionsInv
<1>1. /\ req[r].op = "forgot" /\ token[t].status = "unused"
      /\ req[r].user \in Users /\ account[req[r].user] # "absent"
      /\ token' = [token EXCEPT ![t] = [status |-> "live", user |-> req[r].user]]
      /\ UNCHANGED <<account, password, twoFactor, session, challenges>>
  BY DEF CreateResetToken, Owned
<1>2. TypeOK'
  BY <1>1, CreateResetTokenRequests DEF TypeOK, TokenRow
<1>3. Owned'
  BY <1>1, CreateResetTokenRequests DEF Idle, Owned, TypeOK
<1>4. Checked'
  BY <1>1, CreateResetTokenRequests DEF Idle, Checked, Vouched, Live
<1>5. RefreshesTracked'
  BY <1>1, CreateResetTokenRequests DEF Idle, RefreshesTracked, Unrevoked
<1>6. ParentsEnded' /\ RotationIsUnique' /\ EndedSessionsHaveNoHeirs'
  BY <1>1 DEF ParentsEnded, Ended, RotationIsUnique, EndedSessionsHaveNoHeirs, Unrevoked
<1>. QED
  BY <1>2, <1>3, <1>4, <1>5, <1>6

LEMMA ResetPasswordStep ==
    ASSUME SessionsInv, NEW r \in Requests, NEW t \in TokenIds, NEW p \in Passwords,
           ResetPassword(r, t, p)
    PROVE  SessionsInv'
<1>. USE ConstantsAreDisjoint DEF SessionsInv
<1>1. TypeOK'
  BY IdleType DEF ResetPassword, TypeOK, TokenRow, Request
<1>2. Owned'
  BY DEF ResetPassword, Idle, LinkAccepted, Owned, TypeOK, TokenRow, Request
<1>3. Checked'
  BY DEF ResetPassword, Checked, Vouched, Live, Unrevoked, TypeOK
<1>4. RefreshesTracked'
  BY DEF ResetPassword, Idle, LinkAccepted, RefreshesTracked, Unrevoked
<1>5. ParentsEnded' /\ RotationIsUnique' /\ EndedSessionsHaveNoHeirs'
  BY DEF ResetPassword, ParentsEnded, Ended, RotationIsUnique,
       EndedSessionsHaveNoHeirs, Unrevoked
<1>. QED
  BY <1>1, <1>2, <1>3, <1>4, <1>5

LEMMA ChangePasswordStep ==
    ASSUME SessionsInv, NEW r \in Requests, NEW u \in Users, NEW old \in Passwords,
           NEW new \in Passwords, NEW keep \in SessionIds \cup {NoSession},
           ChangePassword(r, u, old, new, keep)
    PROVE  SessionsInv'
<1>. USE ConstantsAreDisjoint DEF SessionsInv
<1>1. TypeOK'
  BY IdleType DEF ChangePassword, TypeOK, Request
<1>2. Owned'
  BY DEF ChangePassword, Idle, Owned, TypeOK, Request
<1>3. Checked'
  BY DEF ChangePassword, Checked, Vouched, Live, TypeOK
<1>4. RefreshesTracked'
  BY IdleType DEF ChangePassword, Idle, RefreshesTracked, Unrevoked
<1>5. ParentsEnded' /\ RotationIsUnique' /\ EndedSessionsHaveNoHeirs'
  BY DEF ChangePassword, ParentsEnded, Ended, RotationIsUnique,
       EndedSessionsHaveNoHeirs, Unrevoked
<1>. QED
  BY <1>1, <1>2, <1>3, <1>4, <1>5

LEMMA EnableUserStep ==
    ASSUME SessionsInv, NEW u \in Users,
           EnableUser(u)
    PROVE  SessionsInv'
<1>. USE ConstantsAreDisjoint DEF SessionsInv
<1>1. TypeOK'
  BY DEF EnableUser, TypeOK
<1>2. Owned'
  BY DEF EnableUser, Owned, TypeOK
<1>3. Checked'
  BY DEF EnableUser, Checked, Vouched, Live, Unrevoked, TypeOK
<1>4. RefreshesTracked'
  BY DEF EnableUser, RefreshesTracked, Unrevoked
<1>5. ParentsEnded' /\ RotationIsUnique' /\ EndedSessionsHaveNoHeirs'
  BY DEF EnableUser, ParentsEnded, Ended, RotationIsUnique, EndedSessionsHaveNoHeirs,
       Unrevoked
<1>. QED
  BY <1>1, <1>2, <1>3, <1>4, <1>5

LEMMA ExpireTokenStep ==
    ASSUME SessionsInv, NEW t \in TokenIds,
           ExpireToken(t)
    PROVE  SessionsInv'
<1>. USE ConstantsAreDisjoint DEF SessionsInv
<1>1. TypeOK'
  BY DEF ExpireToken, TypeOK, TokenRow
<1>2. Owned'
  BY DEF ExpireToken, Owned, TypeOK, TokenRow
<1>3. Checked'
  BY DEF ExpireToken, Checked, Vouched, Live, Unrevoked, TypeOK
<1>4. RefreshesTracked'
  BY DEF ExpireToken, RefreshesTracked, Unrevoked
<1>5. ParentsEnded' /\ RotationIsUnique' /\ EndedSessionsHaveNoHeirs'
  BY DEF ExpireToken, ParentsEnded, Ended, RotationIsUnique, EndedSessionsHaveNoHeirs,
       Unrevoked
<1>. QED
  BY <1>1, <1>2, <1>3, <1>4, <1>5

LEMMA ExpireChallengeStep ==
    ASSUME SessionsInv, NEW c \in challenges,
           ExpireChallenge(c)
    PROVE  SessionsInv'
<1>. USE ConstantsAreDisjoint DEF SessionsInv
<1>1. TypeOK'
  BY DEF ExpireChallenge, TypeOK
<1>2. Owned'
  BY DEF ExpireChallenge, Owned, TypeOK
<1>3. Checked'
  BY DEF ExpireChallenge, Checked, Vouched, Live, Unrevoked, TypeOK
<1>4. RefreshesTracked'
  BY DEF ExpireChallenge, RefreshesTracked, Unrevoked
<1>5. ParentsEnded' /\ RotationIsUnique' /\ EndedSessionsHaveNoHeirs'
  BY DEF ExpireChallenge, ParentsEnded, Ended, RotationIsUnique,
       EndedSessionsHaveNoHeirs, Unrevoked
<1>. QED
  BY <1>1, <1>2, <1>3, <1>4, <1>5

-----------------------------------------------------------------------------
(* The theorems *)

LEMMA InitInv == Init => SessionsInv
<1>. SUFFICES ASSUME Init PROVE SessionsInv
  OBVIOUS
<1>1. TypeOK
  BY IdleType DEF Init, TypeOK, SessionRow, TokenRow, Misses
<1>2. Owned /\ Checked /\ RefreshesTracked
  BY DEF Init, Idle, Owned, Checked, RefreshesTracked, Live
<1>3. ParentsEnded /\ RotationIsUnique /\ EndedSessionsHaveNoHeirs
  BY DEF Init, ParentsEnded, RotationIsUnique, EndedSessionsHaveNoHeirs
<1>. QED
  BY <1>1, <1>2, <1>3 DEF SessionsInv

LEMMA NextInv == SessionsInv /\ [Next]_vars => SessionsInv'
<1>. SUFFICES ASSUME SessionsInv, [Next]_vars PROVE SessionsInv'
  OBVIOUS
<1>1. ASSUME NEW r \in Requests, RequestStep(r) PROVE SessionsInv'
  BY <1>1, LoginStep, VerifyTwoFactorStep, IssueSessionStep, RefreshStep, RotateStep,
       ForgotPasswordStep, CreateResetTokenStep, ResetPasswordStep, CommitResetStep,
       ChangePasswordStep, CommitChangeStep
  DEF RequestStep
<1>2. ASSUME NEW u \in Users, UserStep(u) PROVE SessionsInv'
  BY <1>2, RegisterStep, SetTwoFactorStep, RevokeOtherSessionsStep, DisableUserStep,
       EnableUserStep, RevokeSessionsStep
  DEF UserStep
<1>3. ASSUME NEW s \in SessionIds, EndSession(s) PROVE SessionsInv'
  BY <1>3, EndSessionStep
<1>4. ASSUME Expiry PROVE SessionsInv'
  BY <1>4, ExpireSessionStep, ExpireTokenStep, ExpireChallengeStep DEF Expiry
<1>5. ASSUME UNCHANGED vars PROVE SessionsInv'
  BY <1>5
  DEF vars, SessionsInv, TypeOK, Owned, Checked, Vouched, Live, RefreshesTracked,
       Unrevoked, ParentsEnded, Ended, RotationIsUnique, EndedSessionsHaveNoHeirs
<1>. QED
  BY <1>1, <1>2, <1>3, <1>4, <1>5 DEF Next

(* The inductive invariant holds in every reachable state. *)
THEOREM SessionsInvariant == Spec => []SessionsInv
BY InitInv, NextInv, PTL DEF Spec

(* Every row, token, challenge and request keeps its type. *)
THEOREM TypeCorrectness == Spec => []TypeOK
<1>1. SessionsInv => TypeOK
  BY DEF SessionsInv
<1>. QED
  BY <1>1, SessionsInvariant, PTL

(* updateUser's suspension leaves alive only sessions whose checks preceded *)
(* it: for any number of users, sessions and overlapping requests.          *)
THEOREM SuspensionTheorem == Spec => []SuspensionEndsSessions
<1>1. SessionsInv => SuspensionEndsSessions
  BY DEF SessionsInv, Checked, Vouched, SuspensionEndsSessions
<1>. QED
  BY <1>1, SessionsInvariant, PTL

(* resetPassword and changePassword leave alive only lineages that stand    *)
(* for the new password, or that were overtaken by the change.              *)
THEOREM PasswordTheorem == Spec => []SessionsMatchPassword
<1>1. SessionsInv => SessionsMatchPassword
  BY DEF SessionsInv, Checked, Vouched, SessionsMatchPassword
<1>. QED
  BY <1>1, SessionsInvariant, PTL

(* refresh hands out one successor per session, overlapping requests apart. *)
THEOREM RotationTheorem == Spec => []RotationIsUnique
<1>1. SessionsInv => RotationIsUnique
  BY DEF SessionsInv
<1>. QED
  BY <1>1, SessionsInvariant, PTL

(* A session ended by anything but its own rotation stays without heirs,    *)
(* overlapping requests apart.                                              *)
THEOREM EndedTheorem == Spec => []EndedSessionsHaveNoHeirs
<1>1. SessionsInv => EndedSessionsHaveNoHeirs
  BY DEF SessionsInv
<1>. QED
  BY <1>1, SessionsInvariant, PTL

(* A cookie is spent once, by rotation or by the end of its session.        *)
THEOREM CookieTheorem == Spec => []CookiesAreSpentOnce
<1>1. RotationIsUnique /\ EndedSessionsHaveNoHeirs => CookiesAreSpentOnce
  BY DEF CookiesAreSpentOnce
<1>. QED
  BY <1>1, RotationTheorem, EndedTheorem, PTL

-----------------------------------------------------------------------------
(* Reset links.  A reset under way holds a link that is unspent, or it was  *)
(* overtaken when the link was spent.                                       *)
ResetsTracked ==
    \A r \in Requests :
        req[r].op = "reset" => Unspent(req[r].token) \/ "ended" \in req[r].missed

(* A request goes on with what it knows, or is no reset.                    *)
Carried(q) ==
    \/ req'[q].op # "reset"
    \/ /\ req[q].op = "reset" /\ req'[q].token = req[q].token
       /\ req[q].missed \subseteq req'[q].missed

LEMMA OvertakeTokens ==
    ASSUME TypeOK, NEW S, NEW T, NEW U, NEW q \in Requests
    PROVE  req[q].token \in T => "ended" \in Overtake(S, T, U)[q].missed
<1>. QED  BY DEF TypeOK, Overtake, Request, Misses

LEMMA LinksKeep ==
    ASSUME ResetsTracked, \A q \in Requests : Carried(q),
           \A t \in TokenIds : Unspent(t) => Unspent(t)',
           \A q \in Requests : req[q].op = "reset" => req[q].token \in TokenIds
    PROVE  ResetsTracked'
<1>. QED  BY DEF ResetsTracked, Carried, Unspent

LEMMA LinksSpent ==
    ASSUME TypeOK, ResetsTracked, NEW T, token' = Spent(T),
           \A q \in Requests : req[q].op = "reset" => req[q].token \in TokenIds,
           \A q \in Requests :
              /\ Carried(q)
              /\ req'[q].op = "reset" /\ req[q].token \in T => "ended" \in req'[q].missed
    PROVE  ResetsTracked'
<1>1. \A t \in TokenIds \ T : Unspent(t) => Unspent(t)'  BY SpentType DEF Unspent
<1>. QED  BY <1>1 DEF ResetsTracked, Carried, Unspent

LEMMA OvertakenCarried ==
    ASSUME TypeOK, NEW S, NEW T, NEW U, NEW r, NEW f, f.op # "reset",
           req' = Overtake(S, T, U) \/ req' = [Overtake(S, T, U) EXCEPT ![r] = f]
    PROVE  \A q \in Requests :
              /\ Carried(q)
              /\ req'[q].op = "reset" /\ req[q].token \in T => "ended" \in req'[q].missed
<1>1. SUFFICES ASSUME NEW q \in Requests, req'[q].op = "reset"
               PROVE  /\ Carried(q)
                      /\ req[q].token \in T => "ended" \in req'[q].missed
  BY DEF Carried
<1>2. req'[q] = Overtake(S, T, U)[q]
  <2>. DEFINE g == Overtake(S, T, U)
  <2>1. g \in [Requests -> Request]  BY OvertakeType
  <2>2. req' = g \/ req' = [g EXCEPT ![r] = f]  OBVIOUS
  <2>3. SUFFICES req'[q] = g[q]  OBVIOUS
  <2>. HIDE DEF g
  <2>4. CASE req' = g  BY <2>4
  <2>5. CASE req' = [g EXCEPT ![r] = f]
    <3>1. CASE q = r  BY <1>1, <2>1, <2>5, <3>1
    <3>2. CASE q # r  BY <2>1, <2>5, <3>2
    <3>. QED  BY <3>1, <3>2
  <2>. QED  BY <2>2, <2>4, <2>5
<1>. QED  BY <1>1, <1>2, OvertakeType, OvertakeTokens DEF Carried

LEMMA ResetsStep == ASSUME SessionsInv, ResetsTracked, [Next]_vars PROVE ResetsTracked'
<1>0. TypeOK /\ \A q \in Requests : req[q].op = "reset" => req[q].token \in TokenIds
  BY DEF SessionsInv, Owned
<1>1. ASSUME UNCHANGED token, \A q \in Requests : Carried(q)  PROVE ResetsTracked'
  BY <1>0, <1>1, LinksKeep DEF Unspent
<1>2. ASSUME NEW S, NEW U, NEW r, UNCHANGED token,
             req' = Overtake(S, {}, U) \/ req' = [Overtake(S, {}, U) EXCEPT ![r] = Idle]
      PROVE  ResetsTracked'
  <2>1. Idle.op # "reset"  BY DEF Idle
  <2>2. \A q \in Requests : Carried(q)  BY <1>0, <1>2, <2>1, OvertakenCarried
  <2>. QED  BY <1>1, <1>2, <2>2
<1>3. ASSUME NEW r \in Requests, NEW f, f.op # "reset", UNCHANGED token,
             req' = [req EXCEPT ![r] = f]
      PROVE  ResetsTracked'
  <2>1. \A q \in Requests : Carried(q)
    BY <1>0, <1>3 DEF Carried, TypeOK
  <2>. QED  BY <1>1, <1>3, <2>1
<1>4. ASSUME UNCHANGED <<token, req>>  PROVE ResetsTracked'
  BY <1>1, <1>4 DEF Carried
<1>5. ASSUME NEW r \in Requests, NEW u \in Users, ForgotPassword(r, u)  PROVE ResetsTracked'
  <2>. DEFINE f == [Idle EXCEPT !.op = "forgot", !.user = u]
  <2>1. f.op # "reset"  BY DEF Idle
  <2>2. token' = Spent(TokensOf(u)) /\ req' = [Overtake({}, TokensOf(u), {}) EXCEPT ![r] = f]
    BY <1>5 DEF ForgotPassword
  <2>. HIDE DEF f
  <2>. QED  BY <1>0, <2>1, <2>2, OvertakenCarried, LinksSpent
<1>6. ASSUME NEW r \in Requests, CommitReset(r)  PROVE ResetsTracked'
  <2>1. Idle.op # "reset"  BY DEF Idle
  <2>. QED  BY <1>0, <1>6, <2>1, OvertakenCarried, LinksSpent DEF CommitReset
<1>7. ASSUME NEW r \in Requests, NEW t \in TokenIds, CreateResetToken(r, t)
      PROVE  ResetsTracked'
  <2>1. \A q \in Requests : Carried(q)
    BY <1>0, <1>7, CreateResetTokenRequests DEF Carried, Idle
  <2>2. \A x \in TokenIds : Unspent(x) => Unspent(x)'
    BY <1>0, <1>7 DEF CreateResetToken, TypeOK, TokenRow, Unspent
  <2>. QED  BY <1>0, <2>1, <2>2, LinksKeep
<1>8. ASSUME NEW t \in TokenIds, ExpireToken(t)  PROVE ResetsTracked'
  <2>1. \A x \in TokenIds : Unspent(x) => Unspent(x)'
    BY <1>0, <1>8 DEF ExpireToken, TypeOK, TokenRow, Unspent
  <2>2. \A q \in Requests : Carried(q)  BY <1>8 DEF ExpireToken, Carried
  <2>. QED  BY <1>0, <2>1, <2>2, LinksKeep
<1>9. ASSUME NEW r \in Requests, NEW t \in TokenIds, NEW p \in Passwords, ResetPassword(r, t, p)
      PROVE  ResetsTracked'
  <2>1. \A q \in Requests : q # r => req'[q] = req[q]
    BY <1>0, <1>9 DEF ResetPassword, TypeOK
  <2>2. req'[r].token = t /\ Unspent(t) /\ UNCHANGED token
    BY <1>0, <1>9 DEF ResetPassword, LinkAccepted, Unspent, TypeOK, Idle
  <2>. QED  BY <2>1, <2>2 DEF ResetsTracked, Unspent
<1>10. ASSUME NEW r \in Requests,
              \/ \E u \in Users, p \in Passwords : Login(r, u, p)
              \/ \E c \in challenges : VerifyTwoFactor(r, c)
              \/ \E s \in SessionIds : IssueSession(r, s) \/ Refresh(r, s)
              \/ \E u \in Users, old, new \in Passwords, keep \in SessionIds \cup {NoSession} :
                    ChangePassword(r, u, old, new, keep)
       PROVE  ResetsTracked'
  <2>1. CASE UNCHANGED <<token, req>>  BY <1>4, <2>1
  <2>2. CASE \E f : f.op # "reset" /\ UNCHANGED token /\ req' = [req EXCEPT ![r] = f]
    BY <1>3, <2>2
  <2>. QED
    BY <1>10, <2>1, <2>2
    DEF Login, VerifyTwoFactor, IssueSession, Refresh, ChangePassword, Idle
<1>11. ASSUME NEW r \in Requests, CommitChange(r) \/ \E s \in SessionIds : Rotate(r, s)
       PROVE  ResetsTracked'
  <2>1. UNCHANGED token /\ \E S, U : req' = [Overtake(S, {}, U) EXCEPT ![r] = Idle]
    BY <1>11 DEF CommitChange, Rotate
  <2>. QED  BY <1>2, <2>1
<1>12. ASSUME NEW u \in Users, UserStep(u)  PROVE ResetsTracked'
  BY <1>2, <1>4, <1>12
  DEF UserStep, Register, SetTwoFactor, RevokeOtherSessions, DisableUser, EnableUser,
      RevokeSessions
<1>13. ASSUME NEW s \in SessionIds, EndSession(s) \/ ExpireSession(s)  PROVE ResetsTracked'
  BY <1>2, <1>4, <1>13 DEF EndSession, ExpireSession
<1>14. CASE UNCHANGED vars \/ \E c \in challenges : ExpireChallenge(c)
  BY <1>4, <1>14 DEF vars, ExpireChallenge
<1>. QED
  BY <1>5, <1>6, <1>7, <1>8, <1>9, <1>10, <1>11, <1>12, <1>13, <1>14
  DEF Next, RequestStep, Expiry

(* A reset link that was spent or superseded changes the password only for  *)
(* a request that had already accepted it: resetPassword tests usedAt, and  *)
(* forgotPassword and resetPassword spend every other link of the user.     *)
THEOREM ResetLinksTheorem == Spec => SpentLinksAreInert
<1>1. Init => ResetsTracked  BY DEF Init, Idle, ResetsTracked
<1>2. ResetsTracked =>
         [\A r \in Requests :
            (req[r].op = "reset" /\ req'[r].op = "idle")
               => Unspent(req[r].token) \/ "ended" \in req[r].missed]_vars
  BY DEF ResetsTracked
<1>. QED
  BY <1>1, <1>2, InitInv, NextInv, ResetsStep, PTL DEF Spec, SpentLinksAreInert

-----------------------------------------------------------------------------
(* The store of accounts.  What the refinement needs besides SessionsInv:   *)
(* an account has a password; a refresh carries the user and the marks of   *)
(* the session it checked; a request for a reset link that was not          *)
(* overtaken finds no link of the user good.                                *)
PasswordsTracked ==
    /\ \A u \in Users : IF account[u] = "absent" THEN password[u] = NoPassword
                                                ELSE password[u] \in Passwords
    /\ \A r \in Requests : req[r].op \in {"reset", "change"} => req[r].pw \in Passwords

RefreshesAgree ==
    \A r \in Requests : req[r].op = "refresh" =>
        /\ req[r].user = session[req[r].session].user
        /\ "swept" \in session[req[r].session].missed => "swept" \in req[r].missed

ForgotsTracked ==
    \A r \in Requests : req[r].op = "forgot" /\ req[r].missed = {} =>
        \A t \in TokenIds : token[t].status = "live" => token[t].user # req[r].user

StoreInv == PasswordsTracked /\ RefreshesAgree /\ ForgotsTracked

(* Request q goes on with what it knows, or with nothing to keep.           *)
GoesOn(q) ==
    \/ req'[q].op \in {"idle", "issue"}
    \/ /\ req'[q].op = req[q].op /\ req'[q].user = req[q].user
       /\ req'[q].session = req[q].session /\ req'[q].pw = req[q].pw
       /\ req[q].missed \subseteq req'[q].missed

PasswordsKept ==
    \A u \in Users :
        \/ account'[u] = account[u] /\ password'[u] = password[u]
        \/ account'[u] # "absent" /\ password'[u] \in Passwords

SessionsKept ==
    \A s \in SessionIds : session[s].status # "unused" =>
        session'[s].user = session[s].user /\ session'[s].missed = session[s].missed

NoNewLink ==
    \A t \in TokenIds : token'[t].status = "live" =>
        token[t].status = "live" /\ token'[t].user = token[t].user

LEMMA PasswordsStep ==
    ASSUME PasswordsTracked, PasswordsKept,
           \A q \in Requests : GoesOn(q) \/ req'[q].op \notin {"reset", "change"}
                                 \/ req'[q].pw \in Passwords
    PROVE  PasswordsTracked'
<1>1. ASSUME NEW u \in Users
      PROVE  IF account'[u] = "absent" THEN password'[u] = NoPassword
                                       ELSE password'[u] \in Passwords
  BY DEF PasswordsTracked, PasswordsKept
<1>2. ASSUME NEW q \in Requests, req'[q].op \in {"reset", "change"}
      PROVE  req'[q].pw \in Passwords
  BY <1>2 DEF PasswordsTracked, GoesOn
<1>. QED
  BY <1>1, <1>2 DEF PasswordsTracked

LEMMA RefreshesStep ==
    ASSUME SessionsInv, RefreshesAgree, SessionsKept,
           \A q \in Requests : GoesOn(q) \/ req'[q].op # "refresh"
    PROVE  RefreshesAgree'
<1>1. SUFFICES ASSUME NEW q \in Requests, req'[q].op = "refresh"
               PROVE  /\ req'[q].user = session'[req'[q].session].user
                      /\ "swept" \in session'[req'[q].session].missed
                            => "swept" \in req'[q].missed
  BY DEF RefreshesAgree
<1>2. /\ req[q].op = "refresh" /\ req'[q].user = req[q].user
      /\ req'[q].session = req[q].session
      /\ req[q].missed \subseteq req'[q].missed
  BY <1>1 DEF GoesOn
<1>3. req[q].session \in SessionIds /\ session[req[q].session].status # "unused"
  BY <1>2 DEF SessionsInv, RefreshesTracked
<1>. QED
  BY <1>2, <1>3 DEF RefreshesAgree, SessionsKept

LEMMA ForgotsStep ==
    ASSUME ForgotsTracked, NoNewLink,
           \A q \in Requests : GoesOn(q) \/ req'[q].op # "forgot"
    PROVE  ForgotsTracked'
<1>1. SUFFICES ASSUME NEW q \in Requests, req'[q].op = "forgot", req'[q].missed = {},
                      NEW t \in TokenIds, token'[t].status = "live"
               PROVE  token'[t].user # req'[q].user
  BY DEF ForgotsTracked
<1>2. req[q].op = "forgot" /\ req'[q].user = req[q].user /\ req[q].missed = {}
  BY <1>1 DEF GoesOn
<1>. QED
  BY <1>1, <1>2 DEF ForgotsTracked, NoNewLink

LEMMA StoreKept ==
    ASSUME SessionsInv, StoreInv, PasswordsKept, SessionsKept, NoNewLink,
           \A q \in Requests : GoesOn(q)
    PROVE  StoreInv'
BY PasswordsStep, RefreshesStep, ForgotsStep DEF StoreInv

LEMMA OvertakeGoesOn ==
    ASSUME TypeOK, NEW S, NEW T, NEW U, NEW r, NEW f,
           req' = Overtake(S, T, U) \/ req' = [Overtake(S, T, U) EXCEPT ![r] = f]
    PROVE  \A q \in Requests : GoesOn(q) \/ req'[q] = f
<1>. DEFINE g == Overtake(S, T, U)
<1>1. g \in [Requests -> Request]
  BY OvertakeType
<1>2. req' = g \/ req' = [g EXCEPT ![r] = f]
  OBVIOUS
<1>3. ASSUME NEW q \in Requests PROVE req'[q] = g[q] \/ req'[q] = f
  <2>. HIDE DEF g
  <2>. QED
    BY <1>1, <1>2
<1>. QED
  BY <1>3, OvertakeType DEF GoesOn

LEMMA OvertakeIdle ==
    ASSUME TypeOK, NEW S, NEW T, NEW U, NEW r,
           req' = Overtake(S, T, U) \/ req' = [Overtake(S, T, U) EXCEPT ![r] = Idle]
    PROVE  \A q \in Requests : GoesOn(q)
<1>1. \A q \in Requests : GoesOn(q) \/ req'[q] = Idle
  BY OvertakeGoesOn
<1>. QED
  BY <1>1 DEF GoesOn, Idle

LEMMA ChangedGoesOn ==
    ASSUME TypeOK, NEW r \in Requests, NEW f,
           UNCHANGED req \/ req' = [req EXCEPT ![r] = f]
    PROVE  \A q \in Requests : GoesOn(q) \/ req'[q] = f
<1>1. ASSUME NEW q \in Requests PROVE req'[q] = req[q] \/ req'[q] = f
  BY DEF TypeOK
<1>. QED
  BY <1>1 DEF GoesOn

LEMMA SameAccounts ==
    ASSUME UNCHANGED <<account, password>>
    PROVE  PasswordsKept
BY DEF PasswordsKept

LEMMA SameSessions == ASSUME UNCHANGED session PROVE SessionsKept
BY DEF SessionsKept

LEMMA RevokedKept == ASSUME TypeOK, NEW S, session' = Revoked(S) PROVE SessionsKept
BY RevokedFields DEF SessionsKept

LEMMA SameLinks == ASSUME UNCHANGED token PROVE NoNewLink
BY DEF NoNewLink

LEMMA SpentLinks == ASSUME TypeOK, NEW T, token' = Spent(T) PROVE NoNewLink
BY SpentType DEF NoNewLink

LEMMA StoreInvSessions ==
    ASSUME SessionsInv, StoreInv,
           \/ \E u \in Users, p \in Passwords, n \in SessionIds : Register(u, p, n)
           \/ \E r \in Requests, n \in SessionIds : IssueSession(r, n) \/ Rotate(r, n)
           \/ \E r \in Requests : CommitChange(r)
           \/ \E n \in SessionIds : ExpireSession(n)
    PROVE  StoreInv'
<1>0. TypeOK /\ Idle.op = "idle"
  BY DEF SessionsInv, Idle
<1>1. NoNewLink
  BY SameLinks
  DEF Register, IssueSession, Rotate, CommitChange, ExpireSession
<1>2. ASSUME NEW u \in Users, NEW p \in Passwords, NEW n \in SessionIds, Register(u, p, n)
      PROVE  StoreInv'
  <2>1. PasswordsKept
    BY <1>0, <1>2 DEF Register, PasswordsKept, TypeOK
  <2>2. SessionsKept
    BY <1>0, <1>2 DEF Register, SessionsKept, TypeOK
  <2>3. \A q \in Requests : GoesOn(q)
    BY <1>2 DEF Register, GoesOn
  <2>. QED
    BY <1>1, <2>1, <2>2, <2>3, StoreKept
<1>3. ASSUME NEW r \in Requests, NEW n \in SessionIds, IssueSession(r, n)
      PROVE  StoreInv'
  <2>1. PasswordsKept
    BY <1>3, SameAccounts DEF IssueSession
  <2>2. SessionsKept
    BY <1>0, <1>3 DEF IssueSession, SessionsKept, TypeOK
  <2>3. \A q \in Requests : GoesOn(q)
    BY <1>0, <1>3, ChangedGoesOn DEF IssueSession, GoesOn
  <2>. QED
    BY <1>1, <2>1, <2>2, <2>3, StoreKept
<1>4. ASSUME NEW r \in Requests, NEW n \in SessionIds, Rotate(r, n)
      PROVE  StoreInv'
  <2>1. PasswordsKept
    BY <1>4, SameAccounts DEF Rotate
  <2>2. SessionsKept
    <3>1. session \in [SessionIds -> SessionRow]
      BY <1>0 DEF TypeOK
    <3>2. \A s \in SessionIds \ {n} :
            session'[s].user = session[s].user /\ session'[s].missed = session[s].missed
      BY <1>4, <3>1 DEF Rotate, SessionRow
    <3>. QED
      BY <1>4, <3>2 DEF Rotate, SessionsKept
  <2>3. \A q \in Requests : GoesOn(q)
    BY <1>0, <1>4, OvertakeIdle DEF Rotate
  <2>. QED
    BY <1>1, <2>1, <2>2, <2>3, StoreKept
<1>5. ASSUME NEW r \in Requests, CommitChange(r)
      PROVE  StoreInv'
  <2>1. PasswordsKept
    <3>1. req[r].user \in Users /\ account[req[r].user] # "absent" /\ req[r].pw \in Passwords
      BY <1>5 DEF CommitChange, SessionsInv, Owned, StoreInv, PasswordsTracked
    <3>. QED
      BY <1>0, <1>5, <3>1 DEF CommitChange, PasswordsKept, TypeOK
  <2>2. SessionsKept
    <3>1. ASSUME NEW s \in SessionIds
          PROVE  session'[s].user = session[s].user /\ session'[s].missed = session[s].missed
      BY <1>0, <1>5, RevokedFields DEF CommitChange
    <3>. QED
      BY <3>1 DEF SessionsKept
  <2>3. \A q \in Requests : GoesOn(q)
    BY <1>0, <1>5, OvertakeIdle DEF CommitChange
  <2>. QED
    BY <1>1, <2>1, <2>2, <2>3, StoreKept
<1>6. ASSUME NEW n \in SessionIds, ExpireSession(n)
      PROVE  StoreInv'
  <2>1. PasswordsKept
    BY <1>6, SameAccounts DEF ExpireSession
  <2>2. SessionsKept
    <3>1. session \in [SessionIds -> SessionRow]
      BY <1>0 DEF TypeOK
    <3>. QED
      BY <1>6, <3>1 DEF ExpireSession, SessionsKept, SessionRow
  <2>3. \A q \in Requests : GoesOn(q)
    BY <1>6 DEF ExpireSession, GoesOn
  <2>. QED
    BY <1>1, <2>1, <2>2, <2>3, StoreKept
<1>. QED
  BY <1>2, <1>3, <1>4, <1>5, <1>6

LEMMA StoreInvSweeps ==
    ASSUME SessionsInv, StoreInv,
           \/ \E s \in SessionIds : EndSession(s)
           \/ \E u \in Users, keep \in SessionIds \cup {NoSession} : RevokeOtherSessions(u, keep)
           \/ \E u \in Users : DisableUser(u) \/ RevokeSessions(u)
           \/ \E r \in Requests : CommitReset(r)
    PROVE  StoreInv'
<1>0. TypeOK
  BY DEF SessionsInv
<1>1. ASSUME NEW s \in SessionIds, EndSession(s) PROVE StoreInv'
  <2>1. PasswordsKept /\ SessionsKept /\ NoNewLink
    BY <1>0, <1>1, SameAccounts, RevokedKept, SameLinks DEF EndSession
  <2>2. \A q \in Requests : GoesOn(q)
    BY <1>0, <1>1, OvertakeIdle DEF EndSession
  <2>. QED
    BY <2>1, <2>2, StoreKept
<1>2. ASSUME NEW u \in Users, NEW keep \in SessionIds \cup {NoSession},
             RevokeOtherSessions(u, keep)
      PROVE  StoreInv'
  <2>1. PasswordsKept /\ SessionsKept /\ NoNewLink
    BY <1>0, <1>2, SameAccounts, RevokedKept, SameLinks DEF RevokeOtherSessions
  <2>2. \A q \in Requests : GoesOn(q)
    BY <1>0, <1>2, OvertakeIdle DEF RevokeOtherSessions
  <2>. QED
    BY <2>1, <2>2, StoreKept
<1>3. ASSUME NEW u \in Users, DisableUser(u) PROVE StoreInv'
  <2>1. SessionsKept /\ NoNewLink
    BY <1>0, <1>3, RevokedKept, SameLinks DEF DisableUser
  <2>2. PasswordsKept
    BY <1>0, <1>3 DEF DisableUser, PasswordsKept, StoreInv, PasswordsTracked, TypeOK
  <2>3. \A q \in Requests : GoesOn(q)
    BY <1>0, <1>3, OvertakeIdle DEF DisableUser
  <2>. QED
    BY <2>1, <2>2, <2>3, StoreKept
<1>4. ASSUME NEW u \in Users, RevokeSessions(u) PROVE StoreInv'
  <2>1. PasswordsKept /\ SessionsKept /\ NoNewLink
    BY <1>0, <1>4, SameAccounts, RevokedKept, SameLinks DEF RevokeSessions
  <2>2. \A q \in Requests : GoesOn(q)
    BY <1>0, <1>4, OvertakeIdle DEF RevokeSessions
  <2>. QED
    BY <2>1, <2>2, StoreKept
<1>5. ASSUME NEW r \in Requests, CommitReset(r) PROVE StoreInv'
  <2>1. SessionsKept /\ NoNewLink
    BY <1>0, <1>5, RevokedKept, SpentLinks DEF CommitReset
  <2>2. req[r].user \in Users /\ account[req[r].user] # "absent" /\ req[r].pw \in Passwords
    BY <1>5 DEF CommitReset, SessionsInv, Owned, StoreInv, PasswordsTracked
  <2>3. PasswordsKept
    BY <1>0, <1>5, <2>2 DEF CommitReset, PasswordsKept, TypeOK
  <2>4. \A q \in Requests : GoesOn(q)
    BY <1>0, <1>5, OvertakeIdle DEF CommitReset
  <2>. QED
    BY <2>1, <2>3, <2>4, StoreKept
<1>. QED
  BY <1>1, <1>2, <1>3, <1>4, <1>5

(* The steps that only read, or touch one account, flag or link.            *)
LEMMA StoreInvRest ==
    ASSUME SessionsInv, StoreInv,
           \/ \E r \in Requests, u \in Users, p \in Passwords : Login(r, u, p)
           \/ \E r \in Requests, c \in challenges : VerifyTwoFactor(r, c)
           \/ \E u \in Users : SetTwoFactor(u) \/ EnableUser(u)
           \/ \E t \in TokenIds : ExpireToken(t)
           \/ \E c \in challenges : ExpireChallenge(c)
           \/ UNCHANGED vars
    PROVE  StoreInv'
<1>0. TypeOK
  BY DEF SessionsInv
<1>1. SessionsKept
  BY SameSessions
  DEF Login, VerifyTwoFactor, SetTwoFactor, EnableUser, ExpireToken, ExpireChallenge, vars
<1>2. PasswordsKept
  <2>1. ASSUME NEW u \in Users, EnableUser(u) PROVE PasswordsKept
    BY <1>0, <2>1 DEF EnableUser, PasswordsKept, StoreInv, PasswordsTracked, TypeOK
  <2>. QED
    BY <2>1, SameAccounts
    DEF Login, VerifyTwoFactor, SetTwoFactor, ExpireToken, ExpireChallenge, vars
<1>3. NoNewLink
  <2>1. ASSUME NEW t \in TokenIds, ExpireToken(t) PROVE NoNewLink
    BY <1>0, <2>1 DEF ExpireToken, NoNewLink, TypeOK, TokenRow
  <2>. QED
    BY <2>1, SameLinks
    DEF Login, VerifyTwoFactor, SetTwoFactor, EnableUser, ExpireChallenge, vars
<1>4. \A q \in Requests : GoesOn(q)
  <2>1. ASSUME NEW r \in Requests, NEW u \in Users, NEW p \in Passwords, Login(r, u, p)
        PROVE  \A q \in Requests : GoesOn(q)
    <3>. DEFINE f == [Idle EXCEPT !.op = "issue", !.user = u, !.pw = p]
    <3>1. f.op = "issue"
      BY DEF Idle
    <3>2. UNCHANGED req \/ req' = [req EXCEPT ![r] = f]
      BY <2>1 DEF Login
    <3>. HIDE DEF f
    <3>3. \A q \in Requests : GoesOn(q) \/ req'[q] = f
      BY <1>0, <3>2, ChangedGoesOn
    <3>. QED
      BY <3>1, <3>3 DEF GoesOn
  <2>2. ASSUME NEW r \in Requests, NEW c \in challenges, VerifyTwoFactor(r, c)
        PROVE  \A q \in Requests : GoesOn(q)
    <3>. DEFINE f == [Idle EXCEPT !.op = "issue", !.user = c.user,
                                  !.pw = c.pw, !.missed = c.missed]
    <3>1. f.op = "issue"
      BY DEF Idle
    <3>2. req' = [req EXCEPT ![r] = f]
      BY <2>2 DEF VerifyTwoFactor
    <3>. HIDE DEF f
    <3>3. \A q \in Requests : GoesOn(q) \/ req'[q] = f
      BY <1>0, <3>2, ChangedGoesOn
    <3>. QED
      BY <3>1, <3>3 DEF GoesOn
  <2>. QED
    BY <2>1, <2>2
    DEF GoesOn, SetTwoFactor, EnableUser, ExpireToken, ExpireChallenge, vars
<1>. QED
  BY <1>1, <1>2, <1>3, <1>4, StoreKept

LEMMA StoreInvRefresh ==
    ASSUME SessionsInv, StoreInv, NEW r \in Requests, NEW s \in SessionIds, Refresh(r, s)
    PROVE  StoreInv'
<1>. DEFINE next == [Idle EXCEPT !.op = "refresh", !.session = s,
                                 !.user = session[s].user,
                                 !.pw = session[s].pw,
                                 !.missed = session[s].missed \cap {"swept"}]
<1>0. TypeOK /\ UNCHANGED <<account, password, session, token>>
  BY DEF SessionsInv, Refresh
<1>1. req' = [req EXCEPT ![r] = next]
  BY DEF Refresh
<1>2. /\ next.op = "refresh" /\ next.session = s /\ next.user = session[s].user
      /\ next.missed = session[s].missed \cap {"swept"}
  BY DEF Idle
<1>. HIDE DEF next
<1>3. \A q \in Requests : IF q = r THEN req'[q] = next ELSE req'[q] = req[q]
  BY <1>0, <1>1 DEF TypeOK
<1>4. PasswordsTracked'
  BY <1>0, <1>2, <1>3 DEF StoreInv, PasswordsTracked
<1>5. RefreshesAgree'
  BY <1>0, <1>2, <1>3 DEF StoreInv, RefreshesAgree
<1>6. ForgotsTracked'
  BY <1>0, <1>2, <1>3 DEF StoreInv, ForgotsTracked
<1>. QED
  BY <1>4, <1>5, <1>6 DEF StoreInv

LEMMA StoreInvPasswords ==
    ASSUME SessionsInv, StoreInv, NEW r \in Requests, NEW p \in Passwords,
           \/ \E t \in TokenIds : ResetPassword(r, t, p)
           \/ \E u \in Users, old \in Passwords, keep \in SessionIds \cup {NoSession} :
                 ChangePassword(r, u, old, p, keep)
    PROVE  StoreInv'
<1>0. TypeOK /\ UNCHANGED <<account, password, session, token>>
  BY DEF SessionsInv, ResetPassword, ChangePassword
<1>1. req'[r].op \in {"reset", "change"} /\ req'[r].pw = p
  <2>1. ASSUME NEW t \in TokenIds, ResetPassword(r, t, p)
        PROVE  req'[r].op = "reset" /\ req'[r].pw = p
    BY <1>0, <2>1 DEF ResetPassword, TypeOK, Idle
  <2>2. ASSUME NEW u \in Users, NEW old \in Passwords, NEW keep \in SessionIds \cup {NoSession},
               ChangePassword(r, u, old, p, keep)
        PROVE  req'[r].op = "change" /\ req'[r].pw = p
    BY <1>0, <2>2 DEF ChangePassword, TypeOK, Idle
  <2>. QED
    BY <2>1, <2>2
<1>2. \A q \in Requests : q # r => req'[q] = req[q]
  BY <1>0 DEF ResetPassword, ChangePassword, TypeOK
<1>4. PasswordsTracked'
  BY <1>0, <1>1, <1>2 DEF StoreInv, PasswordsTracked
<1>5. RefreshesAgree'
  BY <1>0, <1>1, <1>2 DEF StoreInv, RefreshesAgree
<1>6. ForgotsTracked'
  BY <1>0, <1>1, <1>2 DEF StoreInv, ForgotsTracked
<1>. QED
  BY <1>4, <1>5, <1>6 DEF StoreInv

(* forgotPassword spends every unspent link of the user before it creates   *)
(* the new one.                                                             *)
LEMMA StoreInvForgot ==
    ASSUME SessionsInv, StoreInv, NEW r \in Requests, NEW u \in Users, ForgotPassword(r, u)
    PROVE  StoreInv'
<1>. DEFINE f == [Idle EXCEPT !.op = "forgot", !.user = u]
<1>0. /\ TypeOK /\ UNCHANGED <<account, password, session>>
      /\ token' = Spent(TokensOf(u))
  BY DEF SessionsInv, ForgotPassword
<1>1. f.op = "forgot" /\ f.user = u
  BY DEF Idle
<1>2. req' = [Overtake({}, TokensOf(u), {}) EXCEPT ![r] = f]
  BY DEF ForgotPassword
<1>. HIDE DEF f
<1>3. \A q \in Requests : GoesOn(q) \/ req'[q] = f
  BY <1>0, <1>2, OvertakeGoesOn
<1>4. PasswordsKept /\ SessionsKept /\ NoNewLink
  BY <1>0, SameAccounts, SameSessions, SpentLinks
<1>5. PasswordsTracked' /\ RefreshesAgree'
  BY <1>1, <1>3, <1>4, PasswordsStep, RefreshesStep DEF StoreInv
<1>6. \A t \in TokenIds : token'[t].status = "live" => token'[t].user # u
  BY <1>0, SpentType DEF TokensOf, Unspent
<1>7. ForgotsTracked'
  <2>1. SUFFICES ASSUME NEW q \in Requests, req'[q].op = "forgot", req'[q].missed = {},
                        NEW t \in TokenIds, token'[t].status = "live"
                 PROVE  token'[t].user # req'[q].user
    BY DEF ForgotsTracked
  <2>2. CASE req'[q] = f
    BY <1>1, <1>6, <2>1, <2>2
  <2>3. CASE GoesOn(q)
    BY <1>4, <2>1, <2>3 DEF GoesOn, NoNewLink, StoreInv, ForgotsTracked
  <2>. QED
    BY <1>3, <2>2, <2>3
<1>. QED
  BY <1>5, <1>7 DEF StoreInv

LEMMA StoreInvCreate ==
    ASSUME SessionsInv, StoreInv, NEW r \in Requests, NEW x \in TokenIds,
           CreateResetToken(r, x)
    PROVE  StoreInv'
<1>0. /\ TypeOK /\ UNCHANGED <<account, password, session>>
      /\ token' = [token EXCEPT ![x] = [status |-> "live", user |-> req[r].user]]
  BY DEF SessionsInv, CreateResetToken
<1>1. \A q \in Requests : GoesOn(q)
  BY <1>0, CreateResetTokenRequests DEF GoesOn, Idle
<1>2. PasswordsTracked' /\ RefreshesAgree'
  BY <1>0, <1>1, SameAccounts, SameSessions, PasswordsStep, RefreshesStep DEF StoreInv
<1>3. ForgotsTracked'
  <2>1. SUFFICES ASSUME NEW q \in Requests, req'[q].op = "forgot", req'[q].missed = {},
                        NEW t \in TokenIds, token'[t].status = "live"
                 PROVE  token'[t].user # req'[q].user
    BY DEF ForgotsTracked
  <2>2. /\ req[q].op = "forgot" /\ req'[q].user = req[q].user /\ req[q].missed = {}
        /\ req[q].user # req[r].user
    BY <1>0, <2>1, CreateResetTokenRequests DEF Idle
  <2>3. CASE t = x
    BY <1>0, <2>2, <2>3 DEF TypeOK
  <2>4. CASE t # x
    BY <1>0, <2>1, <2>2, <2>4 DEF TypeOK, StoreInv, ForgotsTracked
  <2>. QED
    BY <2>3, <2>4
<1>. QED
  BY <1>2, <1>3 DEF StoreInv

LEMMA StoreInvInit == Init => StoreInv
BY DEF Init, Idle, StoreInv, PasswordsTracked, RefreshesAgree, ForgotsTracked

LEMMA StoreInvNext == SessionsInv /\ StoreInv /\ [Next]_vars => StoreInv'
<1>. SUFFICES ASSUME SessionsInv, StoreInv, [Next]_vars PROVE StoreInv'
  OBVIOUS
<1>1. ASSUME NEW r \in Requests, RequestStep(r) PROVE StoreInv'
  BY <1>1, StoreInvRest, StoreInvSessions, StoreInvRefresh, StoreInvForgot, StoreInvCreate,
     StoreInvPasswords, StoreInvSweeps
  DEF RequestStep
<1>2. ASSUME NEW u \in Users, UserStep(u) PROVE StoreInv'
  BY <1>2, StoreInvRest, StoreInvSessions, StoreInvSweeps DEF UserStep
<1>3. ASSUME NEW s \in SessionIds, EndSession(s) PROVE StoreInv'
  BY <1>3, StoreInvSweeps
<1>4. ASSUME Expiry PROVE StoreInv'
  BY <1>4, StoreInvRest, StoreInvSessions DEF Expiry
<1>. QED
  BY <1>1, <1>2, <1>3, <1>4, StoreInvRest DEF Next

-----------------------------------------------------------------------------
(* The mapping *)

LEMMA DoorKinds ==
    ASSUME NEW row
    PROVE  /\ row.status = "unused" => Door(row) = Store!NewDoor
           /\ row.status = "live" => Door(row) = Store!OpenDoor(row.user, row.pw)
           /\ row.status \notin {"unused", "live"} => Door(row) = Store!ClosedDoor
           /\ row.status = "live" <=> Door(row).is = "open"
BY DEF Door, Store!NewDoor, Store!OpenDoor, Store!ClosedDoor

LEMMA LinkKinds ==
    ASSUME NEW row
    PROVE  /\ row.status = "unused" => ResetLink(row) = Store!NewLink
           /\ row.status = "live" => ResetLink(row) = Store!GoodLink(row.user)
           /\ row.status \notin {"unused", "live"} => ResetLink(row) = Store!VoidLink
           /\ row.status = "live" <=> ResetLink(row).is = "good"
BY DEF ResetLink, Store!NewLink, Store!GoodLink, Store!VoidLink

LEMMA DoorsAre ==
    /\ \A s \in SessionIds : Doors[s] = Door(session[s])
    /\ \A s \in SessionIds : Doors'[s] = Door(session'[s])
    /\ Doors' = [s \in SessionIds |-> Door(session'[s])]
BY DEF Doors, Door

LEMMA LinksAre ==
    /\ \A t \in TokenIds : ResetLinks[t] = ResetLink(token[t])
    /\ \A t \in TokenIds : ResetLinks'[t] = ResetLink(token'[t])
    /\ ResetLinks' = [t \in TokenIds |-> ResetLink(token'[t])]
BY DEF ResetLinks, ResetLink

LEMMA DoorsOfAre ==
    ASSUME NEW u
    PROVE  Store!DoorsOf(u) = {s \in SessionIds : Live(s) /\ session[s].user = u}
<1>1. ASSUME NEW s \in SessionIds
      PROVE  Doors[s].is = "open" /\ Doors[s].user = u <=> Live(s) /\ session[s].user = u
  BY DoorsAre, DoorKinds DEF Live, Store!OpenDoor
<1>. QED
  BY <1>1 DEF Store!DoorsOf

LEMMA LinksOfAre ==
    ASSUME NEW u
    PROVE  Store!LinksOf(u) = {t \in TokenIds : token[t].status = "live" /\ token[t].user = u}
<1>1. ASSUME NEW t \in TokenIds
      PROVE  ResetLinks[t].is = "good" /\ ResetLinks[t].user = u
                <=> token[t].status = "live" /\ token[t].user = u
  BY LinksAre, LinkKinds DEF Store!GoodLink
<1>. QED
  BY <1>1 DEF Store!LinksOf

LEMMA SameDoors == ASSUME UNCHANGED session PROVE UNCHANGED Doors
BY DEF Doors, Door

LEMMA SameResetLinks == ASSUME UNCHANGED token PROVE UNCHANGED ResetLinks
BY DEF ResetLinks, ResetLink

LEMMA SameEnabled == ASSUME UNCHANGED account PROVE UNCHANGED Enabled
BY DEF Enabled

(* Revoking unrevoked sessions closes the doors of the live ones.           *)
LEMMA RevokedDoors ==
    ASSUME NEW S, session' = Revoked(S), TypeOK, \A s \in S : s \in SessionIds /\ Unrevoked(s)
    PROVE  Doors' = Store!Closed({s \in S : Live(s)})
<1>. DEFINE C == {s \in S : Live(s)}
<1>1. ASSUME NEW s \in SessionIds
      PROVE  Door(session'[s]) = IF s \in C THEN Store!ClosedDoor ELSE Doors[s]
  <2>1. s \in S => session'[s].status = "revoked" /\ session[s].status \in {"live", "expired"}
    BY RevokedFields DEF Unrevoked
  <2>2. s \notin S => session'[s] = session[s]
    BY RevokedType
  <2>3. s \in C <=> s \in S /\ session[s].status = "live"
    BY DEF Live
  <2>. HIDE DEF C
  <2>. QED
    BY <2>1, <2>2, <2>3, DoorsAre, DoorKinds
<1>. QED
  BY <1>1, DoorsAre DEF Store!Closed

(* Spending unspent links voids the good ones.                              *)
LEMMA SpentResetLinks ==
    ASSUME NEW T, token' = Spent(T), TypeOK,
           \A t \in T : t \in TokenIds /\ token[t].status # "unused"
    PROVE  ResetLinks' = Store!Voided({t \in T : token[t].status = "live"})
<1>. DEFINE C == {t \in T : token[t].status = "live"}
<1>1. ASSUME NEW t \in TokenIds
      PROVE  ResetLink(token'[t]) = IF t \in C THEN Store!VoidLink ELSE ResetLinks[t]
  <2>1. t \in T => token'[t].status = "spent" /\ token[t].status # "unused"
    BY SpentType
  <2>2. t \notin T => token'[t].status = token[t].status /\ token'[t].user = token[t].user
    BY SpentType
  <2>. QED
    BY <2>1, <2>2, LinksAre, LinkKinds
<1>. QED
  BY <1>1, LinksAre DEF Store!Voided

(* What a step of Sessions is to the store.                                 *)
StoreStep ==
    Store!Next \/ LateWrite \/ UNCHANGED <<Enabled, password, Doors, ResetLinks>>

(* Sessions end                                                             *)

LEMMA CloseStep ==
    ASSUME TypeOK, NEW S, session' = Revoked(S), \A s \in S : s \in SessionIds /\ Unrevoked(s),
           UNCHANGED <<account, password, token>>
    PROVE  StoreStep
<1>. DEFINE C == {s \in S : Live(s)}
<1>1. C \in SUBSET SessionIds /\ \A s \in C : Doors[s].is = "open"
  BY DoorsAre, DoorKinds DEF Live
<1>2. Doors' = Store!Closed(C)
  BY RevokedDoors
<1>3. UNCHANGED <<Enabled, password, ResetLinks>>
  BY SameEnabled, SameResetLinks
<1>. HIDE DEF C
<1>. QED
  BY <1>1, <1>2, <1>3 DEF StoreStep, Store!Next, Store!Close

LEMMA SweptUnrevoked ==
    ASSUME NEW u, NEW keep
    PROVE  \A s \in Swept(u, keep) : s \in SessionIds /\ Unrevoked(s)
BY DEF Swept

LEMMA ExpiredDoor ==
    ASSUME TypeOK, NEW x \in SessionIds, ExpireSession(x)
    PROVE  StoreStep
<1>1. session[x].status = "live" /\ session' = [session EXCEPT ![x].status = "expired"]
  BY DEF ExpireSession, Live
<1>2. session \in [SessionIds -> SessionRow]
  BY DEF TypeOK
<1>3. ASSUME NEW s \in SessionIds
      PROVE  Door(session'[s]) = IF s \in {x} THEN Store!ClosedDoor ELSE Doors[s]
  <2>1. CASE s = x
    <3>1. session'[s].status = "expired"
      BY <1>1, <1>2, <2>1 DEF SessionRow
    <3>. QED
      BY <2>1, <3>1, DoorKinds
  <2>2. CASE s # x
    BY <1>1, <1>2, <2>2, DoorsAre
  <2>. QED
    BY <2>1, <2>2
<1>4. Doors' = Store!Closed({x})
  BY <1>3, DoorsAre DEF Store!Closed
<1>5. {x} \in SUBSET SessionIds /\ \A s \in {x} : Doors[s].is = "open"
  BY <1>1, DoorsAre, DoorKinds
<1>6. UNCHANGED <<Enabled, password, ResetLinks>>
  BY SameEnabled, SameResetLinks DEF ExpireSession
<1>. QED
  BY <1>4, <1>5, <1>6 DEF StoreStep, Store!Next, Store!Close

LEMMA SuspendStep ==
    ASSUME SessionsInv, StoreInv, NEW u \in Users, DisableUser(u)
    PROVE  StoreStep
<1>0. TypeOK
  BY DEF SessionsInv
<1>1. password[u] # NoPassword
  BY ConstantsAreDisjoint DEF DisableUser, StoreInv, PasswordsTracked
<1>2. Enabled' = Enabled \ {u}
  BY <1>0 DEF DisableUser, Enabled, TypeOK
<1>3. {s \in Swept(u, NoSession) : Live(s)} = Store!DoorsOf(u)
  BY DoorsOfAre, ConstantsAreDisjoint DEF Swept, Live, Unrevoked
<1>4. Doors' = Store!Closed(Store!DoorsOf(u))
  BY <1>0, <1>3, RevokedDoors, SweptUnrevoked DEF DisableUser
<1>5. UNCHANGED <<password, ResetLinks>>
  BY SameResetLinks DEF DisableUser
<1>. QED
  BY <1>1, <1>2, <1>4, <1>5 DEF StoreStep, Store!Next, Store!Suspend

LEMMA RestoreStep ==
    ASSUME SessionsInv, StoreInv, NEW u \in Users, EnableUser(u)
    PROVE  StoreStep
<1>1. password[u] # NoPassword
  BY ConstantsAreDisjoint DEF EnableUser, StoreInv, PasswordsTracked
<1>2. Enabled' = Enabled \cup {u}
  BY DEF EnableUser, Enabled, SessionsInv, TypeOK
<1>3. UNCHANGED <<password, Doors, ResetLinks>>
  BY SameDoors, SameResetLinks DEF EnableUser
<1>. QED
  BY <1>1, <1>2, <1>3 DEF StoreStep, Store!Next, Store!Restore

(* Sessions begin                                                           *)

LEMMA SignUpStep ==
    ASSUME SessionsInv, StoreInv, NEW u \in Users, NEW p \in Passwords, NEW n \in SessionIds,
           Register(u, p, n)
    PROVE  StoreStep
<1>1. password[u] = NoPassword
  BY DEF Register, StoreInv, PasswordsTracked
<1>2. Enabled' = Enabled \cup {u}
  BY DEF Register, Enabled, SessionsInv, TypeOK
<1>3. Doors[n] = Store!NewDoor
  BY DoorsAre, DoorKinds DEF Register
<1>4. Doors' = [Doors EXCEPT ![n] = Store!OpenDoor(u, p)]
  <2>1. ASSUME NEW s \in SessionIds
        PROVE  Door(session'[s]) = IF s = n THEN Store!OpenDoor(u, p) ELSE Doors[s]
    <3>1. CASE s = n
      <4>1. /\ session'[s].status = "live" /\ session'[s].user = u /\ session'[s].pw = p
        BY <3>1 DEF Register, IssuedRow, Idle, SessionsInv, TypeOK
      <4>. QED
        BY <3>1, <4>1, DoorKinds
    <3>2. CASE s # n
      BY <3>2, DoorsAre DEF Register, SessionsInv, TypeOK
    <3>. QED
      BY <3>1, <3>2
  <2>. QED
    BY <2>1, DoorsAre DEF Doors
<1>5. UNCHANGED ResetLinks /\ password' = [password EXCEPT ![u] = p]
  BY SameResetLinks DEF Register
<1>. QED
  BY <1>1, <1>2, <1>3, <1>4, <1>5 DEF StoreStep, Store!Next, Store!SignUp

LEMMA SignInStep ==
    ASSUME SessionsInv, StoreInv, NEW r \in Requests, NEW n \in SessionIds, IssueSession(r, n)
    PROVE  StoreStep
<1>. DEFINE u == req[r].user
<1>0. req[r].op = "issue" /\ req'[r].op = "idle"
  BY DEF IssueSession, SessionsInv, TypeOK, Idle
<1>1. CASE req[r].missed # {}
  BY <1>0, <1>1 DEF StoreStep, LateWrite, Outdated
<1>2. CASE req[r].missed = {}
  <2>1. u \in Users /\ account[u] = "active" /\ password[u] = req[r].pw
    BY <1>0, <1>2 DEF SessionsInv, Owned, Checked, Vouched
  <2>2. Doors[n] = Store!NewDoor
    BY DoorsAre, DoorKinds DEF IssueSession
  <2>3. ASSUME NEW s \in SessionIds
        PROVE  Door(session'[s]) = IF s = n THEN Store!OpenDoor(u, password[u]) ELSE Doors[s]
    <3>1. CASE s = n
      <4>1. session'[s].status = "live" /\ session'[s].user = u /\ session'[s].pw = req[r].pw
        BY <3>1 DEF IssueSession, IssuedRow, SessionsInv, TypeOK
      <4>. QED
        BY <2>1, <3>1, <4>1, DoorKinds
    <3>2. CASE s # n
      BY <3>2, DoorsAre DEF IssueSession, SessionsInv, TypeOK
    <3>. QED
      BY <3>1, <3>2
  <2>4. Doors' = [Doors EXCEPT ![n] = Store!OpenDoor(u, password[u])]
    BY <2>3, DoorsAre DEF Doors
  <2>5. u \in Enabled /\ UNCHANGED <<Enabled, password, ResetLinks>>
    BY <2>1, SameEnabled, SameResetLinks DEF IssueSession, Enabled
  <2>. QED
    BY <2>1, <2>2, <2>4, <2>5 DEF StoreStep, Store!Next, Store!SignIn
<1>. QED
  BY <1>1, <1>2

LEMMA ExchangeStep ==
    ASSUME SessionsInv, StoreInv, NEW r \in Requests, NEW n \in SessionIds, Rotate(r, n)
    PROVE  StoreStep
<1>. DEFINE old == req[r].session
<1>0. req[r].op = "refresh" /\ req'[r].op = "idle"
  BY OvertakeType DEF Rotate, SessionsInv, TypeOK, Idle
<1>1. CASE req[r].missed # {} \/ session[old].status = "expired"
  BY <1>0, <1>1 DEF StoreStep, LateWrite, Outdated
<1>2. CASE req[r].missed = {} /\ session[old].status # "expired"
  <2>1. /\ old \in SessionIds /\ Live(old) /\ req[r].user = session[old].user
        /\ "swept" \notin session[old].missed
    BY <1>0, <1>2
    DEF SessionsInv, RefreshesTracked, StoreInv, RefreshesAgree, Unrevoked, Live
  <2>2. /\ req[r].user \in Users /\ account[req[r].user] = "active"
        /\ password[req[r].user] = req[r].pw /\ session[old].pw = req[r].pw
    BY <1>0, <1>2, <2>1 DEF SessionsInv, Owned, Checked, Vouched
  <2>3. session \in [SessionIds -> SessionRow] /\ session[n].status = "unused" /\ n # old
    BY <2>1 DEF SessionsInv, TypeOK, Rotate, Live
  <2>4. /\ session'[old].status = "rotated"
        /\ session'[n] = IssuedRow(req[r])
        /\ \A s \in SessionIds \ {n, old} : session'[s] = session[s]
    BY <2>1, <2>3 DEF Rotate, Unrevoked, Live, SessionRow
  <2>5. Doors[old] = Store!OpenDoor(req[r].user, req[r].pw) /\ Doors[n] = Store!NewDoor
    BY <2>1, <2>2, <2>3, DoorsAre, DoorKinds DEF Live
  <2>6. Door(session'[n]) = Doors[old]
    BY <2>4, <2>5, DoorKinds DEF IssuedRow
  <2>7. ASSUME NEW s \in SessionIds
        PROVE  Door(session'[s]) = IF s = n THEN Doors[old]
                                   ELSE IF s = old THEN Store!ClosedDoor ELSE Doors[s]
    <3>1. CASE s = n
      BY <2>6, <3>1
    <3>2. CASE s = old
      BY <2>3, <2>4, <3>2, DoorKinds
    <3>3. CASE s \notin {n, old}
      BY <2>4, <3>3, DoorsAre
    <3>. QED
      BY <3>1, <3>2, <3>3
  <2>8. Doors' = [Doors EXCEPT ![old] = Store!ClosedDoor, ![n] = Doors[old]]
    <3>. HIDE DEF old
    <3>. QED
      BY <2>1, <2>3, <2>7, DoorsAre DEF Doors
  <2>9. /\ Doors[old].is = "open" /\ Doors[old].user \in Enabled
        /\ UNCHANGED <<Enabled, password, ResetLinks>>
    BY <2>2, <2>5, SameEnabled, SameResetLinks DEF Rotate, Enabled, Store!OpenDoor
  <2>. HIDE DEF old
  <2>. QED
    BY <2>1, <2>5, <2>8, <2>9 DEF StoreStep, Store!Next, Store!Exchange
<1>. QED
  BY <1>1, <1>2

(* Reset links                                                              *)

LEMMA VoidStep ==
    ASSUME TypeOK, UNCHANGED <<account, password, session>>,
           \/ \E r \in Requests, u \in Users : ForgotPassword(r, u)
           \/ \E t \in TokenIds : ExpireToken(t)
    PROVE  StoreStep
<1>0. UNCHANGED <<Enabled, password, Doors>>
  BY SameEnabled, SameDoors
<1>1. ASSUME NEW T, T \in SUBSET TokenIds, ResetLinks' = Store!Voided(T),
             \A t \in T : token[t].status = "live"
      PROVE  StoreStep
  <2>1. \A t \in T : ResetLinks[t].is = "good"
    BY <1>1, LinksAre, LinkKinds
  <2>. QED
    BY <1>0, <1>1, <2>1 DEF StoreStep, Store!Next, Store!VoidLinks
<1>2. ASSUME NEW r \in Requests, NEW u \in Users, ForgotPassword(r, u) PROVE StoreStep
  <2>. DEFINE C == {t \in TokensOf(u) : token[t].status = "live"}
  <2>1. \A t \in TokensOf(u) : t \in TokenIds /\ token[t].status # "unused"
    BY DEF TokensOf, Unspent
  <2>2. ResetLinks' = Store!Voided(C)
    BY <1>2, <2>1, SpentResetLinks DEF ForgotPassword
  <2>3. C \in SUBSET TokenIds /\ \A t \in C : token[t].status = "live"
    BY <2>1
  <2>. HIDE DEF C
  <2>. QED
    BY <1>1, <2>2, <2>3
<1>3. ASSUME NEW x \in TokenIds, ExpireToken(x) PROVE StoreStep
  <2>1. ASSUME NEW t \in TokenIds
        PROVE  ResetLink(token'[t]) = IF t \in {x} THEN Store!VoidLink ELSE ResetLinks[t]
    <3>1. CASE t = x
      <4>1. token'[t].status = "expired"
        BY <1>3, <3>1 DEF ExpireToken, TypeOK, TokenRow
      <4>. QED
        BY <3>1, <4>1, LinkKinds
    <3>2. CASE t # x
      BY <1>3, <3>2, LinksAre DEF ExpireToken, TypeOK
    <3>. QED
      BY <3>1, <3>2
  <2>2. ResetLinks' = Store!Voided({x})
    BY <2>1, LinksAre DEF Store!Voided
  <2>3. \A t \in {x} : token[t].status = "live"
    BY <1>3 DEF ExpireToken
  <2>. QED
    BY <1>1, <2>2, <2>3
<1>. QED
  BY <1>2, <1>3

LEMMA MailStep ==
    ASSUME SessionsInv, StoreInv, NEW r \in Requests, NEW x \in TokenIds,
           CreateResetToken(r, x)
    PROVE  StoreStep
<1>. DEFINE u == req[r].user
<1>0. TypeOK /\ req[r].op = "forgot"
  BY DEF SessionsInv, CreateResetToken
<1>1. req'[r].op = "idle"
  BY <1>0, CreateResetTokenRequests DEF Idle
<1>2. CASE req[r].missed # {}
  BY <1>0, <1>1, <1>2 DEF StoreStep, LateWrite, Outdated
<1>3. CASE req[r].missed = {}
  <2>1. u \in Users /\ password[u] # NoPassword
    BY <1>0, ConstantsAreDisjoint DEF SessionsInv, Owned, StoreInv, PasswordsTracked
  <2>2. Store!LinksOf(u) = {}
    BY <1>0, <1>3, LinksOfAre DEF StoreInv, ForgotsTracked
  <2>3. ResetLinks[x] = Store!NewLink
    BY LinksAre, LinkKinds DEF CreateResetToken
  <2>4. ASSUME NEW t \in TokenIds
        PROVE  ResetLink(token'[t]) = IF t = x THEN Store!GoodLink(u) ELSE ResetLinks[t]
    <3>1. CASE t = x
      <4>1. token'[t].status = "live" /\ token'[t].user = u
        BY <1>0, <3>1 DEF CreateResetToken, TypeOK
      <4>. QED
        BY <3>1, <4>1, LinkKinds
    <3>2. CASE t # x
      BY <1>0, <3>2, LinksAre DEF CreateResetToken, TypeOK
    <3>. QED
      BY <3>1, <3>2
  <2>5. ResetLinks' = [ResetLinks EXCEPT ![x] = Store!GoodLink(u)]
    BY <2>4, LinksAre DEF ResetLinks
  <2>6. UNCHANGED <<Enabled, password, Doors>>
    BY SameEnabled, SameDoors DEF CreateResetToken
  <2>. QED
    BY <2>1, <2>2, <2>3, <2>5, <2>6 DEF StoreStep, Store!Next, Store!Mail
<1>. QED
  BY <1>2, <1>3

(* Passwords                                                                *)

LEMMA ResetStoreStep ==
    ASSUME SessionsInv, StoreInv, ResetsTracked, NEW r \in Requests, CommitReset(r)
    PROVE  StoreStep
<1>. DEFINE u == req[r].user
            x == req[r].token
            T == TokensOf(u) \cup {x}
            S == Swept(u, NoSession)
<1>0. /\ TypeOK /\ req[r].op = "reset" /\ u \in Users
      /\ x \in TokenIds /\ token[x].user = u /\ token[x].status # "unused"
      /\ req[r].pw \in Passwords
  BY DEF SessionsInv, CommitReset, Owned, StoreInv, PasswordsTracked
<1>1. req'[r].op = "idle"
  <2>. DEFINE g == Overtake(S, T, {u})
  <2>1. g \in [Requests -> Request] /\ req' = [g EXCEPT ![r] = Idle]
    BY <1>0, OvertakeType DEF CommitReset
  <2>. HIDE DEF g
  <2>. QED
    BY <2>1 DEF Idle
<1>2. CASE "ended" \in req[r].missed \/ token[x].status = "expired"
  BY <1>0, <1>1, <1>2 DEF StoreStep, LateWrite, Outdated
<1>3. CASE ~("ended" \in req[r].missed \/ token[x].status = "expired")
  <2>1. token[x].status = "live"
    BY <1>0, <1>3 DEF ResetsTracked, Unspent
  <2>2. x \in Store!LinksOf(u)
    BY <1>0, <2>1, LinksOfAre
  <2>3. /\ \A t \in T : t \in TokenIds /\ token[t].status # "unused"
        /\ {t \in T : token[t].status = "live"} = Store!LinksOf(u)
    <3>1. Store!LinksOf(u) = {t \in TokenIds : token[t].status = "live" /\ token[t].user = u}
      BY LinksOfAre
    <3>. QED
      BY <1>0, <3>1 DEF TokensOf, Unspent
  <2>4. token' = Spent(T) /\ session' = Revoked(S)
    BY DEF CommitReset
  <2>5. ResetLinks' = Store!Voided(Store!LinksOf(u))
    <3>. HIDE DEF T
    <3>1. ResetLinks' = Store!Voided({t \in T : token[t].status = "live"})
      BY <1>0, <2>3, <2>4, SpentResetLinks
    <3>. QED
      BY <2>3, <3>1
  <2>6. Doors' = Store!Closed(Store!DoorsOf(u))
    <3>1. {s \in S : Live(s)} = Store!DoorsOf(u)
      BY DoorsOfAre, ConstantsAreDisjoint DEF Swept, Live, Unrevoked
    <3>2. \A s \in S : s \in SessionIds /\ Unrevoked(s)
      BY SweptUnrevoked
    <3>. HIDE DEF S
    <3>3. Doors' = Store!Closed({s \in S : Live(s)})
      BY <1>0, <2>4, <3>2, RevokedDoors
    <3>. QED
      BY <3>1, <3>3
  <2>7. password' = [password EXCEPT ![u] = req[r].pw] /\ UNCHANGED Enabled
    BY SameEnabled DEF CommitReset
  <2>. HIDE DEF u, x
  <2>. QED
    BY <1>0, <2>2, <2>5, <2>6, <2>7 DEF StoreStep, Store!Next, Store!ResetPassword
<1>. QED
  BY <1>2, <1>3

LEMMA ChangeStoreStep ==
    ASSUME SessionsInv, StoreInv, NEW r \in Requests, CommitChange(r)
    PROVE  StoreStep
<1>. DEFINE u == req[r].user
            keep == req[r].session
            S == Swept(u, keep)
<1>0. /\ TypeOK /\ u \in Users /\ req[r].pw \in Passwords /\ password[u] # NoPassword
      /\ keep \in SessionIds \cup {NoSession}
  BY ConstantsAreDisjoint
  DEF SessionsInv, CommitChange, Owned, StoreInv, PasswordsTracked, TypeOK, Request
<1>1. ASSUME NEW s \in SessionIds
      PROVE  Door(session'[s]) =
                IF s \notin Store!DoorsOf(u) THEN Doors[s]
                ELSE IF s = keep THEN Store!OpenDoor(u, req[r].pw) ELSE Store!ClosedDoor
  <2>1. s \in Store!DoorsOf(u) <=> session[s].status = "live" /\ session[s].user = u
    BY DoorsOfAre DEF Live
  <2>2. /\ session[s] \in SessionRow
        /\ session'[s] = IF s = keep /\ session[s].user = u
                         THEN [session[s] EXCEPT !.pw = req[r].pw] ELSE Revoked(S)[s]
    BY <1>0 DEF CommitChange, TypeOK
  <2>3. CASE s = keep /\ session[s].user = u
    <3>1. /\ session'[s].status = session[s].status /\ session'[s].user = session[s].user
          /\ session'[s].pw = req[r].pw
      BY <2>2, <2>3 DEF SessionRow
    <3>. QED
      BY <2>1, <2>3, <3>1, DoorsAre, DoorKinds
  <2>4. CASE session[s].user # u
    <3>1. s \notin S
      BY <2>4 DEF Swept
    <3>2. Revoked(S)[s] = session[s]
      BY <1>0, <3>1, RevokedType
    <3>3. session'[s] = session[s]
      BY <2>2, <2>4, <3>2
    <3>. QED
      BY <2>1, <2>4, <3>3, DoorsAre
  <2>5. CASE s # keep /\ session[s].user = u
    <3>1. session'[s].status = IF Unrevoked(s) THEN "revoked" ELSE session[s].status
      BY <1>0, <2>2, <2>5, RevokedFields DEF Swept
    <3>2. CASE Unrevoked(s)
      <4>1. Door(session'[s]) = Store!ClosedDoor
        BY <3>1, <3>2, DoorKinds
      <4>2. session[s].status # "live" => Doors[s] = Store!ClosedDoor
        BY <3>2, DoorsAre, DoorKinds DEF Unrevoked
      <4>. QED
        BY <2>1, <2>5, <4>1, <4>2
    <3>3. CASE ~Unrevoked(s)
      <4>1. session'[s] = session[s] /\ session[s].status # "live"
        <5>1. s \notin S
          BY <3>3 DEF Swept
        <5>2. Revoked(S)[s] = session[s]
          BY <1>0, <5>1, RevokedType
        <5>. QED
          BY <2>2, <2>5, <3>3, <5>2 DEF Unrevoked
      <4>. QED
        BY <2>1, <4>1, DoorsAre
    <3>. QED
      BY <3>2, <3>3
  <2>. QED
    BY <2>3, <2>4, <2>5
<1>2. Doors' = [s \in SessionIds |->
                  IF s \notin Store!DoorsOf(u) THEN Doors[s]
                  ELSE IF s = keep THEN Store!OpenDoor(u, req[r].pw) ELSE Store!ClosedDoor]
  BY <1>1, DoorsAre
<1>3. password' = [password EXCEPT ![u] = req[r].pw] /\ UNCHANGED <<Enabled, ResetLinks>>
  BY SameEnabled, SameResetLinks DEF CommitChange
<1>. HIDE DEF u, keep
<1>. QED
  BY <1>0, <1>2, <1>3 DEF StoreStep, Store!Next, Store!ChangePassword

(* The steps the store cannot tell from nothing.                            *)
LEMMA UnseenStep ==
    ASSUME UNCHANGED <<account, password, session, token>>
    PROVE  StoreStep
BY SameEnabled, SameDoors, SameResetLinks DEF StoreStep

LEMMA StoreInit == Init => Store!Init
<1>. SUFFICES ASSUME Init PROVE Store!Init
  OBVIOUS
<1>1. Enabled = {} /\ password = [u \in Users |-> NoPassword]
  BY DEF Init, Enabled
<1>2. \A s \in SessionIds : Doors[s] = Store!NewDoor
  BY DoorsAre, DoorKinds DEF Init
<1>3. \A t \in TokenIds : ResetLinks[t] = Store!NewLink
  BY LinksAre, LinkKinds DEF Init
<1>4. Doors = [s \in SessionIds |-> Store!NewDoor]
  BY <1>2 DEF Doors
<1>5. ResetLinks = [t \in TokenIds |-> Store!NewLink]
  BY <1>3 DEF ResetLinks
<1>. QED
  BY <1>1, <1>4, <1>5 DEF Store!Init

LEMMA StepsAreStoreSteps ==
    ASSUME SessionsInv, StoreInv, ResetsTracked, [Next]_vars
    PROVE  StoreStep
<1>0. TypeOK
  BY DEF SessionsInv
<1>1. ASSUME NEW r \in Requests, RequestStep(r) PROVE StoreStep
  <2>1. CASE \/ \E u \in Users, p \in Passwords : Login(r, u, p)
             \/ \E c \in challenges : VerifyTwoFactor(r, c)
             \/ \E s \in SessionIds : Refresh(r, s)
             \/ \E t \in TokenIds, p \in Passwords : ResetPassword(r, t, p)
             \/ \E u \in Users, old, new \in Passwords, keep \in SessionIds \cup {NoSession} :
                   ChangePassword(r, u, old, new, keep)
    BY <2>1, UnseenStep DEF Login, VerifyTwoFactor, Refresh, ResetPassword, ChangePassword
  <2>2. ASSUME NEW u \in Users, ForgotPassword(r, u) PROVE StoreStep
    BY <1>0, <2>2, VoidStep DEF ForgotPassword
  <2>. QED
    BY <1>1, <2>1, <2>2, SignInStep, ExchangeStep, MailStep, ResetStoreStep, ChangeStoreStep
    DEF RequestStep
<1>2. ASSUME NEW u \in Users, UserStep(u) PROVE StoreStep
  <2>1. ASSUME NEW keep \in SessionIds \cup {NoSession}, RevokeOtherSessions(u, keep)
        PROVE  StoreStep
    BY <1>0, <2>1, CloseStep, SweptUnrevoked DEF RevokeOtherSessions
  <2>2. ASSUME RevokeSessions(u) PROVE StoreStep
    BY <1>0, <2>2, CloseStep, SweptUnrevoked DEF RevokeSessions
  <2>3. ASSUME SetTwoFactor(u) PROVE StoreStep
    BY <2>3, UnseenStep DEF SetTwoFactor
  <2>. QED
    BY <1>2, <2>1, <2>2, <2>3, SignUpStep, SuspendStep, RestoreStep DEF UserStep
<1>3. ASSUME NEW s \in SessionIds, EndSession(s) PROVE StoreStep
  BY <1>0, <1>3, CloseStep DEF EndSession
<1>4. ASSUME Expiry PROVE StoreStep
  <2>1. ASSUME NEW t \in TokenIds, ExpireToken(t) PROVE StoreStep
    BY <1>0, <2>1, VoidStep DEF ExpireToken
  <2>2. ASSUME NEW c \in challenges, ExpireChallenge(c) PROVE StoreStep
    BY <2>2, UnseenStep DEF ExpireChallenge
  <2>. QED
    BY <1>0, <1>4, <2>1, <2>2, ExpiredDoor DEF Expiry
<1>5. CASE UNCHANGED vars
  BY <1>5, UnseenStep DEF vars
<1>. QED
  BY <1>1, <1>2, <1>3, <1>4, <1>5 DEF Next

(* Every step of a handler happens at one moment as module AccountStore     *)
(* promises, or is nothing to it, but for the writes of requests that were  *)
(* overtaken: of sign-ups, sign-ins, refreshes, password changes and resets *)
(* in any number and overlap.                                               *)
THEOREM StoreTheorem == Spec => StepsImplementStore
<1>1. Init => ResetsTracked
  BY DEF Init, Idle, ResetsTracked
<1>2. SessionsInv /\ StoreInv /\ ResetsTracked /\ [Next]_vars
         => [Store!Next \/ LateWrite]_<<Enabled, password, Doors, ResetLinks>>
  BY StepsAreStoreSteps DEF StoreStep
<1>. QED
  BY <1>1, <1>2, InitInv, NextInv, StoreInvInit, StoreInvNext, ResetsStep, StoreInit, PTL
  DEF Spec, StepsImplementStore

(* Without late writes the handlers implement the store of accounts.        *)
THEOREM UndisturbedStoreTheorem == Spec /\ [][~LateWrite]_vars => Store!Spec
<1>1. Init => ResetsTracked
  BY DEF Init, Idle, ResetsTracked
<1>2. SessionsInv /\ StoreInv /\ ResetsTracked /\ [Next]_vars /\ [~LateWrite]_vars
         => [Store!Next]_(Store!store)
  <2>1. SUFFICES ASSUME SessionsInv, StoreInv, ResetsTracked, [Next]_vars, [~LateWrite]_vars
                 PROVE  Store!Next \/ UNCHANGED <<Enabled, password, Doors, ResetLinks>>
    BY DEF Store!store
  <2>2. CASE UNCHANGED vars
    BY <2>2, SameEnabled, SameDoors, SameResetLinks DEF vars
  <2>3. CASE ~LateWrite
    BY <2>1, <2>3, StepsAreStoreSteps DEF StoreStep
  <2>. QED
    BY <2>1, <2>2, <2>3
<1>. QED
  BY <1>1, <1>2, InitInv, NextInv, StoreInvInit, StoreInvNext, ResetsStep, StoreInit, PTL
  DEF Spec, Store!Spec

(* What the excuses of the properties ("swept", "ended") are about: without *)
(* late writes there is none.                                               *)
NothingMissed ==
    /\ \A s \in SessionIds : session[s].missed = {}
    /\ \A a, b \in TokenIds :
          token[a].status = "live" /\ token[b].status = "live" /\ token[a].user = token[b].user
             => a = b

Strict ==
    /\ \A s \in SessionIds : Live(s) =>
          /\ account[session[s].user] = "active"
          /\ session[s].pw = password[session[s].user]
    /\ \A s \in SessionIds : session[s].parent # NoSession =>
          session[session[s].parent].status = "rotated"
    /\ \A a, b \in SessionIds :
          session[a].parent # NoSession /\ session[a].parent = session[b].parent => a = b
    /\ \A a, b \in TokenIds :
          token[a].status = "live" /\ token[b].status = "live" /\ token[a].user = token[b].user
             => a = b

LEMMA NothingMissedSessions ==
    ASSUME SessionsInv, NothingMissed, [Next]_vars, ~LateWrite, NEW s \in SessionIds
    PROVE  session'[s].missed = {}
<1>0. TypeOK /\ session \in [SessionIds -> SessionRow] /\ session[s].missed = {}
  BY DEF SessionsInv, TypeOK, NothingMissed
<1>1. CASE UNCHANGED session
  BY <1>0, <1>1
<1>2. ASSUME NEW S, session' = Revoked(S) PROVE session'[s].missed = {}
  BY <1>0, <1>2, RevokedFields
<1>3. ASSUME NEW r \in Requests, NEW n \in SessionIds, IssueSession(r, n)
      PROVE  session'[s].missed = {}
  <2>1. req[r].missed = {}
    BY <1>0, <1>3 DEF IssueSession, LateWrite, Outdated, TypeOK, Idle
  <2>. QED
    BY <1>0, <1>3, <2>1 DEF IssueSession, IssuedRow
<1>4. ASSUME NEW r \in Requests, NEW n \in SessionIds, Rotate(r, n)
      PROVE  session'[s].missed = {}
  <2>1. req[r].missed = {}
    <3>1. req'[r].op = "idle"
      BY <1>0, <1>4, OvertakeType DEF Rotate, Idle
    <3>. QED
      BY <1>4, <3>1 DEF Rotate, LateWrite, Outdated
  <2>2. CASE s = n
    BY <1>0, <1>4, <2>1, <2>2 DEF Rotate, IssuedRow
  <2>3. CASE s # n
    BY <1>0, <1>4, <2>3 DEF Rotate, SessionRow
  <2>. QED
    BY <2>2, <2>3
<1>5. ASSUME NEW u \in Users, NEW p \in Passwords, NEW n \in SessionIds, Register(u, p, n)
      PROVE  session'[s].missed = {}
  BY <1>0, <1>5 DEF Register, IssuedRow, Idle
<1>6. ASSUME NEW r \in Requests, CommitChange(r)
      PROVE  session'[s].missed = {}
  BY <1>0, <1>6, RevokedFields DEF CommitChange
<1>7. ASSUME NEW n \in SessionIds, ExpireSession(n)
      PROVE  session'[s].missed = {}
  BY <1>0, <1>7 DEF ExpireSession, SessionRow
<1>8. ASSUME NEW r \in Requests, RequestStep(r) PROVE session'[s].missed = {}
  BY <1>1, <1>2, <1>3, <1>4, <1>6, <1>8
  DEF RequestStep, Login, VerifyTwoFactor, Refresh, ForgotPassword, CreateResetToken,
      ResetPassword, CommitReset, ChangePassword
<1>9. ASSUME NEW u \in Users, UserStep(u) PROVE session'[s].missed = {}
  BY <1>1, <1>2, <1>5, <1>9
  DEF UserStep, SetTwoFactor, RevokeOtherSessions, DisableUser, EnableUser, RevokeSessions
<1>. QED
  BY <1>1, <1>2, <1>7, <1>8, <1>9
  DEF Next, Expiry, EndSession, ExpireToken, ExpireChallenge, vars

LEMMA OneLinkStep ==
    ASSUME SessionsInv, StoreInv, NothingMissed, [Next]_vars, ~LateWrite
    PROVE  \A a, b \in TokenIds :
             token'[a].status = "live" /\ token'[b].status = "live"
             /\ token'[a].user = token'[b].user => a = b
<1>. DEFINE Goal == \A a, b \in TokenIds :
             token'[a].status = "live" /\ token'[b].status = "live"
             /\ token'[a].user = token'[b].user => a = b
<1>0. TypeOK /\ token \in [TokenIds -> TokenRow]
  BY DEF SessionsInv, TypeOK
<1>1. ASSUME NoNewLink PROVE Goal
  BY <1>1 DEF NoNewLink, NothingMissed
<1>2. ASSUME NEW r \in Requests, NEW x \in TokenIds, CreateResetToken(r, x) PROVE Goal
  <2>1. req[r].op = "forgot" /\ req'[r].op = "idle"
    BY <1>0, <1>2, CreateResetTokenRequests DEF CreateResetToken, Idle
  <2>2. req[r].missed = {}
    BY <2>1 DEF LateWrite, Outdated
  <2>3. \A t \in TokenIds : token[t].status = "live" => token[t].user # req[r].user
    BY <2>1, <2>2 DEF StoreInv, ForgotsTracked
  <2>4. \A t \in TokenIds :
          token'[t] = IF t = x THEN [status |-> "live", user |-> req[r].user] ELSE token[t]
    BY <1>0, <1>2 DEF CreateResetToken
  <2>. QED
    BY <2>3, <2>4 DEF NothingMissed
<1>3. ASSUME NEW t \in TokenIds, ExpireToken(t) PROVE Goal
  <2>1. NoNewLink
    BY <1>0, <1>3 DEF ExpireToken, NoNewLink, TokenRow
  <2>. QED
    BY <1>1, <2>1
<1>4. ASSUME UNCHANGED token PROVE Goal
  BY <1>1, <1>4, SameLinks
<1>5. ASSUME NEW T, token' = Spent(T) PROVE Goal
  BY <1>0, <1>1, <1>5, SpentLinks
<1>. HIDE DEF Goal
<1>6. ASSUME NEW r \in Requests, RequestStep(r) PROVE Goal
  BY <1>2, <1>4, <1>5, <1>6
  DEF RequestStep, Login, VerifyTwoFactor, IssueSession, Refresh, Rotate, ForgotPassword,
      ResetPassword, CommitReset, ChangePassword, CommitChange
<1>7. ASSUME NEW u \in Users, UserStep(u) PROVE Goal
  BY <1>4, <1>7
  DEF UserStep, Register, SetTwoFactor, RevokeOtherSessions, DisableUser, EnableUser,
      RevokeSessions
<1>8. Goal
  BY <1>3, <1>4, <1>6, <1>7 DEF Next, Expiry, EndSession, ExpireSession, ExpireChallenge, vars
<1>. QED
  BY <1>8 DEF Goal

(* Without late writes a signed-in session is never of a suspended user or  *)
(* another password than the present one, a refresh cookie is exchanged     *)
(* once and an ended one never, a user has one good reset link, and only    *)
(* good links reset passwords.                                              *)
THEOREM UndisturbedTheorem ==
    Spec /\ [][~LateWrite]_vars =>
        /\ []Strict
        /\ [][\A r \in Requests :
                (req[r].op = "reset" /\ req'[r].op = "idle")
                   => token[req[r].token].status = "live"]_vars
<1>1. Init => NothingMissed /\ ResetsTracked
  BY DEF Init, Idle, NothingMissed, ResetsTracked
<1>2. SessionsInv /\ StoreInv /\ NothingMissed /\ [Next]_vars /\ [~LateWrite]_vars
         => NothingMissed'
  <2>1. SUFFICES ASSUME SessionsInv, StoreInv, NothingMissed, [Next]_vars, [~LateWrite]_vars
                 PROVE  NothingMissed'
    OBVIOUS
  <2>2. CASE UNCHANGED vars
    BY <2>1, <2>2 DEF NothingMissed, vars
  <2>3. CASE ~LateWrite
    BY <2>1, <2>3, NothingMissedSessions, OneLinkStep DEF NothingMissed
  <2>. QED
    BY <2>1, <2>2, <2>3
<1>3. SessionsInv /\ NothingMissed => Strict
  <2>1. SUFFICES ASSUME SessionsInv, NothingMissed PROVE Strict
    OBVIOUS
  <2>2. ASSUME NEW s \in SessionIds, Live(s)
        PROVE  account[session[s].user] = "active" /\ session[s].pw = password[session[s].user]
    BY <2>1, <2>2 DEF SessionsInv, Checked, Vouched, NothingMissed
  <2>3. ASSUME NEW s \in SessionIds, session[s].parent # NoSession
        PROVE  session[session[s].parent].status = "rotated"
    BY <2>1, <2>3 DEF SessionsInv, ParentsEnded, Ended, EndedSessionsHaveNoHeirs, NothingMissed
  <2>4. ASSUME NEW a \in SessionIds, NEW b \in SessionIds,
               session[a].parent # NoSession, session[a].parent = session[b].parent
        PROVE  a = b
    BY <2>1, <2>4 DEF SessionsInv, RotationIsUnique, NothingMissed
  <2>. QED
    BY <2>1, <2>2, <2>3, <2>4 DEF Strict, NothingMissed
<1>4. ResetsTracked /\ [~LateWrite]_vars =>
         [\A r \in Requests :
            (req[r].op = "reset" /\ req'[r].op = "idle")
               => token[req[r].token].status = "live"]_vars
  BY DEF ResetsTracked, Unspent, LateWrite, Outdated
<1>. QED
  BY <1>1, <1>2, <1>3, <1>4, InitInv, NextInv, StoreInvInit, StoreInvNext, ResetsStep, PTL
  DEF Spec

(* Then the store as it appears in the rows is sound at every moment: its   *)
(* open doors and good links are those that its own operations leave.       *)
THEOREM SoundStoreTheorem == Spec /\ [][~LateWrite]_vars => []Store!Sound
<1>1. SessionsInv /\ Strict => Store!Sound
  <2>1. SUFFICES ASSUME SessionsInv, Strict PROVE Store!Sound
    OBVIOUS
  <2>2. ASSUME NEW s \in SessionIds, Doors[s].is = "open"
        PROVE  Doors[s].user \in Enabled /\ Doors[s].pw = password[Doors[s].user]
    <3>1. session[s].status = "live" /\ Doors[s] = Store!OpenDoor(session[s].user, session[s].pw)
      BY <2>2, DoorsAre, DoorKinds
    <3>2. /\ session[s].user \in Users /\ account[session[s].user] = "active"
          /\ session[s].pw = password[session[s].user]
      BY <2>1, <3>1 DEF SessionsInv, Owned, Strict, Live
    <3>. QED
      BY <3>1, <3>2 DEF Store!OpenDoor, Enabled
  <2>3. ASSUME NEW u \in Users, NEW a \in TokenIds, NEW b \in TokenIds,
               a \in Store!LinksOf(u), b \in Store!LinksOf(u)
        PROVE  a = b
    BY <2>1, <2>3, LinksOfAre DEF Strict
  <2>. QED
    BY <2>2, <2>3 DEF Store!Sound
<1>. QED
  BY <1>1, SessionsInvariant, UndisturbedTheorem, PTL
=============================================================================

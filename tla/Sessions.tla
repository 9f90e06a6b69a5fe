------------------------------ MODULE Sessions ------------------------------
(***************************************************************************)
(* Accounts, refresh sessions, login challenges and password-reset tokens  *)
(* of apps/api/src/auth/auth.service.ts, with the administrator's account  *)
(* suspension of apps/api/src/admin/admin.service.ts.                      *)
(*                                                                         *)
(* Every awaited Prisma call is a step of its own, so several HTTP         *)
(* requests interleave between the row a handler checked and the row it    *)
(* writes.  A handler whose check cannot become false before its write     *)
(* (an account is never deleted, a session never becomes live again) is    *)
(* one step; the others keep what they read in req[r] until they write.    *)
(* A $transaction is one step, except forgotPassword, whose two statements *)
(* two requests can interleave under READ COMMITTED.                       *)
(***************************************************************************)
EXTENDS Naturals, FiniteSets

CONSTANTS
    Users,          \* e-mail addresses an account may exist for
    Passwords,      \* passwords (a bcrypt hash is its password)
    SessionIds,     \* RefreshSession rows; the cookie value names the row
    TokenIds,       \* PasswordResetToken rows; the mailed link names the row
    Requests,       \* concurrent HTTP requests
    TwoFactorUsers, \* the users who own an authenticator app
    NoUser, NoPassword, NoSession, NoToken

ASSUME ConstantsAreDisjoint ==
    /\ TwoFactorUsers \subseteq Users
    /\ NoUser \notin Users
    /\ NoPassword \notin Passwords
    /\ NoSession \notin SessionIds
    /\ NoToken \notin TokenIds

VARIABLES
    account,    \* User row: absent, active, or disabled (disabledAt set)
    password,   \* User.passwordHash
    twoFactor,  \* users with totpEnabledAt and totpSecret set
    session,    \* RefreshSession rows, with the history of how they came to be
    token,      \* PasswordResetToken rows
    challenges, \* unexpired two_factor JWTs handed to clients
    req         \* what each request read, until it writes

vars == <<account, password, twoFactor, session, token, challenges, req>>

-----------------------------------------------------------------------------
(* Rows.  revokedAt is set in "rotated" and "revoked": no handler tells the *)
(* two apart.  The fields parent, pw and missed are history: the session    *)
(* this one was refreshed from, the password its lineage was authenticated  *)
(* with, and what the request that issued it missed between its checks and  *)
(* its write: "ended" when the row it had checked was revoked or spent,     *)
(* "swept" when every session of the user was.  "swept" is inherited.       *)

Misses == SUBSET {"ended", "swept"}

SessionRow == [status : {"unused", "live", "expired", "rotated", "revoked"},
               user   : Users \cup {NoUser},
               parent : SessionIds \cup {NoSession},
               pw     : Passwords \cup {NoPassword},
               missed : Misses]

TokenRow == [status : {"unused", "live", "expired", "spent"},
             user   : Users \cup {NoUser}]

Challenge == [user : Users, pw : Passwords, missed : Misses]

Request == [op      : {"idle", "issue", "refresh", "forgot", "reset", "change"},
            user    : Users \cup {NoUser},
            session : SessionIds \cup {NoSession},
            token   : TokenIds \cup {NoToken},
            pw      : Passwords \cup {NoPassword},
            missed  : Misses]

Idle == [op |-> "idle", user |-> NoUser, session |-> NoSession,
         token |-> NoToken, pw |-> NoPassword, missed |-> {}]

TypeOK ==
    /\ account \in [Users -> {"absent", "active", "disabled"}]
    /\ password \in [Users -> Passwords \cup {NoPassword}]
    /\ twoFactor \subseteq Users
    /\ session \in [SessionIds -> SessionRow]
    /\ token \in [TokenIds -> TokenRow]
    /\ challenges \subseteq Challenge
    /\ req \in [Requests -> Request]

Init ==
    /\ account = [u \in Users |-> "absent"]
    /\ password = [u \in Users |-> NoPassword]
    /\ twoFactor = {}
    /\ session = [s \in SessionIds |->
                    [status |-> "unused", user |-> NoUser, parent |-> NoSession,
                     pw |-> NoPassword, missed |-> {}]]
    /\ token = [t \in TokenIds |-> [status |-> "unused", user |-> NoUser]]
    /\ challenges = {}
    /\ req = [r \in Requests |-> Idle]

Live(s) == session[s].status = "live"
Unrevoked(s) == session[s].status \in {"live", "expired"}    \* revokedAt null
Unspent(t) == token[t].status \in {"live", "expired"}        \* usedAt null

(* issueSession: the new row written for request q. *)
IssuedRow(q) == [status |-> "live", user |-> q.user, parent |-> q.session,
                 pw |-> q.pw, missed |-> q.missed]

\* Mutant: the sessions that a password change or a suspension should end stay.
SweptNothing(u, keep) == {}

(* refreshSession.updateMany({ userId, revokedAt: null, tokenHash: { not: keep } }) *)
Swept(u, keep) == {s \in SessionIds : session[s].user = u /\ s # keep /\ Unrevoked(s)}

Revoked(S) == [s \in SessionIds |->
                 IF s \in S THEN [session[s] EXCEPT !.status = "revoked"] ELSE session[s]]

\* Mutant: a new reset link leaves the earlier ones good.
TokensOfNobody(u) == {}

(* passwordResetToken.updateMany({ userId, usedAt: null }) *)
TokensOf(u) == {t \in TokenIds : token[t].user = u /\ Unspent(t)}

Spent(T) == [t \in TokenIds |->
               IF t \in T THEN [token[t] EXCEPT !.status = "spent"] ELSE token[t]]

(* History: requests in flight whose checked row, in S or T, ends in this   *)
(* step, and requests and challenges of the user whose sessions all end.    *)
Overtake(S, T, U) ==
    [q \in Requests |->
        [req[q] EXCEPT !.missed =
            @ \cup (IF req[q].session \in S \/ req[q].token \in T THEN {"ended"} ELSE {})
              \cup (IF req[q].user \in U THEN {"swept"} ELSE {})]]

(* The same of requests for a reset link of the user that are under way     *)
(* when another one is created.                                             *)
OvertakeForgot(u) ==
    [q \in Requests |->
        IF req[q].op = "forgot" /\ req[q].user = u
        THEN [req[q] EXCEPT !.missed = @ \cup {"ended"}] ELSE req[q]]

OvertakeChallenges(u) ==
    {IF c.user = u THEN [c EXCEPT !.missed = {"swept"}] ELSE c : c \in challenges}

-----------------------------------------------------------------------------
(* Sign-up and sign-in *)

(* register: the e-mail check, then one transaction that creates the        *)
(* account (its personal workspace is module Workspaces) and a session.     *)
(* Of two concurrent sign-ups the unique e-mail lets one commit.            *)
Register(u, p, s) ==
    /\ account[u] = "absent"
    /\ session[s].status = "unused"
    /\ account' = [account EXCEPT ![u] = "active"]
    /\ password' = [password EXCEPT ![u] = p]
    /\ session' = [session EXCEPT ![s] = IssuedRow([Idle EXCEPT !.user = u, !.pw = p])]
    /\ UNCHANGED <<twoFactor, token, challenges, req>>

(* login up to the last check: the password it compares and the disabledAt  *)
(* and totp fields it tests are those of one read.  A wrong password or a   *)
(* disabled account throws and changes nothing.                             *)
Login(r, u, p) ==
    /\ req[r].op = "idle"
    /\ account[u] = "active"
    /\ password[u] = p
    /\ IF u \in twoFactor
       THEN /\ challenges' = challenges \cup {[user |-> u, pw |-> p, missed |-> {}]}
            /\ UNCHANGED req
       ELSE /\ req' = [req EXCEPT ![r] = [Idle EXCEPT !.op = "issue", !.user = u, !.pw = p]]
            /\ UNCHANGED challenges
    /\ UNCHANGED <<account, password, twoFactor, session, token>>

(* verifyTwoFactor up to the accepted code (module TwoFactor); the JWT      *)
(* proves the password that was checked when it was signed.                 *)
VerifyTwoFactor(r, c) ==
    /\ req[r].op = "idle"
    /\ c \in challenges
    /\ c.user \in twoFactor
    /\ account[c.user] = "active"
    /\ req' = [req EXCEPT ![r] = [Idle EXCEPT !.op = "issue", !.user = c.user,
                                              !.pw = c.pw, !.missed = c.missed]]
    /\ UNCHANGED <<account, password, twoFactor, session, token, challenges>>

(* The insert that ends login and verifyTwoFactor. *)
IssueSession(r, s) ==
    /\ req[r].op = "issue"
    /\ session[s].status = "unused"
    /\ session' = [session EXCEPT ![s] = IssuedRow(req[r])]
    /\ req' = [req EXCEPT ![r] = Idle]
    /\ UNCHANGED <<account, password, twoFactor, token, challenges>>

(* The flag that setupTwoFactor, enableTwoFactor and disableTwoFactor write *)
(* (module TwoFactor has their steps).                                      *)
SetTwoFactor(u) ==
    /\ u \in TwoFactorUsers
    /\ account[u] # "absent"
    /\ twoFactor' \in {twoFactor \cup {u}, twoFactor \ {u}}
    /\ UNCHANGED <<account, password, session, token, challenges, req>>

-----------------------------------------------------------------------------
(* Rotation and sign-out *)

\* Mutant: refresh forgets to test revokedAt.
RefreshAcceptsRevoked(s) ==
    session[s].status # "unused" /\ account[session[s].user] = "active"

(* The row exists, is not revoked, not expired, and its user not disabled. *)
RefreshAccepts(s) == Live(s) /\ account[session[s].user] = "active"

(* refresh up to the checks on the row read with its user. *)
Refresh(r, s) ==
    /\ req[r].op = "idle"
    /\ RefreshAccepts(s)
    /\ req' = [req EXCEPT ![r] = [Idle EXCEPT !.op = "refresh", !.session = s,
                                              !.user = session[s].user,
                                              !.pw = session[s].pw,
                                              !.missed = session[s].missed \cap {"swept"}]]
    /\ UNCHANGED <<account, password, twoFactor, session, token, challenges>>

(* refresh's transaction: it updates the row by id, whatever its revokedAt  *)
(* is by now, and inserts the successor.                                    *)
Rotate(r, s) ==
    LET old == req[r].session IN
    /\ req[r].op = "refresh"
    /\ session[s].status = "unused"
    /\ session' = [session EXCEPT ![old].status = IF Unrevoked(old) THEN "rotated" ELSE @,
                                  ![s] = IssuedRow(req[r])]
    /\ req' = [Overtake({old}, {}, {}) EXCEPT ![r] = Idle]
    /\ UNCHANGED <<account, password, twoFactor, token, challenges>>

(* logout, and revokeSession for one listed session: its findFirst requires *)
(* revokedAt null and its update by id only ends what is not ended yet.     *)
EndSession(s) ==
    /\ Unrevoked(s)
    /\ session' = Revoked({s})
    /\ req' = Overtake({s}, {}, {})
    /\ UNCHANGED <<account, password, twoFactor, token, challenges>>

(* revokeOtherSessions, with the session its cookie names (or a foreign or  *)
(* unknown cookie).                                                         *)
RevokeOtherSessions(u, keep) ==
    /\ account[u] # "absent"
    /\ session' = Revoked(Swept(u, keep))
    /\ req' = Overtake(Swept(u, keep), {}, {})
    /\ UNCHANGED <<account, password, twoFactor, token, challenges>>

-----------------------------------------------------------------------------
(* Passwords *)

(* forgotPassword: the first statement of its transaction (bound: a free    *)
(* token row is left).                                                      *)
ForgotPassword(r, u) ==
    /\ req[r].op = "idle"
    /\ account[u] # "absent"
    /\ \E t \in TokenIds : token[t].status = "unused"
    /\ token' = Spent(TokensOf(u))
    /\ req' = [Overtake({}, TokensOf(u), {})
                 EXCEPT ![r] = [Idle EXCEPT !.op = "forgot", !.user = u]]
    /\ UNCHANGED <<account, password, twoFactor, session, challenges>>

(* forgotPassword: the second statement and the commit; the link is mailed. *)
CreateResetToken(r, t) ==
    /\ req[r].op = "forgot"
    /\ token[t].status = "unused"
    /\ token' = [token EXCEPT ![t] = [status |-> "live", user |-> req[r].user]]
    /\ req' = [OvertakeForgot(req[r].user) EXCEPT ![r] = Idle]
    /\ UNCHANGED <<account, password, twoFactor, session, challenges>>

\* Mutant: usedAt is not tested.
LinkAcceptsSpent(t) == token[t].status \in {"live", "spent"}

(* The token exists, is unused and has not expired. *)
LinkAccepted(t) == token[t].status = "live"

(* resetPassword up to the check of the token; bcrypt.hash follows. *)
ResetPassword(r, t, p) ==
    /\ req[r].op = "idle"
    /\ LinkAccepted(t)
    /\ req' = [req EXCEPT ![r] = [Idle EXCEPT !.op = "reset", !.user = token[t].user,
                                              !.token = t, !.pw = p]]
    /\ UNCHANGED <<account, password, twoFactor, session, token, challenges>>

(* resetPassword's transaction: password, this token by id, the user's      *)
(* other tokens and every session.                                          *)
CommitReset(r) ==
    LET u == req[r].user
        T == TokensOf(u) \cup {req[r].token}
        S == Swept(u, NoSession)
    IN  /\ req[r].op = "reset"
        /\ password' = [password EXCEPT ![u] = req[r].pw]
        /\ token' = Spent(T)
        /\ session' = Revoked(S)
        /\ challenges' = OvertakeChallenges(u)
        /\ req' = [Overtake(S, T, {u}) EXCEPT ![r] = Idle]
        /\ UNCHANGED <<account, twoFactor>>

(* changePassword up to the comparison with the hash it read. *)
ChangePassword(r, u, old, new, keep) ==
    /\ req[r].op = "idle"
    /\ account[u] # "absent"
    /\ password[u] = old
    /\ old # new
    /\ req' = [req EXCEPT ![r] = [Idle EXCEPT !.op = "change", !.user = u,
                                              !.session = keep, !.pw = new]]
    /\ UNCHANGED <<account, password, twoFactor, session, token, challenges>>

(* changePassword's transaction: the session the cookie names stays, and    *)
(* from now on stands for the new password.                                 *)
CommitChange(r) ==
    LET u == req[r].user
        keep == req[r].session
        S == Swept(u, keep)
    IN  /\ req[r].op = "change"
        /\ password' = [password EXCEPT ![u] = req[r].pw]
        /\ session' = [s \in SessionIds |->
                         IF s = keep /\ session[s].user = u
                         THEN [session[s] EXCEPT !.pw = req[r].pw]
                         ELSE Revoked(S)[s]]
        /\ challenges' = OvertakeChallenges(u)
        /\ req' = [Overtake(S, {}, {u}) EXCEPT ![r] = Idle]
        /\ UNCHANGED <<account, twoFactor, token>>

-----------------------------------------------------------------------------
(* Administration and time *)

(* admin updateUser: a regular account is suspended and its sessions are    *)
(* revoked in one transaction.                                              *)
DisableUser(u) ==
    /\ account[u] # "absent"
    /\ account' = [account EXCEPT ![u] = "disabled"]
    /\ session' = Revoked(Swept(u, NoSession))
    /\ challenges' = OvertakeChallenges(u)
    /\ req' = Overtake(Swept(u, NoSession), {}, {u})
    /\ UNCHANGED <<password, twoFactor, token>>

EnableUser(u) ==
    /\ account[u] = "disabled"
    /\ account' = [account EXCEPT ![u] = "active"]
    /\ UNCHANGED <<password, twoFactor, session, token, challenges, req>>

(* admin revokeSessions *)
RevokeSessions(u) ==
    /\ account[u] # "absent"
    /\ session' = Revoked(Swept(u, NoSession))
    /\ challenges' = OvertakeChallenges(u)
    /\ req' = Overtake(Swept(u, NoSession), {}, {u})
    /\ UNCHANGED <<account, password, twoFactor, token>>

(* expiresAt passes: 30 days, the reset TTL, 5 minutes. *)
ExpireSession(s) ==
    /\ Live(s)
    /\ session' = [session EXCEPT ![s].status = "expired"]
    /\ UNCHANGED <<account, password, twoFactor, token, challenges, req>>

ExpireToken(t) ==
    /\ token[t].status = "live"
    /\ token' = [token EXCEPT ![t].status = "expired"]
    /\ UNCHANGED <<account, password, twoFactor, session, challenges, req>>

ExpireChallenge(c) ==
    /\ challenges' = challenges \ {c}
    /\ UNCHANGED <<account, password, twoFactor, session, token, req>>

-----------------------------------------------------------------------------
RequestStep(r) ==
    \/ \E u \in Users, p \in Passwords : Login(r, u, p)
    \/ \E c \in challenges : VerifyTwoFactor(r, c)
    \/ \E s \in SessionIds : IssueSession(r, s) \/ Refresh(r, s) \/ Rotate(r, s)
    \/ \E u \in Users : ForgotPassword(r, u)
    \/ \E t \in TokenIds : CreateResetToken(r, t)
    \/ \E t \in TokenIds, p \in Passwords : ResetPassword(r, t, p)
    \/ CommitReset(r)
    \/ \E u \in Users, old, new \in Passwords, keep \in SessionIds \cup {NoSession} :
            ChangePassword(r, u, old, new, keep)
    \/ CommitChange(r)

UserStep(u) ==
    \/ \E p \in Passwords, s \in SessionIds : Register(u, p, s)
    \/ SetTwoFactor(u)
    \/ \E keep \in SessionIds \cup {NoSession} : RevokeOtherSessions(u, keep)
    \/ DisableUser(u)
    \/ EnableUser(u)
    \/ RevokeSessions(u)

Expiry ==
    \/ \E s \in SessionIds : ExpireSession(s)
    \/ \E t \in TokenIds : ExpireToken(t)
    \/ \E c \in challenges : ExpireChallenge(c)

Next ==
    \/ \E r \in Requests : RequestStep(r)
    \/ \E u \in Users : UserStep(u)
    \/ \E s \in SessionIds : EndSession(s)
    \/ Expiry

Spec == Init /\ [][Next]_vars

-----------------------------------------------------------------------------
(* Properties *)

(* A suspended account keeps a live session only if that session was issued *)
(* by a request (or a challenge) whose checks preceded the suspension: the  *)
(* disabledAt tests of login, verifyTwoFactor and refresh together with the *)
(* sweep of updateUser let nothing else through.                            *)
SuspensionEndsSessions ==
    \A s \in SessionIds :
        Live(s) /\ account[session[s].user] = "disabled" => "swept" \in session[s].missed

(* A live session of unbroken lineage stands for the account's current      *)
(* password: resetPassword and changePassword end every other lineage, and  *)
(* login, verifyTwoFactor and refresh start none from an outdated password. *)
SessionsMatchPassword ==
    \A s \in SessionIds :
        Live(s) /\ "swept" \notin session[s].missed => session[s].pw = password[session[s].user]

(* Each refresh cookie is exchanged once, except by requests that had       *)
(* checked it before it was first ended; a session that was refreshed is    *)
(* never usable again.                                                      *)
RotationIsUnique ==
    \A a, b \in SessionIds :
        /\ session[a].parent # NoSession => ~Unrevoked(session[a].parent)
        /\ (a # b /\ session[a].parent # NoSession /\ session[a].parent = session[b].parent)
              => "ended" \in session[a].missed \cup session[b].missed

(* A session ended by logout, by its owner, by an administrator or by a     *)
(* password change has successors only from refreshes already under way.    *)
EndedSessionsHaveNoHeirs ==
    \A s \in SessionIds :
        LET p == session[s].parent IN
        p # NoSession /\ session[p].status = "revoked" => "ended" \in session[s].missed

(* A refresh cookie is good for one exchange, and for none once its session *)
(* was ended (auth.service.ts:271): overlapping requests apart.             *)
CookiesAreSpentOnce == RotationIsUnique /\ EndedSessionsHaveNoHeirs

(* A reset link that was spent or superseded changes the password only for  *)
(* a request that had already accepted it.                                  *)
SpentLinksAreInert ==
    [][\A r \in Requests :
         (req[r].op = "reset" /\ req'[r].op = "idle")
            => Unspent(req[r].token) \/ "ended" \in req[r].missed]_vars

-----------------------------------------------------------------------------
(* What all this implements (module AccountStore): a session is open while  *)
(* its row is live, a reset link good while its row is.                     *)

Enabled == {u \in Users : account[u] = "active"}

Door(row) ==
    CASE row.status = "unused" -> [is |-> "new", user |-> NoUser, pw |-> NoPassword]
      [] row.status = "live" -> [is |-> "open", user |-> row.user, pw |-> row.pw]
      [] OTHER -> [is |-> "closed", user |-> NoUser, pw |-> NoPassword]

ResetLink(row) ==
    CASE row.status = "unused" -> [is |-> "new", user |-> NoUser]
      [] row.status = "live" -> [is |-> "good", user |-> row.user]
      [] OTHER -> [is |-> "void", user |-> NoUser]

Doors == [s \in SessionIds |-> Door(session[s])]

ResetLinks == [t \in TokenIds |-> ResetLink(token[t])]

Store == INSTANCE AccountStore
            WITH enabled <- Enabled, word <- password, door <- Doors, link <- ResetLinks

(* What a request checked no longer holds when it comes to write: another   *)
(* request overtook it, or the row it checked expired.                      *)
Outdated(r) ==
    \/ req[r].op \in {"issue", "refresh", "forgot"} /\ req[r].missed # {}
    \/ req[r].op = "refresh" /\ session[req[r].session].status = "expired"
    \/ /\ req[r].op = "reset"
       /\ "ended" \in req[r].missed \/ token[req[r].token].status = "expired"

LateWrite == \E r \in Requests : Outdated(r) /\ req'[r].op = "idle"

(* Every step of a handler does at one moment what the store promises, or   *)
(* nothing that the store can tell, but for the write of a request whose    *)
(* check was overtaken.                                                     *)
StepsImplementStore ==
    Store!Init /\ [][Store!Next \/ LateWrite]_<<Enabled, password, Doors, ResetLinks>>

-----------------------------------------------------------------------------
(* The inductive invariant behind the first four properties *)

Ended(s) == session[s].status \in {"rotated", "revoked"}

Vouched(u, p, missed) ==
    "swept" \in missed \/ (account[u] = "active" /\ password[u] = p)

(* Rows and requests belong to existing accounts. *)
Owned ==
    /\ \A r \in Requests : req[r].op # "idle" =>
            /\ req[r].user \in Users /\ account[req[r].user] # "absent"
            /\ req[r].op = "reset" => /\ req[r].token \in TokenIds
                                     /\ token[req[r].token].status # "unused"
                                     /\ token[req[r].token].user = req[r].user
    /\ \A s \in SessionIds : session[s].status # "unused" =>
            session[s].user \in Users /\ account[session[s].user] # "absent"
    /\ \A t \in TokenIds : token[t].status # "unused" =>
            token[t].user \in Users /\ account[token[t].user] # "absent"
    /\ \A c \in challenges : account[c.user] # "absent"

(* Whatever was not swept since its checks still satisfies them. *)
Checked ==
    /\ \A r \in Requests : req[r].op \in {"issue", "refresh"} =>
            Vouched(req[r].user, req[r].pw, req[r].missed)
    /\ \A s \in SessionIds : Live(s) =>
            Vouched(session[s].user, session[s].pw, session[s].missed)
    /\ \A c \in challenges : Vouched(c.user, c.pw, c.missed)

(* A refresh that was not overtaken still holds an unrevoked row. *)
RefreshesTracked ==
    \A r \in Requests :
        /\ req[r].op = "issue" => req[r].session = NoSession
        /\ req[r].op = "refresh" =>
              /\ req[r].session \in SessionIds
              /\ session[req[r].session].status # "unused"
              /\ Unrevoked(req[r].session) \/ "ended" \in req[r].missed

ParentsEnded ==
    \A s \in SessionIds : session[s].parent # NoSession => Ended(session[s].parent)

SessionsInv ==
    /\ TypeOK
    /\ Owned
    /\ Checked
    /\ RefreshesTracked
    /\ ParentsEnded
    /\ RotationIsUnique
    /\ EndedSessionsHaveNoHeirs

=============================================================================

------------------------------ MODULE TwoFactor ------------------------------
(***************************************************************************)
(* Two-factor authentication of one account: the handlers of               *)
(* apps/api/src/auth/auth.service.ts that set up, enable, disable and      *)
(* verify it, under the pages that call them, apps/web/src/app/(app)/      *)
(* settings/_components/security-settings.tsx and app/login/page.tsx.      *)
(*                                                                         *)
(* The handlers read the User row, check, and write by id later; several   *)
(* settings tabs and login pages run them at once.  A TOTP code is the     *)
(* secret it was computed from, a backup code is its row, and a batch of   *)
(* backup codes is one code.  Encryption of the secret and the expiry of   *)
(* the login challenge (module Sessions) are left out, and so are entries  *)
(* that the pages or the handlers only refuse.  A tab and a login page     *)
(* have one request each in flight.                                        *)
(***************************************************************************)
EXTENDS Naturals, FiniteSets

CONSTANTS
    Tabs,       \* browser tabs that show the security settings
    Logins,     \* login pages
    Secrets,    \* TOTP secrets: one for every set-up
    Codes,      \* backup codes: one for every time two-factor is enabled
    NoSecret, NoCode

ASSUME TwoFactorConstants ==
    Tabs \cap Logins = {} /\ NoSecret \notin Secrets /\ NoCode \notin Codes

VARIABLES
    user,       \* User.totpSecret and User.totpEnabledAt
    code,       \* TotpBackupCode rows
    app,        \* secrets the user has scanned into an authenticator
    tab,        \* state of SecuritySettings, and the cached user of the tab
    login,      \* what each LoginForm shows
    req,        \* what each page's request has read, until it is answered
    shaky       \* history: a request that another change overtook left its mark

vars == <<user, code, app, tab, login, req, shaky>>

Pages == Tabs \cup Logins

-----------------------------------------------------------------------------
(* me is an answer of getMe on its way: the status it read, or "none".     *)
(* current and late are history: nothing was changed since the status that *)
(* the tab shows, or the answer carries, was decided.                      *)
Tab == [enabled : BOOLEAN, setup : Secrets \cup {NoSecret}, backup : SUBSET Codes,
        me : {"none", "on", "off"}, late : BOOLEAN, current : BOOLEAN]

(* missed is history: the writes that overtook the request.                *)
Request == [op : {"idle", "setup", "set up", "enable", "enabled",
                  "disable find", "disable spend", "disable", "disabled",
                  "verify find", "verify spend", "verified"},
            secret : Secrets \cup {NoSecret}, code : Codes \cup {NoCode},
            missed : SUBSET {"set up", "enabled", "disabled", "spent"}]

Idle == [op |-> "idle", secret |-> NoSecret, code |-> NoCode, missed |-> {}]

TypeOK ==
    /\ user \in [secret : Secrets \cup {NoSecret}, enabled : BOOLEAN]
    /\ code \in [Codes -> {"unused", "fresh", "spent", "deleted"}]
    /\ app \subseteq Secrets
    /\ tab \in [Tabs -> Tab]
    /\ login \in [Logins -> {"password", "code"}]
    /\ req \in [Pages -> Request]
    /\ shaky \in BOOLEAN
    /\ \A t \in Tabs : tab[t].setup # NoSecret => tab[t].backup = {}

TabOpened == [enabled |-> user.enabled, setup |-> NoSecret, backup |-> {},
           me |-> "none", late |-> FALSE, current |-> TRUE]

Init ==
    /\ user = [secret |-> NoSecret, enabled |-> FALSE]
    /\ code = [k \in Codes |-> "unused"]
    /\ app = {}
    /\ tab = [t \in Tabs |-> TabOpened]
    /\ login = [c \in Logins |-> "password"]
    /\ req = [p \in Pages |-> Idle]
    /\ shaky = FALSE

Required == user.enabled /\ user.secret # NoSecret  \* totpEnabledAt && totpSecret

Known == app \cup {user.secret} \cup {tab[t].setup : t \in Tabs}
             \cup {req[p].secret : p \in Pages}

Rows == {k \in Codes : code[k] \in {"fresh", "spent"}}

(* The request of page p starts, goes on, and ends. *)
Send(p, op, x, k) ==
    req' = [req EXCEPT ![p] = [op |-> op, secret |-> x, code |-> k, missed |-> {}]]

(* History: the request of p goes on as op after a write that overtakes the *)
(* others, of a kind, and an answer of getMe on its way.                    *)
Write(p, op, kind) ==
    req' = [q \in Pages |->
              IF q = p THEN [req[q] EXCEPT !.op = op]
              ELSE IF req[q].op = "idle" THEN req[q]
              ELSE [req[q] EXCEPT !.missed = req[q].missed \cup {kind}]]

TabsOutdated == [t \in Tabs |-> [tab[t] EXCEPT !.current = FALSE, !.late = TRUE]]

-----------------------------------------------------------------------------
(* Setting up *)

MaySetUp == ~user.enabled

(* The button is there while the tab knows neither two-factor nor a QR code. *)
SetupOffered(t) == req[t].op = "idle" /\ ~tab[t].enabled /\ tab[t].setup = NoSecret

(* A click forgets the backup codes shown.  setupTwoFactor up to its check. *)
SetupTwoFactor(t) ==
    /\ SetupOffered(t)
    /\ tab' = [tab EXCEPT ![t].backup = {}]
    /\ IF MaySetUp THEN Send(t, "setup", NoSecret, NoCode) ELSE UNCHANGED req
    /\ UNCHANGED <<user, code, app, login, shaky>>

(* The update by id, which also clears totpEnabledAt.  generateSecret      *)
(* repeats nothing that is still known anywhere.                           *)
WriteSecret(t, x) ==
    /\ req[t].op = "setup" /\ x \notin Known
    /\ user' = [secret |-> x, enabled |-> FALSE]
    /\ tab' = TabsOutdated
    /\ req' = [q \in Pages |->
                 IF q = t THEN [req[q] EXCEPT !.op = "set up", !.secret = x]
                 ELSE IF req[q].op = "idle" THEN req[q]
                 ELSE [req[q] EXCEPT !.missed = req[q].missed \cup {"set up"}]]
    /\ shaky' = (shaky \/ "enabled" \in req[t].missed)
    /\ UNCHANGED <<code, app, login>>

(* The answer shows the QR code, which the user scans. *)
SetupAnswered(t) ==
    /\ req[t].op = "set up"
    /\ tab' = [tab EXCEPT ![t].setup = req[t].secret]
    /\ app' = app \cup {req[t].secret}
    /\ req' = [req EXCEPT ![t] = Idle]
    /\ UNCHANGED <<user, code, login, shaky>>

-----------------------------------------------------------------------------
(* Enabling *)

\* Mutant: any code of the authenticator will do.
AnyTotp(x) == x \in app

(* authenticator.check: the code was computed from this secret. *)
Totp(x) == x \in app /\ x = user.secret

(* The form is there while the tab has a QR code. *)
EnableOffered(t) == req[t].op = "idle" /\ tab[t].setup # NoSecret

(* enableTwoFactor up to the accepted code; the backup codes are hashed    *)
(* after it.                                                               *)
EnableTwoFactor(t, x) ==
    /\ EnableOffered(t)
    /\ user.secret # NoSecret /\ ~user.enabled /\ Totp(x)
    /\ Send(t, "enable", x, NoCode)
    /\ UNCHANGED <<user, code, app, tab, login, shaky>>

(* totpBackupCode.deleteMany and createMany. *)
NewBatch(k) ==
    [j \in Codes |-> IF j = k THEN "fresh" ELSE IF j \in Rows THEN "deleted" ELSE code[j]]

(* enableTwoFactor's transaction: totpEnabledAt is set by id, whatever the *)
(* secret is by now.                                                       *)
CommitEnable(t, k) ==
    /\ req[t].op = "enable" /\ code[k] = "unused"
    /\ user' = [user EXCEPT !.enabled = TRUE]
    /\ code' = NewBatch(k)
    /\ tab' = TabsOutdated
    /\ req' = [q \in Pages |->
                 IF q = t THEN [req[q] EXCEPT !.op = "enabled", !.code = k]
                 ELSE IF req[q].op = "idle" THEN req[q]
                 ELSE [req[q] EXCEPT !.missed = req[q].missed \cup {"enabled"}]]
    /\ shaky' = (req[t].missed \cap {"set up", "disabled"} # {})
    /\ UNCHANGED <<app, login>>

(* The backup codes are shown, and the QR code is taken away. *)
ShowsCodes(t) == [tab[t] EXCEPT !.backup = {req[t].code}, !.setup = NoSecret,
                                !.enabled = TRUE, !.current = (req[t].missed = {})]

EnableAnswered(t) ==
    /\ req[t].op = "enabled"
    /\ tab' = [tab EXCEPT ![t] = ShowsCodes(t)]
    /\ req' = [req EXCEPT ![t] = Idle]
    /\ UNCHANGED <<user, code, app, login, shaky>>

-----------------------------------------------------------------------------
(* Codes: verifyTotpOrBackupCode, for a page whose op is "verify" or       *)
(* "disable" followed by how far it got.  The row read before decides what *)
(* the TOTP code is compared with; a backup code is looked up afterwards.  *)

\* Mutant: a code that was used is found again.
FindsSpent(k) == code[k] \in {"fresh", "spent"}

(* totpBackupCode.findMany({ userId, usedAt: null }) *)
Finds(k) == code[k] = "fresh"

FindCode(p) ==
    /\ req[p].op \in {"verify find", "disable find"}
    /\ Finds(req[p].code)
    /\ req' = [req EXCEPT ![p].op = IF p \in Tabs THEN "disable spend" ELSE "verify spend",
                          ![p].missed = req[p].missed \ {"spent"}]
    /\ UNCHANGED <<user, code, app, tab, login, shaky>>

(* The update by id sets usedAt again if another request has, and fails if *)
(* the row was deleted.                                                    *)
SpendCode(p) ==
    /\ req[p].op \in {"verify spend", "disable spend"}
    /\ req[p].code \in Rows
    /\ code' = [code EXCEPT ![req[p].code] = "spent"]
    /\ req' = [q \in Pages |->
                 IF q = p THEN [req[q] EXCEPT !.op = IF p \in Tabs THEN "disable"
                                                     ELSE "verified"]
                 ELSE IF req[q].code = req[p].code
                 THEN [req[q] EXCEPT !.missed = req[q].missed \cup {"spent"}]
                 ELSE req[q]]
    /\ UNCHANGED <<user, app, tab, login, shaky>>

-----------------------------------------------------------------------------
(* Disabling *)

(* The form is there while the tab thinks two-factor is on, and asks for   *)
(* the password too.                                                       *)
DisableOffered(t) == req[t].op = "idle" /\ tab[t].enabled

(* disableTwoFactor up to the compared TOTP code. *)
DisableTwoFactor(t) ==
    /\ DisableOffered(t)
    /\ Required
    /\ \/ \E x \in Secrets : Totp(x) /\ Send(t, "disable", x, NoCode)
       \/ \E k \in Codes : Send(t, "disable find", NoSecret, k)
    /\ UNCHANGED <<user, code, app, tab, login, shaky>>

CodesDeleted == [k \in Codes |-> IF k \in Rows THEN "deleted" ELSE code[k]]

CommitDisable(t) ==
    /\ req[t].op = "disable"
    /\ user' = [secret |-> NoSecret, enabled |-> FALSE]
    /\ code' = CodesDeleted
    /\ tab' = TabsOutdated
    /\ Write(t, "disabled", "disabled")
    /\ shaky' = FALSE
    /\ UNCHANGED <<app, login>>

\* Mutant: the page does not put the new status into its cached user.
ShowsNothingNew(t) == [tab[t] EXCEPT !.backup = {}, !.current = (req[t].missed = {})]

ShowsDisabled(t) ==
    [tab[t] EXCEPT !.backup = {}, !.enabled = FALSE, !.current = (req[t].missed = {})]

DisableAnswered(t) ==
    /\ req[t].op = "disabled"
    /\ tab' = [tab EXCEPT ![t] = ShowsDisabled(t)]
    /\ req' = [req EXCEPT ![t] = Idle]
    /\ UNCHANGED <<user, code, app, login, shaky>>

-----------------------------------------------------------------------------
(* The tab *)

(* A refetch of the current user: read by getMe, and put into the cache,   *)
(* over whatever a form has put there meanwhile.                           *)
FetchMe(t) ==
    /\ tab[t].me = "none"
    /\ tab' = [tab EXCEPT ![t].me = IF user.enabled THEN "on" ELSE "off", ![t].late = FALSE]
    /\ UNCHANGED <<user, code, app, login, req, shaky>>

AnswerMe(t) ==
    /\ tab[t].me # "none"
    /\ tab' = [tab EXCEPT ![t].enabled = (tab[t].me = "on"), ![t].me = "none",
                          ![t].current = ~tab[t].late]
    /\ UNCHANGED <<user, code, app, login, req, shaky>>

(* The backup codes are dismissed. *)
Dismiss(t) ==
    /\ tab[t].backup # {}
    /\ tab' = [tab EXCEPT ![t].backup = {}]
    /\ UNCHANGED <<user, code, app, login, req, shaky>>

(* The page is loaded again: what it showed is gone. *)
Reopen(t) ==
    /\ req[t].op = "idle"
    /\ tab' = [tab EXCEPT ![t] = TabOpened]
    /\ UNCHANGED <<user, code, app, login, req, shaky>>

(* A request fails, or its answer is lost: the form is enabled again.      *)
FailRequest(p) ==
    /\ req[p].op # "idle"
    /\ req' = [req EXCEPT ![p] = Idle]
    /\ UNCHANGED <<user, code, app, tab, login, shaky>>

-----------------------------------------------------------------------------
(* Signing in *)

(* login, with the right password of a user with two-factor on: LoginForm  *)
(* asks for a code.  (The others are signed in at once.)                   *)
Login(c) ==
    /\ req[c].op = "idle" /\ login[c] = "password"
    /\ Required
    /\ login' = [login EXCEPT ![c] = "code"]
    /\ UNCHANGED <<user, code, app, tab, req, shaky>>

(* The form asks for a code once the page has a challenge. *)
CodeAsked(c) == req[c].op = "idle" /\ login[c] = "code"

(* verifyTwoFactor up to the compared TOTP code. *)
VerifyTwoFactor(c) ==
    /\ CodeAsked(c)
    /\ Required
    /\ \/ \E x \in Secrets : Totp(x) /\ Send(c, "verified", x, NoCode)
       \/ \E k \in Codes : Send(c, "verify find", NoSecret, k)
    /\ UNCHANGED <<user, code, app, tab, login, shaky>>

(* issueSession: the page is left for the dashboard, and another visitor   *)
(* finds it as it was.                                                     *)
Verified(c) ==
    /\ req[c].op = "verified"
    /\ login' = [login EXCEPT ![c] = "password"]
    /\ req' = [req EXCEPT ![c] = Idle]
    /\ UNCHANGED <<user, code, app, tab, shaky>>

(* The button back to the password. *)
StartAgain(c) ==
    /\ CodeAsked(c)
    /\ login' = [login EXCEPT ![c] = "password"]
    /\ UNCHANGED <<user, code, app, tab, req, shaky>>

TabStep(t) ==
    \/ SetupTwoFactor(t) \/ SetupAnswered(t) \/ EnableAnswered(t)
    \/ DisableTwoFactor(t) \/ CommitDisable(t) \/ DisableAnswered(t)
    \/ FetchMe(t) \/ AnswerMe(t) \/ Dismiss(t) \/ Reopen(t)
    \/ \E x \in Secrets : WriteSecret(t, x) \/ EnableTwoFactor(t, x)
    \/ \E k \in Codes : CommitEnable(t, k)

LoginStep(c) == Login(c) \/ VerifyTwoFactor(c) \/ Verified(c) \/ StartAgain(c)

Next ==
    \/ \E t \in Tabs : TabStep(t)
    \/ \E c \in Logins : LoginStep(c)
    \/ \E p \in Pages : FindCode(p) \/ SpendCode(p) \/ FailRequest(p)

Spec == Init /\ [][Next]_vars

-----------------------------------------------------------------------------
(* Properties *)

(* While two-factor is on the user can answer it: the secret is one in     *)
(* their authenticator, unless enableTwoFactor was overtaken by another    *)
(* set-up or a disabling between its check and its write, which leaves a   *)
(* secret nobody has confirmed, or none that any handler would accept.     *)
EnabledMeansReady == user.enabled /\ ~shaky => user.secret \in app

(* Backup codes exist just while two-factor is on, unless a set-up that    *)
(* was overtaken by an enabling has turned it off over their heads; and    *)
(* they are of one batch, although a set-up leaves the codes of the secret *)
(* it replaces behind.                                                     *)
CodesBelong ==
    /\ ~shaky => (Rows # {} <=> user.enabled)
    /\ Cardinality(Rows) <= 1

(* Both: what the account says of two-factor is backed by what its owner   *)
(* has at hand (enableTwoFactor, setupTwoFactor).                          *)
StatusIsBacked == EnabledMeansReady /\ CodesBelong

(* Two-factor goes off only by disableTwoFactor, which asked for password  *)
(* and code, or by a setupTwoFactor that had found it off before another   *)
(* request enabled it.                                                     *)
OffOnlyOnPurpose ==
    [][user.enabled /\ ~user'.enabled =>
         \E t \in Tabs : \/ req[t].op = "disable" /\ req'[t].op = "disabled"
                         \/ req[t].op = "setup" /\ "enabled" \in req[t].missed]_vars

(* A backup code is accepted again only from a request that had found it   *)
(* unused when another spent it.                                           *)
SecondUseIsARace ==
    [][\A p \in Pages :
         req[p].op \in {"verify spend", "disable spend"}
           /\ req'[p].op \in {"verified", "disable"} /\ code[req[p].code] = "spent"
         => "spent" \in req[p].missed]_vars

(* Both: a code, and the request that it was given to, decide what turns   *)
(* two-factor off and what is let in (disableTwoFactor, setupTwoFactor,    *)
(* verifyTotpOrBackupCode).                                                *)
CodesDecide == OffOnlyOnPurpose /\ SecondUseIsARace

(* A tab shows the status that holds, unless it was changed after the      *)
(* answer that the tab showed last was decided.                            *)
ShownStatusHolds == \A t \in Tabs : tab[t].current => tab[t].enabled = user.enabled

(* apps/web/src/i18n/en.ts:157: "Each code can be used once". *)
CodesAreSpentOnce ==
    [][\A p \in Pages :
         req[p].op \in {"verify spend", "disable spend"}
           /\ req'[p].op \in {"verified", "disable"} => code[req[p].code] = "fresh"]_vars
=============================================================================

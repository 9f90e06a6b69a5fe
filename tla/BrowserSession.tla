--------------------------- MODULE BrowserSession ---------------------------
(***************************************************************************)
(* One browser and its session: the cookie jar that its tabs share, the    *)
(* calls of apps/web/src/lib/api.ts that refresh an expired access token   *)
(* and repeat themselves, the redirects of apps/web/src/proxy.ts, the      *)
(* pages that sign in and out, and the cookies that apps/api/src/auth/     *)
(* auth.controller.ts sets and clears.                                     *)
(*                                                                         *)
(* A call is a chain of fetches: cookies are attached when a fetch is      *)
(* sent, the server acts later (refresh in two steps, as in module         *)
(* Sessions), and the answer's cookies arrive later still, or are lost.    *)
(* An access token and its cookie live for the same 15 minutes.  Pages are *)
(* told apart by what the proxy and the forms do.                          *)
(***************************************************************************)
EXTENDS Naturals, FiniteSets

CONSTANTS
    Tabs,
    Calls,      \* API calls under way
    Rows,       \* RefreshSession rows
    NoTab, NoRow

ASSUME BrowserConstants ==
    NoTab \notin Tabs /\ NoRow \notin Rows

VARIABLES
    row,        \* RefreshSession rows: live, or why they no longer are
    jar,        \* the browser's access_token and refresh_token cookies
    page,       \* what each tab shows
    going,      \* where a tab has been sent, until the proxy has answered
    call,
    out         \* history: signed out, with nothing under way that signs in

vars == <<row, jar, page, going, call, out>>

-----------------------------------------------------------------------------
PageKinds == {"login", "app"}   \* the auth paths, and the protected prefixes

(* "bad" is a token the API no longer accepts although the browser still    *)
(* sends it: JWT_SECRET was changed by a deployment.                        *)
Jar == [access : {"none", "good", "bad"}, refresh : Rows \cup {NoRow}]

Empty == [access |-> "none", refresh |-> NoRow]

(* cookie is the refresh token a call was sent with, new the one that its   *)
(* answer brings.  Of a tab that was left, a call goes on at the server.    *)
Call == [phase : {"idle", "denied", "refresh", "checked", "rotated", "retry",
                  "sign out", "signed out", "signed in"},
         tab : Tabs \cup {NoTab}, cookie : Rows \cup {NoRow}, new : Rows \cup {NoRow}]

Idle == [phase |-> "idle", tab |-> NoTab, cookie |-> NoRow, new |-> NoRow]

(* A row is "over" when it was revoked, expired, or was exchanged and the   *)
(* answer never arrived.                                                    *)
TypeOK ==
    /\ row \in [Rows -> {"unused", "live", "rotated", "over"}]
    /\ jar \in Jar
    /\ page \in [Tabs -> PageKinds]
    /\ going \in [Tabs -> PageKinds \cup {"stay"}]
    /\ call \in [Calls -> Call]
    /\ out \in BOOLEAN

Init ==
    /\ row = [s \in Rows |-> "unused"]
    /\ jar = Empty
    /\ page = [t \in Tabs |-> "login"]
    /\ going = [t \in Tabs |-> "stay"]
    /\ call = [q \in Calls |-> Idle]
    /\ out = FALSE

Named(j, c) == {j.refresh} \cup {c[q].cookie : q \in Calls} \cup {c[q].new : q \in Calls}

(* A row that no cookie names can never be found again: its place is taken  *)
(* by a new session (bound: there is such a row).                           *)
Room == \E s \in Rows : s \notin Named(jar, call)

Fresh == CHOOSE s \in Rows : s \notin Named(jar, call)

Become(r, j, c) ==
    /\ row' = [s \in Rows |-> IF s \in Named(j, c) THEN r[s] ELSE "unused"]
    /\ jar' = j
    /\ call' = c

Dead(s) == s = NoRow \/ row[s] # "live"

At(q, phase) == [call EXCEPT ![q].phase = phase]

Ended(q) == [call EXCEPT ![q] = Idle]

Started(q, t, phase, cookie) ==
    [call EXCEPT ![q] = [phase |-> phase, tab |-> t, cookie |-> cookie, new |-> NoRow]]

(* A tab that is still there is sent to a page. *)
Send(t, p) == going' = [u \in Tabs |-> IF u = t THEN p ELSE going[u]]

-----------------------------------------------------------------------------
(* A call of a protected endpoint: apiRequest and JwtAuthGuard.  With a     *)
(* good access token it is answered and nothing here changes.               *)

Request(q, t) ==
    /\ call[q].phase = "idle" /\ page[t] = "app" /\ jar.access # "good"
    /\ Become(row, jar, Started(q, t, "denied", NoRow))
    /\ UNCHANGED <<page, going, out>>

(* After a 401 the refresh cookie of that moment is sent. *)
SendRefresh(q) ==
    /\ call[q].phase = "denied"
    /\ Become(row, jar, [call EXCEPT ![q].phase = "refresh", ![q].cookie = jar.refresh])
    /\ UNCHANGED <<page, going, out>>

(* logout('/login?expired=1') of lib/auth.ts: the cookies stay. *)
GiveUp(q) ==
    /\ Send(call[q].tab, "login")
    /\ Become(row, jar, Ended(q))

(* refresh up to its checks, and its transaction. *)
CheckRefresh(q) ==
    /\ call[q].phase = "refresh"
    /\ IF Dead(call[q].cookie) THEN GiveUp(q)
       ELSE Become(row, jar, At(q, "checked")) /\ UNCHANGED going
    /\ UNCHANGED <<page, out>>

Rotate(q) ==
    LET old == call[q].cookie IN
    /\ call[q].phase = "checked" /\ Room
    /\ Become([row EXCEPT ![old] = IF row[old] = "live" THEN "rotated" ELSE row[old],
                          ![Fresh] = "live"],
              jar, [call EXCEPT ![q].phase = "rotated", ![q].new = Fresh])
    /\ UNCHANGED <<page, going, out>>

setAuthCookies(s) == [access |-> "good", refresh |-> s]

\* Mutant: the answer of refresh sets the access cookie only.
SetsAccessOnly(s) == [jar EXCEPT !.access = "good"]

RefreshedCookies(s) == setAuthCookies(s)

RefreshAnswered(q) ==
    /\ call[q].phase = "rotated"
    /\ Become(row, RefreshedCookies(call[q].new),
              IF call[q].tab = NoTab THEN Ended(q)
              ELSE Started(q, call[q].tab, "retry", NoRow))
    /\ UNCHANGED <<page, going, out>>

\* Mutant: a repeated call may refresh again.
RefreshesAgain(q) == Become(row, jar, At(q, "denied")) /\ UNCHANGED going

(* retryAfterRefresh: false *)
DeniedAgain(q) == GiveUp(q)

Retry(q) ==
    /\ call[q].phase = "retry"
    /\ IF jar.access = "good" THEN Become(row, jar, Ended(q)) /\ UNCHANGED going
       ELSE DeniedAgain(q)
    /\ UNCHANGED <<page, out>>

-----------------------------------------------------------------------------
(* Signing out: authService.logout of the shells, and revokeSession for the *)
(* browser's own session in the security settings, which do the same here.  *)

SignOut(q, t) ==
    /\ call[q].phase = "idle" /\ page[t] = "app"
    /\ Become(row, jar, Started(q, t, "sign out", jar.refresh))
    /\ UNCHANGED <<page, going, out>>

Revoked(S) == [s \in Rows |-> IF s \in S /\ row[s] = "live" THEN "over" ELSE row[s]]

LogoutServed(q) ==
    /\ call[q].phase = "sign out"
    /\ Become(Revoked({call[q].cookie}), jar, At(q, "signed out"))
    /\ UNCHANGED <<page, going, out>>

\* Mutant: clearCookie without the path that the refresh cookie was set with.
ClearsAccessOnly == [jar EXCEPT !.access = "none"]

ClearedCookies == Empty

(* History: another call that may still bring a cookie. *)
SignsIn(c) == \/ c.phase \in {"checked", "rotated", "signed in"}
              \/ c.phase = "refresh" /\ ~Dead(c.cookie)

LogoutAnswered(q) ==
    /\ call[q].phase = "signed out"
    /\ Become(row, ClearedCookies, Ended(q))
    /\ out' = (\A p \in Calls : ~SignsIn(call[p]))
    /\ Send(call[q].tab, "login")
    /\ UNCHANGED page

-----------------------------------------------------------------------------
(* Signing in, with or without a new account: handleSubmit of both pages.   *)
(* The way of the form to the server is part of its first step.             *)

SignIn(q, t) ==
    /\ call[q].phase = "idle" /\ page[t] = "login"
    /\ \A p \in Calls : call[p].tab # t         \* the button is disabled
    /\ Room
    /\ Become([row EXCEPT ![Fresh] = "live"], jar,
              [call EXCEPT ![q] = [phase |-> "signed in", tab |-> t,
                                   cookie |-> NoRow, new |-> Fresh]])
    /\ out' = FALSE
    /\ UNCHANGED <<page, going>>

(* setAuthCookies, and router.push(redirectTo), a path of this origin. *)
LoginAnswered(q) ==
    /\ call[q].phase = "signed in"
    /\ Become(row, setAuthCookies(call[q].new), Ended(q))
    /\ Send(call[q].tab, "app")
    /\ UNCHANGED <<page, out>>

-----------------------------------------------------------------------------
(* Navigation *)

(* A link, a bookmark, the address bar. *)
Visit(t) ==
    /\ going[t] = "stay"
    /\ \E p \in PageKinds \ {page[t]} : Send(t, p)
    /\ UNCHANGED <<row, jar, page, call, out>>

\* Mutant: the proxy sends auth pages to the dashboard without looking for a token.
ProxiedBack(p) == IF p = "app" /\ jar.access = "none" THEN "login" ELSE "app"

(* proxy: protected pages need the access cookie, auth pages need none. *)
Proxied(p) ==
    IF p = "app" /\ jar.access = "none" THEN "login"
    ELSE IF p = "login" /\ jar.access # "none" THEN "app"
    ELSE p

(* The new document knows nothing of the calls of the old one. *)
Load(t) ==
    /\ going[t] # "stay"
    /\ page' = [page EXCEPT ![t] = Proxied(going[t])]
    /\ going' = [going EXCEPT ![t] = "stay"]
    /\ Become(row, jar, [q \in Calls |->
              IF call[q].tab # t THEN call[q]
              ELSE IF call[q].phase \in {"denied", "retry"} THEN Idle
              ELSE [call[q] EXCEPT !.tab = NoTab]])
    /\ UNCHANGED out

-----------------------------------------------------------------------------
(* What happens to the browser *)

(* A refresh, a form or a sign-out fails or its answer is lost.  A refresh  *)
(* that nothing answers makes apiRequest throw, one that is answered badly  *)
(* (limited, broken) sends its tab to the login page like a refused one;    *)
(* logout of the shell goes there all the same.                             *)
Lose(q) ==
    LET c == call[q] IN
    /\ c.phase \notin {"idle", "denied", "retry"}
    /\ \/ c.phase \notin {"sign out", "signed out"} /\ UNCHANGED going
       \/ c.phase # "signed in" /\ Send(c.tab, "login")
    /\ Become(IF c.phase = "rotated" /\ row[c.cookie] = "rotated"
              THEN [row EXCEPT ![c.cookie] = "over"] ELSE row, jar, Ended(q))
    /\ UNCHANGED <<page, out>>

(* maxAge of the access cookie, and the expiry of its token. *)
ExpireAccess ==
    /\ jar.access # "none"
    /\ jar' = [jar EXCEPT !.access = "none"]
    /\ UNCHANGED <<row, page, going, call, out>>

ChangeSecret ==
    /\ jar.access = "good"
    /\ jar' = [jar EXCEPT !.access = "bad"]
    /\ UNCHANGED <<row, page, going, call, out>>

(* Revoked from another device, by a reset password or by an administrator, *)
(* or expired.                                                              *)
EndElsewhere ==
    /\ row' = Revoked(Rows)
    /\ UNCHANGED <<jar, page, going, call, out>>

CallStep(q) ==
    \/ SendRefresh(q) \/ CheckRefresh(q) \/ Rotate(q) \/ RefreshAnswered(q) \/ Retry(q)
    \/ LogoutServed(q) \/ LogoutAnswered(q) \/ LoginAnswered(q)

Next ==
    \/ \E q \in Calls : CallStep(q) \/ Lose(q)
    \/ \E q \in Calls, t \in Tabs : Request(q, t) \/ SignOut(q, t) \/ SignIn(q, t)
    \/ \E t \in Tabs : Visit(t) \/ Load(t)
    \/ ExpireAccess \/ ChangeSecret \/ EndElsewhere

(* The browser and the server go on with a call, not every refresh fails, a *)
(* navigation is answered, the pages keep calling, and 15 minutes pass.     *)
Fairness ==
    /\ \A q \in Calls : WF_vars(CallStep(q))
    /\ \A t \in Tabs :
          /\ SF_vars(\E q \in Calls : call[q].tab = t /\ CheckRefresh(q))
          /\ WF_vars(Load(t)) /\ WF_vars(\E q \in Calls : Request(q, t))
    /\ WF_vars(ExpireAccess)

Spec == Init /\ [][Next]_vars
FairSpec == Spec /\ Fairness

-----------------------------------------------------------------------------
(* Properties *)

(* The jar holds an exchanged refresh cookie only while the answer that     *)
(* brings its successor is on its way, or because that answer was lost:     *)
(* only then can a second call be refused for its cookie, and its tab sent  *)
(* to the page that says the session has expired, although it has not.      *)
JarLags ==
    jar.refresh # NoRow /\ row[jar.refresh] = "rotated" =>
        \E q \in Calls : call[q].phase = "rotated" /\ call[q].cookie = jar.refresh

(* A browser that has signed out stays signed out until someone signs in,   *)
(* unless a refresh or a sign-in was under way when the cookies were        *)
(* cleared, whose answer sets them again.                                   *)
SignOutSticks == out => jar = Empty

(* A tab that finds neither token accepted reaches a page that lets its     *)
(* user sign in, also past the proxy, which sends it back into the app as   *)
(* long as the browser has an access cookie, good or bad.                   *)
Stranded(t) == page[t] = "app" /\ jar.access # "good" /\ Dead(jar.refresh)

StrandedTabsLeave == \A t \in Tabs : Stranded(t) ~> ~Stranded(t)

(* Every call ends: it refreshes at most once. *)
CallsSettle == \A q \in Calls : call[q].phase # "idle" ~> call[q].phase = "idle"
=============================================================================

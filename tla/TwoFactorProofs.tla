--------------------------- MODULE TwoFactorProofs ---------------------------
(* Proofs about module TwoFactor, for any tabs, login pages, secrets and    *)
(* backup codes.                                                            *)
EXTENDS TwoFactor, TLAPS, FiniteSetTheorems

(* What a tab shows: two-factor is set up with no backup codes in sight,    *)
(* and a status is the present one unless it is marked as outdated.         *)
GoodTab(t, f, u) ==
    /\ f.op \in {"setup", "set up"} => t.backup = {}
    /\ t.setup # NoSecret => t.backup = {}
    /\ t.me # "none" /\ ~t.late => ((t.me = "on") = u.enabled)
    /\ t.current => t.enabled = u.enabled

(* What a request knows of the account, unless it was overtaken: u, a and c *)
(* are user, app and code.                                                  *)
GoodRequest(f, u, a, c) ==
    /\ f.op = "set up" => f.secret \in Secrets
    /\ f.op = "enabled" => f.code \in Codes
    /\ f.op = "setup" /\ "enabled" \notin f.missed => ~u.enabled
    /\ f.op = "enable" /\ f.missed \cap {"set up", "disabled"} = {} => u.secret \in a
    /\ f.op = "enabled" /\ f.missed = {} => u.enabled
    /\ f.op = "disabled" /\ f.missed = {} => ~u.enabled
    /\ f.op \in {"verify spend", "disable spend"} /\ f.code \in Codes /\ c[f.code] = "spent"
         => "spent" \in f.missed

OneBatch == \A j, k \in Rows : j = k

TypesInv ==
    /\ user \in [secret : Secrets \cup {NoSecret}, enabled : BOOLEAN]
    /\ code \in [Codes -> {"unused", "fresh", "spent", "deleted"}]
    /\ app \subseteq Secrets
    /\ tab \in [Tabs -> Tab]
    /\ login \in [Logins -> {"password", "code"}]
    /\ req \in [Pages -> Request]
    /\ shaky \in BOOLEAN

TabsInv == \A t \in Tabs : GoodTab(tab[t], req[t], user)

RequestsInv == \A p \in Pages : GoodRequest(req[p], user, app, code)

CodesInv == (~shaky => (Rows # {} <=> user.enabled)) /\ OneBatch

IInv == TypesInv /\ TabsInv /\ RequestsInv /\ EnabledMeansReady /\ CodesInv

-----------------------------------------------------------------------------
LEMMA TabsArePages == Tabs \subseteq Pages /\ Logins \subseteq Pages
<1>. QED  BY DEF Pages

LEMMA IdleIsGood ==
    Idle \in Request /\ (\A u, a, c : GoodRequest(Idle, u, a, c))
<1>. QED  BY DEF Idle, Request, GoodRequest

LEMMA InitInv == Init => IInv
<1>. SUFFICES ASSUME Init PROVE IInv  OBVIOUS
<1>1. TabOpened \in Tab  BY DEF Init, TabOpened, Tab
<1>2. TypesInv  BY <1>1, IdleIsGood DEF Init, TypesInv
<1>3. TabsInv
  <2>1. GoodTab(TabOpened, Idle, user)  BY DEF GoodTab, TabOpened, Idle
  <2>. QED  BY <2>1, TabsArePages DEF TabsInv, Init
<1>4. RequestsInv  BY IdleIsGood DEF Init, RequestsInv
<1>5. EnabledMeansReady  BY DEF Init, EnabledMeansReady
<1>6. Rows = {}  BY DEF Init, Rows
<1>7. CodesInv  BY <1>6 DEF Init, CodesInv, OneBatch
<1>. QED  BY <1>2, <1>3, <1>4, <1>5, <1>7 DEF IInv

LEMMA InvariantHasTypes == IInv => TypeOK
<1>. QED  BY DEF IInv, TypesInv, TabsInv, GoodTab, TypeOK

-----------------------------------------------------------------------------
(* The two ways in which a step changes the pages. *)

(* The request of one page becomes f; the account stays as it is.           *)
LEMMA RequestBecomes ==
    ASSUME IInv, NEW p \in Pages, NEW f \in Request, GoodRequest(f, user, app', code),
           req' = [req EXCEPT ![p] = f], app \subseteq app', UNCHANGED <<user, code>>
    PROVE  /\ req' \in [Pages -> Request]
           /\ RequestsInv'
           /\ req'[p] = f
           /\ \A q \in Pages : q # p => req'[q] = req[q]
<1>1. req \in [Pages -> Request]  BY DEF IInv, TypesInv
<1>2. req' \in [Pages -> Request]  BY <1>1
<1>3. \A q \in Pages : req'[q] = IF q = p THEN f ELSE req[q]  BY <1>1
<1>4. \A q \in Pages : GoodRequest(req[q], user, app', code)
  <2>1. \A q \in Pages : GoodRequest(req[q], user, app, code)  BY DEF IInv, RequestsInv
  <2>. QED  BY <2>1 DEF GoodRequest
<1>5. \A q \in Pages : GoodRequest(req'[q], user', app', code')  BY <1>3, <1>4
<1>. QED  BY <1>2, <1>3, <1>5 DEF RequestsInv

(* One tab becomes g, and no other page's request changes.                  *)
LEMMA TabBecomes ==
    ASSUME IInv, NEW t \in Tabs, NEW g \in Tab, GoodTab(g, req'[t], user),
           tab' = [tab EXCEPT ![t] = g], UNCHANGED user,
           \A q \in Pages : q # t => req'[q] = req[q]
    PROVE  tab' \in [Tabs -> Tab] /\ TabsInv'
<1>1. tab \in [Tabs -> Tab]  BY DEF IInv, TypesInv
<1>2. \A s \in Tabs : tab'[s] = IF s = t THEN g ELSE tab[s]  BY <1>1
<1>3. \A s \in Tabs : GoodTab(tab[s], req[s], user)  BY DEF IInv, TabsInv
<1>4. \A s \in Tabs : GoodTab(tab'[s], req'[s], user')  BY <1>2, <1>3, TabsArePages
<1>. QED  BY <1>1, <1>4 DEF TabsInv

(* The rest of the invariant is about the account.                          *)
LEMMA AccountStays ==
    ASSUME IInv, UNCHANGED <<user, code, shaky>>, app \subseteq app'
    PROVE  EnabledMeansReady' /\ CodesInv'
<1>. QED  BY DEF IInv, EnabledMeansReady, CodesInv, OneBatch, Rows

(* A request of one page becomes f, and the tabs stay as they are.          *)
LEMMA OnlyTheRequest ==
    ASSUME IInv, NEW p \in Pages, NEW f \in Request, GoodRequest(f, user, app, code),
           f.op \notin {"setup", "set up"},
           req' = [req EXCEPT ![p] = f], UNCHANGED <<user, code, app, tab, shaky>>,
           login' \in [Logins -> {"password", "code"}]
    PROVE  IInv'
<1>1. /\ req' \in [Pages -> Request] /\ RequestsInv' /\ req'[p] = f
      /\ \A q \in Pages : q # p => req'[q] = req[q]
  BY RequestBecomes
<1>2. TabsInv'
  <2>. SUFFICES ASSUME NEW t \in Tabs PROVE GoodTab(tab[t], req'[t], user)
    BY DEF TabsInv
  <2>1. GoodTab(tab[t], req[t], user)  BY DEF IInv, TabsInv
  <2>2. t \in Pages  BY TabsArePages
  <2>3. CASE t = p  BY <2>1, <2>3, <1>1 DEF GoodTab
  <2>4. CASE t # p  BY <2>1, <2>2, <2>4, <1>1
  <2>. QED  BY <2>3, <2>4
<1>3. TypesInv'  BY <1>1 DEF IInv, TypesInv
<1>. QED  BY <1>1, <1>2, <1>3, AccountStays DEF IInv

(* The request and the tab of one page become f and g.                      *)
LEMMA RequestAndTab ==
    ASSUME IInv, NEW t \in Tabs, NEW f \in Request, NEW g \in Tab,
           GoodRequest(f, user, app', code), GoodTab(g, f, user),
           req' = [req EXCEPT ![t] = f], tab' = [tab EXCEPT ![t] = g],
           app' \subseteq Secrets, app \subseteq app', UNCHANGED <<user, code, login, shaky>>
    PROVE  IInv'
<1>1. t \in Pages  BY TabsArePages
<1>2. /\ req' \in [Pages -> Request] /\ RequestsInv' /\ req'[t] = f
      /\ \A q \in Pages : q # t => req'[q] = req[q]
  BY <1>1, RequestBecomes
<1>3. tab' \in [Tabs -> Tab] /\ TabsInv'  BY <1>2, TabBecomes
<1>4. TypesInv'  BY <1>2, <1>3 DEF IInv, TypesInv
<1>. QED  BY <1>2, <1>3, <1>4, AccountStays DEF IInv

(* One tab becomes g, and nothing else changes.                             *)
LEMMA OnlyTheTab ==
    ASSUME IInv, NEW t \in Tabs, NEW g \in Tab, GoodTab(g, req[t], user),
           tab' = [tab EXCEPT ![t] = g], UNCHANGED <<user, code, app, login, req, shaky>>
    PROVE  IInv'
<1>1. tab' \in [Tabs -> Tab] /\ TabsInv'  BY TabBecomes
<1>2. TypesInv'  BY <1>1 DEF IInv, TypesInv
<1>3. RequestsInv'  BY DEF IInv, RequestsInv
<1>. QED  BY <1>1, <1>2, <1>3, AccountStays DEF IInv

-----------------------------------------------------------------------------
(* Steps of a page on its own *)

LEMMA RequestTypes ==
    ASSUME IInv, NEW p \in Pages
    PROVE  /\ req[p] \in Request /\ GoodRequest(req[p], user, app, code)
           /\ p \in Tabs => tab[p] \in Tab /\ GoodTab(tab[p], req[p], user)
<1>. QED  BY DEF IInv, TypesInv, RequestsInv, TabsInv

LEMMA SetupTwoFactorStep == ASSUME IInv, NEW t \in Tabs, SetupTwoFactor(t) PROVE IInv'
<1>. DEFINE g == [tab[t] EXCEPT !.backup = {}]
            f == [op |-> "setup", secret |-> NoSecret, code |-> NoCode, missed |-> {}]
<1>1. t \in Pages  BY TabsArePages
<1>2. tab[t] \in Tab /\ GoodTab(tab[t], req[t], user) /\ req[t] \in Request
  BY <1>1, RequestTypes
<1>3. g \in Tab /\ g.backup = {}  BY <1>2 DEF Tab
<1>4. \A r \in Request : GoodTab(g, r, user)  BY <1>2 DEF GoodTab, Tab
<1>5. tab' = [tab EXCEPT ![t] = g] /\ UNCHANGED <<user, code, app, login, shaky>>
  BY DEF SetupTwoFactor
<1>6. CASE MaySetUp
  <2>1. req' = [req EXCEPT ![t] = f]  BY <1>6 DEF SetupTwoFactor, Send
  <2>2. f \in Request  BY DEF Request
  <2>3. GoodRequest(f, user, app', code)  BY <1>6 DEF GoodRequest, MaySetUp
  <2>4. GoodTab(g, f, user)  BY <1>4, <2>2
  <2>5. app' \subseteq Secrets /\ app \subseteq app'  BY <1>5 DEF IInv, TypesInv
  <2>. HIDE DEF f, g
  <2>. QED  BY <1>3, <1>5, <2>1, <2>2, <2>3, <2>4, <2>5, RequestAndTab
<1>7. CASE ~MaySetUp
  <2>1. UNCHANGED req  BY <1>7 DEF SetupTwoFactor
  <2>2. GoodTab(g, req[t], user)  BY <1>2, <1>4
  <2>. HIDE DEF g
  <2>. QED  BY <1>3, <1>5, <2>1, <2>2, OnlyTheTab
<1>. QED  BY <1>6, <1>7

LEMMA SetupAnsweredStep == ASSUME IInv, NEW t \in Tabs, SetupAnswered(t) PROVE IInv'
<1>. DEFINE g == [tab[t] EXCEPT !.setup = req[t].secret]
<1>1. t \in Pages  BY TabsArePages
<1>2. /\ tab[t] \in Tab /\ GoodTab(tab[t], req[t], user)
      /\ req[t] \in Request /\ GoodRequest(req[t], user, app, code)
  BY <1>1, RequestTypes
<1>3. req[t].secret \in Secrets  BY <1>2 DEF SetupAnswered, GoodRequest
<1>4. g \in Tab  BY <1>2, <1>3 DEF Tab
<1>5. GoodTab(g, Idle, user)  BY <1>2 DEF GoodTab, Tab, SetupAnswered, Idle
<1>6. /\ req' = [req EXCEPT ![t] = Idle] /\ tab' = [tab EXCEPT ![t] = g]
      /\ app' = app \cup {req[t].secret} /\ UNCHANGED <<user, code, login, shaky>>
  BY DEF SetupAnswered
<1>7. app' \subseteq Secrets /\ app \subseteq app'  BY <1>3, <1>6 DEF IInv, TypesInv
<1>. HIDE DEF g
<1>. QED  BY <1>4, <1>5, <1>6, <1>7, IdleIsGood, RequestAndTab

LEMMA EnableTwoFactorStep ==
    ASSUME IInv, NEW t \in Tabs, NEW x \in Secrets, EnableTwoFactor(t, x) PROVE IInv'
<1>. DEFINE f == [op |-> "enable", secret |-> x, code |-> NoCode, missed |-> {}]
<1>1. t \in Pages  BY TabsArePages
<1>2. f \in Request /\ f.op \notin {"setup", "set up"}  BY DEF Request
<1>3. GoodRequest(f, user, app, code)  BY DEF EnableTwoFactor, Totp, GoodRequest
<1>4. /\ req' = [req EXCEPT ![t] = f] /\ UNCHANGED <<user, code, app, tab, shaky>>
      /\ login' \in [Logins -> {"password", "code"}]
  BY DEF EnableTwoFactor, Send, IInv, TypesInv
<1>. HIDE DEF f
<1>. QED  BY <1>1, <1>2, <1>3, <1>4, OnlyTheRequest

LEMMA EnableAnsweredStep == ASSUME IInv, NEW t \in Tabs, EnableAnswered(t) PROVE IInv'
<1>1. t \in Pages  BY TabsArePages
<1>2. /\ tab[t] \in Tab /\ GoodTab(tab[t], req[t], user)
      /\ req[t] \in Request /\ GoodRequest(req[t], user, app, code)
  BY <1>1, RequestTypes
<1>3. req[t].code \in Codes /\ (req[t].missed = {} => user.enabled)
  BY <1>2 DEF EnableAnswered, GoodRequest
<1>4. (req[t].missed = {}) \in BOOLEAN  BY Zenon
<1>5. ShowsCodes(t) \in Tab  BY <1>2, <1>3, <1>4 DEF Tab, ShowsCodes
<1>6. GoodTab(ShowsCodes(t), Idle, user)
  <2>1. user.enabled \in BOOLEAN  BY DEF IInv, TypesInv
  <2>. QED  BY <1>2, <1>3, <2>1 DEF GoodTab, Tab, ShowsCodes, Idle
<1>7. /\ req' = [req EXCEPT ![t] = Idle] /\ tab' = [tab EXCEPT ![t] = ShowsCodes(t)]
      /\ UNCHANGED <<user, code, login, shaky>>
      /\ app' \subseteq Secrets /\ app \subseteq app'
  BY DEF EnableAnswered, IInv, TypesInv
<1>. QED  BY <1>5, <1>6, <1>7, IdleIsGood, RequestAndTab

LEMMA DisableAnsweredStep == ASSUME IInv, NEW t \in Tabs, DisableAnswered(t) PROVE IInv'
<1>1. t \in Pages  BY TabsArePages
<1>2. /\ tab[t] \in Tab /\ GoodTab(tab[t], req[t], user)
      /\ req[t] \in Request /\ GoodRequest(req[t], user, app, code)
  BY <1>1, RequestTypes
<1>3. req[t].missed = {} => ~user.enabled
  BY <1>2 DEF DisableAnswered, GoodRequest
<1>4. (req[t].missed = {}) \in BOOLEAN  BY Zenon
<1>5. ShowsDisabled(t) \in Tab  BY <1>2, <1>3, <1>4 DEF Tab, ShowsDisabled
<1>6. GoodTab(ShowsDisabled(t), Idle, user)
  <2>1. user.enabled \in BOOLEAN  BY DEF IInv, TypesInv
  <2>. QED  BY <1>2, <1>3, <2>1 DEF GoodTab, Tab, ShowsDisabled, Idle
<1>7. /\ req' = [req EXCEPT ![t] = Idle] /\ tab' = [tab EXCEPT ![t] = ShowsDisabled(t)]
      /\ UNCHANGED <<user, code, login, shaky>>
      /\ app' \subseteq Secrets /\ app \subseteq app'
  BY DEF DisableAnswered, IInv, TypesInv
<1>. QED  BY <1>5, <1>6, <1>7, IdleIsGood, RequestAndTab

-----------------------------------------------------------------------------
(* Codes *)

LEMMA FindCodeStep == ASSUME IInv, NEW p \in Pages, FindCode(p) PROVE IInv'
<1>. DEFINE o == IF p \in Tabs THEN "disable spend" ELSE "verify spend"
            f == [req[p] EXCEPT !.op = o, !.missed = req[p].missed \ {"spent"}]
<1>1. req[p] \in Request /\ req \in [Pages -> Request]
  BY RequestTypes DEF IInv, TypesInv
<1>2. o \in {"disable spend", "verify spend"}  OBVIOUS
<1>. HIDE DEF o
<1>3. f \in Request /\ f.op = o /\ f.code = req[p].code  BY <1>1, <1>2 DEF Request
<1>4. GoodRequest(f, user, app, code)
  BY <1>2, <1>3 DEF GoodRequest, FindCode, Finds
<1>5. req' = [req EXCEPT ![p] = f]  BY <1>1 DEF FindCode, o
<1>6. /\ UNCHANGED <<user, code, app, tab, shaky>>
      /\ login' \in [Logins -> {"password", "code"}]
  BY DEF FindCode, IInv, TypesInv
<1>. HIDE DEF f
<1>. QED  BY <1>2, <1>3, <1>4, <1>5, <1>6, OnlyTheRequest

(* Spending a code leaves the rows that there are. *)
LEMMA SpentRows ==
    ASSUME TypesInv, NEW k \in Rows, code' = [code EXCEPT ![k] = "spent"]
    PROVE  /\ Rows' = Rows /\ k \in Codes
           /\ code' \in [Codes -> {"unused", "fresh", "spent", "deleted"}]
           /\ \A j \in Codes : j # k => code'[j] = code[j]
<1>1. k \in Codes  BY DEF Rows
<1>2. \A j \in Codes : code'[j] = IF j = k THEN "spent" ELSE code[j]
  BY DEF TypesInv
<1>3. code[k] \in {"fresh", "spent"}  BY DEF Rows
<1>4. Rows' = Rows  BY <1>1, <1>2, <1>3 DEF Rows
<1>. QED  BY <1>1, <1>2, <1>4 DEF TypesInv

LEMMA SpendCodeStep == ASSUME IInv, NEW p \in Pages, SpendCode(p) PROVE IInv'
<1>. DEFINE k == req[p].code
            o == IF p \in Tabs THEN "disable" ELSE "verified"
<1>1. req \in [Pages -> Request]  BY DEF IInv, TypesInv
<1>2. o \in {"disable", "verified"}  OBVIOUS
<1>3. k \in Rows /\ code' = [code EXCEPT ![k] = "spent"]  BY DEF SpendCode
<1>. HIDE DEF o
<1>4. req' = [q \in Pages |->
                IF q = p THEN [req[q] EXCEPT !.op = o]
                ELSE IF req[q].code = k
                THEN [req[q] EXCEPT !.missed = req[q].missed \cup {"spent"}]
                ELSE req[q]]
  BY DEF SpendCode, o
<1>5. UNCHANGED <<user, app, tab, login, shaky>>  BY DEF SpendCode
<1>. HIDE DEF k
<1>6. /\ Rows' = Rows /\ k \in Codes
      /\ code' \in [Codes -> {"unused", "fresh", "spent", "deleted"}]
      /\ \A j \in Codes : j # k => code'[j] = code[j]
  BY <1>3, SpentRows DEF IInv
<1>7. ASSUME NEW q \in Pages
      PROVE  /\ req'[q] \in Request /\ GoodRequest(req'[q], user, app, code')
             /\ req'[q].op \in {"setup", "set up"} => req'[q].op = req[q].op
  <2>1. req[q] \in Request /\ GoodRequest(req[q], user, app, code)  BY RequestTypes
  <2>2. CASE q = p
    <3>1. req'[q] = [req[q] EXCEPT !.op = o]  BY <1>4, <2>2
    <3>. QED  BY <1>2, <2>1, <3>1 DEF Request, GoodRequest
  <2>3. CASE q # p /\ req[q].code = k
    <3>1. req'[q] = [req[q] EXCEPT !.missed = req[q].missed \cup {"spent"}]
      BY <1>4, <2>3
    <3>. DEFINE g == req'[q]
    <3>2. /\ g \in Request /\ g.op = req[q].op /\ g.code = req[q].code
          /\ g.secret = req[q].secret /\ g.missed = req[q].missed \cup {"spent"}
      BY <2>1, <3>1 DEF Request
    <3>. HIDE DEF g
    <3>3. GoodRequest(g, user, app, code')  BY <2>1, <3>2 DEF GoodRequest
    <3>. QED  BY <3>2, <3>3 DEF g
  <2>4. CASE q # p /\ req[q].code # k
    <3>1. req'[q] = req[q]  BY <1>4, <2>4
    <3>2. GoodRequest(req[q], user, app, code')  BY <1>6, <2>1, <2>4 DEF GoodRequest
    <3>. QED  BY <2>1, <3>1, <3>2
  <2>. QED  BY <2>2, <2>3, <2>4
<1>8. req' \in [Pages -> Request]  BY <1>4, <1>7
<1>9. RequestsInv'  BY <1>5, <1>7 DEF RequestsInv
<1>10. TabsInv'
  <2>. SUFFICES ASSUME NEW t \in Tabs PROVE GoodTab(tab[t], req'[t], user)
    BY <1>5 DEF TabsInv
  <2>1. t \in Pages /\ GoodTab(tab[t], req[t], user)
    BY TabsArePages DEF IInv, TabsInv
  <2>. QED  BY <1>7, <2>1 DEF GoodTab
<1>11. TypesInv'  BY <1>5, <1>6, <1>8 DEF IInv, TypesInv
<1>12. EnabledMeansReady' /\ CodesInv'
  BY <1>5, <1>6 DEF IInv, EnabledMeansReady, CodesInv, OneBatch
<1>. QED  BY <1>9, <1>10, <1>11, <1>12 DEF IInv

LEMMA SendsACode ==
    ASSUME IInv, NEW p \in Pages, NEW o \in {"disable", "disable find", "verified", "verify find"},
           NEW x \in Secrets \cup {NoSecret}, NEW k \in Codes \cup {NoCode}, Send(p, o, x, k),
           UNCHANGED <<user, code, app, tab, login, shaky>>
    PROVE  IInv'
<1>. DEFINE f == [op |-> o, secret |-> x, code |-> k, missed |-> {}]
<1>1. f \in Request /\ f.op \notin {"setup", "set up"}  BY DEF Request
<1>2. GoodRequest(f, user, app, code)  BY DEF GoodRequest
<1>3. req' = [req EXCEPT ![p] = f] /\ login' \in [Logins -> {"password", "code"}]
  BY DEF Send, IInv, TypesInv
<1>. HIDE DEF f
<1>. QED  BY <1>1, <1>2, <1>3, OnlyTheRequest

LEMMA DisableTwoFactorStep == ASSUME IInv, NEW t \in Tabs, DisableTwoFactor(t) PROVE IInv'
<1>1. t \in Pages  BY TabsArePages
<1>2. UNCHANGED <<user, code, app, tab, login, shaky>>  BY DEF DisableTwoFactor
<1>3. ASSUME NEW x \in Secrets, Send(t, "disable", x, NoCode) PROVE IInv'
  BY <1>1, <1>2, <1>3, SendsACode
<1>4. ASSUME NEW k \in Codes, Send(t, "disable find", NoSecret, k) PROVE IInv'
  BY <1>1, <1>2, <1>4, SendsACode
<1>. QED  BY <1>3, <1>4 DEF DisableTwoFactor

LEMMA VerifyTwoFactorStep == ASSUME IInv, NEW c \in Logins, VerifyTwoFactor(c) PROVE IInv'
<1>1. c \in Pages  BY TabsArePages
<1>2. UNCHANGED <<user, code, app, tab, login, shaky>>  BY DEF VerifyTwoFactor
<1>3. ASSUME NEW x \in Secrets, Send(c, "verified", x, NoCode) PROVE IInv'
  BY <1>1, <1>2, <1>3, SendsACode
<1>4. ASSUME NEW k \in Codes, Send(c, "verify find", NoSecret, k) PROVE IInv'
  BY <1>1, <1>2, <1>4, SendsACode
<1>. QED  BY <1>3, <1>4 DEF VerifyTwoFactor

(* A request that is over. *)
LEMMA RequestEnds ==
    ASSUME IInv, NEW p \in Pages, req' = [req EXCEPT ![p] = Idle],
           UNCHANGED <<user, code, app, tab, shaky>>,
           login' \in [Logins -> {"password", "code"}]
    PROVE  IInv'
<1>1. Idle.op \notin {"setup", "set up"}  BY DEF Idle
<1>. QED  BY <1>1, IdleIsGood, OnlyTheRequest

LEMMA LoginStepInv == ASSUME IInv, NEW c \in Logins, LoginStep(c) PROVE IInv'
<1>1. c \in Pages  BY TabsArePages
<1>2. login \in [Logins -> {"password", "code"}]  BY DEF IInv, TypesInv
<1>3. CASE login' \in [Logins -> {"password", "code"}]
           /\ UNCHANGED <<user, code, app, tab, req, shaky>>
  <2>1. TypesInv' /\ TabsInv' /\ RequestsInv'
    BY <1>3 DEF IInv, TypesInv, TabsInv, RequestsInv
  <2>. QED  BY <1>3, <2>1, AccountStays DEF IInv
<1>4. CASE Login(c)  BY <1>2, <1>3, <1>4 DEF Login
<1>5. CASE StartAgain(c)  BY <1>2, <1>3, <1>5 DEF StartAgain
<1>6. CASE Verified(c)  BY <1>1, <1>2, <1>6, RequestEnds DEF Verified
<1>7. CASE VerifyTwoFactor(c)  BY <1>7, VerifyTwoFactorStep
<1>. QED  BY <1>4, <1>5, <1>6, <1>7 DEF LoginStep

LEMMA FailStep == ASSUME IInv, NEW p \in Pages, FailRequest(p) PROVE IInv'
<1>1. login' \in [Logins -> {"password", "code"}]  BY DEF FailRequest, IInv, TypesInv
<1>. QED  BY <1>1, RequestEnds DEF FailRequest

-----------------------------------------------------------------------------
(* The tab on its own *)

LEMMA TabAlone ==
    ASSUME IInv, NEW t \in Tabs, FetchMe(t) \/ AnswerMe(t) \/ Dismiss(t) \/ Reopen(t)
    PROVE  IInv'
<1>1. t \in Pages  BY TabsArePages
<1>2. /\ tab[t] \in Tab /\ GoodTab(tab[t], req[t], user) /\ tab \in [Tabs -> Tab]
      /\ user.enabled \in BOOLEAN
  BY <1>1, RequestTypes DEF IInv, TypesInv
<1>3. UNCHANGED <<user, code, app, login, req, shaky>>
  BY DEF FetchMe, AnswerMe, Dismiss, Reopen
<1>4. CASE FetchMe(t)
  <2>. DEFINE m == IF user.enabled THEN "on" ELSE "off"
              g == [tab[t] EXCEPT !.me = m, !.late = FALSE]
  <2>1. g \in Tab  BY <1>2 DEF Tab
  <2>2. GoodTab(g, req[t], user)  BY <1>2 DEF GoodTab, Tab
  <2>3. tab' = [tab EXCEPT ![t] = g]  BY <1>2, <1>4 DEF FetchMe
  <2>. HIDE DEF g
  <2>. QED  BY <1>3, <2>1, <2>2, <2>3, OnlyTheTab
<1>5. CASE AnswerMe(t)
  <2>. DEFINE e == (tab[t].me = "on")
              g == [tab[t] EXCEPT !.enabled = e, !.me = "none", !.current = ~tab[t].late]
  <2>1. e \in BOOLEAN  BY Zenon
  <2>2. ~tab[t].late => e = user.enabled  BY <1>2, <1>5 DEF AnswerMe, GoodTab
  <2>3. tab' = [tab EXCEPT ![t] = g]  BY <1>2, <1>5 DEF AnswerMe
  <2>. HIDE DEF e
  <2>4. g \in Tab  BY <1>2, <2>1 DEF Tab
  <2>5. GoodTab(g, req[t], user)  BY <1>2, <2>1, <2>2 DEF GoodTab, Tab
  <2>. HIDE DEF g
  <2>. QED  BY <1>3, <2>3, <2>4, <2>5, OnlyTheTab
<1>6. CASE Dismiss(t)
  <2>. DEFINE g == [tab[t] EXCEPT !.backup = {}]
  <2>1. g \in Tab  BY <1>2 DEF Tab
  <2>2. GoodTab(g, req[t], user)  BY <1>2 DEF GoodTab, Tab
  <2>3. tab' = [tab EXCEPT ![t] = g]  BY <1>6 DEF Dismiss
  <2>. HIDE DEF g
  <2>. QED  BY <1>3, <2>1, <2>2, <2>3, OnlyTheTab
<1>7. CASE Reopen(t)
  <2>1. TabOpened \in Tab  BY <1>2 DEF Tab, TabOpened
  <2>2. GoodTab(TabOpened, req[t], user)  BY <1>2 DEF GoodTab, TabOpened
  <2>3. tab' = [tab EXCEPT ![t] = TabOpened]  BY <1>7 DEF Reopen
  <2>. QED  BY <1>3, <2>1, <2>2, <2>3, OnlyTheTab
<1>. QED  BY <1>4, <1>5, <1>6, <1>7

-----------------------------------------------------------------------------
(* The writes of a tab's request, which overtake all the others *)

LEMMA WriteOvertakes ==
    ASSUME IInv, NEW t \in Tabs, NEW f \in Request,
           NEW kind \in {"set up", "enabled", "disabled"},
           req' = [q \in Pages |->
                     IF q = t THEN f
                     ELSE IF req[q].op = "idle" THEN req[q]
                     ELSE [req[q] EXCEPT !.missed = req[q].missed \cup {kind}]],
           tab' = TabsOutdated, UNCHANGED <<app, login>>,
           f.op = "set up" => req[t].op = "setup", f.op # "setup",
           user' \in [secret : Secrets \cup {NoSecret}, enabled : BOOLEAN],
           code' \in [Codes -> {"unused", "fresh", "spent", "deleted"}],
           shaky' \in BOOLEAN,
           GoodRequest(f, user', app, code'),
           kind = "enabled" => user'.secret = user.secret,
           kind # "enabled" => ~user'.enabled,
           \A k \in Codes : code'[k] = "spent" => code[k] = "spent"
    PROVE  TypesInv' /\ TabsInv' /\ RequestsInv'
<1>1. ASSUME NEW q \in Pages, q # t
      PROVE  /\ req'[q] \in Request /\ req'[q].op = req[q].op
             /\ GoodRequest(req'[q], user', app', code')
  <2>1. req[q] \in Request /\ GoodRequest(req[q], user, app, code)  BY RequestTypes
  <2>2. CASE req[q].op = "idle"
    <3>1. req'[q] = req[q]  BY <1>1, <2>2
    <3>. QED  BY <2>1, <2>2, <3>1 DEF GoodRequest
  <2>3. CASE req[q].op # "idle"
    <3>1. req'[q] = [req[q] EXCEPT !.missed = req[q].missed \cup {kind}]
      BY <1>1, <2>3
    <3>. DEFINE m == req[q].missed \cup {kind}
                g == [req[q] EXCEPT !.missed = m]
    <3>4. m \in SUBSET {"set up", "enabled", "disabled", "spent"}  BY <2>1 DEF Request
    <3>. HIDE DEF m
    <3>2. /\ g \in Request /\ g.op = req[q].op /\ g.code = req[q].code
          /\ g.secret = req[q].secret /\ g.missed = m
      BY <2>1, <3>4 DEF Request
    <3>5. req'[q] = g  BY <3>1 DEF m
    <3>6. g.missed = req[q].missed \cup {kind}  BY <3>2 DEF m
    <3>. HIDE DEF g
    <3>3. GoodRequest(g, user', app', code')
      <4>1. g.missed # {} /\ (\A k : k \in req[q].missed => k \in g.missed) /\ kind \in g.missed
        BY <3>6
      <4>2. CASE kind = "enabled"
        <5>1. "enabled" \in g.missed  BY <4>1, <4>2
        <5>2. g.missed \cap {"set up", "disabled"} = {}
                => req[q].missed \cap {"set up", "disabled"} = {}
          BY <4>1
        <5>. QED  BY <2>1, <3>2, <4>1, <4>2, <5>1, <5>2 DEF GoodRequest
      <4>3. CASE kind # "enabled"
        <5>1. ~user'.enabled  BY <4>3
        <5>2. g.missed \cap {"set up", "disabled"} # {}  BY <4>1, <4>3
        <5>. QED  BY <2>1, <3>2, <4>1, <5>1, <5>2 DEF GoodRequest
      <4>. QED  BY <4>2, <4>3
    <3>. QED  BY <3>2, <3>3, <3>5
  <2>. QED  BY <2>2, <2>3
<1>2. t \in Pages /\ req'[t] = f  BY TabsArePages
<1>3. req' \in [Pages -> Request]
  <2>1. \A q \in Pages : req'[q] \in Request  BY <1>1, <1>2
  <2>. QED  BY <2>1
<1>4. RequestsInv'  BY <1>1, <1>2 DEF RequestsInv
<1>5. ASSUME NEW s \in Tabs PROVE tab'[s] \in Tab /\ GoodTab(tab'[s], req'[s], user')
  <2>1. s \in Pages /\ tab[s] \in Tab /\ GoodTab(tab[s], req[s], user)
    BY TabsArePages, RequestTypes
  <2>2. tab'[s] = [tab[s] EXCEPT !.current = FALSE, !.late = TRUE]
    BY DEF TabsOutdated
  <2>3. req'[s].op \in {"setup", "set up"} => req[s].op \in {"setup", "set up"}
    BY <1>1, <1>2, <2>1
  <2>. QED  BY <2>1, <2>2, <2>3 DEF Tab, GoodTab
<1>6. tab' \in [Tabs -> Tab]  BY <1>5 DEF TabsOutdated
<1>7. TabsInv'  BY <1>5 DEF TabsInv
<1>8. TypesInv'  BY <1>3, <1>6 DEF IInv, TypesInv
<1>. QED  BY <1>4, <1>7, <1>8

LEMMA WriteSecretStep ==
    ASSUME IInv, NEW t \in Tabs, NEW x \in Secrets, WriteSecret(t, x)
    PROVE  /\ IInv'
           /\ user.enabled => "enabled" \in req[t].missed
<1>. DEFINE f == [req[t] EXCEPT !.op = "set up", !.secret = x]
<1>1. t \in Pages  BY TabsArePages
<1>2. req[t] \in Request /\ GoodRequest(req[t], user, app, code)  BY <1>1, RequestTypes
<1>3. /\ f \in Request /\ f.op = "set up" /\ f.secret = x /\ req[t].op = "setup"
  BY <1>2 DEF Request, WriteSecret
<1>4. /\ user' = [secret |-> x, enabled |-> FALSE] /\ tab' = TabsOutdated
      /\ shaky' = (shaky \/ "enabled" \in req[t].missed) /\ UNCHANGED <<code, app, login>>
      /\ req' = [q \in Pages |->
                   IF q = t THEN f
                   ELSE IF req[q].op = "idle" THEN req[q]
                   ELSE [req[q] EXCEPT !.missed = req[q].missed \cup {"set up"}]]
  BY DEF WriteSecret
<1>. HIDE DEF f
<1>5. GoodRequest(f, user', app, code')  BY <1>3, <1>4 DEF GoodRequest
<1>6. /\ user' \in [secret : Secrets \cup {NoSecret}, enabled : BOOLEAN]
      /\ ~user'.enabled
      /\ code' \in [Codes -> {"unused", "fresh", "spent", "deleted"}]
  BY <1>4 DEF IInv, TypesInv
<1>7. shaky' \in BOOLEAN
  <2>1. shaky \in BOOLEAN  BY DEF IInv, TypesInv
  <2>2. (shaky \/ "enabled" \in req[t].missed) \in BOOLEAN  BY <2>1, Zenon
  <2>. QED  BY <1>4, <2>2
<1>8. \A k \in Codes : code'[k] = "spent" => code[k] = "spent"  BY <1>4
<1>9. TypesInv' /\ TabsInv' /\ RequestsInv'
  BY <1>3, <1>4, <1>5, <1>6, <1>7, <1>8, WriteOvertakes
<1>10. "enabled" \notin req[t].missed => ~user.enabled  BY <1>2, <1>3 DEF GoodRequest
<1>11. EnabledMeansReady'  BY <1>6 DEF EnabledMeansReady
<1>12. CodesInv'
  <2>1. Rows' = Rows  BY <1>4 DEF Rows
  <2>2. ~shaky' => ~shaky /\ "enabled" \notin req[t].missed  BY <1>4
  <2>. QED  BY <1>6, <1>10, <2>1, <2>2 DEF IInv, CodesInv, OneBatch
<1>. QED  BY <1>9, <1>10, <1>11, <1>12 DEF IInv

LEMMA CommitEnableStep ==
    ASSUME IInv, NEW t \in Tabs, NEW k \in Codes, CommitEnable(t, k)
    PROVE  IInv' /\ user'.enabled
<1>. DEFINE f == [req[t] EXCEPT !.op = "enabled", !.code = k]
<1>1. t \in Pages  BY TabsArePages
<1>2. req[t] \in Request /\ GoodRequest(req[t], user, app, code)  BY <1>1, RequestTypes
<1>3. f \in Request /\ f.op = "enabled" /\ f.code = k  BY <1>2 DEF Request
<1>4. /\ user' = [user EXCEPT !.enabled = TRUE] /\ tab' = TabsOutdated
      /\ shaky' = (req[t].missed \cap {"set up", "disabled"} # {})
      /\ UNCHANGED <<app, login>>
      /\ req' = [q \in Pages |->
                   IF q = t THEN f
                   ELSE IF req[q].op = "idle" THEN req[q]
                   ELSE [req[q] EXCEPT !.missed = req[q].missed \cup {"enabled"}]]
      /\ req[t].op = "enable" /\ code[k] = "unused" /\ code' = NewBatch(k)
  BY DEF CommitEnable
<1>. HIDE DEF f
<1>5. /\ user' \in [secret : Secrets \cup {NoSecret}, enabled : BOOLEAN]
      /\ user'.enabled /\ user'.secret = user.secret
  BY <1>4 DEF IInv, TypesInv
<1>6. GoodRequest(f, user', app, code')  BY <1>3, <1>5 DEF GoodRequest
<1>7. /\ code' \in [Codes -> {"unused", "fresh", "spent", "deleted"}]
      /\ \A j \in Codes : code'[j] = IF j = k THEN "fresh"
                                     ELSE IF j \in Rows THEN "deleted" ELSE code[j]
  BY <1>4 DEF IInv, TypesInv, NewBatch
<1>8. \A j \in Codes : code'[j] = "spent" => code[j] = "spent"  BY <1>7
<1>9. (req[t].missed \cap {"set up", "disabled"} # {}) \in BOOLEAN  BY Zenon
<1>10. TypesInv' /\ TabsInv' /\ RequestsInv'
  BY <1>3, <1>4, <1>5, <1>6, <1>7, <1>8, <1>9, WriteOvertakes
<1>11. EnabledMeansReady'  BY <1>2, <1>4, <1>5 DEF EnabledMeansReady, GoodRequest
<1>12. Rows' = {k}  BY <1>7 DEF Rows
<1>13. CodesInv'  BY <1>5, <1>12 DEF CodesInv, OneBatch
<1>. QED  BY <1>5, <1>10, <1>11, <1>13 DEF IInv

LEMMA CommitDisableStep ==
    ASSUME IInv, NEW t \in Tabs, CommitDisable(t)
    PROVE  IInv' /\ req[t].op = "disable" /\ req'[t].op = "disabled"
<1>. DEFINE f == [req[t] EXCEPT !.op = "disabled"]
<1>1. t \in Pages  BY TabsArePages
<1>2. req[t] \in Request  BY <1>1, RequestTypes
<1>3. f \in Request /\ f.op = "disabled"  BY <1>2 DEF Request
<1>4. /\ user' = [secret |-> NoSecret, enabled |-> FALSE] /\ tab' = TabsOutdated
      /\ shaky' = FALSE /\ UNCHANGED <<app, login>>
      /\ req' = [q \in Pages |->
                   IF q = t THEN f
                   ELSE IF req[q].op = "idle" THEN req[q]
                   ELSE [req[q] EXCEPT !.missed = req[q].missed \cup {"disabled"}]]
      /\ req[t].op = "disable" /\ code' = CodesDeleted
  BY <1>1 DEF CommitDisable, Write
<1>. HIDE DEF f
<1>5. /\ user' \in [secret : Secrets \cup {NoSecret}, enabled : BOOLEAN]
      /\ ~user'.enabled
  BY <1>4
<1>6. GoodRequest(f, user', app, code')  BY <1>3, <1>5 DEF GoodRequest
<1>7. /\ code' \in [Codes -> {"unused", "fresh", "spent", "deleted"}]
      /\ \A j \in Codes : code'[j] = IF j \in Rows THEN "deleted" ELSE code[j]
  BY <1>4 DEF IInv, TypesInv, CodesDeleted
<1>8. \A j \in Codes : code'[j] = "spent" => code[j] = "spent"  BY <1>7
<1>10. TypesInv' /\ TabsInv' /\ RequestsInv'
  BY <1>3, <1>4, <1>5, <1>6, <1>7, <1>8, WriteOvertakes
<1>11. EnabledMeansReady'  BY <1>5 DEF EnabledMeansReady
<1>12. Rows' = {}  BY <1>7 DEF Rows
<1>13. CodesInv'  BY <1>5, <1>12 DEF CodesInv, OneBatch
<1>14. req'[t] = f  BY <1>1, <1>4
<1>. QED  BY <1>3, <1>4, <1>10, <1>11, <1>13, <1>14 DEF IInv

-----------------------------------------------------------------------------
LEMMA TabStepInv == ASSUME IInv, NEW t \in Tabs, TabStep(t) PROVE IInv'
<1>1. CASE FetchMe(t) \/ AnswerMe(t) \/ Dismiss(t) \/ Reopen(t)  BY <1>1, TabAlone
<1>2. CASE SetupTwoFactor(t)  BY <1>2, SetupTwoFactorStep
<1>3. CASE SetupAnswered(t)  BY <1>3, SetupAnsweredStep
<1>4. CASE EnableAnswered(t)  BY <1>4, EnableAnsweredStep
<1>5. CASE DisableTwoFactor(t)  BY <1>5, DisableTwoFactorStep
<1>6. CASE CommitDisable(t)  BY <1>6, CommitDisableStep
<1>7. CASE DisableAnswered(t)  BY <1>7, DisableAnsweredStep
<1>8. ASSUME NEW x \in Secrets, WriteSecret(t, x) PROVE IInv'  BY <1>8, WriteSecretStep
<1>9. ASSUME NEW x \in Secrets, EnableTwoFactor(t, x) PROVE IInv'
  BY <1>9, EnableTwoFactorStep
<1>10. ASSUME NEW k \in Codes, CommitEnable(t, k) PROVE IInv'  BY <1>10, CommitEnableStep
<1>. QED
  BY <1>1, <1>2, <1>3, <1>4, <1>5, <1>6, <1>7, <1>8, <1>9, <1>10 DEF TabStep

LEMMA NextInv == IInv /\ [Next]_vars => IInv'
<1>. SUFFICES ASSUME IInv, [Next]_vars PROVE IInv'  OBVIOUS
<1>1. ASSUME NEW t \in Tabs, TabStep(t) PROVE IInv'  BY <1>1, TabStepInv
<1>2. ASSUME NEW c \in Logins, LoginStep(c) PROVE IInv'  BY <1>2, LoginStepInv
<1>3. ASSUME NEW p \in Pages, FindCode(p) PROVE IInv'  BY <1>3, FindCodeStep
<1>4. ASSUME NEW p \in Pages, SpendCode(p) PROVE IInv'  BY <1>4, SpendCodeStep
<1>5. ASSUME NEW p \in Pages, FailRequest(p) PROVE IInv'  BY <1>5, FailStep
<1>6. CASE UNCHANGED vars
  BY <1>6 DEF vars, IInv, TypesInv, TabsInv, RequestsInv, EnabledMeansReady, CodesInv,
              OneBatch, Rows
<1>. QED  BY <1>1, <1>2, <1>3, <1>4, <1>5, <1>6 DEF Next

(* Every reachable state has its type: in particular a tab never shows a QR *)
(* code and the backup codes at once (security-settings.tsx).               *)
THEOREM TypeCorrectness == Spec => []TypeOK
<1>. QED  BY InitInv, NextInv, InvariantHasTypes, PTL DEF Spec

(* A tab shows the status that holds, unless it was changed after the       *)
(* answer shown last was decided (handleEnableTwoFactor, getMe).            *)
THEOREM ShownStatusTheorem == Spec => []ShownStatusHolds
<1>1. IInv => ShownStatusHolds  BY DEF IInv, TabsInv, GoodTab, ShownStatusHolds
<1>. QED  BY <1>1, InitInv, NextInv, PTL DEF Spec

(* An account with two-factor on has a secret its owner holds and a batch   *)
(* of backup codes, unless an overtaken write left its mark                 *)
(* (enableTwoFactor, setupTwoFactor).                                       *)
THEOREM StatusIsBackedTheorem == Spec => []StatusIsBacked
<1>1. IInv => Cardinality(Rows) <= 1
  <2>. SUFFICES ASSUME IInv PROVE Cardinality(Rows) <= 1  OBVIOUS
  <2>1. CASE Rows = {}  BY <2>1, FS_EmptySet
  <2>2. CASE Rows # {}
    <3>1. PICK k : k \in Rows  BY <2>2
    <3>2. Rows = {k}  BY <3>1 DEF IInv, CodesInv, OneBatch
    <3>. QED  BY <3>2, FS_Singleton
  <2>. QED  BY <2>1, <2>2
<1>2. IInv => StatusIsBacked
  BY <1>1 DEF IInv, CodesInv, StatusIsBacked, CodesBelong
<1>. QED  BY <1>2, InitInv, NextInv, PTL DEF Spec

-----------------------------------------------------------------------------
(* What turns two-factor off *)

LEMMA OffStep ==
    ASSUME IInv, Next, user.enabled, ~user'.enabled
    PROVE  \E t \in Tabs : \/ req[t].op = "disable" /\ req'[t].op = "disabled"
                           \/ req[t].op = "setup" /\ "enabled" \in req[t].missed
<1>1. user' # user  OBVIOUS
<1>2. ASSUME NEW t \in Tabs, TabStep(t)
      PROVE  (\E x \in Secrets : WriteSecret(t, x)) \/ CommitDisable(t)
  <2>1. ASSUME NEW k \in Codes, CommitEnable(t, k) PROVE FALSE
    BY <2>1, CommitEnableStep
  <2>. QED  BY <1>1, <1>2, <2>1 DEF TabStep, SetupTwoFactor, SetupAnswered, EnableAnswered,
              DisableTwoFactor, DisableAnswered, FetchMe, AnswerMe, Dismiss, Reopen,
              EnableTwoFactor
<1>3. ASSUME NEW c \in Logins, LoginStep(c) PROVE FALSE
  BY <1>1, <1>3 DEF LoginStep, Login, VerifyTwoFactor, Verified, StartAgain
<1>4. ASSUME NEW p \in Pages, FindCode(p) \/ SpendCode(p) \/ FailRequest(p) PROVE FALSE
  BY <1>1, <1>4 DEF FindCode, SpendCode, FailRequest
<1>5. PICK t \in Tabs : TabStep(t)  BY <1>3, <1>4 DEF Next
<1>6. CASE CommitDisable(t)  BY <1>6, CommitDisableStep
<1>7. ASSUME NEW x \in Secrets, WriteSecret(t, x)
      PROVE  req[t].op = "setup" /\ "enabled" \in req[t].missed
  BY <1>7, WriteSecretStep DEF WriteSecret
<1>. QED  BY <1>2, <1>5, <1>6, <1>7

(* Only SpendCode lets a page in by a backup code. *)
Spending == {"verify spend", "disable spend"}
LetIn == {"verified", "disable"}

LEMMA OnlySpendersEnter ==
    ASSUME IInv, NEW q \in Pages, req[q].op \in Spending, req'[q].op \in LetIn, [Next]_vars
    PROVE  SpendCode(q)
<1>1. req \in [Pages -> Request]  BY DEF IInv, TypesInv
<1>2. UNCHANGED req => FALSE  BY DEF Spending, LetIn
<1>3. ASSUME NEW p \in Pages, NEW f, req' = [req EXCEPT ![p] = f],
             req[p].op \in Spending => f.op \notin LetIn
      PROVE  FALSE
  <2>1. q # p => req'[q] = req[q]  BY <1>1, <1>3
  <2>2. q = p => req'[q] = f  BY <1>1, <1>3
  <2>. QED  BY <1>3, <2>1, <2>2 DEF Spending, LetIn
<1>4. ASSUME NEW t \in Tabs, TabStep(t) PROVE FALSE
  <2>1. t \in Pages  BY TabsArePages
  <2>2. Idle.op \notin LetIn  BY DEF Idle, LetIn
  <2>3. CASE UNCHANGED req  BY <1>2, <2>3
  <2>4. CASE SetupTwoFactor(t)
    <3>1. req[t].op \notin Spending
      BY <2>4 DEF SetupTwoFactor, SetupOffered, Spending
    <3>. QED  BY <1>3, <2>1, <2>3, <2>4, <3>1 DEF SetupTwoFactor, Send
  <2>5. CASE SetupAnswered(t) \/ EnableAnswered(t) \/ DisableAnswered(t)
    BY <1>3, <2>1, <2>2, <2>5 DEF SetupAnswered, EnableAnswered, DisableAnswered
  <2>6. CASE DisableTwoFactor(t)
    <3>1. req[t].op \notin Spending
      BY <2>6 DEF DisableTwoFactor, DisableOffered, Spending
    <3>. QED  BY <1>3, <2>1, <2>6, <3>1 DEF DisableTwoFactor, Send
  <2>7. ASSUME NEW x \in Secrets, EnableTwoFactor(t, x) PROVE FALSE
    <3>1. req[t].op \notin Spending
      BY <2>7 DEF EnableTwoFactor, EnableOffered, Spending
    <3>. QED  BY <1>3, <2>1, <2>7, <3>1 DEF EnableTwoFactor, Send
  <2>8. ASSUME req[t].op \notin Spending, \A p \in Pages : p # t => req'[p].op = req[p].op
        PROVE  FALSE
    BY <2>8 DEF Spending, LetIn
  <2>9. ASSUME NEW x \in Secrets, WriteSecret(t, x) PROVE FALSE
    <3>1. \A p \in Pages : p # t => req'[p].op = req[p].op
      BY <1>1, <2>9 DEF WriteSecret, Request
    <3>. QED  BY <2>8, <2>9, <3>1 DEF WriteSecret, Spending
  <2>10. ASSUME NEW k \in Codes, CommitEnable(t, k) PROVE FALSE
    <3>1. \A p \in Pages : p # t => req'[p].op = req[p].op
      BY <1>1, <2>10 DEF CommitEnable, Request
    <3>. QED  BY <2>8, <2>10, <3>1 DEF CommitEnable, Spending
  <2>11. CASE CommitDisable(t)
    <3>1. \A p \in Pages : p # t => req'[p].op = req[p].op
      BY <1>1, <2>11 DEF CommitDisable, Write, Request
    <3>. QED  BY <2>8, <2>11, <3>1 DEF CommitDisable, Spending
  <2>. QED  BY <1>4, <2>3, <2>4, <2>5, <2>6, <2>7, <2>9, <2>10, <2>11
            DEF TabStep, FetchMe, AnswerMe, Dismiss, Reopen
<1>5. ASSUME NEW c \in Logins, LoginStep(c) PROVE FALSE
  <2>1. c \in Pages /\ Idle.op \notin LetIn  BY TabsArePages DEF Idle, LetIn
  <2>2. CASE UNCHANGED req  BY <1>2, <2>2
  <2>3. CASE Verified(c)  BY <1>3, <2>1, <2>3 DEF Verified
  <2>4. CASE VerifyTwoFactor(c)
    <3>1. req[c].op \notin Spending
      BY <2>4 DEF VerifyTwoFactor, CodeAsked, Spending
    <3>. QED  BY <1>3, <2>1, <2>4, <3>1 DEF VerifyTwoFactor, Send
  <2>. QED  BY <1>5, <2>2, <2>3, <2>4 DEF LoginStep, Login, StartAgain
<1>6. ASSUME NEW p \in Pages, FailRequest(p) PROVE FALSE
  <2>1. Idle.op \notin LetIn  BY DEF Idle, LetIn
  <2>. QED  BY <1>3, <1>6, <2>1 DEF FailRequest
<1>7. ASSUME NEW p \in Pages, FindCode(p) PROVE FALSE
  <2>1. req[p].op \notin Spending  BY <1>7 DEF FindCode, Spending
  <2>2. \A r \in Pages : r # p => req'[r] = req[r]  BY <1>1, <1>7 DEF FindCode
  <2>. QED  BY <2>1, <2>2 DEF Spending, LetIn
<1>8. ASSUME NEW p \in Pages, SpendCode(p), p # q PROVE FALSE
  <2>1. req'[q].op = req[q].op  BY <1>1, <1>8 DEF SpendCode, Request
  <2>. QED  BY <2>1 DEF Spending, LetIn
<1>. QED  BY <1>2, <1>4, <1>5, <1>6, <1>7, <1>8 DEF Next, vars

LEMMA RaceStep ==
    ASSUME IInv, [Next]_vars, NEW p \in Pages, req[p].op \in {"verify spend", "disable spend"},
           req'[p].op \in {"verified", "disable"}, code[req[p].code] = "spent"
    PROVE  "spent" \in req[p].missed
<1>1. SpendCode(p)  BY OnlySpendersEnter DEF Spending, LetIn
<1>2. req[p].code \in Codes  BY <1>1 DEF SpendCode, Rows
<1>. QED  BY <1>2 DEF IInv, RequestsInv, GoodRequest

(* Two-factor is turned off by disableTwoFactor, or by a setupTwoFactor     *)
(* that an enabling overtook; a backup code lets a second request in only   *)
(* if it had found it unused (verifyTotpOrBackupCode).                      *)
THEOREM CodesTheorem == Spec => CodesDecide
<1>1. IInv /\ [Next]_vars =>
        [user.enabled /\ ~user'.enabled =>
           \E t \in Tabs : \/ req[t].op = "disable" /\ req'[t].op = "disabled"
                           \/ req[t].op = "setup" /\ "enabled" \in req[t].missed]_vars
  BY OffStep
<1>2. IInv /\ [Next]_vars =>
        [\A p \in Pages :
           req[p].op \in {"verify spend", "disable spend"}
             /\ req'[p].op \in {"verified", "disable"} /\ code[req[p].code] = "spent"
           => "spent" \in req[p].missed]_vars
  BY RaceStep
<1>. QED  BY <1>1, <1>2, InitInv, NextInv, PTL
          DEF Spec, CodesDecide, OffOnlyOnPurpose, SecondUseIsARace
=============================================================================

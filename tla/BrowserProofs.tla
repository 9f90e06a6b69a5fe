---------------------------- MODULE BrowserProofs ----------------------------
(***************************************************************************)
(* Proofs about the web client: its sessions (module BrowserSession, for   *)
(* any tabs, calls and rows), and the pages that show what is cached: of   *)
(* links (LinksPage), of users (AdminUsers), of a workspace's members and  *)
(* API keys (WorkspacePanels), and the choice of the workspace itself      *)
(* (WorkspaceSelection).  They share their lemmas about cached entries and *)
(* about subsequences.                                                     *)
(***************************************************************************)
EXTENDS BrowserSession, LinksPage, AdminUsers, WorkspacePanels, WorkspaceSelection,
        FiniteSetTheorems, WellFoundedInduction, TLAPS

Statuses == {"unused", "live", "rotated", "over"}

TypesInv ==
    /\ row \in [Rows -> Statuses]
    /\ jar \in Jar
    /\ call \in [Calls -> Call]
    /\ out \in BOOLEAN

PagesInv == page \in [Tabs -> PageKinds] /\ going \in [Tabs -> PageKinds \cup {"stay"}]

(* A refresh that has passed its checks has a cookie, and a call brings a   *)
(* new one just when it has been issued one.                                *)
GoodCall(f) ==
    /\ f.phase \in {"checked", "rotated"} => f.cookie \in Rows
    /\ f.phase \in {"rotated", "signed in"} <=> f.new # NoRow

CallsInv == \A q \in Calls : GoodCall(call[q])

(* A cookie on its way is nobody's yet: neither the jar nor another call    *)
(* has it, and so its row was not exchanged.                                *)
NewInv ==
    \A q \in Calls : call[q].new # NoRow =>
        /\ call[q].new # jar.refresh
        /\ row[call[q].new] # "rotated"
        /\ \A p \in Calls : /\ call[p].cookie # call[q].new
                            /\ p # q => call[p].new # call[q].new

(* Nothing is under way that would sign a signed-out browser in.            *)
Quiet(f) ==
    /\ f.phase \notin {"checked", "rotated", "signed in"}
    /\ f.phase = "refresh" => Dead(f.cookie)

OutInv == out => jar = Empty /\ \A q \in Calls : Quiet(call[q])

CookiesInv == TypesInv /\ CallsInv /\ NewInv /\ JarLags /\ OutInv

IInv == CookiesInv /\ PagesInv

LEMMA InvariantHolds == IInv => TypeOK /\ JarLags /\ SignOutSticks
<1>. QED  BY DEF IInv, CookiesInv, TypesInv, PagesInv, OutInv, TypeOK, SignOutSticks, Statuses

LEMMA InitInv == Init => IInv
<1>. SUFFICES ASSUME Init PROVE IInv  OBVIOUS
<1>1. Idle \in Call /\ GoodCall(Idle) /\ Idle.new = NoRow
  BY DEF Idle, Call, GoodCall
<1>2. TypesInv  BY <1>1 DEF Init, TypesInv, Statuses, Jar, Empty
<1>3. CallsInv /\ NewInv  BY <1>1 DEF Init, CallsInv, NewInv
<1>4. JarLags  BY DEF Init, JarLags, Empty
<1>5. OutInv  BY DEF Init, OutInv
<1>6. PagesInv  BY DEF Init, PagesInv, PageKinds
<1>. QED  BY <1>2, <1>3, <1>4, <1>5, <1>6 DEF IInv, CookiesInv

-----------------------------------------------------------------------------
(* What Become does to the rows: those that a cookie names are as given.    *)
LEMMA BecomeRows ==
    ASSUME NEW r \in [Rows -> Statuses], NEW j \in Jar, NEW c \in [Calls -> Call],
           Become(r, j, c)
    PROVE  /\ row' \in [Rows -> Statuses] /\ jar' = j /\ call' = c
           /\ \A s \in Rows : row'[s] = r[s] \/ row'[s] = "unused"
           /\ \A q \in Calls : c[q].new \in Rows => row'[c[q].new] = r[c[q].new]
<1>1. /\ row' = [s \in Rows |-> IF s \in Named(j, c) THEN r[s] ELSE "unused"]
      /\ jar' = j /\ call' = c
  BY DEF Become
<1>2. \A q \in Calls : c[q].new \in Named(j, c)  BY DEF Named
<1>. QED  BY <1>1, <1>2 DEF Statuses

(* A step that brings nobody a cookie: rows may end, calls may end, and a   *)
(* call may take the cookie of the jar along.                               *)
LEMMA NobodyGains ==
    ASSUME CookiesInv, NEW r \in [Rows -> Statuses], NEW j \in {jar, Empty},
           NEW c \in [Calls -> Call], Become(r, j, c), out' \in BOOLEAN,
           \A s \in Rows : r[s] \in {row[s], "over"},
           \A q \in Calls : /\ GoodCall(c[q])
                            /\ c[q].new \in {call[q].new, NoRow}
                            /\ c[q].cookie \in {call[q].cookie, jar.refresh, NoRow},
           \A q \in Calls : call[q].phase = "rotated" =>
               \/ c[q].phase = "rotated" /\ c[q].cookie = call[q].cookie
               \/ r[call[q].cookie] # "rotated",
           out' => j = Empty /\ \A q \in Calls : Quiet(c[q])
    PROVE  CookiesInv'
<1>0. jar \in Jar /\ Empty \in Jar  BY DEF CookiesInv, TypesInv, Jar, Empty
<1>1. /\ row' \in [Rows -> Statuses] /\ jar' = j /\ call' = c
      /\ \A s \in Rows : row'[s] = r[s] \/ row'[s] = "unused"
  BY <1>0, BecomeRows
<1>2. TypesInv'  BY <1>0, <1>1 DEF TypesInv
<1>3. CallsInv'  BY <1>1 DEF CallsInv
<1>4. NewInv'
  <2>. SUFFICES ASSUME NEW q \in Calls, c[q].new # NoRow
                PROVE  /\ c[q].new # j.refresh
                       /\ row'[c[q].new] # "rotated"
                       /\ \A p \in Calls : /\ c[p].cookie # c[q].new
                                           /\ p # q => c[p].new # c[q].new
    BY <1>1 DEF NewInv
  <2>1. c[q].new = call[q].new /\ call[q].new # NoRow  OBVIOUS
  <2>2. c[q].new \in Rows  BY DEF Call
  <2>3. /\ call[q].new # jar.refresh /\ row[call[q].new] # "rotated"
        /\ \A p \in Calls : /\ call[p].cookie # call[q].new
                            /\ p # q => call[p].new # call[q].new
    BY <2>1 DEF CookiesInv, NewInv
  <2>4. c[q].new # j.refresh  BY <2>1, <2>3 DEF Empty
  <2>5. row'[c[q].new] # "rotated"
    <3>1. r[c[q].new] # "rotated"  BY <2>1, <2>2, <2>3
    <3>. QED  BY <1>1, <2>2, <3>1
  <2>6. \A p \in Calls : c[p].cookie # c[q].new /\ (p # q => c[p].new # c[q].new)
    BY <2>1, <2>3
  <2>. QED  BY <2>4, <2>5, <2>6
<1>5. JarLags'
  <2>. SUFFICES ASSUME j.refresh # NoRow, row'[j.refresh] = "rotated"
                PROVE  \E q \in Calls : c[q].phase = "rotated" /\ c[q].cookie = j.refresh
    BY <1>1 DEF JarLags
  <2>1. j = jar  BY DEF Empty
  <2>2. jar.refresh \in Rows  BY <1>0, <2>1 DEF Jar
  <2>3. r[jar.refresh] = "rotated" /\ row[jar.refresh] = "rotated"
    BY <1>1, <2>1, <2>2
  <2>4. PICK q \in Calls : call[q].phase = "rotated" /\ call[q].cookie = jar.refresh
    BY <2>1, <2>3 DEF CookiesInv, JarLags
  <2>5. c[q].phase = "rotated" /\ c[q].cookie = jar.refresh  BY <2>3, <2>4
  <2>. QED  BY <2>1, <2>5
<1>6. OutInv'
  <2>. SUFFICES ASSUME out', NEW q \in Calls
                PROVE  j = Empty /\ (Quiet(call[q]))'
    BY <1>1 DEF OutInv
  <2>1. j = Empty /\ Quiet(c[q])  OBVIOUS
  <2>2. c[q].phase = "refresh" => c[q].cookie = NoRow \/ row'[c[q].cookie] # "live"
    <3>. SUFFICES ASSUME c[q].phase = "refresh", c[q].cookie # NoRow
                  PROVE  row'[c[q].cookie] # "live"
      OBVIOUS
    <3>1. c[q].cookie \in Rows  BY DEF Call
    <3>2. row[c[q].cookie] # "live"  BY <2>1 DEF Quiet, Dead
    <3>3. r[c[q].cookie] # "live"  BY <3>1, <3>2
    <3>. QED  BY <1>1, <3>1, <3>3
  <2>. QED  BY <1>1, <2>1, <2>2 DEF Quiet, Dead
<1>. QED  BY <1>2, <1>3, <1>4, <1>5, <1>6 DEF CookiesInv

(* The answer of a refresh or a sign-in: the jar takes the call's cookie.   *)
LEMMA JarTakesCookie ==
    ASSUME CookiesInv, NEW q \in Calls, call[q].new # NoRow,
           NEW f \in Call, GoodCall(f), f.new = NoRow, f.cookie = NoRow,
           Become(row, setAuthCookies(call[q].new), [call EXCEPT ![q] = f]), UNCHANGED out
    PROVE  CookiesInv'
<1>. DEFINE n == call[q].new
            j == setAuthCookies(n)
            c == [call EXCEPT ![q] = f]
<1>1. n \in Rows /\ row \in [Rows -> Statuses] /\ call \in [Calls -> Call]
  BY DEF CookiesInv, TypesInv, Call
<1>2. j \in Jar /\ j.refresh = n /\ c \in [Calls -> Call]
  BY <1>1 DEF setAuthCookies, Jar
<1>3. \A p \in Calls : c[p] = IF p = q THEN f ELSE call[p]  BY <1>1
<1>4. /\ n # jar.refresh /\ row[n] # "rotated"
      /\ \A p \in Calls : call[p].cookie # n /\ (p # q => call[p].new # n)
  BY DEF CookiesInv, NewInv
<1>5. Become(row, j, c)  OBVIOUS
<1>. HIDE DEF c, j
<1>6. /\ row' \in [Rows -> Statuses] /\ jar' = j /\ call' = c
      /\ \A s \in Rows : row'[s] = row[s] \/ row'[s] = "unused"
  BY <1>1, <1>2, <1>5, BecomeRows
<1>7. TypesInv'  BY <1>2, <1>6 DEF CookiesInv, TypesInv
<1>8. CallsInv'  BY <1>3, <1>6 DEF CookiesInv, CallsInv
<1>9. NewInv'
  <2>. SUFFICES ASSUME NEW p \in Calls, c[p].new # NoRow
                PROVE  /\ c[p].new # j.refresh
                       /\ row'[c[p].new] # "rotated"
                       /\ \A s \in Calls : /\ c[s].cookie # c[p].new
                                           /\ s # p => c[s].new # c[p].new
    BY <1>6 DEF NewInv
  <2>1. p # q /\ c[p] = call[p]  BY <1>3
  <2>2. call[p].new \in Rows  BY <1>1, <2>1 DEF Call
  <2>3. /\ row[call[p].new] # "rotated"
        /\ \A s \in Calls : /\ call[s].cookie # call[p].new
                            /\ s # p => call[s].new # call[p].new
    BY <2>1 DEF CookiesInv, NewInv
  <2>4. row'[c[p].new] # "rotated"  BY <1>6, <2>1, <2>2, <2>3
  <2>5. c[p].new # j.refresh  BY <1>2, <1>4, <2>1
  <2>6. \A s \in Calls : c[s].cookie # c[p].new /\ (s # p => c[s].new # c[p].new)
    BY <1>3, <2>1, <2>3
  <2>. QED  BY <2>4, <2>5, <2>6
<1>10. JarLags'
  <2>1. row'[n] # "rotated"  BY <1>1, <1>4, <1>6
  <2>. QED  BY <1>2, <1>6, <2>1 DEF JarLags
<1>11. OutInv'
  <2>1. call[q].phase \in {"rotated", "signed in"}  BY DEF CookiesInv, CallsInv, GoodCall
  <2>2. ~out  BY <2>1 DEF CookiesInv, OutInv, Quiet
  <2>. QED  BY <2>2 DEF OutInv
<1>. QED  BY <1>7, <1>8, <1>9, <1>10, <1>11 DEF CookiesInv

(* Of the rows r, only n is new, and only the cookie of f was exchanged.    *)
Exchanged(r, n, f) ==
    \A s \in Rows : s # n => \/ r[s] = row[s]
                             \/ r[s] = "rotated" /\ f.phase = "rotated" /\ s = f.cookie

(* A new row n for call q, whose old cookie may be exchanged for it.        *)
LEMMA CallGetsRow ==
    ASSUME CookiesInv, NEW q \in Calls, NEW n \in Rows, n \notin Named(jar, call),
           NEW f \in Call, f.phase \in {"rotated", "signed in"}, GoodCall(f), f.new = n,
           call[q].new = NoRow,
           NEW r \in [Rows -> Statuses], r[n] = "live",
           Exchanged(r, n, f),
           f.cookie \in {call[q].cookie, NoRow}, call[q].phase # "rotated",
           Become(r, jar, [call EXCEPT ![q] = f]), out' = FALSE
    PROVE  CookiesInv'
<1>. DEFINE c == [call EXCEPT ![q] = f]
<1>1. row \in [Rows -> Statuses] /\ call \in [Calls -> Call] /\ jar \in Jar
  BY DEF CookiesInv, TypesInv
<1>2. c \in [Calls -> Call]  BY <1>1
<1>3. \A p \in Calls : c[p] = IF p = q THEN f ELSE call[p]  BY <1>1
<1>4. n # jar.refresh /\ \A p \in Calls : call[p].cookie # n /\ call[p].new # n
  BY DEF Named
<1>5. n # NoRow  BY BrowserConstants
<1>6. Become(r, jar, c)  OBVIOUS
<1>. HIDE DEF c
<1>7. /\ row' \in [Rows -> Statuses] /\ jar' = jar /\ call' = c
      /\ \A s \in Rows : row'[s] = r[s] \/ row'[s] = "unused"
  BY <1>1, <1>2, <1>6, BecomeRows
<1>8. TypesInv'  BY <1>1, <1>2, <1>7 DEF TypesInv
<1>9. CallsInv'  BY <1>3, <1>7 DEF CookiesInv, CallsInv
<1>10. NewInv'
  <2>. SUFFICES ASSUME NEW p \in Calls, c[p].new # NoRow
                PROVE  /\ c[p].new # jar.refresh
                       /\ row'[c[p].new] # "rotated"
                       /\ \A s \in Calls : /\ c[s].cookie # c[p].new
                                           /\ s # p => c[s].new # c[p].new
    BY <1>7 DEF NewInv
  <2>1. CASE p = q
    <3>1. c[p].new = n  BY <1>3, <2>1
    <3>2. row'[n] # "rotated"  BY <1>7
    <3>3. f.cookie # n  BY <1>4, <1>5
    <3>. QED  BY <1>3, <1>4, <2>1, <3>1, <3>2, <3>3
  <2>2. CASE p # q
    <3>1. c[p] = call[p] /\ call[p].new # NoRow  BY <1>3, <2>2
    <3>2. call[p].new \in Rows /\ call[p].new # n  BY <1>1, <1>4, <3>1 DEF Call
    <3>3. /\ call[p].new # jar.refresh /\ row[call[p].new] # "rotated"
          /\ \A s \in Calls : /\ call[s].cookie # call[p].new
                              /\ s # p => call[s].new # call[p].new
      BY <3>1 DEF CookiesInv, NewInv
    <3>4. f.cookie # call[p].new  BY <3>1, <3>3
    <3>5. r[call[p].new] = row[call[p].new]  BY <3>2, <3>4 DEF Exchanged
    <3>6. row'[c[p].new] # "rotated"  BY <1>7, <3>1, <3>2, <3>3, <3>5
    <3>7. \A s \in Calls : c[s].cookie # c[p].new /\ (s # p => c[s].new # c[p].new)
      BY <1>3, <3>1, <3>2, <3>3, <3>4
    <3>. QED  BY <3>1, <3>3, <3>6, <3>7
  <2>. QED  BY <2>1, <2>2
<1>11. JarLags'
  <2>. SUFFICES ASSUME jar.refresh # NoRow, row'[jar.refresh] = "rotated"
                PROVE  \E p \in Calls : c[p].phase = "rotated" /\ c[p].cookie = jar.refresh
    BY <1>7 DEF JarLags
  <2>1. jar.refresh \in Rows /\ jar.refresh # n  BY <1>1, <1>4 DEF Jar
  <2>2. r[jar.refresh] = "rotated"  BY <1>7, <2>1
  <2>3. CASE f.phase = "rotated" /\ jar.refresh = f.cookie  BY <1>3, <2>3
  <2>5. row[jar.refresh] = "rotated" \/ (f.phase = "rotated" /\ jar.refresh = f.cookie)
    BY <2>1, <2>2 DEF Exchanged
  <2>4. CASE row[jar.refresh] = "rotated"
    <3>1. PICK p \in Calls : call[p].phase = "rotated" /\ call[p].cookie = jar.refresh
      BY <2>4 DEF CookiesInv, JarLags
    <3>2. c[p] = call[p]  BY <1>3, <3>1
    <3>. QED  BY <3>1, <3>2
  <2>. QED  BY <2>3, <2>4, <2>5
<1>12. OutInv'  BY DEF OutInv
<1>. QED  BY <1>8, <1>9, <1>10, <1>11, <1>12 DEF CookiesInv

-----------------------------------------------------------------------------
(* The steps *)

LEMMA Rest ==
    ASSUME CookiesInv
    PROVE  /\ row \in [Rows -> Statuses] /\ jar \in Jar /\ call \in [Calls -> Call]
           /\ out \in BOOLEAN
           /\ \A q \in Calls : call[q] \in Call /\ GoodCall(call[q])
           /\ Idle \in Call /\ GoodCall(Idle) /\ Idle.new = NoRow /\ Idle.cookie = NoRow
           /\ Quiet(Idle)
<1>. QED  BY DEF CookiesInv, TypesInv, CallsInv, Idle, Call, GoodCall, Quiet

(* One call goes on as f, and gains nothing.                                *)
LEMMA CallGoesOn ==
    ASSUME CookiesInv, NEW q \in Calls, NEW f \in Call, GoodCall(f),
           f.new \in {call[q].new, NoRow},
           f.cookie \in {call[q].cookie, jar.refresh, NoRow},
           NEW r \in [Rows -> Statuses], \A s \in Rows : r[s] \in {row[s], "over"},
           call[q].phase = "rotated" => r[call[q].cookie] # "rotated",
           out => Quiet(f),
           Become(r, jar, [call EXCEPT ![q] = f]), UNCHANGED out
    PROVE  CookiesInv'
<1>. DEFINE c == [call EXCEPT ![q] = f]
<1>1. c \in [Calls -> Call]  BY Rest
<1>2. \A p \in Calls : c[p] = IF p = q THEN f ELSE call[p]  BY Rest
<1>3. Become(r, jar, c) /\ out' \in BOOLEAN  BY Rest
<1>. HIDE DEF c
<1>4. \A p \in Calls : /\ GoodCall(c[p])
                       /\ c[p].new \in {call[p].new, NoRow}
                       /\ c[p].cookie \in {call[p].cookie, jar.refresh, NoRow}
  BY <1>2, Rest
<1>5. \A p \in Calls : call[p].phase = "rotated" =>
         \/ c[p].phase = "rotated" /\ c[p].cookie = call[p].cookie
         \/ r[call[p].cookie] # "rotated"
  BY <1>2
<1>6. out' => jar = Empty /\ \A p \in Calls : Quiet(c[p])
  BY <1>2 DEF CookiesInv, OutInv
<1>. QED  BY <1>1, <1>3, <1>4, <1>5, <1>6, NobodyGains

(* One call ends, other than by an exchange whose answer is lost.           *)
LEMMA CallEnds ==
    ASSUME CookiesInv, NEW q \in Calls, call[q].phase # "rotated",
           Become(row, jar, Ended(q)), UNCHANGED out
    PROVE  CookiesInv'
<1>. QED  BY Rest, CallGoesOn DEF Ended

LEMMA RequestStep ==
    ASSUME CookiesInv, NEW q \in Calls, NEW t \in Tabs, Request(q, t) \/ SignOut(q, t)
    PROVE  CookiesInv'
<1>1. CASE Request(q, t)
  <2>. DEFINE f == [phase |-> "denied", tab |-> t, cookie |-> NoRow, new |-> NoRow]
  <2>1. f \in Call /\ GoodCall(f) /\ f.new = NoRow /\ f.cookie = NoRow /\ Quiet(f)
    BY DEF Call, GoodCall, Quiet
  <2>2. Become(row, jar, [call EXCEPT ![q] = f]) /\ UNCHANGED out
        /\ call[q].phase # "rotated"
    BY <1>1 DEF Request, Started
  <2>. HIDE DEF f
  <2>. QED  BY <2>1, <2>2, Rest, CallGoesOn
<1>2. CASE SignOut(q, t)
  <2>. DEFINE f == [phase |-> "sign out", tab |-> t, cookie |-> jar.refresh, new |-> NoRow]
  <2>1. f \in Call /\ GoodCall(f) /\ f.new = NoRow /\ f.cookie = jar.refresh /\ Quiet(f)
    BY Rest DEF Call, GoodCall, Quiet, Jar
  <2>2. Become(row, jar, [call EXCEPT ![q] = f]) /\ UNCHANGED out
        /\ call[q].phase # "rotated"
    BY <1>2 DEF SignOut, Started
  <2>. HIDE DEF f
  <2>. QED  BY <2>1, <2>2, Rest, CallGoesOn
<1>. QED  BY <1>1, <1>2

LEMMA SendRefreshStep ==
    ASSUME CookiesInv, NEW q \in Calls, SendRefresh(q) PROVE CookiesInv'
<1>. DEFINE f == [call[q] EXCEPT !.phase = "refresh", !.cookie = jar.refresh]
<1>1. /\ f \in Call /\ f.new = call[q].new /\ f.cookie = jar.refresh /\ f.phase = "refresh"
  BY Rest DEF Call, Jar
<1>2. GoodCall(f)  BY <1>1, Rest DEF GoodCall, SendRefresh
<1>3. out => Quiet(f)
  <2>1. out => f.cookie = NoRow  BY <1>1 DEF CookiesInv, OutInv, Empty
  <2>. HIDE DEF f
  <2>. QED  BY <1>1, <2>1 DEF Quiet, Dead
<1>4. Become(row, jar, [call EXCEPT ![q] = f]) /\ UNCHANGED out
      /\ call[q].phase # "rotated"
  BY Rest DEF SendRefresh
<1>. HIDE DEF f
<1>. QED  BY <1>1, <1>2, <1>3, <1>4, Rest, CallGoesOn

LEMMA CheckRefreshStep ==
    ASSUME CookiesInv, NEW q \in Calls, CheckRefresh(q) PROVE CookiesInv'
<1>1. CASE Dead(call[q].cookie)  BY <1>1, CallEnds DEF CheckRefresh, GiveUp
<1>2. CASE ~Dead(call[q].cookie)
  <2>. DEFINE f == [call[q] EXCEPT !.phase = "checked"]
  <2>1. /\ f \in Call /\ f.new = call[q].new /\ f.cookie = call[q].cookie
        /\ f.phase = "checked"
    BY Rest DEF Call
  <2>2. call[q].cookie \in Rows  BY <1>2, Rest DEF Dead, Call
  <2>3. GoodCall(f)  BY <2>1, <2>2, Rest DEF GoodCall, CheckRefresh
  <2>4. ~out
    BY <1>2 DEF CookiesInv, OutInv, Quiet, CheckRefresh
  <2>5. Become(row, jar, [call EXCEPT ![q] = f]) /\ UNCHANGED out
        /\ call[q].phase # "rotated"
    BY <1>2, Rest DEF CheckRefresh, At
  <2>. HIDE DEF f
  <2>. QED  BY <2>1, <2>3, <2>4, <2>5, Rest, CallGoesOn
<1>. QED  BY <1>1, <1>2

LEMMA FreshIsFree == Room => Fresh \in Rows /\ Fresh \notin Named(jar, call)
<1>. QED  BY DEF Room, Fresh

LEMMA RotateStep ==
    ASSUME CookiesInv, NEW q \in Calls, Rotate(q) PROVE CookiesInv'
<1>. DEFINE n == Fresh
            k == call[q].cookie
            r == [row EXCEPT ![k] = IF row[k] = "live" THEN "rotated" ELSE row[k],
                             ![n] = "live"]
            f == [call[q] EXCEPT !.phase = "rotated", !.new = n]
<1>1. n \in Rows /\ n \notin Named(jar, call)  BY FreshIsFree DEF Rotate
<1>2. call[q].phase = "checked" /\ k \in Rows /\ call[q].new = NoRow
  BY Rest DEF Rotate, GoodCall
<1>3. k # n  BY <1>1 DEF Named
<1>4. Become(r, jar, [call EXCEPT ![q] = f])
  <2>1. Become(r, jar, [call EXCEPT ![q].phase = "rotated", ![q].new = n])
    BY DEF Rotate
  <2>. QED  BY <2>1, Rest
<1>5. out' = FALSE
  <2>1. ~out  BY <1>2 DEF CookiesInv, OutInv, Quiet
  <2>. QED  BY <2>1, Rest DEF Rotate
<1>. HIDE DEF n
<1>6. /\ f \in Call /\ f.new = n /\ f.cookie = k /\ f.phase = "rotated"
  BY <1>1, Rest DEF Call
<1>7. n # NoRow  BY <1>1, BrowserConstants
<1>8. GoodCall(f)  BY <1>2, <1>6, <1>7 DEF GoodCall
<1>9. r \in [Rows -> Statuses] /\ r[n] = "live"
  BY <1>1, <1>2, <1>3, Rest DEF Statuses
<1>13. \A s \in Rows : s # n => r[s] = row[s] \/ (r[s] = "rotated" /\ s = k)
  BY <1>1, <1>2, <1>3, Rest DEF Statuses
<1>. HIDE DEF f, r, k
<1>10. Exchanged(r, n, f)  BY <1>6, <1>13 DEF Exchanged
<1>11. call[q].phase # "rotated" /\ f.cookie \in {call[q].cookie, NoRow}
  BY <1>2, <1>6 DEF k
<1>12. f.phase \in {"rotated", "signed in"}  BY <1>6
<1>. QED  BY <1>1, <1>2, <1>4, <1>5, <1>6, <1>8, <1>9, <1>10, <1>11, <1>12, CallGetsRow

LEMMA SignInStep ==
    ASSUME CookiesInv, NEW q \in Calls, NEW t \in Tabs, SignIn(q, t) PROVE CookiesInv'
<1>. DEFINE n == Fresh
            r == [row EXCEPT ![n] = "live"]
            f == [phase |-> "signed in", tab |-> t, cookie |-> NoRow, new |-> n]
<1>1. n \in Rows /\ n \notin Named(jar, call)  BY FreshIsFree DEF SignIn
<1>2. call[q].phase = "idle" /\ call[q].new = NoRow  BY Rest DEF SignIn, GoodCall
<1>4. Become(r, jar, [call EXCEPT ![q] = f]) /\ out' = FALSE  BY DEF SignIn
<1>. HIDE DEF n
<1>6. /\ f \in Call /\ f.new = n /\ f.cookie = NoRow /\ f.phase = "signed in"
  BY <1>1 DEF Call
<1>7. n # NoRow  BY <1>1, BrowserConstants
<1>8. GoodCall(f)  BY <1>6, <1>7 DEF GoodCall
<1>9. /\ r \in [Rows -> Statuses] /\ r[n] = "live"
      /\ \A s \in Rows : s # n => r[s] = row[s]
  BY <1>1, Rest DEF Statuses
<1>10. Exchanged(r, n, f)  BY <1>9 DEF Exchanged
<1>. HIDE DEF f, r
<1>. QED  BY <1>1, <1>2, <1>4, <1>6, <1>8, <1>9, <1>10, CallGetsRow

LEMMA AnsweredStep ==
    ASSUME CookiesInv, NEW q \in Calls, RefreshAnswered(q) \/ LoginAnswered(q)
    PROVE  CookiesInv'
<1>1. call[q].new # NoRow  BY Rest DEF RefreshAnswered, LoginAnswered, GoodCall
<1>2. CASE LoginAnswered(q)  BY <1>1, <1>2, Rest, JarTakesCookie DEF LoginAnswered, Ended
<1>3. CASE RefreshAnswered(q)
  <2>1. CASE call[q].tab = NoTab
    BY <1>1, <1>3, <2>1, Rest, JarTakesCookie DEF RefreshAnswered, RefreshedCookies, Ended
  <2>2. CASE call[q].tab # NoTab
    <3>. DEFINE f == [phase |-> "retry", tab |-> call[q].tab, cookie |-> NoRow,
                      new |-> NoRow]
    <3>1. f \in Call /\ GoodCall(f) /\ f.new = NoRow /\ f.cookie = NoRow
      BY Rest DEF Call, GoodCall
    <3>2. Become(row, setAuthCookies(call[q].new), [call EXCEPT ![q] = f])
          /\ UNCHANGED out
      BY <1>3, <2>2 DEF RefreshAnswered, RefreshedCookies, Started
    <3>. HIDE DEF f
    <3>. QED  BY <1>1, <3>1, <3>2, JarTakesCookie
  <2>. QED  BY <2>1, <2>2
<1>. QED  BY <1>2, <1>3

LEMMA RetryStep ==
    ASSUME CookiesInv, NEW q \in Calls, Retry(q) PROVE CookiesInv'
<1>. QED  BY CallEnds DEF Retry, DeniedAgain, GiveUp

LEMMA RevokedRows ==
    ASSUME CookiesInv, NEW S
    PROVE  /\ Revoked(S) \in [Rows -> Statuses]
           /\ \A s \in Rows : Revoked(S)[s] \in {row[s], "over"}
<1>. QED  BY Rest DEF Revoked, Statuses

LEMMA LogoutServedStep ==
    ASSUME CookiesInv, NEW q \in Calls, LogoutServed(q) PROVE CookiesInv'
<1>. DEFINE f == [call[q] EXCEPT !.phase = "signed out"]
            r == Revoked({call[q].cookie})
<1>1. /\ f \in Call /\ f.new = call[q].new /\ f.cookie = call[q].cookie
      /\ f.phase = "signed out"
  BY Rest DEF Call
<1>2. GoodCall(f) /\ Quiet(f)  BY <1>1, Rest DEF GoodCall, Quiet, LogoutServed
<1>3. r \in [Rows -> Statuses] /\ \A s \in Rows : r[s] \in {row[s], "over"}
  BY RevokedRows
<1>4. Become(r, jar, [call EXCEPT ![q] = f]) /\ UNCHANGED out
      /\ call[q].phase # "rotated"
  BY Rest DEF LogoutServed, At
<1>. HIDE DEF f, r
<1>. QED  BY <1>1, <1>2, <1>3, <1>4, Rest, CallGoesOn

LEMMA LogoutAnsweredStep ==
    ASSUME CookiesInv, NEW q \in Calls, LogoutAnswered(q) PROVE CookiesInv'
<1>. DEFINE c == [call EXCEPT ![q] = Idle]
<1>1. c \in [Calls -> Call] /\ \A p \in Calls : c[p] = IF p = q THEN Idle ELSE call[p]
  BY Rest
<1>2. Become(row, Empty, c) /\ out' = (\A p \in Calls : ~SignsIn(call[p]))
      /\ call[q].phase = "signed out"
  BY DEF LogoutAnswered, Ended, ClearedCookies
<1>. HIDE DEF c
<1>3. out' \in BOOLEAN
  <2>1. (\A p \in Calls : ~SignsIn(call[p])) \in BOOLEAN  BY Zenon
  <2>. QED  BY <1>2, <2>1
<1>4. \A p \in Calls : /\ GoodCall(c[p])
                       /\ c[p].new \in {call[p].new, NoRow}
                       /\ c[p].cookie \in {call[p].cookie, jar.refresh, NoRow}
  BY <1>1, Rest
<1>5. \A p \in Calls : call[p].phase = "rotated" =>
        c[p].phase = "rotated" /\ c[p].cookie = call[p].cookie
  BY <1>1, <1>2
<1>6. out' => \A p \in Calls : Quiet(c[p])
  BY <1>1, <1>2, Rest DEF SignsIn, Quiet
<1>. QED  BY <1>1, <1>2, <1>3, <1>4, <1>5, <1>6, Rest, NobodyGains

LEMMA LoseStep ==
    ASSUME CookiesInv, NEW q \in Calls, Lose(q) PROVE CookiesInv'
<1>. DEFINE k == call[q].cookie
            r == IF call[q].phase = "rotated" /\ row[k] = "rotated"
                 THEN [row EXCEPT ![k] = "over"] ELSE row
<1>1. Become(r, jar, [call EXCEPT ![q] = Idle]) /\ UNCHANGED out  BY DEF Lose, Ended
<1>2. call[q].phase = "rotated" => k \in Rows  BY Rest DEF GoodCall
<1>3. /\ r \in [Rows -> Statuses] /\ \A s \in Rows : r[s] \in {row[s], "over"}
      /\ call[q].phase = "rotated" => r[k] # "rotated"
  BY <1>2, Rest DEF Statuses
<1>. HIDE DEF r
<1>. QED  BY <1>1, <1>3, Rest, CallGoesOn

LEMMA LoadStep ==
    ASSUME CookiesInv, NEW t \in Tabs, Load(t) PROVE CookiesInv'
<1>. DEFINE c == [q \in Calls |->
                    IF call[q].tab # t THEN call[q]
                    ELSE IF call[q].phase \in {"denied", "retry"} THEN Idle
                    ELSE [call[q] EXCEPT !.tab = NoTab]]
<1>1. Become(row, jar, c) /\ UNCHANGED out  BY DEF Load
<1>2. ASSUME NEW q \in Calls
      PROVE  /\ c[q] \in Call /\ GoodCall(c[q])
             /\ c[q].new \in {call[q].new, NoRow}
             /\ c[q].cookie \in {call[q].cookie, jar.refresh, NoRow}
             /\ call[q].phase = "rotated"
                  => c[q].phase = "rotated" /\ c[q].cookie = call[q].cookie
             /\ Quiet(call[q]) => Quiet(c[q])
  <2>1. call[q] \in Call /\ GoodCall(call[q])  BY Rest
  <2>2. CASE c[q] = call[q]  BY <2>1, <2>2
  <2>3. CASE c[q] = Idle /\ call[q].phase \in {"denied", "retry"}  BY <2>3, Rest
  <2>4. CASE c[q] = [call[q] EXCEPT !.tab = NoTab]
    <3>1. /\ c[q] \in Call /\ c[q].phase = call[q].phase /\ c[q].new = call[q].new
          /\ c[q].cookie = call[q].cookie
      BY <2>1, <2>4 DEF Call
    <3>. HIDE DEF c
    <3>. QED  BY <2>1, <3>1 DEF GoodCall, Quiet
  <2>. QED  BY <2>2, <2>3, <2>4
<1>3. c \in [Calls -> Call]  BY <1>2
<1>. HIDE DEF c
<1>4. out' => jar = Empty /\ \A q \in Calls : Quiet(c[q])
  BY <1>1, <1>2 DEF CookiesInv, OutInv
<1>5. out' \in BOOLEAN  BY <1>1, Rest
<1>. QED  BY <1>1, <1>2, <1>3, <1>4, <1>5, Rest, NobodyGains

LEMMA JarStep ==
    ASSUME CookiesInv, ExpireAccess \/ ChangeSecret \/ EndElsewhere PROVE CookiesInv'
<1>1. CASE ExpireAccess \/ ChangeSecret
  <2>1. UNCHANGED <<row, call, out>> /\ jar' \in Jar /\ jar'.refresh = jar.refresh
    BY <1>1, Rest DEF ExpireAccess, ChangeSecret, Jar
  <2>2. ~out  BY <1>1 DEF ExpireAccess, ChangeSecret, CookiesInv, OutInv, Empty
  <2>3. NewInv' /\ JarLags'  BY <2>1 DEF CookiesInv, NewInv, JarLags
  <2>. QED  BY <2>1, <2>2, <2>3 DEF CookiesInv, TypesInv, CallsInv, OutInv
<1>2. CASE EndElsewhere
  <2>1. /\ UNCHANGED <<jar, call, out>> /\ row' \in [Rows -> Statuses]
        /\ \A s \in Rows : row'[s] \in {row[s], "over"}
    BY <1>2, RevokedRows DEF EndElsewhere
  <2>2. NewInv'
    BY <2>1, Rest DEF CookiesInv, NewInv, Call
  <2>3. JarLags'
    BY <2>1, Rest DEF CookiesInv, JarLags, Jar
  <2>4. OutInv'
    BY <2>1, Rest DEF CookiesInv, OutInv, Quiet, Dead, Call
  <2>. QED  BY <2>1, <2>2, <2>3, <2>4 DEF CookiesInv, TypesInv, CallsInv
<1>. QED  BY <1>1, <1>2

LEMMA VisitStep ==
    ASSUME CookiesInv, UNCHANGED <<row, jar, call, out>> PROVE CookiesInv'
<1>. QED  BY DEF CookiesInv, TypesInv, CallsInv, NewInv, JarLags, OutInv, Quiet, Dead

LEMMA PagesStep == ASSUME PagesInv, Next PROVE PagesInv'
<1>1. ASSUME NEW t, NEW p \in PageKinds, Send(t, p), UNCHANGED page PROVE PagesInv'
  BY <1>1 DEF Send, PagesInv
<1>2. "login" \in PageKinds /\ "app" \in PageKinds  BY DEF PageKinds
<1>3. UNCHANGED <<page, going>> => PagesInv'  BY DEF PagesInv
<1>4. ASSUME NEW q \in Calls, CallStep(q) \/ Lose(q) PROVE PagesInv'
  BY <1>1, <1>2, <1>3, <1>4 DEF CallStep, Lose, SendRefresh, CheckRefresh, Rotate,
     RefreshAnswered, Retry, LogoutServed, LogoutAnswered, LoginAnswered, GiveUp, DeniedAgain
<1>5. ASSUME NEW q \in Calls, NEW t \in Tabs, Request(q, t) \/ SignOut(q, t) \/ SignIn(q, t)
      PROVE  PagesInv'
  BY <1>3, <1>5 DEF Request, SignOut, SignIn
<1>6. ASSUME NEW t \in Tabs, Visit(t) PROVE PagesInv'  BY <1>1, <1>6 DEF Visit
<1>7. ASSUME NEW t \in Tabs, Load(t) PROVE PagesInv'
  <2>1. Proxied(going[t]) \in PageKinds
    BY <1>7 DEF Load, PagesInv, Proxied, PageKinds
  <2>. QED  BY <1>7, <2>1 DEF Load, PagesInv
<1>8. CASE ExpireAccess \/ ChangeSecret \/ EndElsewhere
  BY <1>3, <1>8 DEF ExpireAccess, ChangeSecret, EndElsewhere
<1>. QED  BY <1>4, <1>5, <1>6, <1>7, <1>8 DEF Next

LEMMA NextInv == IInv /\ [Next]_vars => IInv'
<1>. SUFFICES ASSUME IInv, [Next]_vars PROVE IInv'  OBVIOUS
<1>1. CASE UNCHANGED vars
  BY <1>1, VisitStep DEF vars, IInv, PagesInv
<1>2. CASE Next
  <2>0. CookiesInv  BY DEF IInv
  <2>1. ASSUME NEW q \in Calls, CallStep(q) PROVE CookiesInv'
    BY <2>0, <2>1, SendRefreshStep, CheckRefreshStep, RotateStep, AnsweredStep, RetryStep,
       LogoutServedStep, LogoutAnsweredStep DEF CallStep
  <2>2. ASSUME NEW q \in Calls, Lose(q) PROVE CookiesInv'  BY <2>0, <2>2, LoseStep
  <2>3. ASSUME NEW q \in Calls, NEW t \in Tabs,
               Request(q, t) \/ SignOut(q, t) \/ SignIn(q, t)
        PROVE  CookiesInv'
    BY <2>0, <2>3, RequestStep, SignInStep
  <2>4. ASSUME NEW t \in Tabs, Visit(t) PROVE CookiesInv'
    BY <2>0, <2>4, VisitStep DEF Visit
  <2>5. ASSUME NEW t \in Tabs, Load(t) PROVE CookiesInv'  BY <2>0, <2>5, LoadStep
  <2>6. ASSUME ExpireAccess \/ ChangeSecret \/ EndElsewhere PROVE CookiesInv'
    BY <2>0, <2>6, JarStep
  <2>7. CookiesInv'  BY <1>2, <2>1, <2>2, <2>3, <2>4, <2>5, <2>6 DEF Next
  <2>8. PagesInv'  BY <1>2, PagesStep DEF IInv
  <2>. QED  BY <2>7, <2>8 DEF IInv
<1>. QED  BY <1>1, <1>2

(* Every reachable state has its type: a tab is always on a page, or on its *)
(* way to one (proxy.ts, lib/api.ts).                                       *)
THEOREM TypeCorrectness == Spec => []TypeOK
<1>. QED  BY InitInv, NextInv, InvariantHolds, PTL DEF Spec

(* The jar holds an exchanged refresh cookie only while the answer with its *)
(* successor is on its way, or because it was lost (refresh, lib/api.ts).   *)
THEOREM JarTheorem == Spec => []JarLags
<1>. QED  BY InitInv, NextInv, InvariantHolds, PTL DEF Spec

(* A browser that signed out with nothing under way that signs in stays     *)
(* signed out until someone signs in (logout, refresh of                    *)
(* auth.controller.ts).                                                     *)
THEOREM SignOutTheorem == Spec => []SignOutSticks
<1>. QED  BY InitInv, NextInv, InvariantHolds, PTL DEF Spec

-----------------------------------------------------------------------------
(* Subsequences.  A set of numbers has a least one: stated of sets, it       *)
(* stands for an induction.                                                  *)
LEMMA Least ==
    ASSUME NEW n \in Nat, NEW T, T \subseteq 0 .. n, T # {}
    PROVE  \E x \in T : \A y \in T : x <= y
<1>. DEFINE F == {0 .. i : i \in T}
<1>1. F \subseteq FiniteSubsetsOf(Nat)
  <2>1. \A i \in T : i \in Int /\ 0 .. i \subseteq Nat  OBVIOUS
  <2>2. \A i \in T : IsFiniteSet(0 .. i)  BY <2>1, FS_Interval
  <2>. QED  BY <2>1, <2>2 DEF FiniteSubsetsOf
<1>2. F # {}  OBVIOUS
<1>3. PICK U \in F : \A V \in F : ~ (<<V, U>> \in StrictSubsetOrdering(Nat))
  BY <1>1, <1>2, FS_StrictSubsetOrderingWellFounded, WFMin
<1>4. PICK x \in T : U = 0 .. x  OBVIOUS
<1>5. ASSUME NEW y \in T, y < x  PROVE FALSE
  <2>1. x \in 0 .. n /\ y \in 0 .. n  OBVIOUS
  <2>2. 0 .. y \in F /\ 0 .. y \subseteq 0 .. x /\ x \in 0 .. x /\ x \notin 0 .. y
    BY <1>5, <2>1
  <2>3. 0 .. y \in SUBSET Nat /\ 0 .. x \in SUBSET Nat  BY <2>1
  <2>. QED  BY <1>3, <1>4, <2>2, <2>3 DEF StrictSubsetOrdering
<1>. QED  BY <1>5

LEMMA UpToIs ==
    ASSUME NEW places, NEW i
    PROVE  \A j : j \in UpTo(places, i) <=> j \in places /\ j <= i
<1>. QED  BY DEF UpTo

LEMMA UpToCount ==
    ASSUME NEW n \in Nat, NEW places, \A j \in places : j \in 1 .. n
    PROVE  /\ IsFiniteSet(places) /\ Cardinality(places) \in Nat
           /\ \A i \in 0 .. n : /\ IsFiniteSet(UpTo(places, i))
                                /\ Cardinality(UpTo(places, i)) \in Nat
                                /\ Cardinality(UpTo(places, i)) <= Cardinality(places)
           /\ Cardinality(UpTo(places, 0)) = 0
           /\ UpTo(places, n) = places
           /\ \A i \in 1 .. n : Cardinality(UpTo(places, i)) =
                 IF i \in places THEN Cardinality(UpTo(places, i - 1)) + 1
                 ELSE Cardinality(UpTo(places, i - 1))
<1>0. \A j \in places : j \in Int /\ 1 <= j /\ j <= n  OBVIOUS
<1>1. IsFiniteSet(1 .. n)  BY FS_Interval
<1>2. IsFiniteSet(places)
  <2>1. places \in SUBSET (1 .. n)  OBVIOUS
  <2>. QED  BY <1>1, <2>1, FS_Subset
<1>3. ASSUME NEW i \in 0 .. n
      PROVE  /\ IsFiniteSet(UpTo(places, i)) /\ Cardinality(UpTo(places, i)) \in Nat
             /\ Cardinality(UpTo(places, i)) <= Cardinality(places)
  <2>1. UpTo(places, i) \in SUBSET places  BY DEF UpTo
  <2>2. /\ IsFiniteSet(UpTo(places, i))
        /\ Cardinality(UpTo(places, i)) <= Cardinality(places)
    BY <1>2, <2>1, FS_Subset
  <2>. QED  BY <2>2, FS_CardinalityType
<1>4. UpTo(places, 0) = {}  BY <1>0, UpToIs
<1>5. UpTo(places, n) = places  BY <1>0, UpToIs
<1>6. ASSUME NEW i \in 1 .. n
      PROVE  Cardinality(UpTo(places, i)) =
                 IF i \in places THEN Cardinality(UpTo(places, i - 1)) + 1
                 ELSE Cardinality(UpTo(places, i - 1))
  <2>1. i - 1 \in 0 .. n /\ i \notin UpTo(places, i - 1)  BY DEF UpTo
  <2>2. IsFiniteSet(UpTo(places, i - 1))  BY <1>3, <2>1
  <2>3. CASE i \in places
    <3>1. \A j \in places : j <= i <=> j <= i - 1 \/ j = i  BY <1>0
    <3>2. UpTo(places, i) = UpTo(places, i - 1) \cup {i}  BY <2>3, <3>1 DEF UpTo
    <3>. QED  BY <2>1, <2>2, <2>3, <3>2, FS_AddElement
  <2>4. CASE i \notin places
    <3>1. UpTo(places, i) = UpTo(places, i - 1)  BY <1>0, <2>4, UpToIs
    <3>. QED  BY <2>4, <3>1
  <2>. QED  BY <2>3, <2>4
<1>. QED  BY <1>2, <1>3, <1>4, <1>5, <1>6, FS_CardinalityType, FS_EmptySet

LEMMA PlaceOfCount ==
    ASSUME NEW n \in Nat, NEW places, \A j \in places : j \in 1 .. n,
           NEW k \in 1 .. Cardinality(places)
    PROVE  \E i \in places : Cardinality(UpTo(places, i)) = k
<1>. DEFINE c(i) == Cardinality(UpTo(places, i))
            T == {i \in 0 .. n : c(i) >= k}
<1>0. /\ Cardinality(places) \in Nat /\ \A i \in 0 .. n : c(i) \in Nat
      /\ c(0) = 0 /\ c(n) = Cardinality(places)
      /\ \A i \in 1 .. n : c(i) = IF i \in places THEN c(i - 1) + 1 ELSE c(i - 1)
  BY UpToCount
<1>1. T \subseteq 0 .. n /\ n \in T  BY <1>0
<1>2. PICK x \in T : \A y \in T : x <= y  BY <1>1, Least
<1>. HIDE DEF c
<1>3. x \in 1 .. n  BY <1>0, <1>2
<1>4. x - 1 \in 0 .. n /\ c(x - 1) < k  BY <1>0, <1>2, <1>3
<1>5. x \in places /\ c(x) = k  BY <1>0, <1>2, <1>3, <1>4
<1>. QED  BY <1>5 DEF c

LEMMA CountOfPlace ==
    ASSUME NEW n \in Nat, NEW places, \A j \in places : j \in 1 .. n, NEW i \in places
    PROVE  /\ Cardinality(UpTo(places, i)) \in 1 .. Cardinality(places)
           /\ \A j \in places : Cardinality(UpTo(places, j)) = Cardinality(UpTo(places, i))
                                   => j = i
<1>1. \A j \in places : /\ j \in 0 .. n /\ j \in UpTo(places, j)
                        /\ IsFiniteSet(UpTo(places, j))
                        /\ Cardinality(UpTo(places, j)) \in Nat
                        /\ Cardinality(UpTo(places, j)) <= Cardinality(places)
                        /\ Cardinality(UpTo(places, j)) # 0
  <2>1. \A j \in places : j \in 0 .. n /\ j \in UpTo(places, j)  BY DEF UpTo
  <2>2. \A j \in places : IsFiniteSet(UpTo(places, j))  BY <2>1, UpToCount
  <2>3. \A j \in places : Cardinality(UpTo(places, j)) # 0  BY <2>1, <2>2, FS_EmptySet
  <2>. QED  BY <2>1, <2>2, <2>3, UpToCount
<1>2. ASSUME NEW a \in places, NEW b \in places, a < b
      PROVE  Cardinality(UpTo(places, a)) # Cardinality(UpTo(places, b))
  <2>1. \A j \in places : j \in Int  OBVIOUS
  <2>2. UpTo(places, a) \in SUBSET UpTo(places, b)  BY <1>2, <2>1, UpToIs
  <2>3. b \in UpTo(places, b) /\ b \notin UpTo(places, a)  BY <1>2, <2>1, UpToIs
  <2>. QED  BY <1>1, <2>2, <2>3, FS_Subset
<1>3. \A j \in places : j \in Int /\ i \in Int  OBVIOUS
<1>4. Cardinality(places) \in Nat  BY UpToCount
<1>5. \A j \in places : Cardinality(UpTo(places, j)) = Cardinality(UpTo(places, i)) => j = i
  BY <1>2, <1>3
<1>. QED  BY <1>1, <1>4, <1>5

(* A subsequence is a sequence of the elements at its places.               *)
LEMMA SubsequenceType ==
    ASSUME NEW S, NEW s \in Seq(S), NEW places \in SUBSET DOMAIN s
    PROVE  /\ Subsequence(s, places) \in Seq(S)
           /\ Elements(Subsequence(s, places)) = {s[i] : i \in places}
<1>. DEFINE n == Len(s)
            place(k) == CHOOSE i \in places : Cardinality(UpTo(places, i)) = k
            sub == Subsequence(s, places)
<1>1. n \in Nat /\ DOMAIN s = 1 .. n /\ \A i \in 1 .. n : s[i] \in S  OBVIOUS
<1>2. \A j \in places : j \in 1 .. n  BY <1>1
<1>3. ASSUME NEW k \in 1 .. Cardinality(places)
      PROVE  place(k) \in places /\ Cardinality(UpTo(places, place(k))) = k
  BY <1>1, <1>2, PlaceOfCount
<1>4. Cardinality(places) \in Nat  BY <1>1, <1>2, UpToCount
<1>5. sub = [k \in 1 .. Cardinality(places) |-> s[place(k)]]  BY DEF Subsequence
<1>. HIDE DEF n, place, sub
<1>6. \A k \in 1 .. Cardinality(places) : sub[k] = s[place(k)] /\ s[place(k)] \in S
  BY <1>1, <1>2, <1>3, <1>5
<1>7. sub \in [1 .. Cardinality(places) -> S]  BY <1>5, <1>6
<1>8. sub \in Seq(S) /\ DOMAIN sub = 1 .. Cardinality(places)  BY <1>4, <1>7
<1>9. ASSUME NEW i \in places
      PROVE  \E k \in 1 .. Cardinality(places) : sub[k] = s[i]
  <2>. DEFINE k == Cardinality(UpTo(places, i))
  <2>1. /\ k \in 1 .. Cardinality(places)
        /\ \A j \in places : Cardinality(UpTo(places, j)) = k => j = i
    BY <1>1, <1>2, CountOfPlace
  <2>. HIDE DEF k
  <2>2. place(k) = i  BY <1>3, <2>1
  <2>. QED  BY <1>6, <2>1, <2>2
<1>10. Elements(sub) = {sub[k] : k \in 1 .. Cardinality(places)}  BY <1>8 DEF Elements
<1>11. \A k \in 1 .. Cardinality(places) : \E i \in places : sub[k] = s[i]
  BY <1>3, <1>6
<1>12. {sub[k] : k \in 1 .. Cardinality(places)} = {s[i] : i \in places}
  BY <1>9, <1>11
<1>. QED  BY <1>8, <1>10, <1>12 DEF sub

-----------------------------------------------------------------------------
(* Cached entries, module QueryCache.                                       *)
IsEntry(e) == e \in EntryOf({e.data, e.answer})

(* An entry, where the server has d: the data is d unless the entry says    *)
(* that it need not be, and so is an answer on its way.                     *)
FreshFor(e, d) ==
    /\ e.data # NoData /\ e.phase = "none" /\ ~e.marked /\ ~e.behind => e.data = d
    /\ e.phase = "served" /\ ~e.overtaken => e.answer = d

(* What a page shows and does not fetch is marked only after a failure.     *)
AtRest(e) == e.phase = "none" /\ e.marked => e.failed

LEMMA NewEntryIn == ASSUME NEW D PROVE NewEntry \in EntryOf(D) /\ Want(NewEntry) \in EntryOf(D)
<1>1. NewEntry \in EntryOf(D)  BY DEF NewEntry, EntryOf
<1>2. Restart(NewEntry) \in EntryOf(D)  BY <1>1 DEF Restart, EntryOf
<1>. QED  BY <1>1, <1>2 DEF Want

LEMMA StaysInEntries ==
    ASSUME NEW D, NEW e \in EntryOf(D)
    PROVE  /\ Fail(e) \in EntryOf(D) /\ Want(e) \in EntryOf(D) /\ Outdated(e) \in EntryOf(D)
           /\ Arrive(e) \in EntryOf(D)
           /\ \A d \in D : Serve(e, d) \in EntryOf(D)
           /\ \A b \in BOOLEAN : Invalidate(e, b) \in EntryOf(D)
           /\ \A x \in Opened(e) : x \in EntryOf(D)
<1>1. /\ Fail(e) \in EntryOf(D) /\ Outdated(e) \in EntryOf(D) /\ Restart(e) \in EntryOf(D)
      /\ Arrive(e) \in EntryOf(D) /\ LeftBehind(e) \in EntryOf(D)
      /\ \A d \in D : Serve(e, d) \in EntryOf(D)
  BY DEF Fail, Outdated, Restart, Arrive, NewEntry, LeftBehind, Serve, EntryOf
<1>2. Restart([e EXCEPT !.marked = TRUE]) \in EntryOf(D)  BY DEF Restart, EntryOf
<1>3. \A b \in BOOLEAN : Invalidate(e, b) \in EntryOf(D)  BY <1>1, <1>2 DEF Invalidate
<1>4. Want(e) \in EntryOf(D)  BY <1>1 DEF Want
<1>. QED  BY <1>1, <1>3, <1>4 DEF Opened

LEMMA EntryIn == ASSUME NEW D, NEW e \in EntryOf(D) PROVE IsEntry(e)
<1>. QED  BY DEF IsEntry, EntryOf

LEMMA EntryWith == ASSUME NEW e, NEW d, IsEntry(e) PROVE e \in EntryOf({e.data, e.answer, d})
<1>. QED  BY DEF IsEntry, EntryOf

LEMMA EntryMoves ==
    ASSUME NEW e, NEW d, NEW b \in BOOLEAN, IsEntry(e)
    PROVE  /\ IsEntry(Serve(e, d)) /\ IsEntry(Arrive(e)) /\ IsEntry(Fail(e))
           /\ IsEntry(Want(e)) /\ IsEntry(Outdated(e)) /\ IsEntry(Invalidate(e, b))
<1>. DEFINE D == {e.data, e.answer, d}
<1>1. e \in EntryOf(D) /\ d \in D  BY EntryWith
<1>. HIDE DEF D
<1>. QED  BY <1>1, StaysInEntries, EntryIn

LEMMA FreshMoves ==
    ASSUME NEW e, NEW d, IsEntry(e), FreshFor(e, d)
    PROVE  /\ FreshFor(Serve(e, d), d) /\ FreshFor(Fail(e), d) /\ FreshFor(Want(e), d)
           /\ e.phase = "served" => FreshFor(Arrive(e), d)
<1>. DEFINE D == {e.data, e.answer, d}
<1>1. e \in EntryOf(D) /\ d \in D  BY EntryWith
<1>. HIDE DEF D
<1>2. FreshFor(Serve(e, d), d)  BY <1>1 DEF FreshFor, EntryOf, Serve
<1>3. FreshFor(Fail(e), d)  BY <1>1 DEF FreshFor, EntryOf, Fail
<1>4. FreshFor(Restart(e), d)  BY <1>1 DEF FreshFor, EntryOf, Restart
<1>5. FreshFor(Want(e), d)  BY <1>4 DEF Want
<1>6. e.phase = "served" => FreshFor(Arrive(e), d)
  BY <1>1 DEF FreshFor, EntryOf, Arrive, NewEntry
<1>. QED  BY <1>2, <1>3, <1>5, <1>6

LEMMA FreshAgain ==
    ASSUME NEW e, NEW d, NEW b \in BOOLEAN, IsEntry(e)
    PROVE  FreshFor(Outdated(e), d) /\ FreshFor(Invalidate(e, b), d)
<1>. DEFINE D == {e.data, e.answer, d}
<1>1. e \in EntryOf(D) /\ d \in D  BY EntryWith
<1>. HIDE DEF D
<1>2. FreshFor(Outdated(e), d)  BY <1>1 DEF FreshFor, EntryOf, Outdated
<1>3. FreshFor(LeftBehind(e), d)  BY <1>1 DEF FreshFor, EntryOf, LeftBehind
<1>4. FreshFor(Restart([e EXCEPT !.marked = TRUE]), d)
  BY <1>1 DEF FreshFor, EntryOf, Restart
<1>. QED  BY <1>2, <1>3, <1>4 DEF Invalidate

LEMMA NewIsFresh ==
    ASSUME NEW d
    PROVE  /\ IsEntry(NewEntry) /\ IsEntry(Want(NewEntry))
           /\ FreshFor(NewEntry, d) /\ FreshFor(Want(NewEntry), d) /\ AtRest(Want(NewEntry))
<1>1. IsEntry(NewEntry) /\ FreshFor(NewEntry, d)  BY DEF IsEntry, EntryOf, NewEntry, FreshFor
<1>2. AtRest(Want(NewEntry))  BY DEF NewEntry, Want, Restart, Fetching, AtRest
<1>. QED  BY <1>1, <1>2, EntryMoves, FreshMoves

LEMMA AtRestMoves ==
    ASSUME NEW e, NEW d, IsEntry(e)
    PROVE  /\ AtRest(Serve(e, d)) /\ AtRest(Arrive(e)) /\ AtRest(Fail(e))
           /\ AtRest(Invalidate(e, TRUE))
           /\ AtRest(e) => AtRest(Outdated(e))
           /\ \A x \in Opened(e) : AtRest(x)
<1>. DEFINE D == {e.data, e.answer, d}
<1>0. e \in EntryOf(D) /\ d \in D  BY EntryWith
<1>. HIDE DEF D
<1>1. AtRest(Serve(e, d)) /\ AtRest(Arrive(e)) /\ AtRest(Fail(e))
  BY <1>0 DEF AtRest, EntryOf, Serve, Arrive, NewEntry, Fail
<1>2. AtRest(Restart([e EXCEPT !.marked = TRUE]))  BY <1>0 DEF AtRest, EntryOf, Restart
<1>3. Loading(e) => AtRest(LeftBehind(e))
  BY <1>0 DEF AtRest, EntryOf, LeftBehind, Loading, Fetching
<1>4. AtRest(Invalidate(e, TRUE))  BY <1>2, <1>3 DEF Invalidate
<1>5. AtRest(e) => AtRest(Outdated(e))  BY <1>0 DEF AtRest, EntryOf, Outdated
<1>6. AtRest(Restart(e))  BY <1>0 DEF AtRest, EntryOf, Restart
<1>7. AtRest(Want(e))  BY <1>6 DEF AtRest, Want, Fetching
<1>8. ~e.marked => AtRest(e)  BY DEF AtRest
<1>9. \A x \in Opened(e) : x = Want(e) \/ (x = e /\ ~e.marked)  BY DEF Opened
<1>. QED  BY <1>1, <1>4, <1>5, <1>7, <1>8, <1>9

-----------------------------------------------------------------------------
IsListCall(f) ==
    /\ f \in [phase : {"new", "sent", "done", "refused", "copying", "over"},
              op : {"create", "toggle", "delete"}, link : {f.link},
              status : {f.status}, page : PageNumbers, last : BOOLEAN]
    /\ f.last => f.page > 1

ViewInv ==
    /\ view \in [input : BOOLEAN, search : BOOLEAN, status : {"ALL", "ACTIVE"},
                 page : PageNumbers]
    /\ hurried \in Nat
    /\ PagerIsHonest

ListCallsInv ==
    /\ IsListCall(dialog)
    /\ DOMAIN listCall = ListCalls
    /\ \A c \in ListCalls : IsListCall(listCall[c])

Answered == \A c \in ListCalls : listCall[c].phase \notin {"done", "copying"}

Entries(c) == DOMAIN c = Keys /\ \A k \in Keys : IsEntry(c[k])

AllFresh(c, rows, passed) == \A k \in Keys : FreshFor(c[k], ListIn(k, rows, passed))

CacheInv ==
    /\ Entries(cache)
    /\ AtRest(cache[Key])
    /\ Answered => AllFresh(cache, store, due)

PageInv == ViewInv /\ ListCallsInv /\ CacheInv

LEMMA NumbersOfPages == PageNumbers \subseteq Int /\ 1 \in PageNumbers
<1>. QED  BY LinksPageConstants DEF PageNumbers

LEMMA KeysOfViews ==
    ASSUME NEW v \in [input : BOOLEAN, search : BOOLEAN, status : {"ALL", "ACTIVE"},
                      page : PageNumbers]
    PROVE  KeyOf(v) \in Keys
<1>. QED  BY DEF KeyOf, Keys

LEMMA OpenedAtStays ==
    ASSUME NEW c, Entries(c), NEW k \in Keys, NEW d \in OpenedAt(c, k)
    PROVE  /\ Entries(d) /\ AtRest(d[k])
           /\ \A rows, passed : AllFresh(c, rows, passed) => AllFresh(d, rows, passed)
<1>1. PICK e \in Opened(c[k]) : d = [c EXCEPT ![k] = e]  BY DEF OpenedAt
<1>2. e = c[k] \/ e = Want(c[k])  BY <1>1 DEF Opened
<1>3. DOMAIN d = Keys /\ d[k] = e /\ \A j \in Keys : j # k => d[j] = c[j]
  BY <1>1 DEF Entries
<1>4. IsEntry(c[k])  BY DEF Entries
<1>5. IsEntry(Want(c[k]))  BY <1>4, EntryMoves
<1>6. IsEntry(e) /\ AtRest(e)  BY <1>1, <1>2, <1>4, <1>5, AtRestMoves
<1>7. \A x : FreshFor(c[k], x) => FreshFor(e, x)  BY <1>2, <1>4, FreshMoves
<1>8. ASSUME NEW rows, NEW passed, AllFresh(c, rows, passed)  PROVE AllFresh(d, rows, passed)
  BY <1>3, <1>7, <1>8 DEF AllFresh
<1>. QED  BY <1>3, <1>6, <1>8 DEF Entries

LEMMA OutdateFresh ==
    ASSUME NEW c, Entries(c)
    PROVE  /\ Entries(Outdate(c))
           /\ \A k \in Keys : AtRest(c[k]) => AtRest(Outdate(c)[k])
           /\ \A rows, passed : AllFresh(Outdate(c), rows, passed)
<1>1. \A k \in Keys : IsEntry(c[k]) /\ Outdate(c)[k] = Outdated(c[k])
  BY DEF Entries, Outdate
<1>2. DOMAIN Outdate(c) = Keys  BY DEF Outdate
<1>3. Entries(Outdate(c))  BY <1>1, <1>2, EntryMoves DEF Entries
<1>. QED  BY <1>1, <1>3, FreshAgain, AtRestMoves DEF AllFresh

LEMMA InvalidatedFresh ==
    ASSUME Entries(cache), Key \in Keys
    PROVE  /\ Entries(Invalidated) /\ AtRest(Invalidated[Key])
           /\ \A rows, passed : AllFresh(Invalidated, rows, passed)
<1>1. /\ \A k \in Keys : IsEntry(cache[k]) /\ Invalidated[k] = Invalidate(cache[k], k = Key)
      /\ DOMAIN Invalidated = Keys
  BY DEF Entries, Invalidated
<1>2. \A k \in Keys : (k = Key) \in BOOLEAN  OBVIOUS
<1>3. Entries(Invalidated)  BY <1>1, <1>2, EntryMoves DEF Entries
<1>4. Invalidated[Key] = Invalidate(cache[Key], TRUE)  BY <1>1
<1>5. AtRest(Invalidated[Key])  BY <1>1, <1>4, AtRestMoves
<1>6. ASSUME NEW rows, NEW passed  PROVE AllFresh(Invalidated, rows, passed)
  BY <1>1, <1>2, FreshAgain DEF AllFresh
<1>. QED  BY <1>3, <1>5, <1>6

-----------------------------------------------------------------------------
LEMMA InitPage == PageInit => PageInv
<1>. SUFFICES ASSUME PageInit PROVE PageInv  OBVIOUS
<1>1. /\ view = [input |-> FALSE, search |-> FALSE, status |-> "ALL", page |-> 1]
      /\ dialog = NewListCall /\ hurried = 0
      /\ \A c \in ListCalls : listCall[c] = NewListCall
      /\ DOMAIN listCall = ListCalls /\ DOMAIN cache = Keys
      /\ \A k \in Keys : cache[k] = NewEntry \/ cache[k] = Want(NewEntry)
  BY DEF PageInit
<1>2. ViewInv  BY <1>1, NumbersOfPages DEF ViewInv, PagerIsHonest
<1>3. IsListCall(NewListCall)  BY NumbersOfPages DEF IsListCall, NewListCall
<1>4. ListCallsInv  BY <1>1, <1>3 DEF ListCallsInv
<1>5. \A k \in Keys : \A d : FreshFor(cache[k], d)  BY <1>1, NewIsFresh
<1>6. Entries(cache) /\ AllFresh(cache, store, due)
  BY <1>1, <1>5, NewIsFresh DEF Entries, AllFresh
<1>7. Key \in Keys  BY <1>2, KeysOfViews DEF Key, ViewInv
<1>8. Key = [search |-> FALSE, status |-> "ALL", page |-> 1]  BY <1>1 DEF Key, KeyOf
<1>9. cache[Key] = Want(NewEntry)  BY <1>7, <1>8 DEF PageInit
<1>10. AtRest(cache[Key])  BY <1>9, NewIsFresh
<1>. QED  BY <1>2, <1>4, <1>6, <1>10 DEF PageInv, CacheInv

(* The lists after a step that leaves the server alone, or spoils them all. *)
LEMMA ListsStay ==
    ASSUME CacheInv, UNCHANGED <<store, due>>, Answered' => Answered,
           Entries(cache'), AtRest(cache'[Key']),
           AllFresh(cache, store, due) => AllFresh(cache', store, due)
    PROVE  CacheInv'
<1>. QED  BY DEF CacheInv

LEMMA ListsFresh ==
    ASSUME Entries(cache'), AtRest(cache'[Key']),
           Answered' => \A rows, passed : AllFresh(cache', rows, passed)
    PROVE  CacheInv'
<1>. QED  BY DEF CacheInv

(* One entry that goes on.                                                  *)
LEMMA OneEntry ==
    ASSUME PageInv, NEW k \in Keys, NEW e, IsEntry(e), AtRest(e),
           FreshFor(cache[k], ListIn(k, store, due)) => FreshFor(e, ListIn(k, store, due)),
           cache' = [cache EXCEPT ![k] = e],
           UNCHANGED <<store, due, view, dialog, listCall, hurried>>
    PROVE  PageInv'
<1>1. ViewInv' /\ ListCallsInv'
  BY DEF PageInv, ViewInv, ListCallsInv, PagerIsHonest
<1>2. Key' = Key  BY DEF Key
<1>3. /\ DOMAIN cache' = Keys /\ cache'[k] = e
      /\ \A j \in Keys : j # k => cache'[j] = cache[j]
  BY DEF PageInv, CacheInv, Entries
<1>4. Entries(cache')  BY <1>3 DEF PageInv, CacheInv, Entries
<1>5. Key \in Keys  BY KeysOfViews DEF PageInv, ViewInv, Key
<1>6. AtRest(cache'[Key'])  BY <1>2, <1>3, <1>5 DEF PageInv, CacheInv
<1>7. AllFresh(cache, store, due) => AllFresh(cache', store, due)  BY <1>3 DEF AllFresh
<1>8. Answered' <=> Answered  BY DEF Answered
<1>9. CacheInv'  BY <1>4, <1>6, <1>7, <1>8, ListsStay DEF PageInv
<1>. QED  BY <1>1, <1>9 DEF PageInv

LEMMA ReadingStep == ASSUME PageInv, Reading PROVE PageInv'
<1>1. PICK k \in Keys : ServeList(k) \/ ListArrives(k) \/ ListFails(k)  BY DEF Reading
<1>2. IsEntry(cache[k]) /\ Entries(cache) /\ AtRest(cache[Key])
  BY DEF PageInv, CacheInv, Entries
<1>3. CASE ListArrives(k)
  <2>1. /\ cache[k].phase = "served" /\ cache' = [cache EXCEPT ![k] = Arrive(cache[k])]
        /\ UNCHANGED <<store, due, view, dialog, listCall, hurried>>
    BY <1>3 DEF ListArrives
  <2>. QED  BY <1>2, <2>1, OneEntry, EntryMoves, AtRestMoves, FreshMoves
<1>4. CASE ListFails(k)
  <2>1. /\ cache' = [cache EXCEPT ![k] = Fail(cache[k])]
        /\ UNCHANGED <<store, due, view, dialog, listCall, hurried>>
    BY <1>4 DEF ListFails
  <2>. QED  BY <1>2, <2>1, OneEntry, EntryMoves, AtRestMoves, FreshMoves
<1>5. CASE ServeList(k)
  <2>. DEFINE served == [cache EXCEPT ![k] = Serve(cache[k], ListOf(k))]
  <2>1. CASE cache' = served /\ UNCHANGED <<store, due>>
    <3>1. UNCHANGED <<store, due, view, dialog, listCall, hurried>>
      BY <1>5, <2>1 DEF ServeList
    <3>2. ListOf(k) = ListIn(k, store, due)  BY DEF ListOf
    <3>. QED  BY <1>2, <2>1, <3>1, <3>2, OneEntry, EntryMoves, AtRestMoves, FreshMoves
  <2>2. CASE cache' = Outdate(served)
    <3>1. UNCHANGED <<view, dialog, listCall, hurried>>  BY <1>5 DEF ServeList
    <3>2. ViewInv' /\ ListCallsInv'
      BY <3>1 DEF PageInv, ViewInv, ListCallsInv, PagerIsHonest
    <3>3. Key' = Key /\ Key \in Keys  BY <3>1, KeysOfViews DEF Key, PageInv, ViewInv
    <3>4. /\ DOMAIN served = Keys /\ served[k] = Serve(cache[k], ListOf(k))
          /\ \A j \in Keys : j # k => served[j] = cache[j]
      BY <1>2 DEF Entries
    <3>. HIDE DEF served
    <3>5. Entries(served)  BY <1>2, <3>4, EntryMoves DEF Entries
    <3>6. AtRest(served[Key])  BY <1>2, <3>3, <3>4, AtRestMoves
    <3>7. CacheInv'  BY <2>2, <3>3, <3>5, <3>6, OutdateFresh, ListsFresh
    <3>. QED  BY <3>2, <3>7 DEF PageInv
  <2>. QED  BY <1>5, <2>1, <2>2 DEF ServeList
<1>. QED  BY <1>1, <1>3, <1>4, <1>5

-----------------------------------------------------------------------------
(* The page is turned or filtered: another list is opened.                  *)
LEMMA OpensStep ==
    ASSUME PageInv, ViewInv', UNCHANGED <<store, due, dialog, listCall>>,
           NEW c, Entries(c), AllFresh(cache, store, due) => AllFresh(c, store, due),
           cache' \in OpenedAt(c, Key')
    PROVE  PageInv'
<1>1. ListCallsInv' /\ (Answered' <=> Answered)  BY DEF PageInv, ListCallsInv, Answered
<1>2. Key' \in Keys  BY KeysOfViews DEF ViewInv, Key
<1>3. /\ Entries(cache') /\ AtRest(cache'[Key'])
      /\ AllFresh(c, store, due) => AllFresh(cache', store, due)
  BY <1>2, OpenedAtStays
<1>4. CacheInv'  BY <1>1, <1>3, ListsStay DEF PageInv
<1>. QED  BY <1>1, <1>4 DEF PageInv

LEMMA FilteredStep ==
    ASSUME PageInv, UNCHANGED <<store, due, dialog, listCall>>,
           NEW v \in [input : BOOLEAN, search : BOOLEAN, status : {"ALL", "ACTIVE"},
                      page : PageNumbers],
           Filtered(v)
    PROVE  PageInv'
<1>. DEFINE first == [v EXCEPT !.page = 1]
<1>1. /\ view' = first /\ hurried' = 0
      /\ \E c \in OpenedAt(cache, KeyOf(v)) :
            cache' \in IF v.page = 1 THEN {c} ELSE OpenedAt(c, KeyOf(first))
  BY DEF Filtered
<1>2. /\ first \in [input : BOOLEAN, search : BOOLEAN, status : {"ALL", "ACTIVE"},
                    page : PageNumbers]
      /\ first.page = 1 /\ (v.page = 1 => first = v)
  BY NumbersOfPages
<1>. HIDE DEF first
<1>3. ViewInv'  BY <1>1, <1>2 DEF ViewInv, PagerIsHonest
<1>4. Key' = KeyOf(first)  BY <1>1 DEF Key
<1>5. Entries(cache)  BY DEF PageInv, CacheInv
<1>6. CASE v.page = 1
  <2>1. cache' \in OpenedAt(cache, Key')  BY <1>1, <1>2, <1>4, <1>6
  <2>. QED  BY <1>3, <1>5, <2>1, OpensStep
<1>7. CASE v.page # 1
  <2>1. PICK c \in OpenedAt(cache, KeyOf(v)) : cache' \in OpenedAt(c, Key')
    BY <1>1, <1>4, <1>7
  <2>2. Entries(c) /\ (AllFresh(cache, store, due) => AllFresh(c, store, due))
    BY <1>5, KeysOfViews, OpenedAtStays
  <2>. QED  BY <1>3, <2>1, <2>2, OpensStep
<1>. QED  BY <1>6, <1>7

LEMMA LookingStep == ASSUME PageInv, Looking PROVE PageInv'
<1>1. /\ view \in [input : BOOLEAN, search : BOOLEAN, status : {"ALL", "ACTIVE"},
                   page : PageNumbers]
      /\ view.page \in Int /\ hurried \in Nat /\ view.page + hurried >= 1
      /\ Entries(cache) /\ Key \in Keys
  BY NumbersOfPages, KeysOfViews DEF PageInv, ViewInv, PagerIsHonest, CacheInv, Key
<1>2. CASE Type
  <2>1. /\ view' = [view EXCEPT !.input = ~view.input] /\ UNCHANGED <<cache, dialog, listCall>>
        /\ UNCHANGED <<store, due, hurried>>
    BY <1>2 DEF Type
  <2>2. ViewInv' /\ Key' = Key
    BY <1>1, <2>1 DEF ViewInv, PagerIsHonest, Key, KeyOf
  <2>3. ListCallsInv' /\ CacheInv'
    BY <2>1, <2>2 DEF PageInv, ListCallsInv, CacheInv, Answered
  <2>. QED  BY <2>2, <2>3 DEF PageInv
<1>3. CASE Debounce
  <2>. DEFINE v == [view EXCEPT !.search = view.input]
  <2>1. Filtered(v) /\ UNCHANGED <<store, due, dialog, listCall>>  BY <1>3 DEF Debounce
  <2>2. v \in [input : BOOLEAN, search : BOOLEAN, status : {"ALL", "ACTIVE"},
               page : PageNumbers]
    BY <1>1
  <2>. HIDE DEF v
  <2>. QED  BY <2>1, <2>2, FilteredStep
<1>4. ASSUME NEW s \in {"ALL", "ACTIVE"}, ChooseStatus(s)  PROVE PageInv'
  <2>. DEFINE v == [view EXCEPT !.status = s]
  <2>1. Filtered(v) /\ UNCHANGED <<store, due, dialog, listCall>>  BY <1>4 DEF ChooseStatus
  <2>2. v \in [input : BOOLEAN, search : BOOLEAN, status : {"ALL", "ACTIVE"},
               page : PageNumbers]
    BY <1>1
  <2>. HIDE DEF v
  <2>. QED  BY <2>1, <2>2, FilteredStep
<1>5. CASE RefreshList
  <2>1. cache' = Invalidated /\ UNCHANGED <<store, due, view, dialog, listCall, hurried>>
    BY <1>5 DEF RefreshList
  <2>2. ViewInv' /\ ListCallsInv' /\ Key' = Key
    BY <2>1 DEF PageInv, ViewInv, ListCallsInv, PagerIsHonest, Key
  <2>3. CacheInv'  BY <1>1, <2>1, <2>2, InvalidatedFresh, ListsFresh
  <2>. QED  BY <2>2, <2>3 DEF PageInv
<1>6. ASSUME NEW p, p = view.page - 1 \/ p = view.page + 1, Turn(p)  PROVE PageInv'
  <2>1. /\ p \in PageNumbers /\ view' = [view EXCEPT !.page = p]
        /\ p = view.page - 1 => view.page > 1
        /\ cache' \in OpenedAt(cache, KeyOf(view'))
        /\ UNCHANGED <<store, due, dialog, listCall, hurried>>
    BY <1>1, <1>6 DEF Turn
  <2>2. view'.page = p /\ p + hurried >= 1  BY <1>1, <1>6, <2>1
  <2>3. ViewInv'  BY <1>1, <2>1, <2>2 DEF ViewInv, PagerIsHonest
  <2>. QED  BY <1>1, <2>1, <2>3, OpensStep DEF Key
<1>. QED  BY <1>2, <1>3, <1>4, <1>5, <1>6 DEF Looking

-----------------------------------------------------------------------------
(* The page's own calls.                                                    *)
Phases == {"new", "sent", "done", "refused", "copying", "over"}

LEMMA ListCallMoves ==
    ASSUME NEW f, IsListCall(f), NEW p \in Phases, NEW l
    PROVE  /\ IsListCall([f EXCEPT !.phase = p]) /\ [f EXCEPT !.phase = p].phase = p
           /\ IsListCall([f EXCEPT !.phase = p, !.link = l])
           /\ [f EXCEPT !.phase = p, !.link = l].phase = p
<1>. DEFINE T(L, S) == [phase : Phases, op : {"create", "toggle", "delete"}, link : L,
                        status : S, page : PageNumbers, last : BOOLEAN]
<1>1. f \in T({f.link, l}, {f.status}) /\ (f.last => f.page > 1)  BY DEF IsListCall, Phases
<1>. QED  BY <1>1 DEF IsListCall, Phases

LEMMA NewCalls ==
    ASSUME NEW x, view.page \in PageNumbers
    PROVE  /\ IsListCall(NewListCall) /\ IsListCall(ToggleOf(x)) /\ IsListCall(DeleteOf(x))
<1>1. IsListCall(NewListCall)  BY NumbersOfPages DEF IsListCall, NewListCall
<1>2. IsListCall(ToggleOf(x))  BY NumbersOfPages DEF IsListCall, NewListCall, ToggleOf
<1>3. IsListCall(DeleteOf(x))  BY NumbersOfPages DEF IsListCall, NewListCall, DeleteOf
<1>. QED  BY <1>1, <1>2, <1>3

LEMMA OneCall ==
    ASSUME ListCallsInv, NEW c \in ListCalls, NEW f, IsListCall(f),
           listCall' = [listCall EXCEPT ![c] = f], IsListCall(dialog')
    PROVE  /\ ListCallsInv'
           /\ f.phase \in {"done", "copying"} => ~Answered'
           /\ listCall[c].phase \notin {"done", "copying"} => (Answered' => Answered)
<1>1. /\ DOMAIN listCall' = ListCalls /\ listCall'[c] = f
      /\ \A d \in ListCalls : d # c => listCall'[d] = listCall[d]
  BY DEF ListCallsInv
<1>2. ListCallsInv'  BY <1>1 DEF ListCallsInv
<1>. QED  BY <1>1, <1>2 DEF Answered

(* A step of a call that the page's lists do not see.                       *)
LEMMA QuietStep ==
    ASSUME PageInv, UNCHANGED <<cache, view, hurried>>, ListCallsInv',
           Answered' => Answered /\ UNCHANGED <<store, due>>
    PROVE  PageInv'
<1>1. ViewInv' /\ Key' = Key  BY DEF PageInv, ViewInv, PagerIsHonest, Key
<1>2. CacheInv'  BY <1>1 DEF PageInv, CacheInv
<1>. QED  BY <1>1, <1>2 DEF PageInv

(* A call's next phase.                                                     *)
LEMMA PhaseStep ==
    ASSUME PageInv, NEW c \in ListCalls, NEW p \in Phases,
           listCall' = [listCall EXCEPT ![c].phase = p], UNCHANGED dialog
    PROVE  /\ ListCallsInv'
           /\ p \in {"done", "copying"} => ~Answered'
           /\ listCall[c].phase \notin {"done", "copying"} => (Answered' => Answered)
<1>. DEFINE f == [listCall[c] EXCEPT !.phase = p]
<1>1. listCall' = [listCall EXCEPT ![c] = f]  BY Zenon
<1>2. IsListCall(f) /\ f.phase = p /\ IsListCall(dialog')
  BY ListCallMoves DEF PageInv, ListCallsInv
<1>. HIDE DEF f
<1>. QED  BY <1>1, <1>2, OneCall DEF PageInv

(* The lists are marked after a call, and the page may have been moved.     *)
LEMMA RefreshedStep ==
    ASSUME PageInv, ListCallsInv', ViewInv', cache' \in OpenedAt(Invalidated, Key')
    PROVE  PageInv'
<1>1. Key \in Keys /\ Key' \in Keys /\ Entries(cache)
  BY KeysOfViews DEF PageInv, ViewInv, CacheInv, Key
<1>2. /\ Entries(Invalidated)
      /\ \A rows, passed : AllFresh(Invalidated, rows, passed)
  BY <1>1, InvalidatedFresh
<1>. DEFINE i == Invalidated
<1>3. Entries(i) /\ (\A rows, passed : AllFresh(i, rows, passed)) /\ cache' \in OpenedAt(i, Key')
  BY <1>2
<1>. HIDE DEF i
<1>4. Entries(cache') /\ AtRest(cache'[Key'])
      /\ \A rows, passed : AllFresh(cache', rows, passed)
  BY <1>1, <1>3, OpenedAtStays
<1>5. CacheInv'  BY <1>4, ListsFresh
<1>. QED  BY <1>5 DEF PageInv

LEMMA MarkedStep ==
    ASSUME PageInv, ListCallsInv', UNCHANGED <<view, hurried>>, cache' = Invalidated
    PROVE  PageInv'
<1>1. ViewInv' /\ Key' = Key  BY DEF PageInv, ViewInv, PagerIsHonest, Key
<1>2. Key \in Keys /\ Entries(cache)  BY KeysOfViews DEF PageInv, ViewInv, CacheInv, Key
<1>3. CacheInv'  BY <1>1, <1>2, InvalidatedFresh, ListsFresh
<1>. QED  BY <1>1, <1>3 DEF PageInv

LEMMA SpoiledStep ==
    ASSUME PageInv, ListCallsInv', UNCHANGED <<view, hurried>>, cache' = Outdate(cache)
    PROVE  PageInv'
<1>1. ViewInv' /\ Key' = Key  BY DEF PageInv, ViewInv, PagerIsHonest, Key
<1>2. Key \in Keys /\ Entries(cache) /\ AtRest(cache[Key])
  BY KeysOfViews DEF PageInv, ViewInv, CacheInv, Key
<1>3. CacheInv'  BY <1>1, <1>2, OutdateFresh, ListsFresh
<1>. QED  BY <1>1, <1>3 DEF PageInv

LEMMA AskingStep ==
    ASSUME PageInv, NEW x,
           AskDeactivate(x) \/ AskDelete(x) \/ CancelInList
    PROVE  PageInv'
<1>1. view.page \in PageNumbers  BY DEF PageInv, ViewInv
<1>2. UNCHANGED <<store, due, cache, view, listCall, hurried>>
  BY DEF AskDeactivate, AskDelete, CancelInList, Question
<1>3. ASSUME NEW f, Question(f), IsListCall(f)  PROVE IsListCall(dialog')
  <2>1. dialog' = [f EXCEPT !.phase = "sent"]  BY <1>3 DEF Question
  <2>2. "sent" \in Phases  BY DEF Phases
  <2>. QED  BY <1>3, <2>1, <2>2, ListCallMoves
<1>4. IsListCall(dialog')
  <2>1. CASE CancelInList  BY <1>1, <2>1, NewCalls DEF CancelInList
  <2>2. CASE AskDeactivate(x)  BY <1>1, <1>3, <2>2, NewCalls DEF AskDeactivate
  <2>3. CASE AskDelete(x)  BY <1>1, <1>3, <2>3, NewCalls DEF AskDelete
  <2>. QED  BY <2>1, <2>2, <2>3
<1>5. ListCallsInv' /\ (Answered' <=> Answered)
  BY <1>2, <1>4 DEF PageInv, ListCallsInv, Answered
<1>. QED  BY <1>2, <1>5, QuietStep

LEMMA SendingStep ==
    ASSUME PageInv, NEW c \in ListCalls, NEW x,
           SubmitLink(c) \/ ConfirmInList(c) \/ Activate(c, x)
    PROVE  PageInv'
<1>1. view.page \in PageNumbers /\ ListCallsInv  BY DEF PageInv, ViewInv
<1>2. PICK f : IsListCall(f) /\ SendFromList(c, f)
  BY <1>1, NewCalls DEF SubmitLink, ConfirmInList, Activate, ListCallsInv
<1>. DEFINE g == [f EXCEPT !.phase = "sent"]
<1>3. listCall' = [listCall EXCEPT ![c] = g] /\ listCall[c].phase = "new"
  BY <1>2 DEF SendFromList
<1>4. IsListCall(g)  BY <1>2, ListCallMoves DEF Phases
<1>. HIDE DEF g
<1>5. IsListCall(dialog') /\ UNCHANGED <<store, due, cache, view, hurried>>
  BY <1>1, NewCalls DEF SubmitLink, ConfirmInList, Activate, ListCallsInv
<1>6. ListCallsInv' /\ (Answered' => Answered)  BY <1>1, <1>3, <1>4, <1>5, OneCall
<1>. QED  BY <1>5, <1>6, QuietStep

LEMMA ServingStep ==
    ASSUME PageInv, NEW c \in ListCalls, NEW l,
           \/ ServeCreate(c, l) \/ ServeListToggle(c) \/ ServeListDelete(c)
           \/ RefuseCall(c) \/ ListRefused(c)
    PROVE  PageInv'
<1>1. UNCHANGED <<cache, view, dialog, hurried>>
  BY DEF ServeCreate, ServeListToggle, ServeListDelete, RefuseCall, ListRefused
<1>2. CASE ServeCreate(c, l)
  <2>. DEFINE f == [listCall[c] EXCEPT !.phase = "done", !.link = l]
  <2>1. listCall' = [listCall EXCEPT ![c].phase = "done", ![c].link = l]
    BY <1>2 DEF ServeCreate
  <2>2. listCall' = [listCall EXCEPT ![c] = f]  BY <2>1, Zenon
  <2>3. IsListCall(listCall[c]) /\ IsListCall(dialog') /\ "done" \in Phases
    BY <1>1 DEF PageInv, ListCallsInv, Phases
  <2>4. IsListCall(f) /\ f.phase = "done"  BY <2>3, ListCallMoves
  <2>. HIDE DEF f
  <2>5. ListCallsInv' /\ ~Answered'  BY <2>2, <2>3, <2>4, OneCall DEF PageInv
  <2>. QED  BY <1>1, <2>5, QuietStep
<1>3. CASE ServeListToggle(c) \/ ServeListDelete(c)
  <2>1. listCall' = [listCall EXCEPT ![c].phase = "done"]
    BY <1>3 DEF ServeListToggle, ServeListDelete
  <2>2. ListCallsInv' /\ ~Answered'  BY <1>1, <2>1, PhaseStep DEF Phases
  <2>. QED  BY <1>1, <2>2, QuietStep
<1>4. CASE RefuseCall(c)
  <2>1. /\ listCall' = [listCall EXCEPT ![c].phase = "refused"] /\ listCall[c].phase = "sent"
        /\ UNCHANGED <<store, due>>
    BY <1>4 DEF RefuseCall
  <2>2. ListCallsInv' /\ (Answered' => Answered)  BY <1>1, <2>1, PhaseStep DEF Phases
  <2>. QED  BY <1>1, <2>1, <2>2, QuietStep
<1>5. CASE ListRefused(c)
  <2>1. /\ listCall' = [listCall EXCEPT ![c].phase = "over"] /\ listCall[c].phase = "refused"
        /\ UNCHANGED <<store, due>>
    BY <1>5 DEF ListRefused, ListOver
  <2>2. ListCallsInv' /\ (Answered' => Answered)  BY <1>1, <2>1, PhaseStep DEF Phases
  <2>. QED  BY <1>1, <2>1, <2>2, QuietStep
<1>. QED  BY <1>2, <1>3, <1>4, <1>5

LEMMA CreatedStep == ASSUME PageInv, NEW c \in ListCalls, Created(c) PROVE PageInv'
<1>1. /\ view' = [input |-> FALSE, search |-> FALSE, status |-> "ALL", page |-> 1]
      /\ cache' \in IF view' = view THEN {cache} ELSE OpenedAt(cache, KeyOf(view'))
      /\ hurried' = 0 /\ UNCHANGED <<store, due, dialog>>
      /\ listCall' = [listCall EXCEPT ![c].phase = "copying"]
  BY DEF Created
<1>2. ViewInv'  BY <1>1, NumbersOfPages DEF ViewInv, PagerIsHonest
<1>3. ListCallsInv' /\ ~Answered'  BY <1>1, PhaseStep DEF Phases
<1>4. Key' \in Keys /\ Key' = KeyOf(view') /\ Entries(cache) /\ AtRest(cache[Key])
  BY <1>2, KeysOfViews DEF ViewInv, Key, PageInv, CacheInv
<1>5. Entries(cache') /\ AtRest(cache'[Key'])
  <2>1. CASE view' = view
    <3>1. cache' = cache /\ Key' = Key  BY <1>1, <2>1 DEF Key
    <3>. QED  BY <1>4, <3>1
  <2>2. CASE view' # view
    <3>1. cache' \in OpenedAt(cache, Key')  BY <1>1, <1>4, <2>2
    <3>. QED  BY <1>4, <3>1, OpenedAtStays
  <2>. QED  BY <2>1, <2>2
<1>6. CacheInv'  BY <1>3, <1>5, ListsFresh
<1>. QED  BY <1>2, <1>3, <1>6 DEF PageInv

LEMMA DeletedStep == ASSUME PageInv, NEW c \in ListCalls, Deleted(c) PROVE PageInv'
<1>1. listCall' = [listCall EXCEPT ![c].phase = "over"] /\ UNCHANGED dialog
  BY DEF Deleted, ListOver
<1>2. ListCallsInv'  BY <1>1, PhaseStep DEF Phases
<1>3. CASE ~listCall[c].last
  <2>1. cache' = Invalidated /\ UNCHANGED <<view, hurried>>  BY <1>3 DEF Deleted
  <2>. QED  BY <1>2, <2>1, MarkedStep
<1>4. CASE listCall[c].last
  <2>1. /\ view.page - 1 \in PageNumbers /\ view' = [view EXCEPT !.page = view.page - 1]
        /\ cache' \in OpenedAt(Invalidated, KeyOf(view'))
        /\ hurried' = IF view.page = listCall[c].page THEN hurried ELSE hurried + 1
    BY <1>4 DEF Deleted
  <2>2. /\ view \in [input : BOOLEAN, search : BOOLEAN, status : {"ALL", "ACTIVE"},
                     page : PageNumbers]
        /\ view.page \in Int /\ hurried \in Nat /\ view.page + hurried >= 1
        /\ listCall[c].page > 1
    BY <1>4, NumbersOfPages DEF PageInv, ViewInv, PagerIsHonest, ListCallsInv, IsListCall
  <2>3. /\ view' \in [input : BOOLEAN, search : BOOLEAN, status : {"ALL", "ACTIVE"},
                      page : PageNumbers]
        /\ view'.page = view.page - 1
    BY <2>1, <2>2
  <2>4. hurried' \in Nat /\ view.page - 1 + hurried' >= 1  BY <2>1, <2>2
  <2>5. ViewInv'  BY <2>3, <2>4 DEF ViewInv, PagerIsHonest
  <2>6. cache' \in OpenedAt(Invalidated, Key')  BY <2>1 DEF Key
  <2>. QED  BY <1>2, <2>5, <2>6, RefreshedStep
<1>. QED  BY <1>3, <1>4

LEMMA AnsweringStep ==
    ASSUME PageInv, NEW c \in ListCalls,
           ListAnswerLost(c) \/ Created(c) \/ Copied(c) \/ Toggled(c) \/ Deleted(c)
    PROVE  PageInv'
<1>1. CASE ListAnswerLost(c)
  <2>1. /\ listCall' = [listCall EXCEPT ![c].phase = "over"]
        /\ cache' = Outdate(cache) /\ UNCHANGED <<view, dialog, hurried>>
    BY <1>1 DEF ListAnswerLost, ListOver
  <2>2. ListCallsInv'  BY <2>1, PhaseStep DEF Phases
  <2>. QED  BY <2>1, <2>2, SpoiledStep
<1>2. CASE Copied(c) \/ Toggled(c)
  <2>1. /\ listCall' = [listCall EXCEPT ![c].phase = "over"]
        /\ cache' = Invalidated /\ UNCHANGED <<view, dialog, hurried>>
    BY <1>2 DEF Copied, Toggled, ListOver
  <2>2. ListCallsInv'  BY <2>1, PhaseStep DEF Phases
  <2>. QED  BY <2>1, <2>2, MarkedStep
<1>. QED  BY <1>1, <1>2, CreatedStep, DeletedStep

LEMMA ChangingStep == ASSUME PageInv, Changing PROVE PageInv'
<1>1. CASE \/ CancelInList
           \/ \E i \in DOMAIN ListRows : AskDeactivate(ListRows[i]) \/ AskDelete(ListRows[i])
  BY <1>1, AskingStep
<1>2. CASE \E c \in ListCalls :
              \/ SubmitLink(c) \/ ConfirmInList(c)
              \/ \E i \in DOMAIN ListRows : Activate(c, ListRows[i])
  BY <1>2, SendingStep
<1>3. CASE \E c \in ListCalls :
              \/ \E l \in PageLinks : ServeCreate(c, l)
              \/ ServeListToggle(c) \/ ServeListDelete(c) \/ RefuseCall(c) \/ ListRefused(c)
  BY <1>3, ServingStep
<1>4. CASE \E c \in ListCalls :
              ListAnswerLost(c) \/ Created(c) \/ Copied(c) \/ Toggled(c) \/ Deleted(c)
  BY <1>4, AnsweringStep
<1>. QED  BY <1>1, <1>2, <1>3, <1>4 DEF Changing

LEMMA PageStep == ASSUME PageInv, [PageNext]_pageVars PROVE PageInv'
<1>1. ASSUME NEW l, BecomesDue(l)  PROVE PageInv'
  <2>1. cache' = Outdate(cache) /\ UNCHANGED <<view, dialog, listCall, hurried>>
    BY <1>1 DEF BecomesDue
  <2>2. ListCallsInv'  BY <2>1 DEF PageInv, ListCallsInv
  <2>. QED  BY <2>1, <2>2, SpoiledStep
<1>2. CASE UNCHANGED pageVars
  <2>1. UNCHANGED <<store, due, cache, view, dialog, listCall, hurried>>
    BY <1>2 DEF pageVars
  <2>2. ListCallsInv' /\ (Answered' <=> Answered)
    BY <2>1 DEF PageInv, ListCallsInv, Answered
  <2>. QED  BY <2>1, <2>2, QuietStep
<1>. QED  BY <1>1, <1>2, ReadingStep, LookingStep, ChangingStep DEF PageNext

LEMMA PageHolds == PageSpec => []PageInv
<1>. QED  BY InitPage, PageStep, PTL DEF PageSpec

(* The pager never shows a page below the first, except once for each       *)
(* deletion of a page's last link that was answered on another page.        *)
THEOREM PagerTheorem == PageSpec => []PagerIsHonest
<1>1. PageInv => PagerIsHonest  BY DEF PageInv, ViewInv
<1>. QED  BY <1>1, PageHolds, PTL

(* Once the page's calls are answered, what it shows at rest is what the    *)
(* server has, unless the list was overtaken by what the page is not told.  *)
THEOREM ListTheorem == PageSpec => []ListIsCurrent
<1>1. PageInv => ListIsCurrent
  <2>. SUFFICES ASSUME PageInv,
                       Shown.data # NoData, ~Fetching(Shown), ~Shown.failed,
                       Answered, ~Shown.behind
                PROVE  Shown.data = ListOf(Key)
    BY DEF ListIsCurrent, Answered
  <2>1. Key \in Keys  BY KeysOfViews DEF PageInv, ViewInv, Key
  <2>2. FreshFor(Shown, ListOf(Key)) /\ AtRest(Shown)
    BY <2>1 DEF PageInv, CacheInv, AllFresh, Shown, ListOf
  <2>. QED  BY <2>2 DEF FreshFor, AtRest, Fetching
<1>. QED  BY <1>1, PageHolds, PTL

-----------------------------------------------------------------------------
(* The types of the page of links.                                          *)
LEMMA Products == \A a, b \in Nat : a * b \in Nat
<1>. QED  OBVIOUS

LEMMA SliceType ==
    ASSUME NEW S, NEW s \in Seq(S), NEW skip \in Nat, NEW take \in Nat
    PROVE  Slice(s, skip, take) \in BoundedSeq(S, take)
<1>. DEFINE m == IF Len(s) - skip > take THEN take
                 ELSE IF Len(s) - skip > 0 THEN Len(s) - skip ELSE 0
<1>1. /\ Len(s) \in Nat /\ m \in 0 .. take
      /\ \A i \in 1 .. Len(s) : s[i] \in S
      /\ \A i \in 1 .. m : skip + i \in 1 .. Len(s)
  OBVIOUS
<1>2. 1 .. (IF Len(s) - skip > take THEN take ELSE Len(s) - skip) = 1 .. m
  BY <1>1
<1>3. Slice(s, skip, take) = [i \in 1 .. m |-> s[skip + i]]  BY <1>2 DEF Slice
<1>. HIDE DEF m
<1>4. Slice(s, skip, take) \in [1 .. m -> S]  BY <1>1, <1>3
<1>. QED  BY <1>1, <1>4 DEF BoundedSeq, SeqOf

LEMMA BoundedMap ==
    ASSUME NEW S, NEW T, NEW n \in Nat, NEW s \in BoundedSeq(S, n), NEW t,
           t = [i \in DOMAIN s |-> t[i]], \A i \in DOMAIN s : s[i] \in S => t[i] \in T
    PROVE  t \in BoundedSeq(T, n)
<1>1. PICK m \in 0 .. n : s \in [1 .. m -> S]  BY DEF BoundedSeq, SeqOf
<1>2. t \in [1 .. m -> T]  BY <1>1
<1>. QED  BY <1>1, <1>2 DEF BoundedSeq, SeqOf

LEMMA BoundedAt ==
    ASSUME NEW S, NEW n \in Nat, NEW s \in BoundedSeq(S, n), NEW i \in DOMAIN s
    PROVE  s[i] \in S
<1>. QED  BY DEF BoundedSeq, SeqOf

LEMMA SequenceMap ==
    ASSUME NEW S, NEW s \in Seq(S), NEW t,
           t = [i \in DOMAIN s |-> t[i]], \A i \in DOMAIN s : s[i] \in S => t[i] \in S
    PROVE  t \in Seq(S)
<1>1. Len(s) \in Nat /\ DOMAIN s = 1 .. Len(s) /\ \A i \in 1 .. Len(s) : s[i] \in S  OBVIOUS
<1>2. t \in [1 .. Len(s) -> S]  BY <1>1
<1>. QED  BY <1>1, <1>2

LEMMA CurrentType == ASSUME NEW x \in Items, NEW passed PROVE Current(x, passed) \in Items
<1>. QED  BY DEF Current, Items, ListStatuses

(* What getUserLinks answers for a page that is not below the first.        *)
LEMMA ListInType ==
    ASSUME NEW k \in Keys, k.page >= 0, NEW rows \in Seq(Items), NEW passed
    PROVE  ListIn(k, rows, passed) \in Page
<1>. DEFINE places == {i \in DOMAIN rows : Wanted(k, rows[i])}
            skip == (AskedPage(k) - 1) * PageSize
            shown == RowsOf(k, rows)
            t == [i \in DOMAIN shown |-> Current(shown[i], passed)]
<1>1. PageSize \in Nat  BY LinksPageConstants
<1>2. AskedPage(k) \in Nat \ {0}
  <2>1. k.page \in Int  BY NumbersOfPages DEF Keys
  <2>. QED  BY <2>1 DEF AskedPage
<1>3. places \in SUBSET DOMAIN rows  OBVIOUS
<1>4. Chosen(k, rows) = Subsequence(rows, places)  BY DEF Chosen
<1>5. skip \in Nat
  <2>1. AskedPage(k) - 1 \in Nat  BY <1>2
  <2>. QED  BY <1>1, <2>1, Products
<1>6. shown = Slice(Chosen(k, rows), skip, PageSize)  BY DEF RowsOf
<1>7. ListIn(k, rows, passed) =
        [rows |-> t, page |-> AskedPage(k), total |-> Len(Chosen(k, rows))]
  BY DEF ListIn
<1>. HIDE DEF places, skip, shown
<1>8. Chosen(k, rows) \in Seq(Items)  BY <1>3, <1>4, SubsequenceType
<1>9. shown \in BoundedSeq(Items, PageSize)  BY <1>1, <1>5, <1>6, <1>8, SliceType
<1>10. /\ t = [i \in DOMAIN shown |-> t[i]]
       /\ \A i \in DOMAIN shown : shown[i] \in Items => t[i] \in Items
  BY CurrentType
<1>. HIDE DEF t
<1>11. t \in BoundedSeq(Items, PageSize)  BY <1>1, <1>9, <1>10, BoundedMap
<1>12. Len(Chosen(k, rows)) \in Nat  BY <1>8
<1>. QED  BY <1>2, <1>7, <1>11, <1>12 DEF Page

LEMMA TypedLists ==
    ASSUME NEW c \in [Keys -> EntryOf(Page)], NEW k \in Keys
    PROVE  /\ \A e \in EntryOf(Page) : [c EXCEPT ![k] = e] \in [Keys -> EntryOf(Page)]
           /\ Outdate(c) \in [Keys -> EntryOf(Page)]
           /\ \A d \in OpenedAt(c, k) : d \in [Keys -> EntryOf(Page)]
<1>1. \A j \in Keys : c[j] \in EntryOf(Page)  OBVIOUS
<1>2. \A e \in EntryOf(Page) : [c EXCEPT ![k] = e] \in [Keys -> EntryOf(Page)]  OBVIOUS
<1>3. Outdate(c) \in [Keys -> EntryOf(Page)]  BY <1>1, StaysInEntries DEF Outdate
<1>4. \A e \in Opened(c[k]) : e \in EntryOf(Page)  BY <1>1, StaysInEntries
<1>. QED  BY <1>2, <1>3, <1>4 DEF OpenedAt

LEMMA TypedInvalidated ==
    ASSUME cache \in [Keys -> EntryOf(Page)]
    PROVE  Invalidated \in [Keys -> EntryOf(Page)]
<1>1. \A k \in Keys : cache[k] \in EntryOf(Page) /\ (k = Key) \in BOOLEAN  OBVIOUS
<1>2. \A k \in Keys : Invalidate(cache[k], k = Key) \in EntryOf(Page)
  BY <1>1, StaysInEntries
<1>. QED  BY <1>2 DEF Invalidated

LEMMA PageInitTypes == PageInit => PageTypeOK
<1>. SUFFICES ASSUME PageInit PROVE PageTypeOK  OBVIOUS
<1>1. store \in Seq(Items)  BY LinksPageConstants DEF PageInit
<1>2. born \subseteq PageLinks /\ due \subseteq PageLinks
  <2>1. \A i \in DOMAIN store : store[i] \in Items  BY <1>1
  <2>2. LinksOf(store) \subseteq PageLinks  BY <2>1 DEF LinksOf, Items
  <2>. QED  BY <2>2 DEF PageInit
<1>3. cache \in [Keys -> EntryOf(Page)]  BY NewEntryIn DEF PageInit
<1>4. NewListCall \in ListCall
  BY NumbersOfPages DEF NewListCall, ListCall, ListStatuses
<1>5. ViewInv  BY InitPage DEF PageInv
<1>. QED  BY <1>1, <1>2, <1>3, <1>4, <1>5 DEF PageInit, PageTypeOK, ViewInv

(* The server's side.                                                       *)
LEMMA StoreTypes ==
    ASSUME PageTypeOK, [PageNext]_pageVars
    PROVE  store' \in Seq(Items) /\ due' \subseteq PageLinks /\ born' \subseteq PageLinks
<1>0. store \in Seq(Items) /\ due \subseteq PageLinks /\ born \subseteq PageLinks
  BY DEF PageTypeOK
<1>1. CASE UNCHANGED <<store, due, born>>  BY <1>0, <1>1
<1>2. ASSUME NEW k \in Keys, ServeList(k)
      PROVE  store' \in Seq(Items) /\ due' \subseteq PageLinks /\ born' \subseteq PageLinks
  <2>. DEFINE met == Met(ListOf(k))
              t == [i \in DOMAIN store |->
                      IF store[i].link \in met THEN Current(store[i], due) ELSE store[i]]
  <2>1. born' = born /\ (UNCHANGED <<store, due>> \/ (store' = t /\ due' = due \ met))
    BY <1>2 DEF ServeList
  <2>. HIDE DEF met
  <2>2. /\ t = [i \in DOMAIN store |-> t[i]]
        /\ \A i \in DOMAIN store : store[i] \in Items => t[i] \in Items
    BY CurrentType
  <2>. HIDE DEF t
  <2>3. t \in Seq(Items)  BY <1>0, <2>2, SequenceMap
  <2>. QED  BY <1>0, <2>1, <2>3
<1>3. ASSUME NEW c \in ListCalls, NEW l \in PageLinks, ServeCreate(c, l)
      PROVE  store' \in Seq(Items) /\ due' \subseteq PageLinks /\ born' \subseteq PageLinks
  <2>1. [link |-> l, status |-> "ACTIVE"] \in Items  BY DEF Items, ListStatuses
  <2>. QED  BY <1>0, <1>3, <2>1 DEF ServeCreate
<1>4. ASSUME NEW c \in ListCalls, ServeListToggle(c)
      PROVE  store' \in Seq(Items) /\ due' \subseteq PageLinks /\ born' \subseteq PageLinks
  <2>. DEFINE t == Write(listCall[c].link, listCall[c].status)
  <2>1. listCall[c].status \in ListStatuses  BY DEF PageTypeOK, ListCall
  <2>2. /\ t = [i \in DOMAIN store |-> t[i]]
        /\ \A i \in DOMAIN store : store[i] \in Items => t[i] \in Items
    BY <2>1 DEF Write, Items
  <2>3. store' = t /\ UNCHANGED <<due, born>>  BY <1>4 DEF ServeListToggle
  <2>. HIDE DEF t
  <2>. QED  BY <1>0, <2>2, <2>3, SequenceMap
<1>5. ASSUME NEW c \in ListCalls, ServeListDelete(c)
      PROVE  store' \in Seq(Items) /\ due' \subseteq PageLinks /\ born' \subseteq PageLinks
  <2>. DEFINE places == {i \in DOMAIN store : store[i].link # listCall[c].link}
  <2>1. store' = Subsequence(store, places) /\ UNCHANGED <<due, born>>
    BY <1>5 DEF ServeListDelete, Without
  <2>2. places \in SUBSET DOMAIN store  OBVIOUS
  <2>. HIDE DEF places
  <2>. QED  BY <1>0, <2>1, <2>2, SubsequenceType
<1>6. ASSUME NEW l \in PageLinks, BecomesDue(l)
      PROVE  store' \in Seq(Items) /\ due' \subseteq PageLinks /\ born' \subseteq PageLinks
  BY <1>0, <1>6 DEF BecomesDue
<1>7. CASE Looking
  <2>1. UNCHANGED <<store, due, born>>
    BY <1>7 DEF Looking, Type, Debounce, ChooseStatus, Turn, RefreshList
  <2>. QED  BY <1>1, <2>1
<1>8. CASE Reading  BY <1>1, <1>2, <1>8 DEF Reading, ListArrives, ListFails
<1>9. CASE Changing
  <2>1. ASSUME NEW x, AskDeactivate(x) \/ AskDelete(x)  PROVE UNCHANGED <<store, due, born>>
    BY <2>1 DEF AskDeactivate, AskDelete, Question
  <2>2. ASSUME NEW c \in ListCalls, NEW x, Activate(c, x)  PROVE UNCHANGED <<store, due, born>>
    BY <2>2 DEF Activate
  <2>3. ASSUME NEW c \in ListCalls,
               \/ SubmitLink(c) \/ ConfirmInList(c) \/ RefuseCall(c) \/ ListRefused(c)
               \/ ListAnswerLost(c) \/ Created(c) \/ Copied(c) \/ Toggled(c) \/ Deleted(c)
        PROVE  UNCHANGED <<store, due, born>>
    BY <2>3 DEF SubmitLink, ConfirmInList, RefuseCall, ListRefused, ListAnswerLost,
                Created, Copied, Toggled, Deleted
  <2>4. CASE CancelInList  BY <1>1, <2>4 DEF CancelInList
  <2>. QED  BY <1>1, <1>3, <1>4, <1>5, <1>9, <2>1, <2>2, <2>3, <2>4 DEF Changing
<1>. QED  BY <1>1, <1>6, <1>7, <1>8, <1>9 DEF PageNext, pageVars

(* The cached lists.                                                        *)
LEMMA FilteredTypes ==
    ASSUME cache \in [Keys -> EntryOf(Page)],
           NEW v \in [input : BOOLEAN, search : BOOLEAN, status : {"ALL", "ACTIVE"},
                      page : PageNumbers],
           Filtered(v)
    PROVE  cache' \in [Keys -> EntryOf(Page)]
<1>. DEFINE first == [v EXCEPT !.page = 1]
<1>1. \E c \in OpenedAt(cache, KeyOf(v)) :
         cache' \in IF v.page = 1 THEN {c} ELSE OpenedAt(c, KeyOf(first))
  BY DEF Filtered
<1>2. first \in [input : BOOLEAN, search : BOOLEAN, status : {"ALL", "ACTIVE"},
                 page : PageNumbers]
  BY NumbersOfPages
<1>. HIDE DEF first
<1>3. PICK c \in OpenedAt(cache, KeyOf(v)) : cache' = c \/ cache' \in OpenedAt(c, KeyOf(first))
  BY <1>1
<1>4. c \in [Keys -> EntryOf(Page)]  BY KeysOfViews, TypedLists
<1>. QED  BY <1>2, <1>3, <1>4, KeysOfViews, TypedLists

LEMMA ListsTypes ==
    ASSUME PageInv, PageTypeOK, [PageNext]_pageVars, ViewInv'
    PROVE  cache' \in [Keys -> EntryOf(Page)]
<1>0. /\ cache \in [Keys -> EntryOf(Page)] /\ store \in Seq(Items)
      /\ view \in [input : BOOLEAN, search : BOOLEAN, status : {"ALL", "ACTIVE"},
                   page : PageNumbers]
  BY DEF PageTypeOK
<1>1. KeyOf(view') \in Keys  BY KeysOfViews DEF ViewInv
<1>2. Invalidated \in [Keys -> EntryOf(Page)]  BY <1>0, TypedInvalidated
<1>3. Outdate(cache) \in [Keys -> EntryOf(Page)]  BY <1>0, <1>1, TypedLists
<1>4. CASE Reading
  <2>1. PICK k \in Keys : ServeList(k) \/ ListArrives(k) \/ ListFails(k)
    BY <1>4 DEF Reading
  <2>2. cache[k] \in EntryOf(Page)  BY <1>0
  <2>3. CASE ListArrives(k) \/ ListFails(k)
    BY <1>0, <2>2, <2>3, StaysInEntries, TypedLists DEF ListArrives, ListFails
  <2>4. CASE ServeList(k)
    <3>. DEFINE served == [cache EXCEPT ![k] = Serve(cache[k], ListOf(k))]
    <3>1. k.page >= 0 /\ (cache' = served \/ cache' = Outdate(served))
      BY <2>4 DEF ServeList
    <3>2. ListOf(k) \in Page  BY <1>0, <3>1, ListInType DEF ListOf
    <3>3. Serve(cache[k], ListOf(k)) \in EntryOf(Page)  BY <2>2, <3>2, StaysInEntries
    <3>4. served \in [Keys -> EntryOf(Page)]  BY <1>0, <3>3, TypedLists
    <3>. HIDE DEF served
    <3>. QED  BY <3>1, <3>4, TypedLists
  <2>. QED  BY <2>1, <2>3, <2>4
<1>5. CASE Looking
  <2>1. CASE Type  BY <1>0, <2>1 DEF Type
  <2>2. CASE RefreshList  BY <1>2, <2>2 DEF RefreshList
  <2>3. CASE Debounce
    <3>. DEFINE v == [view EXCEPT !.search = view.input]
    <3>1. Filtered(v)  BY <2>3 DEF Debounce
    <3>2. v \in [input : BOOLEAN, search : BOOLEAN, status : {"ALL", "ACTIVE"},
                 page : PageNumbers]
      BY <1>0
    <3>. HIDE DEF v
    <3>. QED  BY <1>0, <3>1, <3>2, FilteredTypes
  <2>4. ASSUME NEW s \in {"ALL", "ACTIVE"}, ChooseStatus(s)
        PROVE  cache' \in [Keys -> EntryOf(Page)]
    <3>. DEFINE v == [view EXCEPT !.status = s]
    <3>1. Filtered(v)  BY <2>4 DEF ChooseStatus
    <3>2. v \in [input : BOOLEAN, search : BOOLEAN, status : {"ALL", "ACTIVE"},
                 page : PageNumbers]
      BY <1>0
    <3>. HIDE DEF v
    <3>. QED  BY <1>0, <3>1, <3>2, FilteredTypes
  <2>5. ASSUME NEW p, Turn(p)  PROVE cache' \in [Keys -> EntryOf(Page)]
    <3>1. cache' \in OpenedAt(cache, KeyOf(view'))  BY <2>5 DEF Turn
    <3>. QED  BY <1>0, <1>1, <3>1, TypedLists
  <2>. QED  BY <1>5, <2>1, <2>2, <2>3, <2>4, <2>5 DEF Looking
<1>6. CASE Changing
  <2>1. ASSUME NEW x, AskDeactivate(x) \/ AskDelete(x)  PROVE cache' = cache
    BY <2>1 DEF AskDeactivate, AskDelete, Question
  <2>2. ASSUME NEW c \in ListCalls, NEW x, Activate(c, x)  PROVE cache' = cache
    BY <2>2 DEF Activate
  <2>3. ASSUME NEW c \in ListCalls, NEW l, ServeCreate(c, l)  PROVE cache' = cache
    BY <2>3 DEF ServeCreate
  <2>4. ASSUME NEW c \in ListCalls,
               \/ SubmitLink(c) \/ ConfirmInList(c) \/ RefuseCall(c) \/ ListRefused(c)
               \/ ServeListToggle(c) \/ ServeListDelete(c)
        PROVE  cache' = cache
    BY <2>4 DEF SubmitLink, ConfirmInList, RefuseCall, ListRefused, ServeListToggle,
                ServeListDelete
  <2>5. CASE CancelInList  BY <1>0, <2>5 DEF CancelInList
  <2>6. ASSUME NEW c \in ListCalls, ListAnswerLost(c) \/ Copied(c) \/ Toggled(c)
        PROVE  cache' = Outdate(cache) \/ cache' = Invalidated
    BY <2>6 DEF ListAnswerLost, Copied, Toggled
  <2>7. ASSUME NEW c \in ListCalls, Created(c)
        PROVE  cache' = cache \/ cache' \in OpenedAt(cache, KeyOf(view'))
    BY <2>7 DEF Created
  <2>8. ASSUME NEW c \in ListCalls, Deleted(c)
        PROVE  cache' = Invalidated \/ cache' \in OpenedAt(Invalidated, KeyOf(view'))
    BY <2>8 DEF Deleted
  <2>9. \A d \in OpenedAt(cache, KeyOf(view')) \cup OpenedAt(Invalidated, KeyOf(view')) :
           d \in [Keys -> EntryOf(Page)]
    BY <1>0, <1>1, <1>2, TypedLists
  <2>10. \/ cache' \in {cache, Outdate(cache), Invalidated}
         \/ cache' \in OpenedAt(cache, KeyOf(view')) \cup OpenedAt(Invalidated, KeyOf(view'))
    BY <1>6, <2>1, <2>2, <2>3, <2>4, <2>5, <2>6, <2>7, <2>8 DEF Changing, CancelInList
  <2>. QED  BY <1>0, <1>2, <1>3, <2>9, <2>10
<1>7. ASSUME NEW l, BecomesDue(l)  PROVE cache' = Outdate(cache)  BY <1>7 DEF BecomesDue
<1>8. CASE UNCHANGED pageVars  BY <1>0, <1>8 DEF pageVars
<1>. QED  BY <1>3, <1>4, <1>5, <1>6, <1>7, <1>8 DEF PageNext

(* The question and the calls.                                              *)
LEMMA RowsTyped ==
    ASSUME PageTypeOK, NEW i \in DOMAIN ListRows
    PROVE  ListRows[i] \in Items
<1>1. Shown \in EntryOf(Page)  BY KeysOfViews DEF PageTypeOK, Shown, Key
<1>2. Shown.data \in Page  BY <1>1 DEF ListRows, EntryOf
<1>3. /\ Shown.data.rows \in BoundedSeq(Items, PageSize) /\ PageSize \in Nat
      /\ i \in DOMAIN Shown.data.rows /\ ListRows[i] = Shown.data.rows[i]
  BY <1>2, LinksPageConstants DEF Page, ListRows
<1>. QED  BY <1>3, BoundedAt

LEMMA AskedTyped ==
    ASSUME PageTypeOK, NEW x \in Items
    PROVE  ToggleOf(x) \in ListCall /\ DeleteOf(x) \in ListCall /\ NewListCall \in ListCall
<1>1. view.page \in PageNumbers /\ x.link \in PageLinks  BY DEF PageTypeOK, Items
<1>2. NewListCall \in ListCall
  BY NumbersOfPages DEF NewListCall, ListCall, ListStatuses
<1>3. ToggleOf(x) \in ListCall
  BY <1>1, NumbersOfPages DEF ToggleOf, NewListCall, ListCall, ListStatuses
<1>4. DeleteOf(x) \in ListCall
  BY <1>1, NumbersOfPages DEF DeleteOf, NewListCall, ListCall, ListStatuses
<1>. QED  BY <1>2, <1>3, <1>4

LEMMA SentTyped ==
    ASSUME NEW f \in ListCall, NEW p \in Phases, NEW l \in PageLinks
    PROVE  [f EXCEPT !.phase = p] \in ListCall /\ [f EXCEPT !.phase = p, !.link = l] \in ListCall
<1>. QED  BY DEF ListCall, Phases

LEMMA ListCallTypes ==
    ASSUME PageTypeOK, [PageNext]_pageVars
    PROVE  dialog' \in ListCall /\ listCall' \in [ListCalls -> ListCall]
<1>. DEFINE Typed == dialog' \in ListCall /\ listCall' \in [ListCalls -> ListCall]
<1>0. /\ dialog \in ListCall /\ listCall \in [ListCalls -> ListCall]
      /\ \A c \in ListCalls : listCall[c] \in ListCall
  BY DEF PageTypeOK
<1>1. NewListCall \in ListCall
  BY NumbersOfPages DEF NewListCall, ListCall, ListStatuses
<1>2. CASE UNCHANGED <<dialog, listCall>>  BY <1>0, <1>2
<1>3. CASE Reading
  <2>1. UNCHANGED <<dialog, listCall>>
    BY <1>3 DEF Reading, ServeList, ListArrives, ListFails
  <2>. QED  BY <1>2, <2>1
<1>4. CASE Looking
  <2>1. UNCHANGED <<dialog, listCall>>
    BY <1>4 DEF Looking, Type, Debounce, ChooseStatus, Turn, RefreshList
  <2>. QED  BY <1>2, <2>1
<1>5. CASE \E l \in PageLinks : BecomesDue(l)
  <2>1. UNCHANGED <<dialog, listCall>>  BY <1>5 DEF BecomesDue
  <2>. QED  BY <1>2, <2>1
<1>6. ASSUME NEW i \in DOMAIN ListRows, AskDeactivate(ListRows[i]) \/ AskDelete(ListRows[i])
      PROVE  Typed
  <2>1. ListRows[i] \in Items  BY RowsTyped
  <2>2. PICK f \in ListCall : dialog' = [f EXCEPT !.phase = "sent"] /\ UNCHANGED listCall
    BY <1>6, <2>1, AskedTyped DEF AskDeactivate, AskDelete, Question
  <2>3. [f EXCEPT !.phase = "sent"] \in ListCall  BY DEF ListCall
  <2>. QED  BY <1>0, <2>2, <2>3
<1>7. CASE CancelInList  BY <1>0, <1>1, <1>7 DEF CancelInList
<1>8. ASSUME NEW c \in ListCalls, NEW f \in ListCall, SendFromList(c, f),
             dialog' \in {dialog, NewListCall}
      PROVE  Typed
  <2>1. [f EXCEPT !.phase = "sent"] \in ListCall  BY DEF ListCall
  <2>2. listCall' = [listCall EXCEPT ![c] = [f EXCEPT !.phase = "sent"]]
    BY <1>8 DEF SendFromList
  <2>. QED  BY <1>0, <1>1, <1>8, <2>1, <2>2
<1>9. ASSUME NEW c \in ListCalls, SubmitLink(c) \/ ConfirmInList(c)  PROVE Typed
  <2>1. CASE SubmitLink(c)
    <3>1. SendFromList(c, NewListCall) /\ dialog' = dialog  BY <2>1 DEF SubmitLink
    <3>. QED  BY <1>1, <1>8, <3>1
  <2>2. CASE ConfirmInList(c)
    <3>1. SendFromList(c, dialog) /\ dialog' = NewListCall  BY <2>2 DEF ConfirmInList
    <3>. QED  BY <1>0, <1>8, <3>1
  <2>. QED  BY <1>9, <2>1, <2>2
<1>10. ASSUME NEW c \in ListCalls, NEW i \in DOMAIN ListRows, Activate(c, ListRows[i])
       PROVE  Typed
  <2>1. ToggleOf(ListRows[i]) \in ListCall  BY RowsTyped, AskedTyped
  <2>2. SendFromList(c, ToggleOf(ListRows[i])) /\ dialog' = dialog  BY <1>10 DEF Activate
  <2>. QED  BY <1>8, <2>1, <2>2
<1>11. ASSUME NEW c \in ListCalls, NEW p \in Phases, UNCHANGED dialog,
              listCall' = [listCall EXCEPT ![c].phase = p]
       PROVE  Typed
  <2>1. [listCall[c] EXCEPT !.phase = p] \in ListCall  BY <1>0 DEF ListCall, Phases
  <2>2. listCall' = [listCall EXCEPT ![c] = [listCall[c] EXCEPT !.phase = p]]  BY <1>11
  <2>. QED  BY <1>0, <1>11, <2>1, <2>2
<1>12. ASSUME NEW c \in ListCalls, NEW l \in PageLinks, ServeCreate(c, l)  PROVE Typed
  <2>1. [listCall[c] EXCEPT !.phase = "done", !.link = l] \in ListCall
    BY <1>0 DEF ListCall
  <2>2. listCall' = [listCall EXCEPT ![c] = [listCall[c] EXCEPT !.phase = "done", !.link = l]]
    BY <1>0, <1>12 DEF ServeCreate
  <2>3. dialog' = dialog  BY <1>12 DEF ServeCreate
  <2>. QED  BY <1>0, <2>1, <2>2, <2>3
<1>13. ASSUME NEW c \in ListCalls,
              \/ ServeListToggle(c) \/ ServeListDelete(c) \/ RefuseCall(c)
              \/ ListRefused(c) \/ ListAnswerLost(c)
              \/ Created(c) \/ Copied(c) \/ Toggled(c) \/ Deleted(c)
       PROVE  Typed
  <2>1. dialog' = dialog
    BY <1>13 DEF ServeListToggle, ServeListDelete, RefuseCall, ListRefused, ListAnswerLost,
                 Created, Copied, Toggled, Deleted
  <2>2. \E p \in Phases : listCall' = [listCall EXCEPT ![c].phase = p]
    BY <1>13 DEF ServeListToggle, ServeListDelete, RefuseCall, ListRefused, ListAnswerLost,
                 Created, Copied, Toggled, Deleted, ListOver, Phases
  <2>. QED  BY <1>11, <2>1, <2>2
<1>14. CASE Changing
  <2>1. CASE \/ CancelInList
             \/ \E i \in DOMAIN ListRows : AskDeactivate(ListRows[i]) \/ AskDelete(ListRows[i])
    BY <1>6, <1>7, <2>1
  <2>2. CASE \E c \in ListCalls :
                \/ SubmitLink(c) \/ ConfirmInList(c)
                \/ \E i \in DOMAIN ListRows : Activate(c, ListRows[i])
    BY <1>9, <1>10, <2>2
  <2>3. CASE \E c \in ListCalls :
                \/ \E l \in PageLinks : ServeCreate(c, l)
                \/ ServeListToggle(c) \/ ServeListDelete(c) \/ RefuseCall(c)
                \/ ListRefused(c) \/ ListAnswerLost(c)
                \/ Created(c) \/ Copied(c) \/ Toggled(c) \/ Deleted(c)
    BY <1>12, <1>13, <2>3
  <2>. QED  BY <1>14, <2>1, <2>2, <2>3 DEF Changing
<1>15. Typed
  BY <1>2, <1>3, <1>4, <1>5, <1>14 DEF PageNext, pageVars, Typed
<1>. QED  BY <1>15 DEF Typed

(* Every list that is cached, and every call, has its type: with the lists  *)
(* no longer than a page (getUserLinks of links.service.ts).                *)
THEOREM PageTypesTheorem == PageSpec => []PageTypeOK
<1>1. PageInit => PageInv /\ PageTypeOK  BY InitPage, PageInitTypes
<1>2. PageInv /\ PageTypeOK /\ [PageNext]_pageVars => PageInv' /\ PageTypeOK'
  <2>. SUFFICES ASSUME PageInv, PageTypeOK, [PageNext]_pageVars
                PROVE  PageInv' /\ PageTypeOK'
    OBVIOUS
  <2>1. PageInv' /\ ViewInv'  BY PageStep DEF PageInv
  <2>. QED  BY <2>1, StoreTypes, ListsTypes, ListCallTypes DEF PageTypeOK, ViewInv
<1>. QED  BY <1>1, <1>2, PTL DEF PageSpec

-----------------------------------------------------------------------------
(* The administration of users, module AdminUsers: the roles, and the       *)
(* cached lists and details.                                                *)
IsUpdate(f) ==
    f \in [phase : {"new", "sent", "checked", "done", "refused", "settling", "over"},
           op : {"update", "revoke"}, id : {f.id}, disabled : {f.disabled}]

IsAccount(f) == f \in [admin : {f.admin}, disabled : {f.disabled}]

(* What a checked suspension has been checked for.                          *)
Checked(f, users, promoted) ==
    f.phase = "checked" /\ f.op = "update" /\ f.disabled =>
        (f.id \in Users /\ users[f.id].admin => f.id \in promoted)

SureInv == IsUpdate(sure) /\ sure.phase \in {"new", "sent"}

UpdatesInv == DOMAIN update = AdminCalls /\ \A a \in AdminCalls : IsUpdate(update[a])

AccountsInv ==
    /\ DOMAIN account = Users
    /\ \A u \in Users : IsAccount(account[u])
    /\ \A a \in AdminCalls : Checked(update[a], account, late)
    /\ AdminsStayEnabled

AdminEntries(lists, infos) ==
    /\ DOMAIN lists = ListKeys /\ \A k \in ListKeys : IsEntry(lists[k])
    /\ DOMAIN infos = Users /\ \A u \in Users : IsEntry(infos[u])

AdminFresh(lists, infos, users) ==
    /\ \A k \in ListKeys : FreshFor(lists[k], UserPageIn(k, users))
    /\ \A u \in Users : FreshFor(infos[u], SummaryIn(u, users))

UpdatesAnswered == \A a \in AdminCalls : update[a].phase # "done"

AdminCacheInv ==
    /\ AdminEntries(userLists, details)
    /\ UpdatesAnswered => AdminFresh(userLists, details, account)

AdminInv == UpdatesInv /\ AccountsInv /\ AdminCacheInv

LEMMA InitAdmin == AdminInit => AdminInv
<1>. SUFFICES ASSUME AdminInit PROVE AdminInv  OBVIOUS
<1>1. /\ DOMAIN update = AdminCalls /\ \A a \in AdminCalls : update[a] = NewUpdate
      /\ DOMAIN account = Users
      /\ \A u \in Users : account[u] = [admin |-> u \in FirstAdmins, disabled |-> FALSE]
      /\ DOMAIN userLists = ListKeys /\ DOMAIN details = Users
      /\ \A k \in ListKeys : userLists[k] = NewEntry \/ userLists[k] = Want(NewEntry)
      /\ \A u \in Users : details[u] = NewEntry
  BY DEF AdminInit
<1>2. /\ IsUpdate(NewUpdate) /\ NewUpdate.phase = "new"  BY DEF IsUpdate, NewUpdate
<1>3. UpdatesInv  BY <1>1, <1>2 DEF UpdatesInv
<1>4. \A u \in Users : IsAccount(account[u]) /\ ~account[u].disabled
  BY <1>1 DEF IsAccount
<1>5. AccountsInv  BY <1>1, <1>2, <1>4 DEF AccountsInv, Checked, AdminsStayEnabled
<1>6. AdminCacheInv
  BY <1>1, NewIsFresh DEF AdminCacheInv, AdminEntries, AdminFresh
<1>. QED  BY <1>3, <1>5, <1>6 DEF AdminInv

(* A step that leaves the accounts and the page's calls alone.              *)
LEMMA LookStep ==
    ASSUME AdminInv, UNCHANGED <<account, update, late>>,
           AdminEntries(userLists', details'),
           AdminFresh(userLists, details, account) => AdminFresh(userLists', details', account)
    PROVE  AdminInv'
<1>1. UpdatesInv' /\ AccountsInv'
  BY DEF AdminInv, UpdatesInv, AccountsInv, AdminsStayEnabled
<1>2. AdminCacheInv'  BY DEF AdminInv, AdminCacheInv, UpdatesAnswered
<1>. QED  BY <1>1, <1>2 DEF AdminInv

LEMMA OneList ==
    ASSUME AdminInv, UNCHANGED <<account, update, late, details>>,
           NEW k \in ListKeys, NEW e, IsEntry(e),
           FreshFor(userLists[k], UserPageIn(k, account)) => FreshFor(e, UserPageIn(k, account)),
           userLists' = [userLists EXCEPT ![k] = e]
    PROVE  AdminInv'
<1>1. /\ DOMAIN userLists' = ListKeys /\ userLists'[k] = e
      /\ \A j \in ListKeys : j # k => userLists'[j] = userLists[j]
  BY DEF AdminInv, AdminCacheInv, AdminEntries
<1>2. AdminEntries(userLists', details')
  BY <1>1 DEF AdminInv, AdminCacheInv, AdminEntries
<1>3. AdminFresh(userLists, details, account) => AdminFresh(userLists', details', account)
  BY <1>1 DEF AdminFresh
<1>. QED  BY <1>2, <1>3, LookStep

LEMMA OneDetail ==
    ASSUME AdminInv, UNCHANGED <<account, update, late, userLists>>,
           NEW u \in Users, NEW e, IsEntry(e),
           FreshFor(details[u], SummaryIn(u, account)) => FreshFor(e, SummaryIn(u, account)),
           details' = [details EXCEPT ![u] = e]
    PROVE  AdminInv'
<1>1. /\ DOMAIN details' = Users /\ details'[u] = e
      /\ \A j \in Users : j # u => details'[j] = details[j]
  BY DEF AdminInv, AdminCacheInv, AdminEntries
<1>2. AdminEntries(userLists', details')
  BY <1>1 DEF AdminInv, AdminCacheInv, AdminEntries
<1>3. AdminFresh(userLists, details, account) => AdminFresh(userLists', details', account)
  BY <1>1 DEF AdminFresh
<1>. QED  BY <1>2, <1>3, LookStep

LEMMA StepOfRequest ==
    ASSUME NEW x, NEW d, IsEntry(x), NEW e \in AdminStepOf(x, d)
    PROVE  IsEntry(e) /\ (FreshFor(x, d) => FreshFor(e, d))
<1>1. e = Serve(x, d) \/ e = Fail(x) \/ (x.phase = "served" /\ e = Arrive(x))
  BY DEF AdminStepOf
<1>2. IsEntry(Serve(x, d)) /\ IsEntry(Fail(x)) /\ IsEntry(Arrive(x))  BY EntryMoves
<1>. QED  BY <1>1, <1>2, FreshMoves

LEMMA OpenedStays ==
    ASSUME NEW x, IsEntry(x), NEW e \in Opened(x)
    PROVE  IsEntry(e) /\ \A d : FreshFor(x, d) => FreshFor(e, d)
<1>1. e = x \/ e = Want(x)  BY DEF Opened
<1>2. IsEntry(Want(x))  BY EntryMoves
<1>. QED  BY <1>1, <1>2, FreshMoves

LEMMA FetchingStep ==
    ASSUME AdminInv,
           \/ \E k \in ListKeys : FetchUsers(k)
           \/ \E u \in Users : FetchDetail(u)
    PROVE  AdminInv'
<1>1. /\ \A k \in ListKeys : IsEntry(userLists[k])
      /\ \A u \in Users : IsEntry(details[u])
  BY DEF AdminInv, AdminCacheInv, AdminEntries
<1>2. ASSUME NEW k \in ListKeys, FetchUsers(k)  PROVE AdminInv'
  <2>1. PICK e \in AdminStepOf(userLists[k], UserPageIn(k, account)) :
            userLists' = [userLists EXCEPT ![k] = e]
    BY <1>2 DEF FetchUsers, UserPageOf
  <2>2. UNCHANGED <<account, update, late, details>>  BY <1>2 DEF FetchUsers
  <2>. QED  BY <1>1, <2>1, <2>2, StepOfRequest, OneList
<1>3. ASSUME NEW u \in Users, FetchDetail(u)  PROVE AdminInv'
  <2>1. PICK e \in AdminStepOf(details[u], SummaryIn(u, account)) :
            details' = [details EXCEPT ![u] = e]
    BY <1>3 DEF FetchDetail, SummaryOf
  <2>2. UNCHANGED <<account, update, late, userLists>>  BY <1>3 DEF FetchDetail
  <2>. QED  BY <1>1, <2>1, <2>2, StepOfRequest, OneDetail
<1>. QED  BY <1>2, <1>3

LEMMA PageMoves ==
    ASSUME AdminInv, NEW k, OpenUsers(k), UNCHANGED <<account, update, late, details>>
    PROVE  AdminInv'
<1>1. PICK e \in Opened(userLists[k]) : userLists' = [userLists EXCEPT ![k] = e]
  BY DEF OpenUsers
<1>2. CASE k \in ListKeys
  <2>1. IsEntry(userLists[k])  BY <1>2 DEF AdminInv, AdminCacheInv, AdminEntries
  <2>. QED  BY <1>1, <1>2, <2>1, OpenedStays, OneList
<1>3. CASE k \notin ListKeys
  <2>1. /\ DOMAIN userLists' = ListKeys
        /\ \A j \in ListKeys : userLists'[j] = userLists[j]
    BY <1>1, <1>3 DEF AdminInv, AdminCacheInv, AdminEntries
  <2>2. AdminEntries(userLists', details')
    BY <2>1 DEF AdminInv, AdminCacheInv, AdminEntries
  <2>3. AdminFresh(userLists, details, account) => AdminFresh(userLists', details', account)
    BY <2>1 DEF AdminFresh
  <2>. QED  BY <2>2, <2>3, LookStep
<1>. QED  BY <1>2, <1>3

(* All entries are marked, or spoiled by what the page is not told.         *)
LEMMA AllAgain ==
    ASSUME AdminEntries(userLists, details), AdminInvalidated \/ AllOutdated
    PROVE  /\ AdminEntries(userLists', details')
           /\ \A users : AdminFresh(userLists', details', users)
<1>1. CASE AllOutdated
  <2>1. /\ DOMAIN userLists' = ListKeys /\ DOMAIN details' = Users
        /\ \A k \in ListKeys : userLists'[k] = Outdated(userLists[k])
        /\ \A u \in Users : details'[u] = Outdated(details[u])
    BY <1>1 DEF AllOutdated
  <2>2. \A e : IsEntry(e) => IsEntry(Outdated(e)) /\ \A d : FreshFor(Outdated(e), d)
    BY EntryMoves, FreshAgain
  <2>. QED  BY <2>1, <2>2 DEF AdminEntries, AdminFresh
<1>2. CASE AdminInvalidated
  <2>1. /\ DOMAIN userLists' = ListKeys /\ DOMAIN details' = Users
        /\ \A k \in ListKeys : userLists'[k] = Invalidate(userLists[k], k = UserListKey)
        /\ \A u \in Users : details'[u] = Invalidate(details[u], u = looking.selected)
    BY <1>2 DEF AdminInvalidated
  <2>2. ASSUME NEW k \in ListKeys
        PROVE  IsEntry(userLists'[k]) /\ \A d : FreshFor(userLists'[k], d)
    <3>. DEFINE b == k = UserListKey
    <3>1. /\ b \in BOOLEAN /\ IsEntry(userLists[k])
          /\ userLists'[k] = Invalidate(userLists[k], b)
      BY <2>1 DEF AdminEntries
    <3>. HIDE DEF b
    <3>. QED  BY <3>1, EntryMoves, FreshAgain
  <2>3. ASSUME NEW u \in Users
        PROVE  IsEntry(details'[u]) /\ \A d : FreshFor(details'[u], d)
    <3>. DEFINE b == u = looking.selected
    <3>1. /\ b \in BOOLEAN /\ IsEntry(details[u])
          /\ details'[u] = Invalidate(details[u], b)
      BY <2>1 DEF AdminEntries
    <3>. HIDE DEF b
    <3>. QED  BY <3>1, EntryMoves, FreshAgain
  <2>. QED  BY <2>1, <2>2, <2>3 DEF AdminEntries, AdminFresh
<1>. QED  BY <1>1, <1>2

LEMMA BrowsingStep ==
    ASSUME AdminInv,
           \/ \E s \in AccountFilters : Filter(s)
           \/ \E p : TurnTo(p)
           \/ \E u \in Users : Select(u)
           \/ RetryUsers
           \/ \E x : AskToggle(x) \/ AskRevocation(x)
    PROVE  AdminInv'
<1>1. CASE \E s \in AccountFilters : Filter(s)
  BY <1>1, PageMoves DEF Filter, LookAt
<1>2. CASE \E p : TurnTo(p)
  BY <1>2, PageMoves DEF TurnTo, LookAt
<1>3. ASSUME NEW u \in Users, Select(u)  PROVE AdminInv'
  <2>1. PICK e \in Opened(details[u]) : details' = [details EXCEPT ![u] = e]
    BY <1>3 DEF Select
  <2>2. UNCHANGED <<account, update, late, userLists>>  BY <1>3 DEF Select, LookAt
  <2>3. IsEntry(details[u])  BY DEF AdminInv, AdminCacheInv, AdminEntries
  <2>. QED  BY <2>1, <2>2, <2>3, OpenedStays, OneDetail
<1>4. CASE RetryUsers
  <2>1. ShownUsers.failed /\ userLists' = [userLists EXCEPT ![UserListKey] = Want(ShownUsers)]
    BY <1>4 DEF RetryUsers, ShownUsers
  <2>2. UNCHANGED <<account, update, late, details>>
    BY <1>4 DEF RetryUsers, AdminUnchanged
  <2>3. CASE UserListKey \in ListKeys
    <3>1. IsEntry(ShownUsers)  BY <2>3 DEF AdminInv, AdminCacheInv, AdminEntries, ShownUsers
    <3>2. IsEntry(Want(ShownUsers))  BY <3>1, EntryMoves
    <3>. QED  BY <2>1, <2>2, <2>3, <3>1, <3>2, FreshMoves, OneList DEF ShownUsers
  <2>4. CASE UserListKey \notin ListKeys
    <3>1. /\ DOMAIN userLists' = ListKeys
          /\ \A j \in ListKeys : userLists'[j] = userLists[j]
      BY <2>1, <2>4 DEF AdminInv, AdminCacheInv, AdminEntries
    <3>2. AdminEntries(userLists', details')
      BY <2>2, <3>1 DEF AdminInv, AdminCacheInv, AdminEntries
    <3>3. AdminFresh(userLists, details, account) => AdminFresh(userLists', details', account)
      BY <2>2, <3>1 DEF AdminFresh
    <3>. QED  BY <2>2, <3>2, <3>3, LookStep
  <2>. QED  BY <2>3, <2>4
<1>5. CASE \E x : AskToggle(x) \/ AskRevocation(x)
  <2>1. UNCHANGED <<account, update, late, userLists, details>>
    BY <1>5 DEF AskToggle, AskRevocation, Wonder
  <2>2. AdminEntries(userLists', details')  BY <2>1 DEF AdminInv, AdminCacheInv
  <2>. QED  BY <2>1, <2>2, LookStep
<1>. QED  BY <1>1, <1>2, <1>3, <1>4, <1>5

-----------------------------------------------------------------------------
(* The calls of the page, at the server and answered.                       *)
LEMMA UpdateMoves ==
    ASSUME AdminInv, NEW a \in AdminCalls,
           NEW p \in {"new", "sent", "checked", "done", "refused", "settling", "over"},
           update' = [update EXCEPT ![a].phase = p]
    PROVE  /\ UpdatesInv'
           /\ update'[a].phase = p /\ update'[a].op = update[a].op
           /\ update'[a].id = update[a].id /\ update'[a].disabled = update[a].disabled
           /\ \A b \in AdminCalls : b # a => update'[b] = update[b]
           /\ p = "done" => ~UpdatesAnswered'
           /\ update[a].phase # "done" => (UpdatesAnswered' => UpdatesAnswered)
<1>. DEFINE f == [update[a] EXCEPT !.phase = p]
<1>1. update' = [update EXCEPT ![a] = f]  BY Zenon
<1>2. IsUpdate(update[a]) /\ DOMAIN update = AdminCalls  BY DEF AdminInv, UpdatesInv
<1>3. /\ IsUpdate(f) /\ f.phase = p /\ f.op = update[a].op
      /\ f.id = update[a].id /\ f.disabled = update[a].disabled
  BY <1>2 DEF IsUpdate
<1>. HIDE DEF f
<1>4. /\ DOMAIN update' = AdminCalls /\ update'[a] = f
      /\ \A b \in AdminCalls : b # a => update'[b] = update[b]
  BY <1>1, <1>2
<1>5. UpdatesInv'  BY <1>3, <1>4 DEF AdminInv, UpdatesInv
<1>. QED  BY <1>3, <1>4, <1>5 DEF UpdatesAnswered

LEMMA CheckUpdateStep ==
    ASSUME AdminInv, NEW a \in AdminCalls, CheckUpdate(a)
    PROVE  AdminInv'
<1>1. /\ UNCHANGED <<account, late, userLists, details>> /\ update[a].phase = "sent"
  BY DEF CheckUpdate, AdminUnchanged
<1>. DEFINE p == IF Passes /\ (update[a].op = "update" => Spares(a)) THEN "checked"
                 ELSE "refused"
<1>2. update' = [update EXCEPT ![a].phase = p] /\ p \in {"checked", "refused"}
  BY DEF CheckUpdate
<1>3. p = "checked" => (update[a].op = "update" => Spares(a))  OBVIOUS
<1>. HIDE DEF p
<1>4. /\ UpdatesInv'
      /\ update'[a].phase = p /\ update'[a].op = update[a].op
      /\ update'[a].id = update[a].id /\ update'[a].disabled = update[a].disabled
      /\ \A b \in AdminCalls : b # a => update'[b] = update[b]
      /\ UpdatesAnswered' => UpdatesAnswered
  BY <1>1, <1>2, UpdateMoves
<1>5. Checked(update'[a], account, late)
  BY <1>2, <1>3, <1>4 DEF Checked, Spares
<1>6. AccountsInv'
  BY <1>1, <1>4, <1>5 DEF AdminInv, AccountsInv, AdminsStayEnabled
<1>7. AdminCacheInv'  BY <1>1, <1>4 DEF AdminInv, AdminCacheInv
<1>. QED  BY <1>4, <1>6, <1>7 DEF AdminInv

LEMMA WriteUpdateStep ==
    ASSUME AdminInv, NEW a \in AdminCalls, WriteUpdate(a)
    PROVE  AdminInv'
<1>1. /\ UNCHANGED <<late, userLists, details>> /\ update[a].phase = "checked"
      /\ update' = [update EXCEPT ![a].phase = "done"]
      /\ account' = IF update[a].op = "revoke" THEN account
                    ELSE [account EXCEPT ![update[a].id].disabled = update[a].disabled]
  BY DEF WriteUpdate, AdminUnchanged
<1>2. /\ UpdatesInv' /\ ~UpdatesAnswered' /\ update'[a].phase = "done"
      /\ \A b \in AdminCalls : b # a => update'[b] = update[b]
  BY <1>1, UpdateMoves
<1>3. /\ DOMAIN account = Users /\ DOMAIN account' = Users
      /\ \A u \in Users : IsAccount(account[u])
  BY <1>1 DEF AdminInv, AccountsInv
<1>4. ASSUME NEW u \in Users
      PROVE  /\ IsAccount(account'[u])
             /\ account'[u].admin = account[u].admin
             /\ \/ account'[u].disabled = account[u].disabled
                \/ /\ u = update[a].id /\ update[a].op # "revoke"
                   /\ account'[u].disabled = update[a].disabled
  <2>. DEFINE g == [account[u] EXCEPT !.disabled = update[a].disabled]
  <2>1. account'[u] = account[u] \/ (u = update[a].id /\ update[a].op # "revoke"
                                       /\ account'[u] = g)
    BY <1>1, <1>3
  <2>2. /\ IsAccount(g) /\ g.admin = account[u].admin
        /\ g.disabled = update[a].disabled
    BY <1>3 DEF IsAccount
  <2>. HIDE DEF g
  <2>. QED  BY <1>3, <2>1, <2>2
<1>5. ASSUME NEW u \in Users, account'[u].admin, account'[u].disabled  PROVE u \in late'
  <2>1. CASE account'[u].disabled = account[u].disabled
    BY <1>1, <1>4, <1>5, <2>1 DEF AdminInv, AccountsInv, AdminsStayEnabled
  <2>2. CASE /\ u = update[a].id /\ update[a].op # "revoke"
             /\ account'[u].disabled = update[a].disabled
    <3>1. update[a].op = "update"  BY <2>2 DEF AdminInv, UpdatesInv, IsUpdate
    <3>. QED  BY <1>1, <1>4, <1>5, <2>2, <3>1 DEF AdminInv, AccountsInv, Checked
  <2>. QED  BY <1>4, <2>1, <2>2
<1>6. ASSUME NEW b \in AdminCalls  PROVE Checked(update'[b], account', late')
  BY <1>1, <1>2, <1>4 DEF AdminInv, AccountsInv, Checked
<1>7. AccountsInv'  BY <1>3, <1>4, <1>5, <1>6 DEF AccountsInv, AdminsStayEnabled
<1>8. AdminCacheInv'  BY <1>1, <1>2, <1>3 DEF AdminInv, AdminCacheInv, AdminEntries
<1>. QED  BY <1>2, <1>7, <1>8 DEF AdminInv

LEMMA ElsewhereStep ==
    ASSUME AdminInv, NEW u \in Users, Promote(u) \/ OtherUpdates(u)
    PROVE  AdminInv'
<1>1. AllOutdated /\ UNCHANGED update  BY DEF Promote, OtherUpdates
<1>2. AdminCacheInv'  BY <1>1, AllAgain DEF AdminInv, AdminCacheInv
<1>3. UpdatesInv'  BY <1>1 DEF AdminInv, UpdatesInv
<1>4. /\ DOMAIN account = Users
      /\ \A v \in Users : IsAccount(account[v])
  BY DEF AdminInv, AccountsInv
<1>5. CASE Promote(u)
  <2>. DEFINE g == [account[u] EXCEPT !.admin = TRUE]
  <2>1. account' = [account EXCEPT ![u].admin = TRUE]
    BY <1>5 DEF Promote
  <2>2. account' = [account EXCEPT ![u] = g]  BY <2>1, Zenon
  <2>3. g.admin /\ g.disabled = account[u].disabled
        /\ IsAccount(g)
    BY <1>4 DEF IsAccount
  <2>. HIDE DEF g
  <2>4. /\ DOMAIN account' = Users /\ account'[u] = g
        /\ \A v \in Users : v # u => account'[v] = account[v]
    BY <1>4, <2>2
  <2>5. /\ late \subseteq late'
        /\ account[u].disabled => u \in late'
        /\ \A a \in AdminCalls :
              update[a].phase = "checked" /\ update[a].id = u /\ update[a].disabled => u \in late'
    BY <1>5 DEF Promote
  <2>6. AdminsStayEnabled'
    BY <2>3, <2>4, <2>5 DEF AdminInv, AccountsInv, AdminsStayEnabled
  <2>7. ASSUME NEW a \in AdminCalls  PROVE Checked(update[a], account', late')
    BY <2>3, <2>4, <2>5 DEF AdminInv, AccountsInv, Checked
  <2>8. AccountsInv'  BY <1>1, <1>4, <2>3, <2>4, <2>6, <2>7 DEF AccountsInv
  <2>. QED  BY <1>2, <1>3, <2>8 DEF AdminInv
<1>6. CASE OtherUpdates(u)
  <2>. DEFINE g == [account[u] EXCEPT !.disabled = ~account[u].disabled]
  <2>1. account' = [account EXCEPT ![u].disabled = ~account[u].disabled] /\ ~account[u].admin
        /\ late' = late
    BY <1>6 DEF OtherUpdates
  <2>2. account' = [account EXCEPT ![u] = g]  BY <2>1, Zenon
  <2>3. g.admin = account[u].admin /\ IsAccount(g)
    BY <1>4 DEF IsAccount
  <2>. HIDE DEF g
  <2>4. /\ DOMAIN account' = Users /\ account'[u] = g
        /\ \A v \in Users : v # u => account'[v] = account[v]
    BY <1>4, <2>2
  <2>5. AdminsStayEnabled'
    BY <2>1, <2>3, <2>4 DEF AdminInv, AccountsInv, AdminsStayEnabled
  <2>6. ASSUME NEW a \in AdminCalls  PROVE Checked(update[a], account', late')
    BY <2>1, <2>3, <2>4 DEF AdminInv, AccountsInv, Checked
  <2>7. AccountsInv'  BY <1>1, <1>4, <2>3, <2>4, <2>5, <2>6 DEF AccountsInv
  <2>. QED  BY <1>2, <1>3, <2>7 DEF AdminInv
<1>. QED  BY <1>5, <1>6

LEMMA AnswerSureStep ==
    ASSUME AdminInv, NEW a \in AdminCalls, NEW yes \in BOOLEAN, AnswerSure(a, yes), SureInv
    PROVE  AdminInv'
<1>1. UNCHANGED <<account, late, userLists, details>>  BY DEF AnswerSure
<1>2. \/ UNCHANGED update
      \/ update[a].phase = "new" /\ update' = [update EXCEPT ![a] = sure]
  BY DEF AnswerSure
<1>3. /\ DOMAIN update' = AdminCalls
      /\ \A b \in AdminCalls : \/ update'[b] = update[b]
                               \/ b = a /\ update[a].phase = "new" /\ update'[b] = sure
  BY <1>2 DEF AdminInv, UpdatesInv
<1>4. UpdatesInv'  BY <1>3 DEF AdminInv, UpdatesInv, SureInv
<1>5. AccountsInv'
  BY <1>1, <1>3 DEF AdminInv, AccountsInv, Checked, AdminsStayEnabled, SureInv
<1>6. UpdatesAnswered' => UpdatesAnswered  BY <1>3 DEF UpdatesAnswered
<1>7. AdminCacheInv'  BY <1>1, <1>6 DEF AdminInv, AdminCacheInv
<1>. QED  BY <1>4, <1>5, <1>7 DEF AdminInv

LEMMA UpdateAnswersStep ==
    ASSUME AdminInv, NEW a \in AdminCalls, UpdateAnswered(a) \/ UpdateOver(a) \/ LoseUpdate(a)
    PROVE  AdminInv'
<1>1. PICK p \in {"settling", "over", "refused"} :
          /\ update' = [update EXCEPT ![a].phase = p]
          /\ UNCHANGED <<account, late>>
          /\ \/ AdminInvalidated \/ AllOutdated
             \/ UNCHANGED <<userLists, details>> /\ update[a].phase # "done"
  BY DEF UpdateAnswered, UpdateOver, LoseUpdate, AdminUnchanged
<1>2. /\ UpdatesInv' /\ update'[a].phase = p
      /\ \A b \in AdminCalls : b # a => update'[b] = update[b]
      /\ update[a].phase # "done" => (UpdatesAnswered' => UpdatesAnswered)
  BY <1>1, UpdateMoves
<1>3. AccountsInv'
  BY <1>1, <1>2 DEF AdminInv, AccountsInv, Checked, AdminsStayEnabled
<1>4. AdminCacheInv'
  <2>1. CASE AdminInvalidated \/ AllOutdated
    BY <2>1, AllAgain DEF AdminInv, AdminCacheInv
  <2>2. CASE UNCHANGED <<userLists, details>> /\ update[a].phase # "done"
    BY <1>1, <1>2, <2>2 DEF AdminInv, AdminCacheInv
  <2>. QED  BY <1>1, <2>1, <2>2
<1>. QED  BY <1>2, <1>3, <1>4 DEF AdminInv

LEMMA SureStep == ASSUME SureInv, [AdminNext]_adminVars PROVE SureInv'
<1>1. IsUpdate(NewUpdate) /\ NewUpdate.phase = "new"  BY DEF IsUpdate, NewUpdate
<1>2. ASSUME NEW x, AskToggle(x)  PROVE SureInv'
  <2>1. sure' = [[NewUpdate EXCEPT !.id = x.id, !.disabled = ~x.disabled] EXCEPT !.phase = "sent"]
    BY <1>2 DEF AskToggle, Wonder
  <2>. QED  BY <2>1 DEF SureInv, IsUpdate, NewUpdate
<1>3. ASSUME NEW x, AskRevocation(x)  PROVE SureInv'
  <2>1. sure' = [[NewUpdate EXCEPT !.op = "revoke", !.id = x.id] EXCEPT !.phase = "sent"]
    BY <1>3 DEF AskRevocation, Wonder
  <2>. QED  BY <2>1 DEF SureInv, IsUpdate, NewUpdate
<1>4. ASSUME NEW a, NEW yes, AnswerSure(a, yes)  PROVE SureInv'
  BY <1>1, <1>4 DEF AnswerSure, SureInv
<1>5. CASE UNCHANGED sure  BY <1>5 DEF SureInv
<1>6. ASSUME NEW u, FetchDetail(u) \/ Promote(u) \/ OtherUpdates(u) \/ Select(u)
      PROVE  UNCHANGED sure
  BY <1>6 DEF FetchDetail, Promote, OtherUpdates, Select, LookAt
<1>7. ASSUME NEW k, FetchUsers(k) \/ Filter(k) \/ TurnTo(k)  PROVE UNCHANGED sure
  BY <1>7 DEF FetchUsers, Filter, TurnTo, LookAt
<1>8. ASSUME NEW a, \/ CheckUpdate(a) \/ WriteUpdate(a) \/ UpdateAnswered(a)
                    \/ UpdateOver(a) \/ LoseUpdate(a) \/ RetryUsers
      PROVE  UNCHANGED sure
  BY <1>8 DEF CheckUpdate, WriteUpdate, UpdateAnswered, UpdateOver, LoseUpdate, RetryUsers,
              AdminUnchanged
<1>9. UNCHANGED adminVars => UNCHANGED sure  BY DEF adminVars
<1>. QED  BY <1>2, <1>3, <1>4, <1>5, <1>6, <1>7, <1>8, <1>9 DEF AdminNext

LEMMA AdminStep == ASSUME AdminInv, SureInv, [AdminNext]_adminVars PROVE AdminInv'
<1>1. CASE UNCHANGED adminVars
  <2>1. UNCHANGED <<account, update, late, userLists, details>>  BY <1>1 DEF adminVars
  <2>2. AdminEntries(userLists', details')  BY <2>1 DEF AdminInv, AdminCacheInv
  <2>. QED  BY <2>1, <2>2, LookStep
<1>2. CASE (\E k \in ListKeys : FetchUsers(k)) \/ \E u \in Users : FetchDetail(u)
  BY <1>2, FetchingStep
<1>3. CASE \/ \E s \in AccountFilters : Filter(s)
           \/ TurnTo(looking.page - 1) \/ TurnTo(looking.page + 1)
           \/ \E u \in Users : Select(u)
           \/ RetryUsers
           \/ \E x \in Selected : AskToggle(x) \/ AskRevocation(x)
  BY <1>3, BrowsingStep
<1>4. CASE \E u \in Users : Promote(u) \/ OtherUpdates(u)  BY <1>4, ElsewhereStep
<1>5. CASE \E a \in AdminCalls, yes \in BOOLEAN : AnswerSure(a, yes)
  BY <1>5, AnswerSureStep
<1>6. CASE \E a \in AdminCalls :
              \/ CheckUpdate(a) \/ WriteUpdate(a) \/ UpdateAnswered(a)
              \/ UpdateOver(a) \/ LoseUpdate(a)
  BY <1>6, CheckUpdateStep, WriteUpdateStep, UpdateAnswersStep
<1>. QED  BY <1>1, <1>2, <1>3, <1>4, <1>5, <1>6 DEF AdminNext

LEMMA AdminHolds == AdminSpec => [](AdminInv /\ SureInv)
<1>1. AdminInit => SureInv  BY DEF AdminInit, SureInv, IsUpdate, NewUpdate
<1>. QED  BY <1>1, InitAdmin, AdminStep, SureStep, PTL DEF AdminSpec

(* A SUPER_ADMIN is suspended only when promoted while suspended, or by an  *)
(* updateUser that had checked their role before.                           *)
THEOREM AdminsTheorem == AdminSpec => []AdminsStayEnabled
<1>1. AdminInv => AdminsStayEnabled  BY DEF AdminInv, AccountsInv
<1>. QED  BY <1>1, AdminHolds, PTL

(* Once the page's changes are answered, the lists and details at rest are  *)
(* what the server has, unless they were overtaken by what it is not told.  *)
THEOREM UsersTheorem == AdminSpec => []UsersHold
<1>1. AdminInv => UsersHold
  BY DEF AdminInv, AdminCacheInv, UpdatesAnswered, AdminFresh, FreshFor, UsersHold, Fetched,
         Fetching, UserPageOf, SummaryOf
<1>. QED  BY <1>1, AdminHolds, PTL

-----------------------------------------------------------------------------
(* The types of the administration's page.                                  *)
LEMMA SubsequenceLength ==
    ASSUME NEW S, NEW s \in Seq(S), NEW places \in SUBSET DOMAIN s
    PROVE  Len(Subsequence(s, places)) \in 0 .. Len(s)
<1>1. Len(s) \in Nat /\ DOMAIN s = 1 .. Len(s)  OBVIOUS
<1>2. IsFiniteSet(1 .. Len(s)) /\ Cardinality(1 .. Len(s)) = Len(s)
  <2>1. /\ IsFiniteSet(1 .. Len(s))
        /\ Cardinality(1 .. Len(s)) = IF 1 > Len(s) THEN 0 ELSE Len(s) - 1 + 1
    BY <1>1, FS_Interval
  <2>. QED  BY <1>1, <2>1
<1>3. IsFiniteSet(places) /\ Cardinality(places) <= Len(s)  BY <1>1, <1>2, FS_Subset
<1>4. Cardinality(places) \in Nat  BY <1>3, FS_CardinalityType
<1>5. DOMAIN Subsequence(s, places) = 1 .. Cardinality(places)  BY DEF Subsequence
<1>6. Subsequence(s, places) \in Seq(S)  BY SubsequenceType
<1>7. Len(Subsequence(s, places)) = Cardinality(places)  BY <1>4, <1>5, <1>6
<1>. QED  BY <1>1, <1>3, <1>4, <1>7

LEMMA Quotient ==
    ASSUME NEW n \in Nat \ {0}, NEW r \in Nat \ {0}
    PROVE  (n + r - 1) \div r \in 1 .. n
<1>. DEFINE q == (n + r - 1) \div r
<1>1. q \in Int /\ q * r <= n + r - 1 /\ n + r - 1 < q * r + r  OBVIOUS
<1>. HIDE DEF q
<1>2. q >= 1
  <2>1. q < 1 => q * r <= 0  BY <1>1
  <2>. QED  BY <1>1, <2>1
<1>3. q <= n
  <2>1. q > n => q * r >= (n + 1) * r  BY <1>1
  <2>2. (n + 1) * r = n * r + r /\ n * r >= n  OBVIOUS
  <2>. QED  BY <1>1, <2>1, <2>2
<1>. QED  BY <1>1, <1>2, <1>3 DEF q

AccountTypes == [Users -> [admin : BOOLEAN, disabled : BOOLEAN]]

LEMMA UsersAre == Accounts \in Seq(Users) /\ Len(Accounts) \in Nat
<1>. QED  BY AdminConstants

LEMMA SummaryType ==
    ASSUME NEW users \in AccountTypes, NEW u \in Users
    PROVE  SummaryIn(u, users) \in Summary
<1>. QED  BY DEF AccountTypes, SummaryIn, Summary

(* What listUsers answers.                                                  *)
LEMMA UserPageType ==
    ASSUME NEW k \in ListKeys, NEW users \in AccountTypes
    PROVE  UserPageIn(k, users) \in UserPage
<1>. DEFINE places == {i \in DOMAIN Accounts :
                           \/ k.status = "all"
                           \/ users[Accounts[i]].disabled = (k.status = "disabled")}
            all == Matching(k.status, users)
            skip == (k.page - 1) * RowsPerPage
            shown == Slice(all, skip, RowsPerPage)
            t == [i \in DOMAIN shown |-> SummaryIn(shown[i], users)]
<1>1. RowsPerPage \in Nat \ {0}  BY AdminConstants
<1>2. places \in SUBSET DOMAIN Accounts  OBVIOUS
<1>3. all = Subsequence(Accounts, places)  BY DEF Matching
<1>4. skip \in Nat
  <2>1. k.page - 1 \in Nat  BY UsersAre DEF ListKeys
  <2>. QED  BY <1>1, <2>1, Products
<1>5. UserPageIn(k, users) = [rows |-> t, pages |-> PagesFor(Len(all))]
  BY DEF UserPageIn, UserPageFrom
<1>. HIDE DEF places, all, skip
<1>6. all \in Seq(Users) /\ Len(all) \in 0 .. Len(Accounts)
  BY <1>2, <1>3, UsersAre, SubsequenceType, SubsequenceLength
<1>7. shown \in BoundedSeq(Users, RowsPerPage)  BY <1>1, <1>4, <1>6, SliceType
<1>. HIDE DEF shown
<1>8. /\ t = [i \in DOMAIN shown |-> t[i]]
      /\ \A i \in DOMAIN shown : shown[i] \in Users => t[i] \in Summary
  BY SummaryType
<1>. HIDE DEF t
<1>9. t \in BoundedSeq(Summary, RowsPerPage)  BY <1>1, <1>7, <1>8, BoundedMap
<1>10. PagesFor(Len(all)) \in 1 .. Len(Accounts) + 1
  <2>1. CASE Len(all) = 0  BY <2>1, UsersAre DEF PagesFor
  <2>2. CASE Len(all) # 0
    <3>1. Len(all) \in Nat \ {0} /\ Len(all) <= Len(Accounts)  BY <1>6, <2>2, UsersAre
    <3>2. PagesFor(Len(all)) \in 1 .. Len(all)  BY <1>1, <2>2, <3>1, Quotient DEF PagesFor
    <3>. QED  BY <3>1, <3>2, UsersAre
  <2>. QED  BY <2>1, <2>2
<1>. QED  BY <1>5, <1>9, <1>10 DEF UserPage

LEMMA AdminStepType ==
    ASSUME NEW D, NEW x \in EntryOf(D), NEW d \in D, NEW e \in AdminStepOf(x, d)
    PROVE  e \in EntryOf(D)
<1>1. e = Serve(x, d) \/ e = Fail(x) \/ e = Arrive(x)  BY DEF AdminStepOf
<1>. QED  BY <1>1, StaysInEntries

LEMMA AdminInitTypes == AdminInit => AdminTypeOK
<1>. SUFFICES ASSUME AdminInit PROVE AdminTypeOK  OBVIOUS
<1>1. /\ MaxElsewhere \in Nat /\ Len(Accounts) \in Nat  BY AdminConstants, UsersAre
<1>2. account \in [Users -> [admin : BOOLEAN, disabled : BOOLEAN]]  BY DEF AdminInit
<1>3. userLists \in [ListKeys -> EntryOf(UserPage)] /\ details \in [Users -> EntryOf(Summary)]
  BY NewEntryIn DEF AdminInit
<1>4. NewUpdate \in Update  BY DEF NewUpdate, Update
<1>5. /\ looking \in [status : AccountFilters, page : 1 .. Len(Accounts) + 1,
                      selected : Users \cup {NoAccount}]
      /\ sure \in Update /\ update \in [AdminCalls -> Update]
      /\ late \subseteq Configured /\ elsewhere \in 0 .. MaxElsewhere
  BY <1>1, <1>4 DEF AdminInit, AccountFilters
<1>. QED  BY <1>2, <1>3, <1>5 DEF AdminTypeOK

(* The server's side.                                                       *)
LEMMA AccountsTyped ==
    ASSUME AdminTypeOK, [AdminNext]_adminVars
    PROVE  /\ account' \in [Users -> [admin : BOOLEAN, disabled : BOOLEAN]]
           /\ late' \subseteq Configured /\ elsewhere' \in 0 .. MaxElsewhere
<1>. DEFINE Typed == /\ account' \in [Users -> [admin : BOOLEAN, disabled : BOOLEAN]]
                     /\ late' \subseteq Configured /\ elsewhere' \in 0 .. MaxElsewhere
<1>0. /\ account \in [Users -> [admin : BOOLEAN, disabled : BOOLEAN]]
      /\ late \subseteq Configured /\ elsewhere \in 0 .. MaxElsewhere
      /\ MaxElsewhere \in Nat
  BY AdminConstants DEF AdminTypeOK
<1>1. CASE UNCHANGED <<account, late, elsewhere>>  BY <1>0, <1>1
<1>2. ASSUME NEW a \in AdminCalls, WriteUpdate(a)  PROVE Typed
  <2>1. update[a].disabled \in BOOLEAN  BY DEF AdminTypeOK, Update
  <2>2. UNCHANGED <<late, elsewhere>> /\ \/ account' = account
                                         \/ account' = [account EXCEPT ![update[a].id].disabled
                                                                          = update[a].disabled]
    BY <1>2 DEF WriteUpdate, AdminUnchanged
  <2>. QED  BY <1>0, <2>1, <2>2
<1>3. ASSUME NEW u \in Users, Promote(u)  PROVE Typed
  <2>1. /\ u \in Configured /\ account' = [account EXCEPT ![u].admin = TRUE]
        /\ late' \in {late, late \cup {u}} /\ elsewhere' = elsewhere
    BY <1>3 DEF Promote
  <2>. QED  BY <1>0, <2>1
<1>4. ASSUME NEW u \in Users, OtherUpdates(u)  PROVE Typed
  <2>1. /\ elsewhere < MaxElsewhere /\ elsewhere' = elsewhere + 1 /\ late' = late
        /\ account' = [account EXCEPT ![u].disabled = ~account[u].disabled]
    BY <1>4 DEF OtherUpdates
  <2>2. account[u].disabled \in BOOLEAN  BY <1>0
  <2>3. (~account[u].disabled) \in BOOLEAN  BY <2>2
  <2>4. [account[u] EXCEPT !.disabled = ~account[u].disabled] \in
            [admin : BOOLEAN, disabled : BOOLEAN]
    BY <1>0, <2>3
  <2>5. account' = [account EXCEPT ![u] = [account[u] EXCEPT !.disabled = ~account[u].disabled]]
    BY <2>1, Zenon
  <2>6. account' \in [Users -> [admin : BOOLEAN, disabled : BOOLEAN]]  BY <1>0, <2>4, <2>5
  <2>. QED  BY <1>0, <2>1, <2>6
<1>. HIDE DEF Typed
<1>5. ASSUME NEW k \in ListKeys, FetchUsers(k)  PROVE UNCHANGED <<account, late, elsewhere>>
  BY <1>5 DEF FetchUsers
<1>6. ASSUME NEW u \in Users, FetchDetail(u) \/ Select(u)
      PROVE  UNCHANGED <<account, late, elsewhere>>
  BY <1>6 DEF FetchDetail, Select, LookAt
<1>7. ASSUME NEW s, Filter(s)  PROVE UNCHANGED <<account, late, elsewhere>>
  BY <1>7 DEF Filter, LookAt
<1>8. ASSUME NEW p, TurnTo(p)  PROVE UNCHANGED <<account, late, elsewhere>>
  BY <1>8 DEF TurnTo, LookAt
<1>9. ASSUME RetryUsers  PROVE UNCHANGED <<account, late, elsewhere>>
  BY <1>9 DEF RetryUsers, AdminUnchanged
<1>10. ASSUME NEW x, AskToggle(x) \/ AskRevocation(x)
       PROVE  UNCHANGED <<account, late, elsewhere>>
  BY <1>10 DEF AskToggle, AskRevocation, Wonder
<1>11. ASSUME NEW a, NEW yes, AnswerSure(a, yes)  PROVE UNCHANGED <<account, late, elsewhere>>
  BY <1>11 DEF AnswerSure
<1>12. ASSUME NEW a, CheckUpdate(a) \/ UpdateAnswered(a) \/ UpdateOver(a) \/ LoseUpdate(a)
       PROVE  UNCHANGED <<account, late, elsewhere>>
  BY <1>12 DEF CheckUpdate, UpdateAnswered, UpdateOver, LoseUpdate, AdminUnchanged
<1>13. Typed \/ UNCHANGED <<account, late, elsewhere>>
  BY <1>2, <1>3, <1>4, <1>5, <1>6, <1>7, <1>8, <1>9, <1>10, <1>11, <1>12
     DEF AdminNext, adminVars
<1>. QED  BY <1>1, <1>13 DEF Typed

(* The buttons below the table lead to a page that may exist.               *)
LEMMA TurnsWithin ==
    ASSUME AdminTypeOK, NEW p, p = looking.page - 1 \/ p = looking.page + 1, TurnTo(p)
    PROVE  looking'.page \in 1 .. Len(Accounts) + 1
<1>1. /\ looking.page \in 1 .. Len(Accounts) + 1 /\ Len(Accounts) \in Nat
      /\ looking \in [status : AccountFilters, page : 1 .. Len(Accounts) + 1,
                      selected : Users \cup {NoAccount}]
  BY UsersAre DEF AdminTypeOK
<1>2. /\ looking' = [looking EXCEPT !.page = p] /\ ShownUsers.data # NoData
      /\ \/ p = looking.page - 1 /\ looking.page > 1
         \/ p = looking.page + 1 /\ looking.page < ShownUsers.data.pages
  BY DEF TurnTo, LookAt
<1>3. ShownUsers \in EntryOf(UserPage)
  BY DEF AdminTypeOK, ShownUsers, UserListKey, ListKeys
<1>4. ShownUsers.data.pages \in 1 .. Len(Accounts) + 1  BY <1>2, <1>3 DEF EntryOf, UserPage
<1>5. looking'.page = p  BY <1>1, <1>2
<1>. QED  BY <1>1, <1>2, <1>4, <1>5

(* The cached lists and details.                                            *)
LEMMA AdminListsTyped ==
    ASSUME AdminTypeOK, [AdminNext]_adminVars
    PROVE  /\ userLists' \in [ListKeys -> EntryOf(UserPage)]
           /\ details' \in [Users -> EntryOf(Summary)]
<1>. DEFINE Typed == /\ userLists' \in [ListKeys -> EntryOf(UserPage)]
                     /\ details' \in [Users -> EntryOf(Summary)]
<1>0. /\ userLists \in [ListKeys -> EntryOf(UserPage)] /\ details \in [Users -> EntryOf(Summary)]
      /\ \A k \in ListKeys : userLists[k] \in EntryOf(UserPage)
      /\ \A u \in Users : details[u] \in EntryOf(Summary)
      /\ account \in AccountTypes /\ UserListKey \in ListKeys
  BY DEF AdminTypeOK, AccountTypes, UserListKey, ListKeys
<1>1. CASE UNCHANGED <<userLists, details>>  BY <1>0, <1>1
<1>2. CASE AllOutdated  BY <1>0, <1>2, StaysInEntries DEF AllOutdated
<1>3. CASE AdminInvalidated
  <2>1. \A k \in ListKeys : /\ (k = UserListKey) \in BOOLEAN
                            /\ Invalidate(userLists[k], k = UserListKey) \in EntryOf(UserPage)
    BY <1>0, StaysInEntries
  <2>2. \A u \in Users : /\ (u = looking.selected) \in BOOLEAN
                         /\ Invalidate(details[u], u = looking.selected) \in EntryOf(Summary)
    BY <1>0, StaysInEntries
  <2>. QED  BY <1>3, <2>1, <2>2 DEF AdminInvalidated
<1>4. ASSUME NEW k \in ListKeys, NEW e \in EntryOf(UserPage), UNCHANGED details,
             userLists' = [userLists EXCEPT ![k] = e]
      PROVE  Typed
  BY <1>0, <1>4
<1>5. ASSUME NEW u \in Users, NEW e \in EntryOf(Summary), UNCHANGED userLists,
             details' = [details EXCEPT ![u] = e]
      PROVE  Typed
  BY <1>0, <1>5
<1>. HIDE DEF Typed
<1>6. ASSUME NEW k \in ListKeys, FetchUsers(k)  PROVE Typed
  <2>1. PICK e \in AdminStepOf(userLists[k], UserPageOf(k)) :
           userLists' = [userLists EXCEPT ![k] = e] /\ UNCHANGED details
    BY <1>6 DEF FetchUsers
  <2>2. UserPageOf(k) \in UserPage  BY <1>0, UserPageType DEF UserPageOf
  <2>3. e \in EntryOf(UserPage)  BY <1>0, <2>2, AdminStepType
  <2>. QED  BY <1>4, <2>1, <2>3
<1>7. ASSUME NEW u \in Users, FetchDetail(u)  PROVE Typed
  <2>1. PICK e \in AdminStepOf(details[u], SummaryOf(u)) :
           details' = [details EXCEPT ![u] = e] /\ UNCHANGED userLists
    BY <1>7 DEF FetchDetail
  <2>2. SummaryOf(u) \in Summary  BY <1>0, SummaryType DEF SummaryOf
  <2>3. e \in EntryOf(Summary)  BY <1>0, <2>2, AdminStepType
  <2>. QED  BY <1>5, <2>1, <2>3
<1>8. ASSUME NEW u \in Users, Select(u)  PROVE Typed
  <2>1. PICK e \in Opened(details[u]) :
           details' = [details EXCEPT ![u] = e] /\ UNCHANGED userLists
    BY <1>8 DEF Select
  <2>2. e \in EntryOf(Summary)  BY <1>0, StaysInEntries
  <2>. QED  BY <1>5, <2>1, <2>2
<1>9. ASSUME NEW k \in ListKeys, OpenUsers(k), UNCHANGED details  PROVE Typed
  <2>1. PICK e \in Opened(userLists[k]) : userLists' = [userLists EXCEPT ![k] = e]
    BY <1>9 DEF OpenUsers
  <2>2. e \in EntryOf(UserPage)  BY <1>0, StaysInEntries
  <2>. QED  BY <1>4, <1>9, <2>1, <2>2
<1>10. ASSUME NEW s \in AccountFilters, Filter(s)  PROVE Typed
  <2>1. [status |-> s, page |-> 1] \in ListKeys  BY UsersAre DEF ListKeys
  <2>. QED  BY <1>9, <1>10, <2>1 DEF Filter
<1>11. ASSUME NEW p, TurnTo(p), looking'.page \in 1 .. Len(Accounts) + 1  PROVE Typed
  <2>1. p \in 1 .. Len(Accounts) + 1  BY <1>11 DEF TurnTo, LookAt, AdminTypeOK
  <2>2. [status |-> looking.status, page |-> p] \in ListKeys
    BY <2>1 DEF ListKeys, AdminTypeOK
  <2>. QED  BY <1>9, <1>11, <2>2 DEF TurnTo
<1>12. ASSUME RetryUsers  PROVE Typed
  <2>1. Want(userLists[UserListKey]) \in EntryOf(UserPage)  BY <1>0, StaysInEntries
  <2>2. /\ userLists' = [userLists EXCEPT ![UserListKey] = Want(userLists[UserListKey])]
        /\ UNCHANGED details
    BY <1>12 DEF RetryUsers
  <2>. QED  BY <1>0, <1>4, <2>1, <2>2
<1>13. ASSUME NEW u \in Users, Promote(u) \/ OtherUpdates(u)  PROVE AllOutdated
  BY <1>13 DEF Promote, OtherUpdates
<1>14. ASSUME NEW x, AskToggle(x) \/ AskRevocation(x)  PROVE UNCHANGED <<userLists, details>>
  BY <1>14 DEF AskToggle, AskRevocation, Wonder
<1>15. ASSUME NEW a, NEW yes, AnswerSure(a, yes)  PROVE UNCHANGED <<userLists, details>>
  BY <1>15 DEF AnswerSure
<1>16. ASSUME NEW a, CheckUpdate(a) \/ WriteUpdate(a) \/ UpdateOver(a)
       PROVE  UNCHANGED <<userLists, details>>
  BY <1>16 DEF CheckUpdate, WriteUpdate, UpdateOver
<1>17. ASSUME NEW a, UpdateAnswered(a)  PROVE AdminInvalidated
  BY <1>17 DEF UpdateAnswered
<1>18. ASSUME NEW a, LoseUpdate(a)  PROVE UNCHANGED <<userLists, details>> \/ AllOutdated
  BY <1>18 DEF LoseUpdate
<1>19. ASSUME NEW p, p = looking.page - 1 \/ p = looking.page + 1, TurnTo(p)
       PROVE  looking'.page \in 1 .. Len(Accounts) + 1
  BY <1>19, TurnsWithin
<1>20. Typed \/ AllOutdated \/ AdminInvalidated \/ UNCHANGED <<userLists, details>>
  BY <1>6, <1>7, <1>8, <1>10, <1>11, <1>12, <1>13, <1>14, <1>15, <1>16, <1>17, <1>18, <1>19
     DEF AdminNext, adminVars
<1>21. Typed  BY <1>1, <1>2, <1>3, <1>20 DEF Typed
<1>. QED  BY <1>21 DEF Typed

(* What the page looks at.                                                  *)
LEMMA LookingTyped ==
    ASSUME AdminTypeOK, [AdminNext]_adminVars
    PROVE  looking' \in [status : AccountFilters, page : 1 .. Len(Accounts) + 1,
                         selected : Users \cup {NoAccount}]
<1>. DEFINE Views == [status : AccountFilters, page : 1 .. Len(Accounts) + 1,
                      selected : Users \cup {NoAccount}]
<1>0. looking \in Views /\ Len(Accounts) \in Nat  BY UsersAre DEF AdminTypeOK
<1>1. ASSUME NEW u \in Users, Select(u)  PROVE looking' \in Views
  <2>1. looking' = [looking EXCEPT !.selected = u]  BY <1>1 DEF Select, LookAt
  <2>. QED  BY <1>0, <2>1
<1>2. ASSUME NEW s \in AccountFilters, Filter(s)  PROVE looking' \in Views
  <2>1. looking' = [[looking EXCEPT !.status = s] EXCEPT !.page = 1]
    BY <1>2 DEF Filter, LookAt
  <2>2. [looking EXCEPT !.status = s] \in Views /\ 1 \in 1 .. Len(Accounts) + 1  BY <1>0
  <2>. QED  BY <2>1, <2>2
<1>3. ASSUME NEW p, p = looking.page - 1 \/ p = looking.page + 1, TurnTo(p)
      PROVE  looking' \in Views
  <2>1. looking' = [looking EXCEPT !.page = p]  BY <1>3 DEF TurnTo, LookAt
  <2>2. looking'.page \in 1 .. Len(Accounts) + 1  BY <1>3, TurnsWithin
  <2>3. p \in 1 .. Len(Accounts) + 1  BY <1>0, <2>1, <2>2
  <2>. QED  BY <1>0, <2>1, <2>3
<1>. HIDE DEF Views
<1>4. ASSUME NEW k, FetchUsers(k)  PROVE looking' = looking  BY <1>4 DEF FetchUsers
<1>5. ASSUME NEW u, FetchDetail(u) \/ Promote(u) \/ OtherUpdates(u)  PROVE looking' = looking
  BY <1>5 DEF FetchDetail, Promote, OtherUpdates
<1>6. ASSUME RetryUsers  PROVE looking' = looking  BY <1>6 DEF RetryUsers, AdminUnchanged
<1>7. ASSUME NEW x, AskToggle(x) \/ AskRevocation(x)  PROVE looking' = looking
  BY <1>7 DEF AskToggle, AskRevocation, Wonder
<1>8. ASSUME NEW a, NEW yes, AnswerSure(a, yes)  PROVE looking' = looking
  BY <1>8 DEF AnswerSure
<1>9. ASSUME NEW a, \/ CheckUpdate(a) \/ WriteUpdate(a) \/ UpdateAnswered(a)
                    \/ UpdateOver(a) \/ LoseUpdate(a)
      PROVE  looking' = looking
  BY <1>9 DEF CheckUpdate, WriteUpdate, UpdateAnswered, UpdateOver, LoseUpdate, AdminUnchanged
<1>10. looking' \in Views
  BY <1>0, <1>1, <1>2, <1>3, <1>4, <1>5, <1>6, <1>7, <1>8, <1>9 DEF AdminNext, adminVars
<1>. QED  BY <1>10 DEF Views

(* The question and the page's calls.                                       *)
LEMMA SelectedTyped == ASSUME AdminTypeOK PROVE Selected \subseteq Summary
<1>1. RowsPerPage \in Nat  BY AdminConstants
<1>2. ShownUsers \in EntryOf(UserPage)
  BY DEF AdminTypeOK, ShownUsers, UserListKey, ListKeys
<1>3. ShownUsers.data # NoData => ShownUsers.data.rows \in BoundedSeq(Summary, RowsPerPage)
  BY <1>2 DEF EntryOf, UserPage
<1>4. RowsShown \subseteq Summary  BY <1>1, <1>3, BoundedAt DEF RowsShown
<1>5. ASSUME looking.selected # NoAccount
      PROVE  {details[looking.selected].data} \ {NoData} \subseteq Summary
  <2>1. details[looking.selected] \in EntryOf(Summary)  BY <1>5 DEF AdminTypeOK
  <2>. QED  BY <2>1 DEF EntryOf
<1>. QED  BY <1>4, <1>5 DEF Selected

LEMMA UpdatesTyped ==
    ASSUME AdminTypeOK, [AdminNext]_adminVars
    PROVE  sure' \in Update /\ update' \in [AdminCalls -> Update]
<1>. DEFINE Typed == sure' \in Update /\ update' \in [AdminCalls -> Update]
<1>0. /\ sure \in Update /\ update \in [AdminCalls -> Update]
      /\ \A a \in AdminCalls : update[a] \in Update
  BY DEF AdminTypeOK
<1>1. NewUpdate \in Update  BY DEF NewUpdate, Update
<1>2. CASE UNCHANGED <<sure, update>>  BY <1>0, <1>2
<1>3. ASSUME NEW x \in Selected, AskToggle(x) \/ AskRevocation(x)  PROVE Typed
  <2>1. x.id \in Users /\ x.disabled \in BOOLEAN  BY SelectedTyped DEF Summary
  <2>2. (~x.disabled) \in BOOLEAN  BY <2>1
  <2>3. CASE AskToggle(x)
    <3>. DEFINE f == [NewUpdate EXCEPT !.id = x.id, !.disabled = ~x.disabled]
    <3>1. [f EXCEPT !.phase = "sent"] \in Update  BY <2>1, <2>2 DEF NewUpdate, Update
    <3>2. sure' = [f EXCEPT !.phase = "sent"] /\ UNCHANGED update
      BY <2>3 DEF AskToggle, Wonder
    <3>. QED  BY <1>0, <3>1, <3>2
  <2>4. CASE AskRevocation(x)
    <3>. DEFINE f == [NewUpdate EXCEPT !.op = "revoke", !.id = x.id]
    <3>1. [f EXCEPT !.phase = "sent"] \in Update  BY <2>1 DEF NewUpdate, Update
    <3>2. sure' = [f EXCEPT !.phase = "sent"] /\ UNCHANGED update
      BY <2>4 DEF AskRevocation, Wonder
    <3>. QED  BY <1>0, <3>1, <3>2
  <2>. QED  BY <1>3, <2>3, <2>4
<1>4. ASSUME NEW a \in AdminCalls, NEW yes, AnswerSure(a, yes)  PROVE Typed
  <2>1. sure' = NewUpdate /\ (update' = [update EXCEPT ![a] = sure] \/ UNCHANGED update)
    BY <1>4 DEF AnswerSure
  <2>. QED  BY <1>0, <1>1, <2>1
<1>5. ASSUME NEW a \in AdminCalls, NEW p, UNCHANGED sure,
             p \in {"checked", "refused", "done", "settling", "over"},
             update' = [update EXCEPT ![a].phase = p]
      PROVE  Typed
  <2>1. [update[a] EXCEPT !.phase = p] \in Update  BY <1>0, <1>5 DEF Update
  <2>2. update' = [update EXCEPT ![a] = [update[a] EXCEPT !.phase = p]]  BY <1>5
  <2>. QED  BY <1>0, <1>5, <2>1, <2>2
<1>. HIDE DEF Typed
<1>6. ASSUME NEW a \in AdminCalls,
             \/ CheckUpdate(a) \/ WriteUpdate(a) \/ UpdateAnswered(a)
             \/ UpdateOver(a) \/ LoseUpdate(a)
      PROVE  Typed
  <2>1. sure' = sure
    BY <1>6 DEF CheckUpdate, WriteUpdate, UpdateAnswered, UpdateOver, LoseUpdate, AdminUnchanged
  <2>2. \E p \in {"checked", "refused", "done", "settling", "over"} :
           update' = [update EXCEPT ![a].phase = p]
    BY <1>6 DEF CheckUpdate, WriteUpdate, UpdateAnswered, UpdateOver, LoseUpdate
  <2>. QED  BY <1>5, <2>1, <2>2
<1>7. ASSUME NEW k, FetchUsers(k)  PROVE UNCHANGED <<sure, update>>  BY <1>7 DEF FetchUsers
<1>8. ASSUME NEW u, FetchDetail(u) \/ Promote(u) \/ OtherUpdates(u) \/ Select(u)
      PROVE  UNCHANGED <<sure, update>>
  BY <1>8 DEF FetchDetail, Promote, OtherUpdates, Select, LookAt
<1>9. ASSUME NEW s, Filter(s)  PROVE UNCHANGED <<sure, update>>  BY <1>9 DEF Filter, LookAt
<1>10. ASSUME NEW p, TurnTo(p)  PROVE UNCHANGED <<sure, update>>  BY <1>10 DEF TurnTo, LookAt
<1>11. ASSUME RetryUsers  PROVE UNCHANGED <<sure, update>>
  BY <1>11 DEF RetryUsers, AdminUnchanged
<1>12. Typed \/ UNCHANGED <<sure, update>>
  BY <1>3, <1>4, <1>6, <1>7, <1>8, <1>9, <1>10, <1>11 DEF AdminNext, adminVars
<1>. QED  BY <1>2, <1>12 DEF Typed

(* The types of the administration: a page of users within what there can   *)
(* be, and no list longer than a page (listUsers of admin.service.ts).      *)
THEOREM AdminTypesTheorem == AdminSpec => []AdminTypeOK
<1>1. AdminTypeOK /\ [AdminNext]_adminVars => AdminTypeOK'
  BY AccountsTyped, AdminListsTyped, LookingTyped, UpdatesTyped DEF AdminTypeOK
<1>. QED  BY <1>1, AdminInitTypes, PTL DEF AdminSpec

-----------------------------------------------------------------------------
(* The panels of the workspace page, module WorkspacePanels: what their     *)
(* lists show is what the API has, up to the answers that are on their way. *)
MemberOps == {"add", "role", "remove"}

KeyOps == {"create", "revoke"}

(* A call: of the panel that is shown, and what it has changed is still so  *)
(* unless it is late.                                                       *)
GoodJob(f, rows, teams, gone, w) ==
    /\ f.same => f.team = w
    /\ f.op \in KeyOps => f.person = Nobody
    /\ f.phase \in {"sent", "done"} => f.team \in Teams
    /\ f.phase \in {"sent", "done"} /\ f.op \in MemberOps => f.person \in People /\ f.key = NoKey
    /\ f.phase = "sent" /\ f.op = "role" => f.rank \in Given
    /\ f.phase \in {"sent", "done"} /\ f.op = "revoke" => f.key \in ApiKeys
    /\ f.phase = "done" /\ f.op \in MemberOps /\ ~f.late => rows[f.team][f.person] = f.rank
    /\ f.phase = "done" /\ f.op = "create" =>
          f.key \in ApiKeys /\ teams[f.key] = f.team /\ (~f.late => f.key \notin gone)
    /\ f.phase = "done" /\ f.op = "revoke" => f.key \in gone

JobsInv ==
    /\ \A j \in Jobs : GoodJob(job[j], ranks, keyTeam, revoked, here)
    /\ GoodJob(query, ranks, keyTeam, revoked, here) /\ query.phase \in {"new", "sent"}
    /\ \A k \in revoked : keyTeam[k] # NoTeam
    /\ SecretsStayHome

(* The calls of a workspace that are done and whose answer is on its way.   *)
Underway(calls, w, ops) ==
    {j \in Jobs : calls[j].phase = "done" /\ calls[j].team = w /\ calls[j].op \in ops}

GoodMembers(rows, calls, w) ==
    {d \in Memberships :
        \/ \E j \in Underway(calls, w, MemberOps) : calls[j].late
        \/ \A p \in People :
              \/ d[p] = rows[w][p]
              \/ \E j \in Underway(calls, w, MemberOps) :
                    calls[j].person = p /\ (calls[j].op = "role" => d[p] # "NONE")}

LiveIn(k, teams, gone, w) == teams[k] = w /\ k \notin gone

GoodKeys(teams, gone, calls, w) ==
    {d \in SUBSET ApiKeys :
        \/ \E j \in Underway(calls, w, KeyOps) : calls[j].late
        \/ \A k \in ApiKeys :
              \/ k \in d <=> LiveIn(k, teams, gone, w)
              \/ \E j \in Underway(calls, w, KeyOps) : calls[j].key = k}

(* The data is good unless the entry says that it is behind, and so is an   *)
(* answer on its way.                                                       *)
Sound(e, good) ==
    /\ e.data # NoData /\ ~e.behind => e.data \in good
    /\ e.phase = "served" /\ ~e.overtaken => e.answer \in good

ListsInv ==
    \A w \in Teams : /\ Sound(members[w], GoodMembers(ranks, job, w))
                     /\ Sound(keyLists[w], GoodKeys(keyTeam, revoked, job, w))

PanelsInv == PanelsTypeOK /\ JobsInv /\ ListsInv

(* The types of the panels, of their calls and of their lists.              *)
LEMMA StepOfType ==
    ASSUME NEW D, NEW e \in EntryOf(D), NEW d \in D, NEW w, NEW x \in StepOf(e, w, d)
    PROVE  x \in EntryOf(D)
<1>1. x = Serve(e, d) \/ x = Fail(e) \/ x = Arrive(e)  BY DEF StepOf
<1>2. Serve(e, d) \in EntryOf(D)  BY DEF Serve, EntryOf
<1>. QED  BY <1>1, <1>2, StaysInEntries

LEMMA NewJobs ==
    /\ NewJob \in Job /\ JobOver \in Job /\ NewPanel \in Panel
    /\ \A op \in {"add", "role", "remove", "create", "revoke"} :
          here \in Teams => Of(op) \in Job
<1>. QED  BY DEF NewJob, JobOver, Job, NewPanel, Panel, Of, Ranks

LEMMA PanelsInitTypes == PanelsInit => PanelsTypeOK
<1>. SUFFICES ASSUME PanelsInit PROVE PanelsTypeOK  OBVIOUS
<1>1. \A D : NewEntry \in EntryOf(D) /\ Want(NewEntry) \in EntryOf(D)  BY NewEntryIn
<1>2. members \in [Teams -> EntryOf(Memberships)] /\ keyLists \in [Teams -> EntryOf(SUBSET ApiKeys)]
  BY <1>1 DEF PanelsInit
<1>3. /\ ranks \in [Teams -> Memberships] /\ keyTeam \in [ApiKeys -> Teams \cup {NoTeam}]
      /\ others \in 0 .. MaxOthers
  BY PanelsConstants DEF PanelsInit
<1>4. panel \in Panel /\ query \in Job /\ job \in [Jobs -> Job]
  BY NewJobs DEF PanelsInit
<1>. QED  BY <1>2, <1>3, <1>4 DEF PanelsInit, PanelsTypeOK

(* The types after a step of the page that makes or settles a call.         *)
LEMMA OfRankTypes ==
    ASSUME PanelsTypeOK, NEW p \in People, NEW r \in Given
    PROVE  /\ [Of("add") EXCEPT !.person = p, !.rank = r] \in Job
           /\ [Of("role") EXCEPT !.person = p, !.rank = r] \in Job
<1>1. /\ Of("add") \in Job /\ Of("role") \in Job  BY NewJobs DEF PanelsTypeOK
<1>. QED  BY <1>1 DEF Job, Given, Ranks

LEMMA AskTypes ==
    ASSUME PanelsTypeOK, NEW j \in Jobs, NEW f \in Job, Ask(j, f), panel' \in Panel,
           query' \in Job
    PROVE  PanelsTypeOK'
<1>. QED  BY DEF PanelsTypeOK, Ask, rowsOfPanels, caches

LEMMA FreedType == ASSUME PanelsTypeOK, NEW j PROVE Freed(j) \in Panel
<1>. QED  BY DEF PanelsTypeOK, Freed, Panel

LEMMA HandledType ==
    ASSUME PanelsTypeOK, NEW j \in Jobs, NEW k \in ApiKeys \cup {NoKey}, Handled(j, k)
    PROVE  job' \in [Jobs -> Job]
<1>1. \A i \in Jobs : job[i] \in Job  BY DEF PanelsTypeOK
<1>2. [job[j] EXCEPT !.phase = "done", !.key = k] \in Job  BY <1>1 DEF Job
<1>3. ASSUME NEW i \in Jobs, NEW b
      PROVE  [job[i] EXCEPT !.late = job[i].late \/ b] \in Job
  <2>1. (job[i].late \/ b) \in BOOLEAN  BY Zenon
  <2>. QED  BY <1>1, <2>1 DEF Job
<1>. QED  BY <1>2, <1>3 DEF Handled

LEMMA OvertakeAtType == ASSUME PanelsTypeOK, NEW w, OvertakeAt(w) PROVE job' \in [Jobs -> Job]
<1>1. ASSUME NEW i \in Jobs, NEW b  PROVE [job[i] EXCEPT !.late = job[i].late \/ b] \in Job
  <2>1. (job[i].late \/ b) \in BOOLEAN  BY Zenon
  <2>. QED  BY <2>1 DEF Job, PanelsTypeOK
<1>. QED  BY <1>1 DEF OvertakeAt

LEMMA PutIntoType ==
    ASSUME NEW D, NEW e \in EntryOf(D), NEW d \in D, NEW j
    PROVE  PutInto(e, j, d) \in EntryOf(D)
<1>1. (e.behind \/ job[j].late \/ e.data = NoData) \in BOOLEAN  BY Zenon
<1>2. Put(e, d) \in EntryOf(D)  BY DEF Put, EntryOf
<1>. QED  BY <1>1, <1>2 DEF PutInto, EntryOf

LEMMA PanelsTypes == ASSUME PanelsTypeOK, JobsInv, [PanelsNext]_panelVars PROVE PanelsTypeOK'
<1>. USE DEF rowsOfPanels, caches
<1>1. ASSUME NEW w \in Teams, ShowTeam(w)  PROVE PanelsTypeOK'
  <2>1. PICK m \in Opened(members[w]), k \in Opened(keyLists[w]) :
            /\ members' = [members EXCEPT ![w] = m]
            /\ keyLists' = [keyLists EXCEPT ![w] = k]
    BY <1>1 DEF ShowTeam
  <2>2. m \in EntryOf(Memberships) /\ k \in EntryOf(SUBSET ApiKeys)
    BY StaysInEntries DEF PanelsTypeOK
  <2>3. job' \in [Jobs -> Job]
    <3>1. \A j \in Jobs : [job[j] EXCEPT !.same = FALSE] \in Job  BY DEF PanelsTypeOK, Job
    <3>. QED  BY <1>1, <3>1 DEF ShowTeam
  <2>4. panel' \in Panel  BY <1>1, NewJobs DEF ShowTeam, PanelOf
  <2>. QED  BY <1>1, <2>1, <2>2, <2>3, <2>4 DEF PanelsTypeOK, ShowTeam
<1>2. ASSUME NEW w \in Teams, FetchMembers(w)  PROVE PanelsTypeOK'
  <2>1. PICK e \in StepOf(members[w], w, ranks[w]) : members' = [members EXCEPT ![w] = e]
    BY <1>2 DEF FetchMembers
  <2>2. members[w] \in EntryOf(Memberships) /\ ranks[w] \in Memberships  BY DEF PanelsTypeOK
  <2>3. e \in EntryOf(Memberships)  BY <2>2, StepOfType
  <2>. QED  BY <1>2, <2>1, <2>3 DEF PanelsTypeOK, FetchMembers
<1>3. ASSUME NEW w \in Teams, FetchKeys(w)  PROVE PanelsTypeOK'
  <2>1. PICK e \in StepOf(keyLists[w], w, LiveKeys(w)) : keyLists' = [keyLists EXCEPT ![w] = e]
    BY <1>3 DEF FetchKeys
  <2>2. keyLists[w] \in EntryOf(SUBSET ApiKeys) /\ LiveKeys(w) \in SUBSET ApiKeys
    BY DEF PanelsTypeOK, LiveKeys
  <2>3. e \in EntryOf(SUBSET ApiKeys)  BY <2>2, StepOfType
  <2>. QED  BY <1>3, <2>1, <2>3 DEF PanelsTypeOK, FetchKeys
<1>4. ASSUME NEW j \in Jobs, NEW p \in People, NEW r \in Given,
             AddMember(j, p, r) \/ ChangeRank(j, p, r)
      PROVE  PanelsTypeOK'
  <2>1. panel' \in Panel /\ query' \in Job
    BY <1>4 DEF AddMember, ChangeRank, PanelsTypeOK, Panel
  <2>2. PICK f \in Job : Ask(j, f)
    <3>1. CASE AddMember(j, p, r)
      <4>1. [Of("add") EXCEPT !.person = p, !.rank = r] \in Job  BY OfRankTypes
      <4>. QED  BY <3>1, <4>1 DEF AddMember
    <3>2. CASE ChangeRank(j, p, r)
      <4>1. [Of("role") EXCEPT !.person = p, !.rank = r] \in Job  BY OfRankTypes
      <4>. QED  BY <3>2, <4>1 DEF ChangeRank
    <3>. QED  BY <1>4, <3>1, <3>2
  <2>. QED  BY <2>1, <2>2, AskTypes
<1>5. ASSUME NEW f \in Job, Inquire(f)  PROVE PanelsTypeOK'
  BY <1>5 DEF Inquire, PanelsTypeOK
<1>6. ASSUME NEW p \in People, AskRemoval(p)  PROVE PanelsTypeOK'
  <2>1. [Of("remove") EXCEPT !.person = p] \in Job
    BY NewJobs DEF PanelsTypeOK, Job
  <2>. QED  BY <1>5, <1>6, <2>1 DEF AskRemoval
<1>7. ASSUME NEW k \in ApiKeys, AskRevoke(k)  PROVE PanelsTypeOK'
  <2>1. [Of("revoke") EXCEPT !.key = k] \in Job
    BY NewJobs DEF PanelsTypeOK, Job
  <2>. QED  BY <1>5, <1>7, <2>1 DEF AskRevoke
<1>8. ASSUME NEW j \in Jobs, AgreeTo(j) \/ CreateKey(j)  PROVE PanelsTypeOK'
  <2>1. panel' \in Panel /\ query' \in Job
    BY <1>8, NewJobs DEF AgreeTo, CreateKey, PanelsTypeOK, Panel
  <2>2. query \in Job /\ Of("create") \in Job  BY NewJobs DEF PanelsTypeOK
  <2>. QED  BY <1>8, <2>1, <2>2, AskTypes DEF AgreeTo, CreateKey
<1>9. ASSUME NEW j \in Jobs, WriteMember(j)  PROVE PanelsTypeOK'
  <2>1. job' \in [Jobs -> Job]  BY <1>9, HandledType DEF WriteMember
  <2>2. ranks' \in [Teams -> Memberships]
    <3>1. job[j].rank \in Ranks \cup {"NONE"}  BY DEF PanelsTypeOK, Job
    <3>. QED  BY <1>9, <3>1 DEF WriteMember, PanelsTypeOK, Memberships
  <2>. QED  BY <1>9, <2>1, <2>2 DEF WriteMember, Perform, PanelsTypeOK
<1>10. ASSUME NEW j \in Jobs, InsertKey(j)  PROVE PanelsTypeOK'
  <2>1. PICK k \in ApiKeys : keyTeam' = [keyTeam EXCEPT ![k] = job[j].team] /\ Handled(j, k)
    BY <1>10 DEF InsertKey
  <2>2. job' \in [Jobs -> Job]  BY <2>1, HandledType
  <2>3. keyTeam' \in [ApiKeys -> Teams \cup {NoTeam}]  BY <2>1 DEF PanelsTypeOK, Job
  <2>. QED  BY <1>10, <2>2, <2>3 DEF InsertKey, Perform, PanelsTypeOK
<1>11. ASSUME NEW j \in Jobs, RevokeKey(j)  PROVE PanelsTypeOK'
  <2>1. job[j].key \in ApiKeys
    BY <1>11 DEF JobsInv, GoodJob, RevokeKey, Perform
  <2>2. job' \in [Jobs -> Job]  BY <1>11, <2>1, HandledType DEF RevokeKey
  <2>. QED  BY <1>11, <2>1, <2>2 DEF RevokeKey, Perform, PanelsTypeOK
<1>12. ASSUME NEW j \in Jobs, RefuseJob(j) \/ LoseJob(j) \/ EndRefused(j)  PROVE PanelsTypeOK'
  <2>1. job' \in [Jobs -> Job]
    BY <1>12, NewJobs DEF RefuseJob, LoseJob, EndRefused, PanelsTypeOK, Job
  <2>2. /\ members' \in [Teams -> EntryOf(Memberships)]
        /\ keyLists' \in [Teams -> EntryOf(SUBSET ApiKeys)]
    <3>1. CASE UNCHANGED <<members, keyLists>>  BY <3>1 DEF PanelsTypeOK
    <3>2. CASE /\ LoseJob(j)
               /\ keyLists' = [keyLists EXCEPT ![job[j].team] = Outdated(keyLists[job[j].team])]
               /\ UNCHANGED members
      BY <3>2, StaysInEntries DEF PanelsTypeOK
    <3>3. CASE /\ LoseJob(j)
               /\ members' = [members EXCEPT ![job[j].team] = Outdated(members[job[j].team])]
               /\ UNCHANGED keyLists
      BY <3>3, StaysInEntries DEF PanelsTypeOK
    <3>. QED  BY <1>12, <3>1, <3>2, <3>3 DEF RefuseJob, LoseJob, EndRefused
  <2>3. panel' \in Panel
    BY <1>12, FreedType DEF RefuseJob, LoseJob, EndRefused, PanelsTypeOK
  <2>. QED  BY <1>12, <2>1, <2>2, <2>3 DEF RefuseJob, LoseJob, EndRefused, PanelsTypeOK
<1>13. ASSUME NEW j \in Jobs, EndMember(j)  PROVE PanelsTypeOK'
  <2>. DEFINE w == job[j].team
              e == members[w]
              x == PutInto(e, j, MembersAfter(j, MembersOr(e)))
  <2>1. w \in Teams /\ e \in EntryOf(Memberships)
    BY <1>13 DEF JobsInv, GoodJob, EndMember, PanelsTypeOK
  <2>2. members' = [members EXCEPT ![w] = x]  BY <1>13 DEF EndMember, CacheOf
  <2>3. x \in EntryOf(Memberships)
    <3>1. MembersOr(e) \in Memberships  BY <2>1 DEF MembersOr, EntryOf, Memberships
    <3>2. job[j].rank \in Ranks \cup {"NONE"}  BY DEF PanelsTypeOK, Job
    <3>3. MembersAfter(j, MembersOr(e)) \in Memberships
      BY <3>1, <3>2 DEF MembersAfter, Memberships
    <3>. QED  BY <2>1, <3>3, PutIntoType
  <2>. HIDE DEF x, w, e
  <2>4. members' \in [Teams -> EntryOf(Memberships)]  BY <2>1, <2>2, <2>3 DEF PanelsTypeOK
  <2>5. job' \in [Jobs -> Job] /\ panel' \in Panel
    BY <1>13, NewJobs, FreedType DEF EndMember, PanelsTypeOK
  <2>. QED  BY <1>13, <2>4, <2>5 DEF EndMember, PanelsTypeOK
<1>14. ASSUME NEW j \in Jobs, EndKey(j)  PROVE PanelsTypeOK'
  <2>. DEFINE w == job[j].team
              e == keyLists[w]
              d == IF job[j].op = "create" THEN KeysOr(e) \cup {job[j].key}
                   ELSE KeysOr(e) \ {job[j].key}
              x == PutInto(e, j, d)
  <2>1. w \in Teams /\ e \in EntryOf(SUBSET ApiKeys) /\ job[j].key \in ApiKeys
    BY <1>14 DEF JobsInv, GoodJob, EndKey, PanelsTypeOK
  <2>2. keyLists' = [keyLists EXCEPT ![w] = x]  BY <1>14 DEF EndKey, CacheOf
  <2>3. x \in EntryOf(SUBSET ApiKeys)
    <3>1. KeysOr(e) \in SUBSET ApiKeys  BY <2>1 DEF KeysOr, EntryOf
    <3>2. d \in SUBSET ApiKeys  BY <2>1, <3>1
    <3>. QED  BY <2>1, <3>2, PutIntoType
  <2>. HIDE DEF x, w, e, d
  <2>4. keyLists' \in [Teams -> EntryOf(SUBSET ApiKeys)]  BY <2>1, <2>2, <2>3 DEF PanelsTypeOK
  <2>5. job' \in [Jobs -> Job] /\ panel' \in Panel
    <3>1. Freed(j) \in Panel  BY FreedType
    <3>2. [Freed(j) EXCEPT !.secret = job[j].key, !.open = FALSE] \in Panel
      BY <2>1, <3>1 DEF Panel
    <3>. QED  BY <1>14, <3>1, <3>2, NewJobs DEF EndKey, PanelsTypeOK
  <2>. QED  BY <1>14, <2>4, <2>5 DEF EndKey, PanelsTypeOK
<1>15. ASSUME NEW w \in Teams, NEW p \in People, NEW r \in Ranks \cup {"NONE"},
              OtherSetsRank(w, p, r)
       PROVE  PanelsTypeOK'
  <2>1. job' \in [Jobs -> Job]  BY <1>15, OvertakeAtType DEF OtherSetsRank
  <2>2. ranks' \in [Teams -> Memberships]
    BY <1>15 DEF OtherSetsRank, PanelsTypeOK, Memberships
  <2>3. members' \in [Teams -> EntryOf(Memberships)]
    BY <1>15, StaysInEntries DEF OtherSetsRank, PanelsTypeOK
  <2>4. others' \in 0 .. MaxOthers
    BY <1>15, PanelsConstants DEF OtherSetsRank, PanelsTypeOK
  <2>. QED  BY <1>15, <2>1, <2>2, <2>3, <2>4 DEF OtherSetsRank, PanelsTypeOK
<1>16. ASSUME NEW k \in ApiKeys, OtherRevokes(k)  PROVE PanelsTypeOK'
  <2>1. job' \in [Jobs -> Job]  BY <1>16, OvertakeAtType DEF OtherRevokes
  <2>2. keyTeam[k] \in Teams  BY <1>16 DEF OtherRevokes, PanelsTypeOK
  <2>3. keyLists' \in [Teams -> EntryOf(SUBSET ApiKeys)]
    BY <1>16, <2>2, StaysInEntries DEF OtherRevokes, PanelsTypeOK
  <2>4. others' \in 0 .. MaxOthers
    BY <1>16, PanelsConstants DEF OtherRevokes, PanelsTypeOK
  <2>. QED  BY <1>16, <2>1, <2>3, <2>4 DEF OtherRevokes, PanelsTypeOK
<1>20. CASE UNCHANGED panelVars \/ Decline
  BY <1>20, NewJobs DEF PanelsTypeOK, panelVars, Decline
<1>21. CASE KeyDialogs
  <2>1. panel' \in Panel  BY <1>21 DEF KeyDialogs, PanelsTypeOK, Panel
  <2>. QED  BY <1>21, <2>1 DEF PanelsTypeOK, KeyDialogs
<1>22. CASE AskAgain
  <2>1. /\ here \in Teams
        /\ Want(members[here]) \in EntryOf(Memberships)
        /\ Want(keyLists[here]) \in EntryOf(SUBSET ApiKeys)
    BY StaysInEntries DEF PanelsTypeOK
  <2>2. others' \in 0 .. MaxOthers
    BY <1>22, PanelsConstants DEF AskAgain, PanelsTypeOK
  <2>3. /\ members' \in [Teams -> EntryOf(Memberships)]
        /\ keyLists' \in [Teams -> EntryOf(SUBSET ApiKeys)]
    BY <1>22, <2>1 DEF AskAgain, PanelsTypeOK
  <2>. QED  BY <1>22, <2>2, <2>3 DEF AskAgain, PanelsTypeOK
<1>. QED  BY <1>1, <1>2, <1>3, <1>4, <1>6, <1>7, <1>8, <1>9, <1>10, <1>11, <1>12, <1>13, <1>14,
             <1>15, <1>16, <1>20, <1>21, <1>22 DEF PanelsNext

-----------------------------------------------------------------------------
(* The calls.                                                               *)
LEMMA RestingJobs ==
    ASSUME NEW rows, NEW teams, NEW gone, NEW w
    PROVE  GoodJob(NewJob, rows, teams, gone, w) /\ GoodJob(JobOver, rows, teams, gone, w)
<1>. QED  BY DEF GoodJob, NewJob, JobOver, KeyOps, MemberOps

LEMMA JobsKeep ==
    ASSUME JobsInv, UNCHANGED <<ranks, keyTeam, revoked, here>>,
           \A i \in Jobs : \/ job'[i] = job[i]
                           \/ GoodJob(job'[i], ranks, keyTeam, revoked, here),
           \/ query' = query
           \/ GoodJob(query', ranks, keyTeam, revoked, here) /\ query'.phase \in {"new", "sent"},
           panel'.secret = panel.secret \/ SecretsStayHome'
    PROVE  JobsInv'
<1>1. SecretsStayHome'  BY DEF JobsInv, SecretsStayHome
<1>. QED  BY <1>1 DEF JobsInv

LEMMA AskingJobs ==
    ASSUME PanelsTypeOK, JobsInv, NEW j \in Jobs, NEW f, Ask(j, f),
           GoodJob(f, ranks, keyTeam, revoked, here), query' = query \/ query' = NewJob,
           panel'.secret = panel.secret
    PROVE  JobsInv'
<1>1. UNCHANGED <<ranks, keyTeam, revoked, here>> /\ job' = [job EXCEPT ![j] = f]
  BY DEF Ask, rowsOfPanels
<1>2. \A i \in Jobs : job'[i] = job[i] \/ job'[i] = f  BY <1>1 DEF PanelsTypeOK
<1>3. NewJob.phase = "new"  BY DEF NewJob
<1>. QED  BY <1>1, <1>2, <1>3, RestingJobs, JobsKeep

LEMMA HandledJob ==
    ASSUME PanelsTypeOK, NEW j \in Jobs, NEW k, Handled(j, k)
    PROVE  /\ job'[j].phase = "done" /\ job'[j].key = k
           /\ job'[j].op = job[j].op /\ job'[j].team = job[j].team
           /\ job'[j].person = job[j].person /\ job'[j].rank = job[j].rank
           /\ job'[j].same = job[j].same /\ job'[j].late = job[j].late
<1>1. job[j] \in Job  BY DEF PanelsTypeOK
<1>2. job'[j] = [job[j] EXCEPT !.phase = "done", !.key = k]  BY DEF Handled
<1>. QED  BY <1>1, <1>2 DEF Job

LEMMA HandledOthers ==
    ASSUME PanelsTypeOK, NEW j, NEW k, Handled(j, k), NEW i \in Jobs, i # j
    PROVE  /\ job'[i].phase = job[i].phase /\ job'[i].op = job[i].op
           /\ job'[i].team = job[i].team /\ job'[i].person = job[i].person
           /\ job'[i].key = job[i].key /\ job'[i].rank = job[i].rank
           /\ job'[i].same = job[i].same
           /\ job'[i].late <=> \/ job[i].late
                               \/ /\ job[i].phase = "done" /\ job[i].team = job[j].team
                                  /\ job[i].person = job[j].person /\ job[i].key = k
<1>. DEFINE b == /\ job[i].phase = "done" /\ job[i].team = job[j].team
                 /\ job[i].person = job[j].person /\ job[i].key = k
<1>1. job[i] \in Job  BY DEF PanelsTypeOK
<1>2. job'[i] = [job[i] EXCEPT !.late = job[i].late \/ b]  BY DEF Handled
<1>. HIDE DEF b
<1>3. job'[i].late <=> job[i].late \/ b  BY <1>1, <1>2 DEF Job
<1>4. /\ job'[i].phase = job[i].phase /\ job'[i].op = job[i].op
      /\ job'[i].team = job[i].team /\ job'[i].person = job[i].person
      /\ job'[i].key = job[i].key /\ job'[i].rank = job[i].rank
      /\ job'[i].same = job[i].same
  BY <1>1, <1>2 DEF Job
<1>. QED  BY <1>3, <1>4 DEF b

LEMMA OvertakenJobs ==
    ASSUME PanelsTypeOK, NEW w, OvertakeAt(w)
    PROVE  /\ DOMAIN job' = Jobs
           /\ \A i \in Jobs :
                /\ job'[i].phase = job[i].phase /\ job'[i].op = job[i].op
                /\ job'[i].team = job[i].team /\ job'[i].person = job[i].person
                /\ job'[i].key = job[i].key /\ job'[i].rank = job[i].rank
                /\ job'[i].same = job[i].same
                /\ job'[i].late <=> job[i].late \/ (job[i].phase = "done" /\ job[i].team = w)
<1>1. \A i \in Jobs : job[i] \in Job  BY DEF PanelsTypeOK
<1>2. ASSUME NEW i \in Jobs
      PROVE  /\ job'[i].phase = job[i].phase /\ job'[i].op = job[i].op
             /\ job'[i].team = job[i].team /\ job'[i].person = job[i].person
             /\ job'[i].key = job[i].key /\ job'[i].rank = job[i].rank
             /\ job'[i].same = job[i].same
             /\ job'[i].late <=> job[i].late \/ (job[i].phase = "done" /\ job[i].team = w)
  <2>. DEFINE b == job[i].phase = "done" /\ job[i].team = w
  <2>1. job'[i] = [job[i] EXCEPT !.late = job[i].late \/ b]  BY DEF OvertakeAt
  <2>. HIDE DEF b
  <2>2. job'[i].late <=> job[i].late \/ b  BY <1>1, <2>1 DEF Job
  <2>3. /\ job'[i].phase = job[i].phase /\ job'[i].op = job[i].op
        /\ job'[i].team = job[i].team /\ job'[i].person = job[i].person
        /\ job'[i].key = job[i].key /\ job'[i].rank = job[i].rank
        /\ job'[i].same = job[i].same
    BY <1>1, <2>1 DEF Job
  <2>. QED  BY <2>2, <2>3 DEF b
<1>. QED  BY <1>2 DEF OvertakeAt

LEMMA ShowTeamJobs ==
    ASSUME PanelsTypeOK, JobsInv, NEW w \in Teams, ShowTeam(w)
    PROVE  JobsInv'
<1>1. /\ UNCHANGED <<ranks, keyTeam, revoked, query>> /\ here' = w /\ query = NewJob
      /\ panel' = NewPanel
  BY DEF ShowTeam, Free, PanelOf, rowsOfPanels
<1>2. ASSUME NEW i \in Jobs  PROVE GoodJob(job'[i], ranks, keyTeam, revoked, w)
  <2>1. job'[i] = [job[i] EXCEPT !.same = FALSE] /\ job[i] \in Job
    BY DEF ShowTeam, PanelsTypeOK
  <2>2. /\ ~job'[i].same /\ job'[i].op = job[i].op /\ job'[i].phase = job[i].phase
        /\ job'[i].team = job[i].team /\ job'[i].person = job[i].person
        /\ job'[i].key = job[i].key /\ job'[i].rank = job[i].rank /\ job'[i].late = job[i].late
    BY <2>1 DEF Job
  <2>. QED  BY <2>2 DEF JobsInv, GoodJob
<1>3. SecretsStayHome'  BY <1>1 DEF SecretsStayHome, NewPanel
<1>4. NewJob.phase = "new"  BY DEF NewJob
<1>. QED  BY <1>1, <1>2, <1>3, <1>4, RestingJobs DEF JobsInv

LEMMA WriteMemberJobs ==
    ASSUME PanelsTypeOK, JobsInv, NEW j \in Jobs, WriteMember(j)
    PROVE  JobsInv'
<1>1. /\ job[j].op \in MemberOps /\ job[j].phase = "sent" /\ Handled(j, NoKey)
      /\ ranks' = [ranks EXCEPT ![job[j].team][job[j].person] = job[j].rank]
      /\ UNCHANGED <<keyTeam, revoked, here, panel, query>>
  BY DEF WriteMember, Perform, MemberOps
<1>2. \A i \in Jobs : GoodJob(job[i], ranks, keyTeam, revoked, here)  BY DEF JobsInv
<1>3. job[j].team \in Teams /\ job[j].person \in People  BY <1>1, <1>2 DEF GoodJob
<1>4. /\ ranks'[job[j].team][job[j].person] = job[j].rank
      /\ \A w \in Teams, p \in People :
            w # job[j].team \/ p # job[j].person => ranks'[w][p] = ranks[w][p]
  BY <1>1, <1>3 DEF PanelsTypeOK, Memberships
<1>5. ASSUME NEW i \in Jobs  PROVE GoodJob(job'[i], ranks', keyTeam, revoked, here)
  <2>1. CASE i = j
    <3>1. GoodJob(job[j], ranks, keyTeam, revoked, here)  BY <1>2
    <3>2. /\ job'[j].phase = "done" /\ job'[j].key = NoKey
          /\ job'[j].op = job[j].op /\ job'[j].team = job[j].team
          /\ job'[j].person = job[j].person /\ job'[j].rank = job[j].rank
          /\ job'[j].same = job[j].same /\ job'[j].late = job[j].late
      BY <1>1, HandledJob
    <3>. QED  BY <1>1, <1>3, <1>4, <2>1, <3>1, <3>2 DEF GoodJob, KeyOps, MemberOps
  <2>2. CASE i # j
    <3>1. GoodJob(job[i], ranks, keyTeam, revoked, here)  BY <1>2
    <3>2. /\ job'[i].phase = job[i].phase /\ job'[i].op = job[i].op
          /\ job'[i].team = job[i].team /\ job'[i].person = job[i].person
          /\ job'[i].key = job[i].key /\ job'[i].rank = job[i].rank
          /\ job'[i].same = job[i].same
          /\ job'[i].late <=> \/ job[i].late
                              \/ /\ job[i].phase = "done" /\ job[i].team = job[j].team
                                 /\ job[i].person = job[j].person /\ job[i].key = NoKey
      BY <1>1, <2>2, HandledOthers
    <3>. QED  BY <1>4, <3>1, <3>2 DEF GoodJob
  <2>. QED  BY <2>1, <2>2
<1>6. SecretsStayHome'  BY <1>1 DEF JobsInv, SecretsStayHome
<1>7. GoodJob(query, ranks', keyTeam, revoked, here) /\ query.phase \in {"new", "sent"}
  BY DEF JobsInv, GoodJob
<1>. QED  BY <1>1, <1>5, <1>6, <1>7 DEF JobsInv

LEMMA InsertKeyJobs ==
    ASSUME PanelsTypeOK, JobsInv, NEW j \in Jobs, InsertKey(j)
    PROVE  JobsInv'
<1>1. PICK k \in ApiKeys : /\ keyTeam[k] = NoTeam /\ keyTeam' = [keyTeam EXCEPT ![k] = job[j].team]
                           /\ Handled(j, k)
  BY DEF InsertKey
<1>2. /\ job[j].op = "create" /\ job[j].phase = "sent"
      /\ UNCHANGED <<ranks, revoked, here, panel, query>>
  BY DEF InsertKey, Perform
<1>3. \A i \in Jobs : GoodJob(job[i], ranks, keyTeam, revoked, here)  BY DEF JobsInv
<1>4. job[j].team \in Teams /\ here \in Teams /\ NoTeam \notin Teams /\ k \notin revoked
  BY <1>1, <1>2, <1>3, PanelsConstants DEF GoodJob, PanelsTypeOK, JobsInv
<1>5. keyTeam'[k] = job[j].team /\ \A x \in ApiKeys : x # k => keyTeam'[x] = keyTeam[x]
  BY <1>1 DEF PanelsTypeOK
<1>6. ASSUME NEW i \in Jobs  PROVE GoodJob(job'[i], ranks, keyTeam', revoked, here)
  <2>1. CASE i = j
    <3>1. GoodJob(job[j], ranks, keyTeam, revoked, here)  BY <1>3
    <3>2. /\ job'[j].phase = "done" /\ job'[j].key = k
          /\ job'[j].op = job[j].op /\ job'[j].team = job[j].team
          /\ job'[j].person = job[j].person /\ job'[j].rank = job[j].rank
          /\ job'[j].same = job[j].same /\ job'[j].late = job[j].late
      BY <1>1, HandledJob
    <3>. QED  BY <1>2, <1>4, <1>5, <2>1, <3>1, <3>2 DEF GoodJob, KeyOps, MemberOps
  <2>2. CASE i # j
    <3>1. GoodJob(job[i], ranks, keyTeam, revoked, here)  BY <1>3
    <3>2. /\ job'[i].phase = job[i].phase /\ job'[i].op = job[i].op
          /\ job'[i].team = job[i].team /\ job'[i].person = job[i].person
          /\ job'[i].key = job[i].key /\ job'[i].rank = job[i].rank
          /\ job'[i].same = job[i].same /\ (job[i].late => job'[i].late)
      BY <1>1, <2>2, HandledOthers
    <3>3. job[i].phase = "done" /\ job[i].op = "create" =>
              job[i].key \in ApiKeys /\ job[i].key # k
      BY <1>1, <1>4, <3>1 DEF GoodJob
    <3>. QED  BY <1>5, <3>1, <3>2, <3>3 DEF GoodJob
  <2>. QED  BY <2>1, <2>2
<1>7. SecretsStayHome'
  <2>1. panel.secret \in ApiKeys \cup {NoKey}  BY DEF PanelsTypeOK, Panel
  <2>. QED  BY <1>1, <1>2, <1>4, <1>5, <2>1 DEF JobsInv, SecretsStayHome
<1>8. GoodJob(query, ranks, keyTeam', revoked, here) /\ query.phase \in {"new", "sent"}
  BY DEF JobsInv, GoodJob
<1>9. \A x \in revoked : keyTeam'[x] # NoTeam  BY <1>4, <1>5 DEF JobsInv, PanelsTypeOK
<1>. QED  BY <1>2, <1>6, <1>7, <1>8, <1>9 DEF JobsInv

LEMMA RevokeKeyJobs ==
    ASSUME PanelsTypeOK, JobsInv, NEW j \in Jobs, RevokeKey(j)
    PROVE  JobsInv'
<1>1. /\ job[j].op = "revoke" /\ job[j].phase = "sent" /\ Handled(j, job[j].key)
      /\ revoked' = revoked \cup {job[j].key} /\ keyTeam[job[j].key] = job[j].team
      /\ UNCHANGED <<ranks, keyTeam, here, panel, query>>
  BY DEF RevokeKey, Perform, Accepted
<1>2. \A i \in Jobs : GoodJob(job[i], ranks, keyTeam, revoked, here)  BY DEF JobsInv
<1>3. job[j].team \in Teams /\ NoTeam \notin Teams
  BY <1>1, <1>2, PanelsConstants DEF GoodJob
<1>4. ASSUME NEW i \in Jobs  PROVE GoodJob(job'[i], ranks, keyTeam, revoked', here)
  <2>1. CASE i = j
    <3>1. GoodJob(job[j], ranks, keyTeam, revoked, here)  BY <1>2
    <3>2. /\ job'[j].phase = "done" /\ job'[j].key = job[j].key
          /\ job'[j].op = job[j].op /\ job'[j].team = job[j].team
          /\ job'[j].person = job[j].person /\ job'[j].rank = job[j].rank
          /\ job'[j].same = job[j].same /\ job'[j].late = job[j].late
      BY <1>1, HandledJob
    <3>. QED  BY <1>1, <2>1, <3>1, <3>2 DEF GoodJob, KeyOps, MemberOps
  <2>2. CASE i # j
    <3>1. GoodJob(job[i], ranks, keyTeam, revoked, here) /\ job[j].person = Nobody
      BY <1>1, <1>2 DEF GoodJob, KeyOps
    <3>2. /\ job'[i].phase = job[i].phase /\ job'[i].op = job[i].op
          /\ job'[i].team = job[i].team /\ job'[i].person = job[i].person
          /\ job'[i].key = job[i].key /\ job'[i].rank = job[i].rank
          /\ job'[i].same = job[i].same
          /\ job'[i].late <=> \/ job[i].late
                              \/ /\ job[i].phase = "done" /\ job[i].team = job[j].team
                                 /\ job[i].person = job[j].person /\ job[i].key = job[j].key
      BY <1>1, <2>2, HandledOthers
    <3>. QED  BY <1>1, <3>1, <3>2 DEF GoodJob, KeyOps
  <2>. QED  BY <2>1, <2>2
<1>5. SecretsStayHome'  BY <1>1 DEF JobsInv, SecretsStayHome
<1>6. GoodJob(query, ranks, keyTeam, revoked', here) /\ query.phase \in {"new", "sent"}
  BY DEF JobsInv, GoodJob
<1>. QED  BY <1>1, <1>3, <1>4, <1>5, <1>6 DEF JobsInv

LEMMA EndingJobs ==
    ASSUME PanelsTypeOK, JobsInv, NEW j \in Jobs,
           \/ RefuseJob(j) \/ LoseJob(j) \/ EndRefused(j) \/ EndMember(j) \/ EndKey(j)
    PROVE  JobsInv'
<1>1. UNCHANGED <<ranks, keyTeam, revoked, here, query>>
  BY DEF RefuseJob, LoseJob, EndRefused, EndMember, EndKey, rowsOfPanels
<1>2. \A i \in Jobs : GoodJob(job[i], ranks, keyTeam, revoked, here) /\ job[i] \in Job
  BY DEF JobsInv, PanelsTypeOK
<1>3. CASE RefuseJob(j) \/ LoseJob(j)
  <2>. DEFINE f == [job[j] EXCEPT !.phase = "failed"]
  <2>1. job' = [job EXCEPT ![j].phase = "failed"] /\ UNCHANGED panel
    BY <1>3 DEF RefuseJob, LoseJob
  <2>2. job' = [job EXCEPT ![j] = f]  BY <2>1, Zenon
  <2>3. f.phase = "failed" /\ f.same = job[j].same /\ f.team = job[j].team /\ f.op = job[j].op
        /\ f.person = job[j].person
    BY <1>2 DEF Job
  <2>4. GoodJob(f, ranks, keyTeam, revoked, here)  BY <1>2, <2>3 DEF GoodJob
  <2>. HIDE DEF f
  <2>5. \A i \in Jobs : job'[i] = job[i] \/ job'[i] = f  BY <2>2 DEF PanelsTypeOK
  <2>. QED  BY <1>1, <2>1, <2>4, <2>5, JobsKeep
<1>4. CASE EndRefused(j) \/ EndMember(j) \/ EndKey(j)
  <2>1. job' = [job EXCEPT ![j] = JobOver]  BY <1>4 DEF EndRefused, EndMember, EndKey
  <2>2. \A i \in Jobs : job'[i] = job[i] \/ job'[i] = JobOver  BY <2>1 DEF PanelsTypeOK
  <2>3. Freed(j).secret = panel.secret /\ Freed(j) \in Panel
    BY FreedType DEF Freed, PanelsTypeOK, Panel
  <2>4. panel'.secret = panel.secret \/ SecretsStayHome'
    <3>1. CASE EndRefused(j) \/ EndMember(j)  BY <2>3, <3>1 DEF EndRefused, EndMember
    <3>2. CASE EndKey(j) /\ ~(job[j].op = "create" /\ job[j].same)
      BY <2>3, <3>2 DEF EndKey
    <3>3. CASE EndKey(j) /\ job[j].op = "create" /\ job[j].same
      <4>1. panel'.secret = job[j].key /\ job[j].phase = "done"
        BY <2>3, <3>3 DEF EndKey, Panel
      <4>2. keyTeam[job[j].key] = here  BY <1>2, <3>3, <4>1 DEF GoodJob
      <4>. QED  BY <1>1, <4>1, <4>2 DEF SecretsStayHome
    <3>. QED  BY <1>4, <3>1, <3>2, <3>3
  <2>. QED  BY <1>1, <2>2, <2>4, RestingJobs, JobsKeep
<1>. QED  BY <1>3, <1>4

LEMMA OthersJobs ==
    ASSUME PanelsTypeOK, JobsInv,
           \/ \E w \in Teams, p \in People, r \in Ranks \cup {"NONE"} : OtherSetsRank(w, p, r)
           \/ \E k \in ApiKeys : OtherRevokes(k)
    PROVE  JobsInv'
<1>1. \A i \in Jobs : GoodJob(job[i], ranks, keyTeam, revoked, here)  BY DEF JobsInv
<1>2. ASSUME NEW w \in Teams, NEW p \in People, NEW r \in Ranks \cup {"NONE"},
             OtherSetsRank(w, p, r)
      PROVE  JobsInv'
  <2>1. /\ UNCHANGED <<keyTeam, revoked, here, panel, query>> /\ OvertakeAt(w)
        /\ ranks' = [ranks EXCEPT ![w][p] = r]
    BY <1>2 DEF OtherSetsRank
  <2>2. \A v \in Teams, q \in People : v # w => ranks'[v][q] = ranks[v][q]
    BY <2>1 DEF PanelsTypeOK
  <2>3. ASSUME NEW i \in Jobs  PROVE GoodJob(job'[i], ranks', keyTeam, revoked, here)
    <3>1. GoodJob(job[i], ranks, keyTeam, revoked, here)  BY <1>1
    <3>2. /\ job'[i].phase = job[i].phase /\ job'[i].op = job[i].op
          /\ job'[i].team = job[i].team /\ job'[i].person = job[i].person
          /\ job'[i].key = job[i].key /\ job'[i].rank = job[i].rank
          /\ job'[i].same = job[i].same
          /\ job'[i].late <=> job[i].late \/ (job[i].phase = "done" /\ job[i].team = w)
      BY <2>1, OvertakenJobs
    <3>. QED  BY <2>2, <3>1, <3>2 DEF GoodJob
  <2>4. SecretsStayHome'  BY <2>1 DEF JobsInv, SecretsStayHome
  <2>5. GoodJob(query, ranks', keyTeam, revoked, here) /\ query.phase \in {"new", "sent"}
    BY DEF JobsInv, GoodJob
  <2>. QED  BY <2>1, <2>3, <2>4, <2>5 DEF JobsInv
<1>3. ASSUME NEW k \in ApiKeys, OtherRevokes(k)  PROVE JobsInv'
  <2>1. /\ UNCHANGED <<ranks, keyTeam, here, panel, query>> /\ OvertakeAt(keyTeam[k])
        /\ revoked' = revoked \cup {k} /\ keyTeam[k] # NoTeam
    BY <1>3 DEF OtherRevokes
  <2>2. ASSUME NEW i \in Jobs  PROVE GoodJob(job'[i], ranks, keyTeam, revoked', here)
    <3>1. GoodJob(job[i], ranks, keyTeam, revoked, here)  BY <1>1
    <3>2. /\ job'[i].phase = job[i].phase /\ job'[i].op = job[i].op
          /\ job'[i].team = job[i].team /\ job'[i].person = job[i].person
          /\ job'[i].key = job[i].key /\ job'[i].rank = job[i].rank
          /\ job'[i].same = job[i].same
          /\ job'[i].late <=> job[i].late \/ (job[i].phase = "done" /\ job[i].team = keyTeam[k])
      BY <2>1, OvertakenJobs
    <3>. QED  BY <2>1, <3>1, <3>2 DEF GoodJob
  <2>3. SecretsStayHome'  BY <2>1 DEF JobsInv, SecretsStayHome
  <2>4. GoodJob(query, ranks, keyTeam, revoked', here) /\ query.phase \in {"new", "sent"}
    BY DEF JobsInv, GoodJob
  <2>. QED  BY <2>1, <2>2, <2>3, <2>4 DEF JobsInv
<1>. QED  BY <1>2, <1>3

LEMMA JobsStep == ASSUME PanelsTypeOK, JobsInv, [PanelsNext]_panelVars PROVE JobsInv'
<1>. USE DEF rowsOfPanels
<1>1. ASSUME NEW j \in Jobs, NEW p \in People, NEW r \in Given,
             AddMember(j, p, r) \/ ChangeRank(j, p, r)
      PROVE  JobsInv'
  <2>1. panel'.secret = panel.secret /\ query' = query
    BY <1>1 DEF AddMember, ChangeRank, PanelsTypeOK, Panel
  <2>2. PICK f : Ask(j, f) /\ GoodJob(f, ranks, keyTeam, revoked, here)
    <3>. DEFINE f == [Of("add") EXCEPT !.person = p, !.rank = r]
                g == [Of("role") EXCEPT !.person = p, !.rank = r]
    <3>1. /\ GoodJob(f, ranks, keyTeam, revoked, here)
          /\ GoodJob(g, ranks, keyTeam, revoked, here)
      BY DEF GoodJob, Of, NewJob, KeyOps, MemberOps, PanelsTypeOK
    <3>2. Ask(j, f) \/ Ask(j, g)  BY <1>1 DEF AddMember, ChangeRank
    <3>. HIDE DEF f, g
    <3>. QED  BY <3>1, <3>2
  <2>. QED  BY <2>1, <2>2, AskingJobs
<1>2. ASSUME NEW p \in People, AskRemoval(p)  PROVE JobsInv'
  <2>. DEFINE f == [Of("remove") EXCEPT !.person = p]
  <2>1. GoodJob(f, ranks, keyTeam, revoked, here) /\ f.phase = "sent"
    BY DEF GoodJob, Of, NewJob, KeyOps, MemberOps, PanelsTypeOK
  <2>2. query' = f /\ UNCHANGED <<ranks, keyTeam, revoked, here, panel, job>>
    BY <1>2 DEF AskRemoval, Inquire
  <2>. HIDE DEF f
  <2>. QED  BY <2>1, <2>2, JobsKeep
<1>3. ASSUME NEW k \in ApiKeys, AskRevoke(k)  PROVE JobsInv'
  <2>. DEFINE f == [Of("revoke") EXCEPT !.key = k]
  <2>1. GoodJob(f, ranks, keyTeam, revoked, here) /\ f.phase = "sent"
    BY DEF GoodJob, Of, NewJob, KeyOps, MemberOps, PanelsTypeOK
  <2>2. query' = f /\ UNCHANGED <<ranks, keyTeam, revoked, here, panel, job>>
    BY <1>3 DEF AskRevoke, Inquire
  <2>. HIDE DEF f
  <2>. QED  BY <2>1, <2>2, JobsKeep
<1>4. ASSUME NEW j \in Jobs, AgreeTo(j)  PROVE JobsInv'
  BY <1>4, AskingJobs DEF AgreeTo, JobsInv
<1>5. ASSUME NEW j \in Jobs, CreateKey(j)  PROVE JobsInv'
  <2>1. GoodJob(Of("create"), ranks, keyTeam, revoked, here)
    BY DEF GoodJob, Of, NewJob, KeyOps, MemberOps, PanelsTypeOK
  <2>2. panel'.secret = panel.secret /\ query' = query /\ Ask(j, Of("create"))
    BY <1>5 DEF CreateKey, PanelsTypeOK, Panel
  <2>. QED  BY <2>1, <2>2, AskingJobs
<1>6. CASE KeyDialogs
  <2>1. panel'.secret = panel.secret \/ panel'.secret = NoKey
    BY <1>6 DEF KeyDialogs, PanelsTypeOK, Panel
  <2>2. panel'.secret = panel.secret \/ SecretsStayHome'  BY <2>1 DEF SecretsStayHome
  <2>3. UNCHANGED <<ranks, keyTeam, revoked, here, query, job>>  BY <1>6 DEF KeyDialogs
  <2>. QED  BY <2>2, <2>3, JobsKeep
<1>7. CASE \/ UNCHANGED panelVars \/ AskAgain
           \/ \E w \in Teams : FetchMembers(w) \/ FetchKeys(w)
  <2>1. UNCHANGED <<ranks, keyTeam, revoked, here, panel, query, job>>
    BY <1>7 DEF panelVars, AskAgain, FetchMembers, FetchKeys
  <2>. QED  BY <2>1, JobsKeep
<1>8. CASE Decline
  <2>1. /\ UNCHANGED <<ranks, keyTeam, revoked, here, panel, job>> /\ query' = NewJob
        /\ NewJob.phase = "new"
    BY <1>8 DEF Decline, NewJob
  <2>. QED  BY <2>1, RestingJobs, JobsKeep
<1>. QED
  BY <1>1, <1>2, <1>3, <1>4, <1>5, <1>6, <1>7, <1>8, ShowTeamJobs, WriteMemberJobs,
     InsertKeyJobs, RevokeKeyJobs, EndingJobs, OthersJobs DEF PanelsNext

-----------------------------------------------------------------------------
(* The lists of the panels.                                                 *)
LEMMA SoundMoves ==
    ASSUME NEW D, NEW e \in EntryOf(D), NEW good, NEW d \in good, Sound(e, good)
    PROVE  /\ Sound(Serve(e, d), good) /\ Sound(Fail(e), good)
           /\ e.phase = "served" => Sound(Arrive(e), good)
           /\ \A x \in Opened(e) : Sound(x, good)
           /\ Sound(Want(e), good)
<1>1. Sound(Serve(e, d), good)  BY DEF Sound, EntryOf, Serve
<1>2. Sound(Fail(e), good)  BY DEF Sound, EntryOf, Fail
<1>3. e.phase = "served" => Sound(Arrive(e), good)  BY DEF Sound, EntryOf, Arrive, NewEntry
<1>4. Sound(Restart(e), good)  BY DEF Sound, EntryOf, Restart
<1>. QED  BY <1>1, <1>2, <1>3, <1>4 DEF Want, Opened

LEMMA SoundOutdated ==
    ASSUME NEW D, NEW e \in EntryOf(D), NEW good PROVE Sound(Outdated(e), good)
<1>. QED  BY DEF Sound, EntryOf, Outdated

LEMMA SoundGrows ==
    ASSUME NEW e, NEW good, NEW more, good \subseteq more, Sound(e, good) PROVE Sound(e, more)
<1>. QED  BY DEF Sound

LEMMA SoundPut ==
    ASSUME NEW D, NEW e \in EntryOf(D), NEW good, NEW d, NEW j,
           ~e.behind /\ e.data # NoData /\ ~job[j].late => d \in good
    PROVE  Sound(PutInto(e, j, d), good)
<1>. DEFINE b == e.behind \/ job[j].late \/ e.data = NoData
            f == Put(e, d)
<1>1. /\ f.data = d /\ f.phase = e.phase /\ f.overtaken = (e.phase = "served")
      /\ f \in EntryOf({f.data, f.answer})
  BY DEF Put, EntryOf
<1>2. PutInto(e, j, d) = [f EXCEPT !.behind = b]  BY DEF PutInto
<1>3. b \in BOOLEAN  BY Zenon
<1>4. ~b => d \in good  OBVIOUS
<1>. HIDE DEF b, f
<1>5. [f EXCEPT !.behind = b].data = d /\ [f EXCEPT !.behind = b].behind = b
      /\ [f EXCEPT !.behind = b].phase = e.phase
      /\ [f EXCEPT !.behind = b].overtaken = (e.phase = "served")
  BY <1>1, <1>3 DEF EntryOf
<1>. QED  BY <1>2, <1>4, <1>5 DEF Sound

(* What is under way stays so.                                              *)
Stays(calls, later, w, ops) ==
    \A i \in Underway(calls, w, ops) :
        /\ later[i].phase = "done" /\ later[i].team = calls[i].team
        /\ later[i].op = calls[i].op /\ later[i].person = calls[i].person
        /\ later[i].key = calls[i].key /\ (calls[i].late => later[i].late)

LEMMA MembersGrow ==
    ASSUME NEW rows, NEW newer, NEW calls, NEW later, NEW w, Stays(calls, later, w, MemberOps),
           \A p \in People :
              \/ newer[w][p] = rows[w][p]
              \/ \E j \in Underway(later, w, MemberOps) :
                    later[j].person = p /\ (later[j].op = "role" => rows[w][p] # "NONE")
    PROVE  GoodMembers(rows, calls, w) \subseteq GoodMembers(newer, later, w)
<1>. SUFFICES ASSUME NEW d \in GoodMembers(rows, calls, w)
              PROVE  d \in GoodMembers(newer, later, w)
  OBVIOUS
<1>1. \A i \in Underway(calls, w, MemberOps) : i \in Underway(later, w, MemberOps)
  BY DEF Stays, Underway
<1>2. CASE \E i \in Underway(calls, w, MemberOps) : calls[i].late
  BY <1>1, <1>2 DEF GoodMembers, Stays
<1>3. CASE ~\E i \in Underway(calls, w, MemberOps) : calls[i].late
  <2>1. ASSUME NEW p \in People
        PROVE  \/ d[p] = newer[w][p]
               \/ \E j \in Underway(later, w, MemberOps) :
                     later[j].person = p /\ (later[j].op = "role" => d[p] # "NONE")
    <3>1. CASE d[p] = rows[w][p]  BY <3>1
    <3>2. CASE \E j \in Underway(calls, w, MemberOps) :
                  calls[j].person = p /\ (calls[j].op = "role" => d[p] # "NONE")
      BY <1>1, <3>2 DEF Stays
    <3>. QED  BY <1>3, <3>1, <3>2 DEF GoodMembers
  <2>. QED  BY <2>1 DEF GoodMembers
<1>. QED  BY <1>2, <1>3

LEMMA KeysGrow ==
    ASSUME NEW teams, NEW gone, NEW newer, NEW more, NEW calls, NEW later, NEW w,
           Stays(calls, later, w, KeyOps),
           \A k \in ApiKeys :
              \/ LiveIn(k, newer, more, w) <=> LiveIn(k, teams, gone, w)
              \/ \E j \in Underway(later, w, KeyOps) : later[j].key = k
    PROVE  GoodKeys(teams, gone, calls, w) \subseteq GoodKeys(newer, more, later, w)
<1>. SUFFICES ASSUME NEW d \in GoodKeys(teams, gone, calls, w)
              PROVE  d \in GoodKeys(newer, more, later, w)
  OBVIOUS
<1>1. \A i \in Underway(calls, w, KeyOps) : i \in Underway(later, w, KeyOps)
  BY DEF Stays, Underway
<1>2. CASE \E i \in Underway(calls, w, KeyOps) : calls[i].late
  BY <1>1, <1>2 DEF GoodKeys, Stays
<1>3. CASE ~\E i \in Underway(calls, w, KeyOps) : calls[i].late
  <2>1. ASSUME NEW k \in ApiKeys
        PROVE  \/ k \in d <=> LiveIn(k, newer, more, w)
               \/ \E j \in Underway(later, w, KeyOps) : later[j].key = k
    <3>1. CASE k \in d <=> LiveIn(k, teams, gone, w)  BY <3>1
    <3>2. CASE \E j \in Underway(calls, w, KeyOps) : calls[j].key = k
      BY <1>1, <3>2 DEF Stays
    <3>. QED  BY <1>3, <3>1, <3>2 DEF GoodKeys
  <2>. QED  BY <2>1 DEF GoodKeys
<1>. QED  BY <1>2, <1>3

(* The server's own list is good.                                           *)
LEMMA ServedIsGood ==
    ASSUME PanelsTypeOK, NEW w \in Teams
    PROVE  ranks[w] \in GoodMembers(ranks, job, w)
           /\ LiveKeys(w) \in GoodKeys(keyTeam, revoked, job, w)
<1>1. ranks[w] \in Memberships  BY DEF PanelsTypeOK
<1>2. LiveKeys(w) \in SUBSET ApiKeys
      /\ \A k \in ApiKeys : k \in LiveKeys(w) <=> LiveIn(k, keyTeam, revoked, w)
  BY DEF LiveKeys, LiveIn
<1>. QED  BY <1>1, <1>2 DEF GoodMembers, GoodKeys

(* A step that leaves what is under way alone.                              *)
LEMMA CalmLists ==
    ASSUME PanelsTypeOK, ListsInv, UNCHANGED rowsOfPanels,
           NEW w \in Teams,
           Stays(job, job', w, MemberOps), Stays(job, job', w, KeyOps),
           Sound(members[w], GoodMembers(ranks, job, w)) =>
              Sound(members'[w], GoodMembers(ranks, job, w)),
           Sound(keyLists[w], GoodKeys(keyTeam, revoked, job, w)) =>
              Sound(keyLists'[w], GoodKeys(keyTeam, revoked, job, w))
    PROVE  /\ Sound(members'[w], GoodMembers(ranks', job', w))
           /\ Sound(keyLists'[w], GoodKeys(keyTeam', revoked', job', w))
<1>1. GoodMembers(ranks, job, w) \subseteq GoodMembers(ranks, job', w)
  BY MembersGrow
<1>2. GoodKeys(keyTeam, revoked, job, w) \subseteq GoodKeys(keyTeam, revoked, job', w)
  BY KeysGrow
<1>3. /\ Sound(members'[w], GoodMembers(ranks, job, w))
      /\ Sound(keyLists'[w], GoodKeys(keyTeam, revoked, job, w))
  BY DEF ListsInv
<1>4. /\ Sound(members'[w], GoodMembers(ranks, job', w))
      /\ Sound(keyLists'[w], GoodKeys(keyTeam, revoked, job', w))
  BY <1>1, <1>2, <1>3, SoundGrows
<1>. QED  BY <1>4 DEF rowsOfPanels

(* What each step leaves under way.                                         *)
LEMMA OthersStay ==
    ASSUME PanelsTypeOK, NEW j, NEW f, job' = [job EXCEPT ![j] = f], NEW w, NEW ops,
           job[j].phase # "done" \/ job[j].op \notin ops \/ job[j].team # w
    PROVE  Stays(job, job', w, ops)
<1>1. \A i \in Underway(job, w, ops) : i # j /\ i \in Jobs  BY DEF Underway
<1>2. \A i \in Underway(job, w, ops) : job'[i] = job[i]  BY <1>1 DEF PanelsTypeOK
<1>. QED  BY <1>1, <1>2 DEF Stays, Underway

LEMMA AllStay ==
    ASSUME PanelsTypeOK, NEW w, NEW ops,
           \/ job' = job
           \/ \E v : OvertakeAt(v)
           \/ job' = [j \in Jobs |-> [job[j] EXCEPT !.same = FALSE]]
           \/ \E j \in Jobs : \E k : job[j].phase = "sent" /\ Handled(j, k)
    PROVE  Stays(job, job', w, ops)
<1>1. CASE job' = job  BY <1>1 DEF Stays, Underway
<1>2. CASE \E v : OvertakeAt(v)  BY <1>2, OvertakenJobs DEF Stays, Underway
<1>3. CASE job' = [j \in Jobs |-> [job[j] EXCEPT !.same = FALSE]]
  <2>1. ASSUME NEW i \in Jobs
        PROVE  /\ job'[i].phase = job[i].phase /\ job'[i].op = job[i].op
               /\ job'[i].team = job[i].team /\ job'[i].person = job[i].person
               /\ job'[i].key = job[i].key /\ job'[i].late = job[i].late
    <3>1. job[i] \in Job /\ job'[i] = [job[i] EXCEPT !.same = FALSE]
      BY <1>3 DEF PanelsTypeOK
    <3>. QED  BY <3>1 DEF Job
  <2>. QED  BY <2>1 DEF Stays, Underway
<1>4. ASSUME NEW j \in Jobs, NEW k, job[j].phase = "sent", Handled(j, k)
      PROVE  Stays(job, job', w, ops)
  <2>1. \A i \in Underway(job, w, ops) : i \in Jobs /\ i # j /\ job[i].phase = "done"
    BY <1>4 DEF Underway
  <2>2. ASSUME NEW i \in Underway(job, w, ops)
        PROVE  /\ job'[i].phase = "done" /\ job'[i].team = job[i].team
               /\ job'[i].op = job[i].op /\ job'[i].person = job[i].person
               /\ job'[i].key = job[i].key /\ (job[i].late => job'[i].late)
    BY <1>4, <2>1, HandledOthers
  <2>. QED  BY <2>2 DEF Stays
<1>. QED  BY <1>1, <1>2, <1>3, <1>4

(* Steps that change no row: what they do to the lists keeps them sound.    *)
LEMMA QuietLists ==
    ASSUME PanelsTypeOK, ListsInv, UNCHANGED <<rowsOfPanels, caches>>,
           \/ job' = job
           \/ \E j, f : job' = [job EXCEPT ![j] = f] /\ job[j].phase # "done"
    PROVE  ListsInv'
<1>1. ASSUME NEW w \in Teams
      PROVE  /\ Sound(members'[w], GoodMembers(ranks', job', w))
             /\ Sound(keyLists'[w], GoodKeys(keyTeam', revoked', job', w))
  <2>1. Stays(job, job', w, MemberOps) /\ Stays(job, job', w, KeyOps)
    BY OthersStay, AllStay
  <2>. QED  BY <2>1, CalmLists DEF caches
<1>. QED  BY <1>1 DEF ListsInv

LEMMA ShownLists ==
    ASSUME PanelsTypeOK, ListsInv, NEW v \in Teams,
           ShowTeam(v) \/ FetchMembers(v) \/ FetchKeys(v) \/ (v = here /\ AskAgain)
    PROVE  ListsInv'
<1>. DEFINE M == GoodMembers(ranks, job, v)
            K == GoodKeys(keyTeam, revoked, job, v)
<1>1. /\ members[v] \in EntryOf(Memberships) /\ keyLists[v] \in EntryOf(SUBSET ApiKeys)
      /\ ranks[v] \in M /\ LiveKeys(v) \in K
      /\ Sound(members[v], M) /\ Sound(keyLists[v], K)
  BY ServedIsGood DEF PanelsTypeOK, ListsInv
<1>. HIDE DEF M, K
<1>2. \E m, k : /\ members' = [members EXCEPT ![v] = m] /\ Sound(m, M)
                /\ keyLists' = [keyLists EXCEPT ![v] = k] /\ Sound(k, K)
  <2>1. /\ members = [members EXCEPT ![v] = members[v]]
        /\ keyLists = [keyLists EXCEPT ![v] = keyLists[v]]
    BY DEF PanelsTypeOK
  <2>2. CASE ShowTeam(v)  BY <1>1, <2>2, SoundMoves DEF ShowTeam
  <2>3. CASE FetchMembers(v)
    <3>1. PICK e \in StepOf(members[v], v, ranks[v]) : members' = [members EXCEPT ![v] = e]
      BY <2>3 DEF FetchMembers
    <3>2. \/ e = Serve(members[v], ranks[v]) \/ e = Fail(members[v])
          \/ e = Arrive(members[v]) /\ members[v].phase = "served"
      BY DEF StepOf
    <3>3. Sound(e, M)  BY <1>1, <3>2, SoundMoves
    <3>4. keyLists' = keyLists  BY <2>3 DEF FetchMembers
    <3>. QED  BY <1>1, <2>1, <3>1, <3>3, <3>4
  <2>4. CASE FetchKeys(v)
    <3>1. PICK e \in StepOf(keyLists[v], v, LiveKeys(v)) : keyLists' = [keyLists EXCEPT ![v] = e]
      BY <2>4 DEF FetchKeys
    <3>2. \/ e = Serve(keyLists[v], LiveKeys(v)) \/ e = Fail(keyLists[v])
          \/ e = Arrive(keyLists[v]) /\ keyLists[v].phase = "served"
      BY DEF StepOf
    <3>3. Sound(e, K)  BY <1>1, <3>2, SoundMoves
    <3>4. members' = members  BY <2>4 DEF FetchKeys
    <3>. QED  BY <1>1, <2>1, <3>1, <3>3, <3>4
  <2>5. CASE v = here /\ AskAgain
    <3>1. Sound(Want(members[v]), M) /\ Sound(Want(keyLists[v]), K)  BY <1>1, SoundMoves
    <3>. QED  BY <1>1, <2>1, <2>5, <3>1 DEF AskAgain
  <2>. QED  BY <2>2, <2>3, <2>4, <2>5
<1>3. UNCHANGED rowsOfPanels
      /\ (job' = job \/ job' = [j \in Jobs |-> [job[j] EXCEPT !.same = FALSE]])
  BY DEF ShowTeam, FetchMembers, FetchKeys, AskAgain
<1>4. ASSUME NEW w \in Teams
      PROVE  /\ Sound(members'[w], GoodMembers(ranks', job', w))
             /\ Sound(keyLists'[w], GoodKeys(keyTeam', revoked', job', w))
  <2>1. Stays(job, job', w, MemberOps) /\ Stays(job, job', w, KeyOps)  BY <1>3, AllStay
  <2>2. CASE w # v
    <3>1. members'[w] = members[w] /\ keyLists'[w] = keyLists[w]
      BY <1>2, <2>2 DEF PanelsTypeOK
    <3>. QED  BY <1>3, <2>1, <3>1, CalmLists
  <2>3. CASE w = v
    <3>1. Sound(members'[v], M) /\ Sound(keyLists'[v], K)  BY <1>2 DEF PanelsTypeOK
    <3>. QED  BY <1>3, <2>1, <2>3, <3>1, CalmLists DEF M, K
  <2>. QED  BY <2>2, <2>3
<1>. QED  BY <1>4 DEF ListsInv

(* Steps that change rows.                                                  *)
LEMMA RowsLists ==
    ASSUME PanelsTypeOK, ListsInv, UNCHANGED caches,
           \A w \in Teams :
              /\ GoodMembers(ranks, job, w) \subseteq GoodMembers(ranks', job', w)
              /\ GoodKeys(keyTeam, revoked, job, w) \subseteq GoodKeys(keyTeam', revoked', job', w)
    PROVE  ListsInv'
<1>1. ASSUME NEW w \in Teams
      PROVE  /\ Sound(members'[w], GoodMembers(ranks', job', w))
             /\ Sound(keyLists'[w], GoodKeys(keyTeam', revoked', job', w))
  <2>1. members'[w] = members[w] /\ keyLists'[w] = keyLists[w]  BY DEF caches
  <2>2. /\ Sound(members[w], GoodMembers(ranks, job, w))
        /\ Sound(keyLists[w], GoodKeys(keyTeam, revoked, job, w))
    BY DEF ListsInv
  <2>. QED  BY <2>1, <2>2, SoundGrows
<1>. QED  BY <1>1 DEF ListsInv

LEMMA WriteMemberLists ==
    ASSUME PanelsTypeOK, JobsInv, ListsInv, NEW j \in Jobs, WriteMember(j)
    PROVE  ListsInv'
<1>1. /\ job[j].op \in MemberOps /\ job[j].phase = "sent" /\ Accepted(j) /\ Handled(j, NoKey)
      /\ ranks' = [ranks EXCEPT ![job[j].team][job[j].person] = job[j].rank]
      /\ UNCHANGED <<keyTeam, revoked, caches>>
  BY DEF WriteMember, Perform, MemberOps
<1>2. /\ job'[j].phase = "done" /\ job'[j].key = NoKey
      /\ job'[j].op = job[j].op /\ job'[j].team = job[j].team
      /\ job'[j].person = job[j].person /\ job'[j].rank = job[j].rank
      /\ job'[j].same = job[j].same /\ job'[j].late = job[j].late
  BY <1>1, HandledJob
<1>3. job[j].op = "role" => ranks[job[j].team][job[j].person] # "NONE"
  BY <1>1 DEF Accepted, MayEdit, RankOf, Given, Ranks
<1>4. ASSUME NEW w \in Teams
      PROVE  /\ GoodMembers(ranks, job, w) \subseteq GoodMembers(ranks', job', w)
             /\ GoodKeys(keyTeam, revoked, job, w) \subseteq GoodKeys(keyTeam', revoked', job', w)
  <2>1. Stays(job, job', w, MemberOps) /\ Stays(job, job', w, KeyOps)  BY <1>1, AllStay
  <2>2. ASSUME NEW p \in People
        PROVE  \/ ranks'[w][p] = ranks[w][p]
               \/ \E i \in Underway(job', w, MemberOps) :
                     job'[i].person = p /\ (job'[i].op = "role" => ranks[w][p] # "NONE")
    <3>1. CASE w = job[j].team /\ p = job[j].person
      <4>1. j \in Underway(job', w, MemberOps)  BY <1>1, <1>2, <3>1 DEF Underway
      <4>. QED  BY <1>2, <1>3, <3>1, <4>1
    <3>2. CASE ~(w = job[j].team /\ p = job[j].person)
      BY <1>1, <3>2 DEF PanelsTypeOK, Memberships
    <3>. QED  BY <3>1, <3>2
  <2>3. GoodMembers(ranks, job, w) \subseteq GoodMembers(ranks', job', w)
    BY <2>1, <2>2, MembersGrow
  <2>4. GoodKeys(keyTeam, revoked, job, w) \subseteq GoodKeys(keyTeam, revoked, job', w)
    BY <2>1, KeysGrow
  <2>. QED  BY <1>1, <2>3, <2>4
<1>. QED  BY <1>1, <1>4, RowsLists

LEMMA KeyRowLists ==
    ASSUME PanelsTypeOK, JobsInv, ListsInv, NEW j \in Jobs, InsertKey(j) \/ RevokeKey(j)
    PROVE  ListsInv'
<1>1. PICK k \in ApiKeys :
          /\ Handled(j, k)
          /\ \/ job[j].op = "create" /\ keyTeam[k] = NoTeam /\ UNCHANGED revoked
                /\ keyTeam' = [keyTeam EXCEPT ![k] = job[j].team]
             \/ job[j].op = "revoke" /\ keyTeam[k] = job[j].team /\ UNCHANGED keyTeam
                /\ revoked' = revoked \cup {k}
  <2>1. CASE InsertKey(j)  BY <2>1 DEF InsertKey
  <2>2. CASE RevokeKey(j)
    <3>1. job[j].key \in ApiKeys  BY <2>2 DEF JobsInv, GoodJob, RevokeKey, Perform
    <3>2. keyTeam[job[j].key] = job[j].team  BY <2>2 DEF RevokeKey, Perform, Accepted
    <3>. QED  BY <2>2, <3>1, <3>2 DEF RevokeKey
  <2>. QED  BY <2>1, <2>2
<1>2. job[j].phase = "sent" /\ job[j].op \in KeyOps /\ UNCHANGED <<ranks, caches>>
  BY DEF InsertKey, RevokeKey, Perform, KeyOps
<1>3. job[j].team \in Teams /\ NoTeam \notin Teams
  BY <1>2, PanelsConstants DEF JobsInv, GoodJob
<1>4. /\ job'[j].phase = "done" /\ job'[j].key = k
      /\ job'[j].op = job[j].op /\ job'[j].team = job[j].team
      /\ job'[j].person = job[j].person /\ job'[j].rank = job[j].rank
      /\ job'[j].same = job[j].same /\ job'[j].late = job[j].late
  BY <1>1, HandledJob
<1>5. ASSUME NEW w \in Teams
      PROVE  /\ GoodMembers(ranks, job, w) \subseteq GoodMembers(ranks', job', w)
             /\ GoodKeys(keyTeam, revoked, job, w) \subseteq GoodKeys(keyTeam', revoked', job', w)
  <2>1. Stays(job, job', w, MemberOps) /\ Stays(job, job', w, KeyOps)  BY <1>1, <1>2, AllStay
  <2>2. ASSUME NEW x \in ApiKeys
        PROVE  \/ LiveIn(x, keyTeam', revoked', w) <=> LiveIn(x, keyTeam, revoked, w)
               \/ \E i \in Underway(job', w, KeyOps) : job'[i].key = x
    <3>1. CASE x = k /\ w = job[j].team
      <4>1. j \in Underway(job', w, KeyOps)  BY <1>2, <1>4, <3>1 DEF Underway
      <4>. QED  BY <1>4, <3>1, <4>1
    <3>2. CASE x = k /\ w # job[j].team
      <4>1. keyTeam[x] # w /\ keyTeam'[x] # w  BY <1>1, <1>3, <3>2 DEF PanelsTypeOK
      <4>. QED  BY <4>1 DEF LiveIn
    <3>3. CASE x # k
      <4>1. keyTeam'[x] = keyTeam[x] /\ (x \in revoked' <=> x \in revoked)
        BY <1>1, <3>3 DEF PanelsTypeOK
      <4>. QED  BY <4>1 DEF LiveIn
    <3>. QED  BY <3>1, <3>2, <3>3
  <2>3. GoodKeys(keyTeam, revoked, job, w) \subseteq GoodKeys(keyTeam', revoked', job', w)
    BY <2>1, <2>2, KeysGrow
  <2>4. GoodMembers(ranks, job, w) \subseteq GoodMembers(ranks, job', w)
    BY <2>1, MembersGrow
  <2>. QED  BY <1>2, <2>3, <2>4
<1>. QED  BY <1>2, <1>5, RowsLists

LEMMA OthersLists ==
    ASSUME PanelsTypeOK, JobsInv, ListsInv,
           \/ \E w \in Teams, p \in People, r \in Ranks \cup {"NONE"} : OtherSetsRank(w, p, r)
           \/ \E k \in ApiKeys : OtherRevokes(k)
    PROVE  ListsInv'
<1>1. ASSUME NEW v \in Teams, NEW p \in People, NEW r \in Ranks \cup {"NONE"},
             OtherSetsRank(v, p, r)
      PROVE  ListsInv'
  <2>1. /\ UNCHANGED <<keyTeam, revoked, keyLists>> /\ OvertakeAt(v)
        /\ ranks' = [ranks EXCEPT ![v][p] = r]
        /\ members' = [members EXCEPT ![v] = Outdated(@)]
    BY <1>1 DEF OtherSetsRank
  <2>2. ASSUME NEW w \in Teams
        PROVE  /\ Sound(members'[w], GoodMembers(ranks', job', w))
               /\ Sound(keyLists'[w], GoodKeys(keyTeam', revoked', job', w))
    <3>1. Stays(job, job', w, MemberOps) /\ Stays(job, job', w, KeyOps)  BY <2>1, AllStay
    <3>2. GoodKeys(keyTeam, revoked, job, w) \subseteq GoodKeys(keyTeam, revoked, job', w)
      BY <3>1, KeysGrow
    <3>3. Sound(keyLists'[w], GoodKeys(keyTeam', revoked', job', w))
      <4>1. Sound(keyLists[w], GoodKeys(keyTeam, revoked, job, w))  BY DEF ListsInv
      <4>2. Sound(keyLists[w], GoodKeys(keyTeam, revoked, job', w))  BY <3>2, <4>1, SoundGrows
      <4>. QED  BY <2>1, <4>2
    <3>4. CASE w = v
      <4>1. members'[w] = Outdated(members[w]) /\ members[w] \in EntryOf(Memberships)
        BY <2>1, <3>4 DEF PanelsTypeOK
      <4>. QED  BY <3>3, <4>1, SoundOutdated
    <3>5. CASE w # v
      <4>1. members'[w] = members[w] /\ ranks'[w] = ranks[w]
        BY <2>1, <3>5 DEF PanelsTypeOK
      <4>2. GoodMembers(ranks, job, w) \subseteq GoodMembers(ranks', job', w)
        BY <3>1, <4>1, MembersGrow
      <4>3. Sound(members[w], GoodMembers(ranks, job, w))  BY DEF ListsInv
      <4>. QED  BY <3>3, <4>1, <4>2, <4>3, SoundGrows
    <3>. QED  BY <3>4, <3>5
  <2>. QED  BY <2>2 DEF ListsInv
<1>2. ASSUME NEW k \in ApiKeys, OtherRevokes(k)  PROVE ListsInv'
  <2>. DEFINE v == keyTeam[k]
  <2>1. /\ UNCHANGED <<ranks, keyTeam, members>> /\ OvertakeAt(v) /\ revoked' = revoked \cup {k}
        /\ keyLists' = [keyLists EXCEPT ![v] = Outdated(@)]
    BY <1>2 DEF OtherRevokes
  <2>2. ASSUME NEW w \in Teams
        PROVE  /\ Sound(members'[w], GoodMembers(ranks', job', w))
               /\ Sound(keyLists'[w], GoodKeys(keyTeam', revoked', job', w))
    <3>1. Stays(job, job', w, MemberOps) /\ Stays(job, job', w, KeyOps)  BY <2>1, AllStay
    <3>2. GoodMembers(ranks, job, w) \subseteq GoodMembers(ranks, job', w)
      BY <3>1, MembersGrow
    <3>3. Sound(members'[w], GoodMembers(ranks', job', w))
      <4>1. Sound(members[w], GoodMembers(ranks, job, w))  BY DEF ListsInv
      <4>2. Sound(members[w], GoodMembers(ranks, job', w))  BY <3>2, <4>1, SoundGrows
      <4>. QED  BY <2>1, <4>2
    <3>4. CASE w = v
      <4>1. keyLists'[w] = Outdated(keyLists[w]) /\ keyLists[w] \in EntryOf(SUBSET ApiKeys)
        BY <2>1, <3>4 DEF PanelsTypeOK
      <4>. QED  BY <3>3, <4>1, SoundOutdated
    <3>5. CASE w # v
      <4>1. keyLists'[w] = keyLists[w]  BY <2>1, <3>5 DEF PanelsTypeOK
      <4>2. \A x \in ApiKeys : LiveIn(x, keyTeam', revoked', w) <=> LiveIn(x, keyTeam, revoked, w)
        BY <2>1, <3>5 DEF LiveIn
      <4>3. GoodKeys(keyTeam, revoked, job, w) \subseteq GoodKeys(keyTeam', revoked', job', w)
        BY <3>1, <4>2, KeysGrow
      <4>4. Sound(keyLists[w], GoodKeys(keyTeam, revoked, job, w))  BY DEF ListsInv
      <4>. QED  BY <3>3, <4>1, <4>3, <4>4, SoundGrows
    <3>. QED  BY <3>4, <3>5
  <2>. QED  BY <2>2 DEF ListsInv
<1>. QED  BY <1>1, <1>2

(* Answers that arrive, and answers that are lost.                          *)
LEMMA EndMemberLists ==
    ASSUME PanelsTypeOK, JobsInv, ListsInv, NEW j \in Jobs, EndMember(j)
    PROVE  ListsInv'
<1>. DEFINE v == job[j].team
            e == members[v]
            d == MembersAfter(j, MembersOr(e))
            x == PutInto(e, j, d)
            q == job[j].person
<1>1. /\ job[j].phase = "done" /\ job[j].op \in MemberOps /\ UNCHANGED <<rowsOfPanels, keyLists>>
      /\ members' = [members EXCEPT ![v] = x] /\ job' = [job EXCEPT ![j] = JobOver]
  BY DEF EndMember, CacheOf, MemberOps
<1>2. /\ v \in Teams /\ q \in People /\ (~job[j].late => ranks[v][q] = job[j].rank)
      /\ job[j].rank \in Ranks \cup {"NONE"}
  BY <1>1 DEF JobsInv, GoodJob, PanelsTypeOK, Job
<1>3. e \in EntryOf(Memberships) /\ Sound(e, GoodMembers(ranks, job, v))
  BY <1>2 DEF PanelsTypeOK, ListsInv
<1>4. MembersOr(e) \in Memberships /\ d \in Memberships
  BY <1>2, <1>3 DEF MembersOr, EntryOf, Memberships, MembersAfter
<1>5. /\ \A p \in People : p # q => d[p] = MembersOr(e)[p]
      /\ d[q] = IF job[j].op = "role" /\ MembersOr(e)[q] = "NONE" THEN "NONE" ELSE job[j].rank
  BY <1>2, <1>4 DEF MembersAfter, Memberships
<1>6. \A i \in Jobs : i # j => job'[i] = job[i]  BY <1>1 DEF PanelsTypeOK
<1>7. \A i \in Underway(job, v, MemberOps) : i # j => i \in Underway(job', v, MemberOps)
  BY <1>6 DEF Underway
<1>8. ASSUME ~e.behind, e.data # NoData, ~job[j].late
      PROVE  d \in GoodMembers(ranks, job', v)
  <2>1. e.data \in GoodMembers(ranks, job, v) /\ MembersOr(e) = e.data
    BY <1>3, <1>8 DEF Sound, MembersOr
  <2>. HIDE DEF d, e, x
  <2>2. CASE \E i \in Underway(job, v, MemberOps) : job[i].late
    BY <1>4, <1>6, <1>7, <1>8, <2>2 DEF GoodMembers, Underway
  <2>3. CASE ~\E i \in Underway(job, v, MemberOps) : job[i].late
    <3>1. ASSUME NEW p \in People
          PROVE  \/ d[p] = ranks[v][p]
                 \/ \E i \in Underway(job', v, MemberOps) :
                       job'[i].person = p /\ (job'[i].op = "role" => d[p] # "NONE")
      <4>1. \/ e.data[p] = ranks[v][p]
            \/ \E i \in Underway(job, v, MemberOps) :
                  job[i].person = p /\ (job[i].op = "role" => e.data[p] # "NONE")
        BY <2>1, <2>3 DEF GoodMembers
      <4>2. CASE p # q
        BY <1>5, <1>6, <1>7, <2>1, <4>1, <4>2 DEF Underway
      <4>3. CASE p = q /\ ~(job[j].op = "role" /\ e.data[q] = "NONE")
        BY <1>2, <1>5, <1>8, <2>1, <4>3
      <4>4. CASE p = q /\ job[j].op = "role" /\ e.data[q] = "NONE"
        <5>1. d[q] = "NONE"  BY <1>5, <2>1, <4>4
        <5>. QED  BY <1>6, <1>7, <4>1, <4>4, <5>1 DEF Underway
      <4>. QED  BY <4>2, <4>3, <4>4
    <3>. QED  BY <1>4, <3>1 DEF GoodMembers
  <2>. QED  BY <2>2, <2>3
<1>9. Sound(x, GoodMembers(ranks, job', v))  BY <1>3, <1>8, SoundPut
<1>. HIDE DEF d, e, x
<1>10. ASSUME NEW w \in Teams
       PROVE  /\ Sound(members'[w], GoodMembers(ranks', job', w))
              /\ Sound(keyLists'[w], GoodKeys(keyTeam', revoked', job', w))
  <2>1. job[j].op \notin KeyOps  BY <1>1 DEF MemberOps, KeyOps
  <2>2. Stays(job, job', w, KeyOps)  BY <1>1, <2>1, OthersStay
  <2>3. GoodKeys(keyTeam, revoked, job, w) \subseteq GoodKeys(keyTeam, revoked, job', w)
    BY <2>2, KeysGrow
  <2>4. Sound(keyLists'[w], GoodKeys(keyTeam', revoked', job', w))
    <3>1. Sound(keyLists[w], GoodKeys(keyTeam, revoked, job, w))  BY DEF ListsInv
    <3>2. Sound(keyLists[w], GoodKeys(keyTeam, revoked, job', w))  BY <2>3, <3>1, SoundGrows
    <3>. QED  BY <1>1, <3>2 DEF rowsOfPanels
  <2>5. Sound(members'[w], GoodMembers(ranks, job', w))
    <3>1. CASE w = v
      <4>1. members'[w] = x  BY <1>1, <3>1 DEF PanelsTypeOK
      <4>. QED  BY <1>9, <3>1, <4>1
    <3>2. CASE w # v
      <4>1. Stays(job, job', w, MemberOps)  BY <1>1, <3>2, OthersStay
      <4>2. GoodMembers(ranks, job, w) \subseteq GoodMembers(ranks, job', w)
        BY <4>1, MembersGrow
      <4>3. Sound(members[w], GoodMembers(ranks, job, w))  BY DEF ListsInv
      <4>4. Sound(members[w], GoodMembers(ranks, job', w))  BY <4>2, <4>3, SoundGrows
      <4>5. members'[w] = members[w]  BY <1>1, <3>2 DEF PanelsTypeOK
      <4>. QED  BY <4>4, <4>5
    <3>. QED  BY <3>1, <3>2
  <2>. QED  BY <1>1, <2>4, <2>5 DEF rowsOfPanels
<1>. QED  BY <1>10 DEF ListsInv

LEMMA EndKeyLists ==
    ASSUME PanelsTypeOK, JobsInv, ListsInv, NEW j \in Jobs, EndKey(j)
    PROVE  ListsInv'
<1>. DEFINE v == job[j].team
            e == keyLists[v]
            k == job[j].key
            d == IF job[j].op = "create" THEN KeysOr(e) \cup {k} ELSE KeysOr(e) \ {k}
            x == PutInto(e, j, d)
<1>1. /\ job[j].phase = "done" /\ job[j].op \in KeyOps /\ UNCHANGED <<rowsOfPanels, members>>
      /\ keyLists' = [keyLists EXCEPT ![v] = x] /\ job' = [job EXCEPT ![j] = JobOver]
  BY DEF EndKey, CacheOf, KeyOps
<1>2. /\ v \in Teams /\ k \in ApiKeys
      /\ job[j].op = "create" => keyTeam[k] = v /\ (~job[j].late => k \notin revoked)
      /\ job[j].op = "revoke" => k \in revoked
      /\ job[j].op = "create" \/ job[j].op = "revoke"
  BY <1>1 DEF JobsInv, GoodJob, KeyOps
<1>3. e \in EntryOf(SUBSET ApiKeys) /\ Sound(e, GoodKeys(keyTeam, revoked, job, v))
  BY <1>2 DEF PanelsTypeOK, ListsInv
<1>4. KeysOr(e) \in SUBSET ApiKeys /\ d \in SUBSET ApiKeys
  BY <1>2, <1>3 DEF KeysOr, EntryOf
<1>5. /\ \A y \in ApiKeys : y # k => (y \in d <=> y \in KeysOr(e))
      /\ k \in d <=> job[j].op = "create"
  BY <1>2
<1>6. \A i \in Jobs : i # j => job'[i] = job[i]  BY <1>1 DEF PanelsTypeOK
<1>7. \A i \in Underway(job, v, KeyOps) : i # j => i \in Underway(job', v, KeyOps)
  BY <1>6 DEF Underway
<1>8. ASSUME ~e.behind, e.data # NoData, ~job[j].late
      PROVE  d \in GoodKeys(keyTeam, revoked, job', v)
  <2>1. e.data \in GoodKeys(keyTeam, revoked, job, v) /\ KeysOr(e) = e.data
    BY <1>3, <1>8 DEF Sound, KeysOr
  <2>. HIDE DEF d, e, x
  <2>2. CASE \E i \in Underway(job, v, KeyOps) : job[i].late
    BY <1>4, <1>6, <1>7, <1>8, <2>2 DEF GoodKeys, Underway
  <2>3. CASE ~\E i \in Underway(job, v, KeyOps) : job[i].late
    <3>1. ASSUME NEW y \in ApiKeys
          PROVE  \/ y \in d <=> LiveIn(y, keyTeam, revoked, v)
                 \/ \E i \in Underway(job', v, KeyOps) : job'[i].key = y
      <4>1. CASE y = k  BY <1>2, <1>5, <1>8, <4>1 DEF LiveIn
      <4>2. CASE y # k
        <5>1. \/ y \in e.data <=> LiveIn(y, keyTeam, revoked, v)
              \/ \E i \in Underway(job, v, KeyOps) : job[i].key = y
          BY <2>1, <2>3 DEF GoodKeys
        <5>. QED  BY <1>5, <1>6, <1>7, <2>1, <4>2, <5>1 DEF Underway
      <4>. QED  BY <4>1, <4>2
    <3>. QED  BY <1>4, <3>1 DEF GoodKeys
  <2>. QED  BY <2>2, <2>3
<1>9. Sound(x, GoodKeys(keyTeam, revoked, job', v))  BY <1>3, <1>8, SoundPut
<1>. HIDE DEF d, e, x
<1>10. ASSUME NEW w \in Teams
       PROVE  /\ Sound(members'[w], GoodMembers(ranks', job', w))
              /\ Sound(keyLists'[w], GoodKeys(keyTeam', revoked', job', w))
  <2>1. job[j].op \notin MemberOps  BY <1>1 DEF MemberOps, KeyOps
  <2>2. Stays(job, job', w, MemberOps)  BY <1>1, <2>1, OthersStay
  <2>3. GoodMembers(ranks, job, w) \subseteq GoodMembers(ranks, job', w)
    BY <2>2, MembersGrow
  <2>4. Sound(members'[w], GoodMembers(ranks', job', w))
    <3>1. Sound(members[w], GoodMembers(ranks, job, w))  BY DEF ListsInv
    <3>2. Sound(members[w], GoodMembers(ranks, job', w))  BY <2>3, <3>1, SoundGrows
    <3>. QED  BY <1>1, <3>2 DEF rowsOfPanels
  <2>5. Sound(keyLists'[w], GoodKeys(keyTeam, revoked, job', w))
    <3>1. CASE w = v
      <4>1. keyLists'[w] = x  BY <1>1, <3>1 DEF PanelsTypeOK
      <4>. QED  BY <1>9, <3>1, <4>1
    <3>2. CASE w # v
      <4>1. Stays(job, job', w, KeyOps)  BY <1>1, <3>2, OthersStay
      <4>2. GoodKeys(keyTeam, revoked, job, w) \subseteq GoodKeys(keyTeam, revoked, job', w)
        BY <4>1, KeysGrow
      <4>3. Sound(keyLists[w], GoodKeys(keyTeam, revoked, job, w))  BY DEF ListsInv
      <4>4. Sound(keyLists[w], GoodKeys(keyTeam, revoked, job', w))  BY <4>2, <4>3, SoundGrows
      <4>5. keyLists'[w] = keyLists[w]  BY <1>1, <3>2 DEF PanelsTypeOK
      <4>. QED  BY <4>4, <4>5
    <3>. QED  BY <3>1, <3>2
  <2>. QED  BY <1>1, <2>4, <2>5 DEF rowsOfPanels
<1>. QED  BY <1>10 DEF ListsInv

LEMMA LoseJobLists ==
    ASSUME PanelsTypeOK, JobsInv, ListsInv, NEW j \in Jobs, LoseJob(j)
    PROVE  ListsInv'
<1>. DEFINE v == job[j].team
            f == [job[j] EXCEPT !.phase = "failed"]
<1>1. UNCHANGED rowsOfPanels /\ job' = [job EXCEPT ![j].phase = "failed"]  BY DEF LoseJob
<1>2. job' = [job EXCEPT ![j] = f]  BY <1>1, Zenon
<1>. HIDE DEF f
<1>3. CASE job[j].phase = "sent"
  BY <1>1, <1>2, <1>3, QuietLists DEF LoseJob
<1>4. CASE job[j].phase = "done" /\ job[j].op \in KeyOps
  <2>1. keyLists' = [keyLists EXCEPT ![v] = Outdated(@)] /\ UNCHANGED members
    BY <1>4 DEF LoseJob, KeyOps
  <2>2. job[j].op \notin MemberOps  BY <1>4 DEF MemberOps, KeyOps
  <2>3. ASSUME NEW w \in Teams
        PROVE  /\ Sound(members'[w], GoodMembers(ranks', job', w))
               /\ Sound(keyLists'[w], GoodKeys(keyTeam', revoked', job', w))
    <3>1. Stays(job, job', w, MemberOps)  BY <1>2, <2>2, OthersStay
    <3>2. CASE w # v
      <4>1. Stays(job, job', w, KeyOps)  BY <1>2, <3>2, OthersStay
      <4>2. keyLists'[w] = keyLists[w]  BY <2>1, <3>2 DEF PanelsTypeOK
      <4>. QED  BY <1>1, <2>1, <3>1, <4>1, <4>2, CalmLists
    <3>3. CASE w = v
      <4>1. keyLists'[w] = Outdated(keyLists[w]) /\ keyLists[w] \in EntryOf(SUBSET ApiKeys)
        BY <2>1, <3>3 DEF PanelsTypeOK
      <4>2. GoodMembers(ranks, job, w) \subseteq GoodMembers(ranks, job', w)
        BY <3>1, MembersGrow
      <4>3. Sound(members[w], GoodMembers(ranks, job, w))  BY DEF ListsInv
      <4>4. Sound(members[w], GoodMembers(ranks, job', w))  BY <4>2, <4>3, SoundGrows
      <4>. QED  BY <1>1, <2>1, <4>1, <4>4, SoundOutdated DEF rowsOfPanels
    <3>. QED  BY <3>2, <3>3
  <2>. QED  BY <2>3 DEF ListsInv
<1>5. CASE job[j].phase = "done" /\ job[j].op \notin KeyOps
  <2>1. members' = [members EXCEPT ![v] = Outdated(@)] /\ UNCHANGED keyLists
    BY <1>5 DEF LoseJob, KeyOps
  <2>2. ASSUME NEW w \in Teams
        PROVE  /\ Sound(members'[w], GoodMembers(ranks', job', w))
               /\ Sound(keyLists'[w], GoodKeys(keyTeam', revoked', job', w))
    <3>1. Stays(job, job', w, KeyOps)  BY <1>2, <1>5, OthersStay
    <3>2. CASE w # v
      <4>1. Stays(job, job', w, MemberOps)  BY <1>2, <3>2, OthersStay
      <4>2. members'[w] = members[w]  BY <2>1, <3>2 DEF PanelsTypeOK
      <4>. QED  BY <1>1, <2>1, <3>1, <4>1, <4>2, CalmLists
    <3>3. CASE w = v
      <4>1. members'[w] = Outdated(members[w]) /\ members[w] \in EntryOf(Memberships)
        BY <2>1, <3>3 DEF PanelsTypeOK
      <4>2. GoodKeys(keyTeam, revoked, job, w) \subseteq GoodKeys(keyTeam, revoked, job', w)
        BY <3>1, KeysGrow
      <4>3. Sound(keyLists[w], GoodKeys(keyTeam, revoked, job, w))  BY DEF ListsInv
      <4>4. Sound(keyLists[w], GoodKeys(keyTeam, revoked, job', w))  BY <4>2, <4>3, SoundGrows
      <4>. QED  BY <1>1, <2>1, <4>1, <4>4, SoundOutdated DEF rowsOfPanels
    <3>. QED  BY <3>2, <3>3
  <2>. QED  BY <2>2 DEF ListsInv
<1>. QED  BY <1>3, <1>4, <1>5 DEF LoseJob

LEMMA ListsStep == ASSUME PanelsTypeOK, JobsInv, ListsInv, [PanelsNext]_panelVars PROVE ListsInv'
<1>1. ASSUME NEW j \in Jobs, NEW f, Ask(j, f)  PROVE ListsInv'
  <2>1. job' = [job EXCEPT ![j] = f] /\ job[j].phase # "done" /\ UNCHANGED <<rowsOfPanels, caches>>
    BY <1>1 DEF Ask
  <2>. QED  BY <2>1, QuietLists
<1>2. ASSUME NEW j \in Jobs, NEW p \in People, NEW r \in Given,
             AddMember(j, p, r) \/ ChangeRank(j, p, r)
      PROVE  ListsInv'
  BY <1>1, <1>2 DEF AddMember, ChangeRank
<1>3. ASSUME NEW j \in Jobs, AgreeTo(j) \/ CreateKey(j)  PROVE ListsInv'
  BY <1>1, <1>3 DEF AgreeTo, CreateKey
<1>4. CASE \/ UNCHANGED panelVars \/ Decline \/ KeyDialogs
           \/ \E p \in People : AskRemoval(p)
           \/ \E k \in ApiKeys : AskRevoke(k)
  <2>1. UNCHANGED <<rowsOfPanels, caches, job>>
    BY <1>4 DEF panelVars, Decline, KeyDialogs, AskRemoval, AskRevoke, Inquire
  <2>. QED  BY <2>1, QuietLists
<1>5. ASSUME NEW j \in Jobs, RefuseJob(j) \/ EndRefused(j)  PROVE ListsInv'
  <2>. DEFINE f == [job[j] EXCEPT !.phase = "failed"]
  <2>1. /\ UNCHANGED <<rowsOfPanels, caches>> /\ job[j].phase # "done"
        /\ job' = [job EXCEPT ![j].phase = "failed"] \/ job' = [job EXCEPT ![j] = JobOver]
    BY <1>5 DEF RefuseJob, EndRefused
  <2>2. job' = [job EXCEPT ![j] = f] \/ job' = [job EXCEPT ![j] = JobOver]  BY <2>1, Zenon
  <2>. HIDE DEF f
  <2>. QED  BY <2>1, <2>2, QuietLists
<1>6. ASSUME NEW w \in Teams, ShowTeam(w) \/ FetchMembers(w) \/ FetchKeys(w)  PROVE ListsInv'
  BY <1>6, ShownLists
<1>7. CASE AskAgain  BY <1>7, ShownLists DEF PanelsTypeOK
<1>. QED
  BY <1>2, <1>3, <1>4, <1>5, <1>6, <1>7, WriteMemberLists, KeyRowLists, OthersLists,
     EndMemberLists, EndKeyLists, LoseJobLists DEF PanelsNext

LEMMA PanelsStart == PanelsInit => PanelsInv
<1>. SUFFICES ASSUME PanelsInit PROVE PanelsInv  OBVIOUS
<1>1. PanelsTypeOK  BY PanelsInitTypes
<1>2. JobsInv
  <2>1. \A j \in Jobs : job[j] = NewJob  BY DEF PanelsInit
  <2>2. query = NewJob /\ NewJob.phase = "new" /\ revoked = {} /\ panel.secret = NoKey
    BY DEF PanelsInit, NewJob, NewPanel
  <2>. QED  BY <2>1, <2>2, RestingJobs DEF JobsInv, SecretsStayHome
<1>3. \A good : Sound(NewEntry, good) /\ Sound(Want(NewEntry), good)
  BY DEF Sound, NewEntry, Want, Restart, Fetching
<1>4. ListsInv  BY <1>3 DEF PanelsInit, ListsInv
<1>. QED  BY <1>1, <1>2, <1>4 DEF PanelsInv

LEMMA PanelsKeep == PanelsInv /\ [PanelsNext]_panelVars => PanelsInv'
<1>. QED  BY PanelsTypes, JobsStep, ListsStep DEF PanelsInv

LEMMA PanelsAgree == PanelsInv => PanelsHold
<1>. SUFFICES ASSUME PanelsInv PROVE ListsHold /\ SecretsStayHome  BY DEF PanelsHold
<1>1. SecretsStayHome  BY DEF PanelsInv, JobsInv
<1>2. ASSUME NEW w \in Teams, NEW e, Settled(e, w)
      PROVE  /\ Underway(job, w, MemberOps) = {} /\ Underway(job, w, KeyOps) = {}
             /\ e.data # NoData /\ ~e.behind
  BY <1>2 DEF Settled, Underway
<1>3. ASSUME NEW w \in Teams, Settled(members[w], w)  PROVE members[w].data = ranks[w]
  <2>1. members[w].data \in GoodMembers(ranks, job, w)
    BY <1>2, <1>3 DEF PanelsInv, ListsInv, Sound
  <2>2. members[w].data \in Memberships /\ \A p \in People : members[w].data[p] = ranks[w][p]
    BY <1>2, <1>3, <2>1 DEF GoodMembers
  <2>3. ranks[w] \in Memberships  BY DEF PanelsInv, PanelsTypeOK
  <2>. QED  BY <2>2, <2>3 DEF Memberships
<1>4. ASSUME NEW w \in Teams, Settled(keyLists[w], w)  PROVE keyLists[w].data = LiveKeys(w)
  <2>1. keyLists[w].data \in GoodKeys(keyTeam, revoked, job, w)
    BY <1>2, <1>4 DEF PanelsInv, ListsInv, Sound
  <2>2. /\ keyLists[w].data \in SUBSET ApiKeys
        /\ \A k \in ApiKeys : k \in keyLists[w].data <=> LiveIn(k, keyTeam, revoked, w)
    BY <1>2, <1>4, <2>1 DEF GoodKeys
  <2>. QED  BY <2>2 DEF LiveKeys, LiveIn
<1>. QED  BY <1>1, <1>3, <1>4 DEF ListsHold

(* Type correctness of the panels of the workspace page and of the calls    *)
(* they make, for any workspaces, users and keys (workspace-panels.tsx).    *)
THEOREM PanelsTypesTheorem == PanelsSpec => []PanelsTypeOK
<1>1. PanelsInv => PanelsTypeOK  BY DEF PanelsInv
<1>. QED  BY <1>1, PanelsStart, PanelsKeep, PTL DEF PanelsSpec

(* Once a workspace's calls and lists are answered, the panels show the     *)
(* members and the keys that it has, and a secret is shown only where its   *)
(* key belongs, whatever workspaces were shown in between and in whatever   *)
(* order the answers came (setQueryData in workspace-panels.tsx).           *)
THEOREM PanelsTheorem == PanelsSpec => []PanelsHold
<1>. QED  BY PanelsStart, PanelsKeep, PanelsAgree, PTL DEF PanelsSpec

-----------------------------------------------------------------------------
-----------------------------------------------------------------------------
(* Lists of workspaces.                                                     *)
SpaceLists == Seq(ListedSpace)

LEMMA InList ==
    ASSUME NEW s \in SpaceLists
    PROVE  /\ \A x \in Elements(s) : x \in ListedSpace /\ \E i \in 1 .. Len(s) : x = s[i]
           /\ \A i \in 1 .. Len(s) : s[i] \in Elements(s)
           /\ DOMAIN s = 1 .. Len(s) /\ Len(s) \in Nat
           /\ s # <<>> => s[1] \in Elements(s)
           /\ Elements(<<>>) = {} /\ <<>> \in SpaceLists
<1>1. DOMAIN s = 1 .. Len(s) /\ Len(s) \in Nat /\ \A i \in 1 .. Len(s) : s[i] \in ListedSpace
  BY DEF SpaceLists
<1>2. s # <<>> => 1 \in 1 .. Len(s)  BY DEF SpaceLists
<1>3. Elements(<<>>) = {} /\ <<>> \in SpaceLists  BY DEF Elements, SpaceLists
<1>. QED  BY <1>1, <1>2, <1>3 DEF Elements

LEMMA Prepends ==
    ASSUME NEW x \in ListedSpace, NEW s \in SpaceLists
    PROVE  <<x>> \o s \in SpaceLists /\ Elements(<<x>> \o s) = {x} \cup Elements(s)
<1>. DEFINE n == Len(s)
            t == <<x>> \o s
<1>1. /\ t \in SpaceLists /\ Len(t) = n + 1 /\ n \in Nat /\ t[1] = x
      /\ \A i \in 1 .. n : t[i + 1] = s[i]
      /\ DOMAIN t = 1 .. n + 1 /\ DOMAIN s = 1 .. n
  BY DEF SpaceLists
<1>. HIDE DEF t, n
<1>2. \A i \in 1 .. n + 1 : i = 1 \/ (i - 1 \in 1 .. n /\ i = (i - 1) + 1)  BY <1>1
<1>3. \A i \in 1 .. n : i + 1 \in 1 .. n + 1  BY <1>1
<1>4. 1 \in 1 .. n + 1  BY <1>1
<1>5. ASSUME NEW y \in Elements(t)  PROVE y \in {x} \cup Elements(s)
  <2>1. PICK i \in 1 .. n + 1 : y = t[i]  BY <1>1 DEF Elements
  <2>2. i = 1 \/ (i - 1 \in 1 .. n /\ t[i] = s[i - 1])  BY <1>1, <1>2
  <2>. QED  BY <1>1, <2>1, <2>2 DEF Elements
<1>6. {x} \cup Elements(s) \subseteq Elements(t)  BY <1>1, <1>3, <1>4 DEF Elements
<1>. QED  BY <1>1, <1>5, <1>6 DEF t

LEMMA Retitles ==
    ASSUME NEW s \in SpaceLists, NEW w \in Spaces, NEW t \in Titles
    PROVE  /\ Retitled(s, w, t) \in SpaceLists
           /\ Elements(Retitled(s, w, t)) =
                 {IF x.space = w THEN [x EXCEPT !.title = t] ELSE x : x \in Elements(s)}
<1>. DEFINE f(x) == IF x.space = w THEN [x EXCEPT !.title = t] ELSE x
            r == Retitled(s, w, t)
<1>1. DOMAIN s = 1 .. Len(s) /\ Len(s) \in Nat /\ \A i \in 1 .. Len(s) : s[i] \in ListedSpace
  BY DEF SpaceLists
<1>2. \A x \in ListedSpace : f(x) \in ListedSpace  BY DEF ListedSpace
<1>3. r = [i \in 1 .. Len(s) |-> f(s[i])]  BY <1>1 DEF Retitled
<1>. HIDE DEF f, r
<1>4. r \in [1 .. Len(s) -> ListedSpace]  BY <1>1, <1>2, <1>3
<1>5. r \in SpaceLists /\ DOMAIN r = 1 .. Len(s)  BY <1>1, <1>4 DEF SpaceLists
<1>6. Elements(r) = {f(x) : x \in Elements(s)}
  BY <1>1, <1>3, <1>5 DEF Elements
<1>. QED  BY <1>5, <1>6 DEF f, r

KeptPlaces(s, w) == {i \in DOMAIN s : s[i].space # w}

LEMMA Removes ==
    ASSUME NEW s \in SpaceLists, NEW w
    PROVE  /\ Subsequence(s, KeptPlaces(s, w)) \in SpaceLists
           /\ Elements(Subsequence(s, KeptPlaces(s, w))) =
                 {x \in Elements(s) : x.space # w}
<1>. DEFINE places == KeptPlaces(s, w)
<1>1. places \in SUBSET DOMAIN s  BY DEF KeptPlaces
<1>2. /\ Subsequence(s, places) \in SpaceLists
      /\ Elements(Subsequence(s, places)) = {s[i] : i \in places}
  BY <1>1, SubsequenceType DEF SpaceLists
<1>3. {s[i] : i \in places} = {x \in Elements(s) : x.space # w}
  BY DEF KeptPlaces, Elements
<1>. QED  BY <1>2, <1>3

LEMMA WithoutOne ==
    ASSUME NEW s \in Seq(Spaces), NEW w
    PROVE  WithoutSpace(s, w) \in Seq(Spaces) /\ Elements(WithoutSpace(s, w)) = Elements(s) \ {w}
<1>. DEFINE places == {i \in DOMAIN s : s[i] # w}
<1>1. /\ Subsequence(s, places) \in Seq(Spaces)
      /\ Elements(Subsequence(s, places)) = {s[i] : i \in places}
  <2>1. places \in SUBSET DOMAIN s  OBVIOUS
  <2>. QED  BY <2>1, SubsequenceType
<1>2. {s[i] : i \in places} = Elements(s) \ {w}  BY DEF Elements
<1>. QED  BY <1>1, <1>2 DEF WithoutSpace

(* The first row of a workspace is found.                                   *)
LEMMA Finds ==
    ASSUME NEW s \in SpaceLists, NEW w, \E x \in Elements(s) : x.space = w
    PROVE  FindIn(s, w) \in Elements(s) /\ FindIn(s, w).space = w
<1>. DEFINE T == {i \in 1 .. Len(s) : s[i].space = w}
<1>1. DOMAIN s = 1 .. Len(s) /\ Len(s) \in Nat  BY DEF SpaceLists
<1>2. T # {}  BY <1>1 DEF Elements
<1>3. T \subseteq 0 .. Len(s)  BY <1>1
<1>4. PICK i \in T : \A j \in T : i <= j  BY <1>1, <1>2, <1>3, Least
<1>5. i \in DOMAIN s /\ s[i].space = w /\ \A j \in 1 .. (i - 1) : s[j].space # w
  BY <1>1, <1>4
<1>. DEFINE c == CHOOSE k \in DOMAIN s :
                    s[k].space = w /\ \A j \in 1 .. (k - 1) : s[j].space # w
<1>6. c \in DOMAIN s /\ s[c].space = w  BY <1>5
<1>7. FindIn(s, w) = s[c]  BY DEF FindIn
<1>. HIDE DEF c
<1>. QED  BY <1>6, <1>7 DEF Elements

(* What is shown of a list.                                                 *)
LEMMA ShownRows ==
    ASSUME NEW e \in EntryOf(SpaceLists)
    PROVE  /\ ShownBy(e) \in SpaceLists
           /\ e.data # NoData => ShownBy(e) = e.data
           /\ \A x \in Elements(ShownBy(e)) : x \in ListedSpace
           /\ SpacesOf(e) \subseteq Spaces
<1>1. ShownBy(e) \in SpaceLists  BY InList DEF ShownBy, EntryOf, SpaceLists
<1>2. \A x \in Elements(ShownBy(e)) : x \in ListedSpace  BY <1>1, InList
<1>. QED  BY <1>1, <1>2 DEF ShownBy, SpacesOf, ListedSpace

LEMMA CurrentRow ==
    ASSUME NEW e \in EntryOf(SpaceLists), NEW w
    PROVE  /\ \/ CurrentIn(e, w) = {} /\ SpaceIn(e, w) = NoSpace /\ ShownBy(e) = <<>>
              \/ \E x \in Elements(ShownBy(e)) :
                    /\ CurrentIn(e, w) = {x} /\ SpaceIn(e, w) = x.space
                    /\ x \in ListedSpace /\ x.space \in SpacesOf(e)
           /\ w \in SpacesOf(e) => SpaceIn(e, w) = w /\ CurrentIn(e, w) # {}
<1>. DEFINE s == ShownBy(e)
<1>0. s \in SpaceLists /\ \A x \in Elements(s) : x \in ListedSpace  BY ShownRows
<1>1. CASE w \in SpacesOf(e)
  <2>1. \E x \in Elements(s) : x.space = w  BY <1>1 DEF SpacesOf
  <2>2. FindIn(s, w) \in Elements(s) /\ FindIn(s, w).space = w  BY <1>0, <2>1, Finds
  <2>3. CurrentIn(e, w) = {FindIn(s, w)}  BY <1>1 DEF CurrentIn
  <2>4. SpaceIn(e, w) = w  BY <2>2, <2>3 DEF SpaceIn
  <2>. QED  BY <1>0, <1>1, <2>2, <2>3, <2>4
<1>2. CASE w \notin SpacesOf(e) /\ s # <<>>
  <2>1. s[1] \in Elements(s)  BY <1>0, <1>2, InList
  <2>2. CurrentIn(e, w) = {s[1]}  BY <1>2 DEF CurrentIn
  <2>3. SpaceIn(e, w) = s[1].space  BY <2>2 DEF SpaceIn
  <2>4. s[1].space \in SpacesOf(e)  BY <2>1 DEF SpacesOf
  <2>. QED  BY <1>0, <1>2, <2>1, <2>2, <2>3, <2>4
<1>3. CASE w \notin SpacesOf(e) /\ s = <<>>
  BY <1>3 DEF CurrentIn, SpaceIn
<1>. QED  BY <1>1, <1>2, <1>3

-----------------------------------------------------------------------------
(* The cached list.                                                         *)
LEMMA EntryTypes ==
    ASSUME NEW D, NEW e \in EntryOf(D)
    PROVE  /\ Want(e) \in EntryOf(D) /\ Want(NewEntry) \in EntryOf(D)
           /\ \A d \in D : Serve(e, d) \in EntryOf(D) /\ Put(e, d) \in EntryOf(D)
           /\ Arrive(e) \in EntryOf(D) /\ Fail(e) \in EntryOf(D)
           /\ Outdated(e) \in EntryOf(D) /\ NewEntry \in EntryOf(D)
<1>1. Want(e) \in EntryOf(D)  BY DEF EntryOf, Restart, Want, Fetching
<1>2. NewEntry \in EntryOf(D)  BY DEF EntryOf, NewEntry
<1>3. Want(NewEntry) \in EntryOf(D)  BY <1>2 DEF EntryOf, Restart, Want, Fetching
<1>4. \A d \in D : Serve(e, d) \in EntryOf(D)  BY DEF EntryOf, Serve
<1>5. \A d \in D : Put(e, d) \in EntryOf(D)  BY DEF EntryOf, Put
<1>6. Arrive(e) \in EntryOf(D) /\ Fail(e) \in EntryOf(D)
  BY DEF EntryOf, Arrive, Fail, NewEntry
<1>7. (e.data # NoData) \in BOOLEAN /\ (e.phase = "served") \in BOOLEAN
  BY Zenon
<1>8. Outdated(e) \in EntryOf(D)  BY <1>7 DEF EntryOf, Outdated
<1>. QED  BY <1>1, <1>2, <1>3, <1>4, <1>5, <1>6, <1>8

(* The data stays, and so does an answer that is not overtaken.             *)
Calmer(e, f) ==
    /\ f.data = e.data /\ f.behind = e.behind
    /\ f.phase = "served" => e.phase = "served" /\ f.answer = e.answer
    /\ f.phase = "served" /\ ~f.overtaken => ~e.overtaken

LEMMA ListMoves ==
    ASSUME NEW D, NEW e \in EntryOf(D)
    PROVE  Calmer(e, e) /\ Calmer(e, Want(e)) /\ Calmer(e, Fail(e))
<1>1. Calmer(e, e)  BY DEF Calmer
<1>2. Calmer(e, Want(e))  BY DEF Calmer, Want, Restart, Fetching, EntryOf
<1>3. Calmer(e, Fail(e))  BY DEF Calmer, Fail, EntryOf
<1>. QED  BY <1>1, <1>2, <1>3

LEMMA EntryFields ==
    ASSUME NEW D, NEW e \in EntryOf(D)
    PROVE  /\ \A d : Serve(e, d).data = e.data /\ Serve(e, d).behind = e.behind
                     /\ Serve(e, d).answer = d /\ Serve(e, d).phase = "served"
           /\ Arrive(e).data = e.answer /\ Arrive(e).behind = e.overtaken
           /\ Arrive(e).phase = "none"
           /\ \A d \in D : Put(e, d).data = d /\ Put(e, d).behind = e.behind
                     /\ (Put(e, d).phase = "served" => Put(e, d).overtaken)
                     /\ Put(e, d).phase = e.phase /\ Put(e, d).answer = e.answer
           /\ Outdated(e).data = e.data /\ (e.data # NoData => Outdated(e).behind)
           /\ (Outdated(e).phase = "served" => Outdated(e).overtaken)
           /\ Outdated(e).phase = e.phase /\ Outdated(e).answer = e.answer
           /\ Want(NewEntry).data = NoData /\ Want(NewEntry).phase = "sent"
<1>1. \A d : Serve(e, d).data = e.data /\ Serve(e, d).behind = e.behind
             /\ Serve(e, d).answer = d /\ Serve(e, d).phase = "served"
  BY DEF EntryOf, Serve
<1>2. /\ Arrive(e).data = e.answer /\ Arrive(e).behind = e.overtaken
      /\ Arrive(e).phase = "none"
  BY DEF EntryOf, Arrive, NewEntry
<1>3. \A d \in D : Put(e, d).data = d /\ Put(e, d).behind = e.behind
             /\ (Put(e, d).phase = "served" => Put(e, d).overtaken)
             /\ Put(e, d).phase = e.phase /\ Put(e, d).answer = e.answer
  BY DEF EntryOf, Put
<1>4. /\ Outdated(e).data = e.data /\ (e.data # NoData => Outdated(e).behind)
      /\ (Outdated(e).phase = "served" => Outdated(e).overtaken)
      /\ Outdated(e).phase = e.phase /\ Outdated(e).answer = e.answer
  BY DEF EntryOf, Outdated
<1>5. Want(NewEntry).data = NoData /\ Want(NewEntry).phase = "sent"
  BY DEF Want, Restart, NewEntry, Fetching
<1>. QED  BY <1>1, <1>2, <1>3, <1>4, <1>5

-----------------------------------------------------------------------------
(* The inductive invariant.  The types, with the lists as sequences.        *)
TabTypes ==
    /\ held \in Seq(Spaces)
    /\ title \in [Spaces -> Titles]
    /\ list \in EntryOf(SpaceLists)
    /\ list.phase = "served" => list.answer \in SpaceLists
    /\ picked \in Spaces \cup {NoSpace}
    /\ stored \in Spaces \cup {NoSpace}
    /\ form \in Form
    /\ asked \in Asked
    /\ wait \in [Waits -> Wait]
    /\ past \in Past

(* A workspace that was chosen is selected, is kept, and is in the list.    *)
ChoiceInv ==
    past.chosen # NoSpace =>
        /\ picked = past.chosen /\ stored = past.chosen
        /\ list.data # NoData => past.chosen \in SpacesOf(list)

(* What a call is about: the list was there when it was made.               *)
Busy(x) == x.phase \in {"sent", "done", "failed"}

GoodWait(x, loaded, typed) ==
    /\ x.phase \in {"sent", "adrift", "done", "failed"} /\ x.op # "create" => x.space \in Spaces
    /\ x.phase \in {"sent", "adrift", "done"} /\ x.op # "delete" => x.title \in Titles
    /\ x.phase = "done" => x.space \in Spaces
    /\ Busy(x) /\ x.op # "create" => loaded
    /\ x.phase \in {"sent", "adrift", "done"} /\ x.op = "rename" => x.title \in typed[x.space]
    /\ x.phase = "done" /\ x.op = "create" => x.title \in typed[x.space]

WaitsInv ==
    /\ \A a \in Waits : GoodWait(wait[a], list.data # NoData, past.typed)
    /\ asked # NothingAsked => asked.space \in Spaces /\ list.data # NoData

(* Names were typed for the workspace they are shown with.                  *)
NamedIn(D, typed) == \A x \in D : x.title \in typed[x.space]

NamesInv ==
    /\ \A w \in Elements(held) : title[w] \in past.typed[w]
    /\ NamedIn(Elements(ShownBy(list)), past.typed)
    /\ list.phase = "served" => NamedIn(Elements(list.answer), past.typed)
    /\ form.space = CurrentSpace
    /\ form.space # NoSpace => form.title \in past.typed[form.space]

(* What the server has of one workspace, and what an answer makes of what   *)
(* the list has of it.                                                      *)
RowOf(x) == [space |-> x.space, title |-> x.title]

RowsAt(h, t, w) ==
    IF w \in Elements(h) THEN {[space |-> w, title |-> t[w]]} ELSE {}

RowsIn(D, w) == {x \in D : x.space = w}

After(x, R) ==
    IF x.op = "create" THEN R \cup {RowOf(x)}
    ELSE IF x.op = "rename" THEN {RowOf(x) : r \in R} ELSE {}

Answers(x, w) == x.phase = "done" /\ x.space = w

(* An answer that nothing came after tells what the server has, and no two  *)
(* of them tell of one workspace.                                           *)
FreshServer(h, t, ws) ==
    \A a \in Waits : ws[a].phase = "done" /\ ~ws[a].late =>
        /\ RowsAt(h, t, ws[a].space) = IF ws[a].op = "delete" THEN {} ELSE {RowOf(ws[a])}
        /\ \A b \in Waits \ {a} : Answers(ws[b], ws[a].space) => ws[b].late

(* Of every workspace the list has what the server has, or an answer that   *)
(* is still to come makes it so, or is known to come too late.              *)
Mends(x, D, w, R) == Answers(x, w) /\ (x.late \/ After(x, RowsIn(D, w)) = R)

Tells(D, h, t, ws) ==
    \A w \in Spaces : \/ RowsIn(D, w) = RowsAt(h, t, w)
                      \/ \E a \in Waits : Mends(ws[a], D, w, RowsAt(h, t, w))

FreshInv == FreshServer(held, title, wait)

TellInv ==
    /\ list.data # NoData /\ ~list.behind => Tells(Elements(list.data), held, title, wait)
    /\ list.phase = "served" /\ ~list.overtaken =>
          Tells(Elements(list.answer), held, title, wait)

SelectionInv ==
    /\ TabTypes /\ ChoiceInv /\ WaitsInv /\ NamesInv /\ FreshInv /\ TellInv

LEMMA NoWaitGood ==
    /\ NoWait \in Wait /\ WaitOver \in Wait /\ NoWait.phase = "new" /\ WaitOver.phase = "over"
    /\ \A loaded, typed : GoodWait(NoWait, loaded, typed) /\ GoodWait(WaitOver, loaded, typed)
<1>1. NoWait \in Wait /\ NoWait.phase = "new"  BY DEF NoWait, Wait
<1>2. WaitOver \in Wait /\ WaitOver.phase = "over"  BY <1>1 DEF WaitOver, Wait
<1>. QED  BY <1>1, <1>2 DEF GoodWait, Busy

LEMMA InitSelection == SelectionInit => SelectionInv
<1>. SUFFICES ASSUME SelectionInit PROVE SelectionInv
  OBVIOUS
<1>1. NewEntry \in EntryOf(SpaceLists)  BY DEF NewEntry, EntryOf
<1>2. list \in EntryOf(SpaceLists) /\ list.data = NoData /\ list.phase = "sent"
  BY <1>1, EntryTypes, EntryFields DEF SelectionInit
<1>3. \A w \in Elements(BeginsWith) : w \in Spaces
  BY SelectionConstants DEF Elements
<1>4. form \in Form /\ form.space = NoSpace /\ asked \in Asked /\ asked = NothingAsked
  BY DEF SelectionInit, Form, NoForm, Asked, NothingAsked
<1>5. wait \in [Waits -> Wait] /\ \A a \in Waits : wait[a] = NoWait
  BY NoWaitGood DEF SelectionInit
<1>6. past \in Past /\ past.chosen = NoSpace
      /\ \A w \in Elements(BeginsWith) : past.typed[w] = {TitleOf[w]}
  <2>. DEFINE t == [w \in Spaces |-> IF w \in Elements(BeginsWith) THEN {TitleOf[w]} ELSE {}]
  <2>1. t \in [Spaces -> SUBSET Titles]  BY SelectionConstants
  <2>2. past = [chosen |-> NoSpace, events |-> 0, typed |-> t]  BY DEF SelectionInit
  <2>3. \A w \in Elements(BeginsWith) : t[w] = {TitleOf[w]}  BY <1>3
  <2>. HIDE DEF t
  <2>. QED  BY <2>1, <2>2, <2>3, SelectionConstants DEF Past
<1>7. TabTypes
  BY <1>2, <1>3, <1>4, <1>5, <1>6, SelectionConstants DEF SelectionInit, TabTypes
<1>8. ChoiceInv  BY <1>6 DEF ChoiceInv
<1>9. WaitsInv  BY <1>4, <1>5, NoWaitGood DEF WaitsInv
<1>10. ShownBy(list) = <<>> /\ Elements(<<>>) = {}  BY <1>2 DEF ShownBy, Elements
<1>11. CurrentSpace = NoSpace
  BY <1>10 DEF CurrentSpace, SpaceIn, CurrentIn, SpacesOf
<1>12. NamesInv
  BY <1>2, <1>4, <1>6, <1>10, <1>11 DEF SelectionInit, NamesInv, NamedIn
<1>13. FreshInv /\ TellInv  BY <1>2, <1>5, NoWaitGood DEF FreshInv, TellInv, FreshServer
<1>. QED  BY <1>7, <1>8, <1>9, <1>12, <1>13 DEF SelectionInv

-----------------------------------------------------------------------------
(* Steps that leave the list and the answers as they are.                   *)
SameWait(x, y) ==
    /\ x.phase = y.phase /\ x.op = y.op /\ x.space = y.space /\ x.title = y.title
    /\ x.late = y.late

DoneSame(vs, ws) ==
    \A a \in Waits :
        /\ vs[a].phase = "done" <=> ws[a].phase = "done"
        /\ ws[a].phase = "done" => SameWait(vs[a], ws[a])

LEMMA SameGood ==
    ASSUME NEW x, NEW y, NEW loaded, NEW typed, SameWait(x, y), GoodWait(y, loaded, typed)
    PROVE  GoodWait(x, loaded, typed)
<1>. QED  BY DEF SameWait, GoodWait, Busy

LEMMA GoodGrows ==
    ASSUME NEW x, NEW loaded, NEW now, NEW typed, NEW then, GoodWait(x, loaded, typed),
           loaded => now, \A w \in Spaces : typed[w] \subseteq then[w],
           x.phase \in {"sent", "adrift", "done"} => x.op = "create" \/ x.space \in Spaces,
           x.phase = "done" => x.space \in Spaces
    PROVE  GoodWait(x, now, then)
<1>. QED  BY DEF GoodWait, Busy

LEMMA SameShown ==
    ASSUME NEW e, NEW f, NEW w, e.data = f.data
    PROVE  /\ ShownBy(e) = ShownBy(f) /\ SpacesOf(e) = SpacesOf(f)
           /\ CurrentIn(e, w) = CurrentIn(f, w) /\ SpaceIn(e, w) = SpaceIn(f, w)
<1>1. ShownBy(e) = ShownBy(f)  BY DEF ShownBy
<1>2. SpacesOf(e) = SpacesOf(f)  BY <1>1 DEF SpacesOf
<1>3. CurrentIn(e, w) = CurrentIn(f, w)  BY <1>1, <1>2 DEF CurrentIn
<1>. QED  BY <1>1, <1>2, <1>3 DEF SpaceIn

LEMMA TellsSame ==
    ASSUME NEW h, NEW t, NEW vs, NEW ws, DoneSame(vs, ws)
    PROVE  /\ FreshServer(h, t, ws) => FreshServer(h, t, vs)
           /\ \A D : Tells(D, h, t, ws) => Tells(D, h, t, vs)
<1>1. ASSUME NEW a \in Waits, NEW D, NEW w, NEW R, Mends(ws[a], D, w, R)
      PROVE  Mends(vs[a], D, w, R)
  BY <1>1 DEF Mends, Answers, DoneSame, SameWait, After, RowOf
<1>2. ASSUME NEW D, Tells(D, h, t, ws)  PROVE Tells(D, h, t, vs)
  BY <1>1, <1>2 DEF Tells
<1>3. ASSUME FreshServer(h, t, ws), NEW a \in Waits, vs[a].phase = "done", ~vs[a].late
      PROVE  /\ RowsAt(h, t, vs[a].space) =
                    IF vs[a].op = "delete" THEN {} ELSE {RowOf(vs[a])}
             /\ \A b \in Waits \ {a} : Answers(vs[b], vs[a].space) => vs[b].late
  <2>1. ws[a].phase = "done" /\ SameWait(vs[a], ws[a])  BY <1>3 DEF DoneSame
  <2>2. RowOf(vs[a]) = RowOf(ws[a])  BY <2>1 DEF SameWait, RowOf
  <2>3. RowsAt(h, t, ws[a].space) = IF ws[a].op = "delete" THEN {} ELSE {RowOf(ws[a])}
    BY <1>3, <2>1 DEF FreshServer, SameWait
  <2>4. \A b \in Waits \ {a} : Answers(ws[b], ws[a].space) => ws[b].late
    BY <1>3, <2>1 DEF FreshServer, SameWait
  <2>. QED  BY <2>1, <2>2, <2>3, <2>4 DEF Answers, DoneSame, SameWait
<1>. QED  BY <1>2, <1>3 DEF FreshServer

LEMMA TellKept ==
    ASSUME FreshInv, TellInv, UNCHANGED <<held, title>>, Calmer(list, list'),
           DoneSame(wait', wait)
    PROVE  FreshInv' /\ TellInv'
<1>1. FreshInv'  BY TellsSame DEF FreshInv
<1>2. TellInv'  BY TellsSame DEF TellInv, Calmer
<1>. QED  BY <1>1, <1>2

LEMMA TabStep ==
    ASSUME SelectionInv, UNCHANGED <<held, title, picked>>, past' \in Past,
           \A w \in Spaces : past.typed[w] \subseteq past'.typed[w],
           list' \in EntryOf(SpaceLists), Calmer(list, list'),
           form' \in Form, form'.space = form.space,
           form.space # NoSpace => form'.title \in past'.typed[form.space],
           stored' \in Spaces \cup {NoSpace}, asked' \in Asked,
           asked' # NothingAsked => asked'.space \in Spaces /\ list.data # NoData,
           wait' \in [Waits -> Wait], DoneSame(wait', wait),
           \A a \in Waits : GoodWait(wait'[a], list.data # NoData, past'.typed),
           \/ past'.chosen = NoSpace
           \/ past'.chosen = past.chosen /\ stored' = stored
    PROVE  SelectionInv'
<1>1. list'.data = list.data  BY DEF Calmer
<1>2. /\ ShownBy(list)' = ShownBy(list) /\ SpacesOf(list)' = SpacesOf(list)
      /\ CurrentSpace' = CurrentSpace
  <2>1. ShownBy(list') = ShownBy(list) /\ SpacesOf(list') = SpacesOf(list)
    BY <1>1, SameShown
  <2>2. SpaceIn(list', picked) = SpaceIn(list, picked)  BY <1>1, SameShown
  <2>. QED  BY <2>1, <2>2 DEF ShownBy, SpacesOf, CurrentSpace, Elements
<1>3. TabTypes'  BY DEF SelectionInv, TabTypes, Calmer
<1>4. ChoiceInv'  BY <1>1, <1>2 DEF SelectionInv, ChoiceInv, SpacesOf, Elements
<1>5. WaitsInv'  BY <1>1 DEF WaitsInv
<1>6. NamesInv'
  <2>1. ASSUME NEW D, D \subseteq ListedSpace, NamedIn(D, past.typed)
        PROVE  NamedIn(D, past'.typed)
    BY <2>1 DEF NamedIn, ListedSpace
  <2>2. Elements(ShownBy(list)) \subseteq ListedSpace
    BY ShownRows DEF SelectionInv, TabTypes
  <2>3. list.phase = "served" => Elements(list.answer) \subseteq ListedSpace
    BY InList DEF SelectionInv, TabTypes
  <2>4. NamedIn(Elements(ShownBy(list)), past'.typed)
    BY <2>1, <2>2 DEF SelectionInv, NamesInv
  <2>5. list'.phase = "served" => NamedIn(Elements(list'.answer), past'.typed)
    BY <2>1, <2>3 DEF SelectionInv, NamesInv, Calmer
  <2>6. \A w \in Elements(held) : title[w] \in past'.typed[w]
    <3>1. \A w \in Elements(held) : w \in Spaces  BY DEF SelectionInv, TabTypes, Elements
    <3>. QED  BY <3>1 DEF SelectionInv, NamesInv
  <2>7. form'.space = CurrentSpace'  BY <1>2 DEF SelectionInv, NamesInv
  <2>. QED  BY <1>2, <2>4, <2>5, <2>6, <2>7 DEF NamesInv, Elements, NamedIn
<1>7. FreshInv' /\ TellInv'  BY TellKept DEF SelectionInv
<1>. QED  BY <1>3, <1>4, <1>5, <1>6, <1>7 DEF SelectionInv

(* A render: the panel shows the workspace that is selected, under the name *)
(* the list has for it or the one that was typed.                           *)
LEMMA Rendered ==
    ASSUME TabTypes, NEW e \in EntryOf(SpaceLists), NEW w \in Spaces \cup {NoSpace},
           NEW kept \in Spaces \cup {NoSpace}, NEW shown \in Form,
           NEW waits \in [Waits -> Wait], Render(e, w, kept, shown, waits)
    PROVE  /\ list' = e /\ picked' = w /\ stored' \in Spaces \cup {NoSpace}
           /\ w \in SpacesOf(e) /\ kept = w => stored' = w
           /\ form' \in Form
           /\ \/ SpaceIn(e, w) = CurrentSpace /\ form' = shown
              \/ SpaceIn(e, w) = NoSpace /\ form' = NoForm
              \/ \E x \in Elements(ShownBy(e)) :
                    x.space = SpaceIn(e, w) /\ form'.space = x.space /\ form'.title = x.title
           /\ wait' \in [Waits -> Wait] /\ \A a \in Waits : SameWait(wait'[a], waits[a])
           /\ asked' \in Asked
           /\ asked' # NothingAsked => asked # NothingAsked /\ asked'.space = asked.space
<1>1. list' = e /\ picked' = w /\ stored' = StoredAfter(e, w, kept)  BY DEF Render
<1>2. \/ CurrentIn(e, w) = {} /\ SpaceIn(e, w) = NoSpace
      \/ \E x \in Elements(ShownBy(e)) :
            /\ CurrentIn(e, w) = {x} /\ SpaceIn(e, w) = x.space /\ x \in ListedSpace
  BY CurrentRow
<1>3. w \in SpacesOf(e) => SpaceIn(e, w) = w /\ CurrentIn(e, w) # {}  BY CurrentRow
<1>4. SpaceIn(e, w) \in Spaces \cup {NoSpace}  BY <1>2 DEF ListedSpace
<1>5. stored' \in Spaces \cup {NoSpace}  BY <1>1, <1>4 DEF StoredAfter, Effect
<1>6. w \in SpacesOf(e) /\ kept = w => stored' = w  BY <1>1, <1>3 DEF StoredAfter, Effect
<1>7. CASE SpaceIn(e, w) = CurrentSpace
  <2>1. form' = shown /\ wait' = waits /\ asked' = asked  BY <1>7 DEF Render
  <2>. QED  BY <1>1, <1>5, <1>6, <1>7, <2>1 DEF TabTypes, SameWait
<1>8. CASE SpaceIn(e, w) # CurrentSpace
  <2>1. /\ form' = FormFor(e, w)
        /\ wait' = [a \in Waits |-> [waits[a] EXCEPT !.same = FALSE]]
        /\ asked' = [asked EXCEPT !.same = FALSE]
    BY <1>8 DEF Render
  <2>2. /\ form' \in Form
        /\ \/ SpaceIn(e, w) = NoSpace /\ form' = NoForm
           \/ \E x \in Elements(ShownBy(e)) :
                 x.space = SpaceIn(e, w) /\ form'.space = x.space /\ form'.title = x.title
    <3>1. NoForm \in Form  BY DEF NoForm, Form
    <3>2. CASE CurrentIn(e, w) = {}  BY <1>2, <2>1, <3>1, <3>2 DEF FormFor
    <3>3. CASE \E x \in Elements(ShownBy(e)) :
                  /\ CurrentIn(e, w) = {x} /\ SpaceIn(e, w) = x.space /\ x \in ListedSpace
      <4>1. PICK x \in Elements(ShownBy(e)) :
                    /\ CurrentIn(e, w) = {x} /\ SpaceIn(e, w) = x.space /\ x \in ListedSpace
        BY <3>3
      <4>2. form' = [NoForm EXCEPT !.space = x.space, !.title = x.title]
        BY <2>1, <4>1 DEF FormFor
      <4>3. /\ form' \in Form /\ form'.space = x.space /\ form'.title = x.title
        BY <4>1, <4>2 DEF NoForm, Form, ListedSpace
      <4>. QED  BY <4>1, <4>3
    <3>. QED  BY <1>2, <3>2, <3>3
  <2>3. wait' \in [Waits -> Wait] /\ \A a \in Waits : SameWait(wait'[a], waits[a])
    <3>1. \A x \in Wait : [x EXCEPT !.same = FALSE] \in Wait
                          /\ SameWait([x EXCEPT !.same = FALSE], x)
      BY DEF Wait, SameWait
    <3>. QED  BY <2>1, <3>1
  <2>4. asked' \in Asked /\ asked'.space = asked.space
    BY <2>1 DEF TabTypes, Asked
  <2>5. asked = NothingAsked => asked' = NothingAsked
    <3>1. \A x \in Asked : x.same = FALSE => [x EXCEPT !.same = FALSE] = x  BY DEF Asked
    <3>2. NothingAsked \in Asked /\ NothingAsked.same = FALSE  BY DEF NothingAsked, Asked
    <3>. QED  BY <2>1, <3>1, <3>2
  <2>. QED  BY <1>1, <1>5, <1>6, <2>2, <2>3, <2>4, <2>5
<1>. QED  BY <1>7, <1>8

LEMMA RenderStep ==
    ASSUME SelectionInv, NEW e \in EntryOf(SpaceLists), NEW w \in Spaces \cup {NoSpace},
           NEW kept \in Spaces \cup {NoSpace}, NEW shown \in Form,
           NEW waits \in [Waits -> Wait], Render(e, w, kept, shown, waits),
           UNCHANGED <<held, title>>, past' \in Past, past'.typed = past.typed,
           shown.space = form.space, shown.title = form.title,
           past'.chosen # NoSpace =>
               w = past'.chosen /\ kept = past'.chosen /\ past'.chosen \in SpacesOf(e),
           NamedIn(Elements(ShownBy(e)), past.typed),
           e.phase = "served" => e.answer \in SpaceLists /\ NamedIn(Elements(e.answer), past.typed),
           list.data # NoData => e.data # NoData,
           \A a \in Waits : GoodWait(waits[a], e.data # NoData, past.typed),
           FreshServer(held, title, waits),
           e.data # NoData /\ ~e.behind => Tells(Elements(e.data), held, title, waits),
           e.phase = "served" /\ ~e.overtaken => Tells(Elements(e.answer), held, title, waits)
    PROVE  SelectionInv'
<1>0. TabTypes  BY DEF SelectionInv
<1>1. /\ list' = e /\ picked' = w /\ stored' \in Spaces \cup {NoSpace}
      /\ w \in SpacesOf(e) /\ kept = w => stored' = w
      /\ form' \in Form
      /\ \/ SpaceIn(e, w) = CurrentSpace /\ form' = shown
         \/ SpaceIn(e, w) = NoSpace /\ form' = NoForm
         \/ \E x \in Elements(ShownBy(e)) :
               x.space = SpaceIn(e, w) /\ form'.space = x.space /\ form'.title = x.title
      /\ wait' \in [Waits -> Wait] /\ \A a \in Waits : SameWait(wait'[a], waits[a])
      /\ asked' \in Asked
      /\ asked' # NothingAsked => asked # NothingAsked /\ asked'.space = asked.space
  BY <1>0, Rendered
<1>2. /\ ShownBy(list)' = ShownBy(e) /\ SpacesOf(list)' = SpacesOf(e)
      /\ CurrentSpace' = SpaceIn(e, w)
  BY <1>1 DEF ShownBy, SpacesOf, CurrentSpace, Elements
<1>3. TabTypes'  BY <1>0, <1>1 DEF TabTypes
<1>4. ChoiceInv'  BY <1>1, <1>2 DEF ChoiceInv, SpacesOf, Elements
<1>5. \A a \in Waits : GoodWait(wait'[a], e.data # NoData, past.typed)
  BY <1>1, SameGood
<1>6. WaitsInv'
  <2>1. asked' # NothingAsked => asked'.space \in Spaces /\ e.data # NoData
    BY <1>1 DEF SelectionInv, WaitsInv
  <2>. QED  BY <1>1, <1>5, <2>1 DEF WaitsInv
<1>7. NamesInv'
  <2>1. \A v \in Elements(held) : title[v] \in past.typed[v]
    BY DEF SelectionInv, NamesInv
  <2>2. form'.space = SpaceIn(e, w)
        /\ (form'.space # NoSpace => form'.title \in past.typed[form'.space])
    <3>1. CASE SpaceIn(e, w) = CurrentSpace /\ form' = shown
      BY <3>1 DEF SelectionInv, NamesInv
    <3>2. CASE SpaceIn(e, w) = NoSpace /\ form' = NoForm  BY <3>2 DEF NoForm
    <3>3. CASE \E x \in Elements(ShownBy(e)) :
               x.space = SpaceIn(e, w) /\ form'.space = x.space /\ form'.title = x.title
      BY <3>3 DEF NamedIn
    <3>. QED  BY <1>1, <3>1, <3>2, <3>3
  <2>. QED  BY <1>1, <1>2, <2>1, <2>2 DEF NamesInv, Elements, NamedIn
<1>8. DoneSame(wait', waits)  BY <1>1 DEF DoneSame, SameWait
<1>9. FreshInv'  BY <1>8, TellsSame DEF FreshInv
<1>10. TellInv'  BY <1>1, <1>8, TellsSame DEF TellInv
<1>. QED  BY <1>3, <1>4, <1>6, <1>7, <1>9, <1>10 DEF SelectionInv

(* Steps of the tab that leave the list, the choice and the answers alone.  *)
LEMMA StaysAsItIs ==
    ASSUME SelectionInv
    PROVE  /\ list \in EntryOf(SpaceLists) /\ Calmer(list, list) /\ past \in Past
           /\ past.typed \in [Spaces -> SUBSET Titles]
           /\ \A x \in Waits : wait[x] \in Wait
                               /\ GoodWait(wait[x], list.data # NoData, past.typed)
           /\ asked # NothingAsked => asked.space \in Spaces /\ list.data # NoData
           /\ form.space = CurrentSpace
           /\ form.space # NoSpace => form.title \in past.typed[form.space]
           /\ CurrentSpace # NoSpace => CurrentSpace \in Spaces /\ list.data # NoData
<1>1. list \in EntryOf(SpaceLists) /\ Calmer(list, list)  BY ListMoves DEF SelectionInv, TabTypes
<1>2. past \in Past /\ past.typed \in [Spaces -> SUBSET Titles]
  BY DEF SelectionInv, TabTypes, Past
<1>3. \A x \in Waits : wait[x] \in Wait
                       /\ GoodWait(wait[x], list.data # NoData, past.typed)
  BY DEF SelectionInv, TabTypes, WaitsInv
<1>4. CurrentSpace # NoSpace => CurrentSpace \in Spaces /\ list.data # NoData
  <2>1. \/ SpaceIn(list, picked) = NoSpace
        \/ \E x \in Elements(ShownBy(list)) :
              SpaceIn(list, picked) = x.space /\ x \in ListedSpace
    BY <1>1, CurrentRow
  <2>2. list.data = NoData => Elements(ShownBy(list)) = {}  BY DEF ShownBy, Elements
  <2>. QED  BY <2>1, <2>2 DEF CurrentSpace, ListedSpace
<1>. QED  BY <1>1, <1>2, <1>3, <1>4 DEF SelectionInv, WaitsInv, NamesInv

LEMMA StepSpacesFail ==
    ASSUME SelectionInv, SpacesFail  PROVE SelectionInv'
<1>0. /\ list \in EntryOf(SpaceLists) /\ past \in Past
      /\ \A x \in Waits : GoodWait(wait[x], list.data # NoData, past.typed)
      /\ form.space # NoSpace => form.title \in past.typed[form.space]
      /\ asked # NothingAsked => asked.space \in Spaces /\ list.data # NoData
  BY StaysAsItIs
<1>1. list' \in EntryOf(SpaceLists) /\ Calmer(list, list')
  BY <1>0, EntryTypes, ListMoves DEF SpacesFail
<1>2. DoneSame(wait', wait)  BY DEF SpacesFail, DoneSame, SameWait
<1>3. TabTypes  BY DEF SelectionInv
<1>. QED  BY <1>0, <1>1, <1>2, <1>3, TabStep DEF SpacesFail, TabTypes

LEMMA StepAskForSpaces ==
    ASSUME SelectionInv, AskForSpaces  PROVE SelectionInv'
<1>0. /\ list \in EntryOf(SpaceLists) /\ past \in Past
      /\ \A x \in Waits : GoodWait(wait[x], list.data # NoData, past.typed)
      /\ form.space # NoSpace => form.title \in past.typed[form.space]
      /\ asked # NothingAsked => asked.space \in Spaces /\ list.data # NoData
  BY StaysAsItIs
<1>1. list' \in EntryOf(SpaceLists) /\ Calmer(list, list')
  BY <1>0, EntryTypes, ListMoves DEF AskForSpaces
<1>2. DoneSame(wait', wait)  BY DEF AskForSpaces, DoneSame, SameWait
<1>3. TabTypes  BY DEF SelectionInv
<1>4. past' \in Past /\ past'.typed = past.typed /\ past'.chosen = past.chosen
  BY <1>0, SelectionConstants DEF AskForSpaces, Happens, Past
<1>. QED  BY <1>0, <1>1, <1>2, <1>3, <1>4, TabStep DEF AskForSpaces, TabTypes

LEMMA StepOtherTab ==
    ASSUME SelectionInv, NEW w \in Spaces, OtherTab(w)  PROVE SelectionInv'
<1>0. /\ list \in EntryOf(SpaceLists) /\ Calmer(list, list) /\ past \in Past
      /\ \A x \in Waits : GoodWait(wait[x], list.data # NoData, past.typed)
      /\ form.space # NoSpace => form.title \in past.typed[form.space]
      /\ asked # NothingAsked => asked.space \in Spaces /\ list.data # NoData
  BY StaysAsItIs
<1>2. DoneSame(wait', wait)  BY DEF OtherTab, DoneSame, SameWait
<1>3. TabTypes  BY DEF SelectionInv
<1>4. past' \in Past /\ past'.typed = past.typed /\ past'.chosen = NoSpace
  <2>1. past' = [past EXCEPT !.events = @ + 1, !.chosen = NoSpace]  BY DEF OtherTab
  <2>2. past.events + 1 \in 0 .. MaxEvents  BY <1>0, SelectionConstants DEF OtherTab, Past
  <2>. QED  BY <1>0, <2>1, <2>2 DEF Past
<1>. QED  BY <1>0, <1>2, <1>3, <1>4, TabStep DEF OtherTab, TabTypes

LEMMA StepTypeTitle ==
    ASSUME SelectionInv, NEW t \in Titles, TypeTitle(t)  PROVE SelectionInv'
<1>0. /\ list \in EntryOf(SpaceLists) /\ Calmer(list, list) /\ past \in Past
      /\ past.typed \in [Spaces -> SUBSET Titles]
      /\ \A x \in Waits : wait[x] \in Wait /\ GoodWait(wait[x], list.data # NoData, past.typed)
      /\ form.space = CurrentSpace
      /\ CurrentSpace # NoSpace => CurrentSpace \in Spaces
      /\ asked # NothingAsked => asked.space \in Spaces /\ list.data # NoData
  BY StaysAsItIs
<1>1. CurrentSpace \in Spaces  BY <1>0 DEF TypeTitle
<1>2. DoneSame(wait', wait)  BY DEF TypeTitle, DoneSame, SameWait
<1>3. TabTypes  BY DEF SelectionInv
<1>4. past' = [past EXCEPT !.typed[CurrentSpace] = @ \cup {t}]  BY DEF TypeTitle
<1>5. past' \in Past /\ past'.chosen = past.chosen
      /\ past'.typed = [past.typed EXCEPT ![CurrentSpace] = @ \cup {t}]
  BY <1>0, <1>1, <1>4 DEF Past
<1>6. /\ \A w \in Spaces : past.typed[w] \subseteq past'.typed[w]
      /\ t \in past'.typed[CurrentSpace]
  BY <1>0, <1>1, <1>5
<1>7. \A x \in Waits : GoodWait(wait[x], list.data # NoData, past'.typed)
  <2>1. ASSUME NEW x \in Waits  PROVE GoodWait(wait[x], list.data # NoData, past'.typed)
    <3>1. /\ wait[x].phase \in {"sent", "adrift", "done"} =>
                wait[x].op = "create" \/ wait[x].space \in Spaces
          /\ wait[x].phase = "done" => wait[x].space \in Spaces
      BY <1>0 DEF GoodWait
    <3>. QED  BY <1>0, <1>6, <3>1, GoodGrows
  <2>. QED  BY <2>1
<1>8. form' \in Form /\ form'.space = form.space /\ form'.title = t
  BY <1>3 DEF TypeTitle, TabTypes, Form
<1>. QED
  BY <1>0, <1>2, <1>3, <1>5, <1>6, <1>7, <1>8, TabStep DEF TypeTitle, TabTypes

LEMMA StepOpenPanels ==
    ASSUME SelectionInv, OpenPanels  PROVE SelectionInv'
<1>0. /\ list \in EntryOf(SpaceLists) /\ Calmer(list, list) /\ past \in Past
      /\ \A x \in Waits : wait[x] \in Wait /\ GoodWait(wait[x], list.data # NoData, past.typed)
      /\ form.space = CurrentSpace
      /\ asked # NothingAsked => asked.space \in Spaces /\ list.data # NoData
  BY StaysAsItIs
<1>3. TabTypes  BY DEF SelectionInv
<1>4. form' = FormFor(list, picked)  BY DEF OpenPanels
<1>5. /\ form' \in Form /\ form'.space = CurrentSpace
      /\ form'.space # NoSpace => form'.title \in past.typed[form'.space]
  <2>0. NoForm \in Form /\ NoForm.space = NoSpace  BY DEF NoForm, Form
  <2>1. \/ CurrentIn(list, picked) = {} /\ CurrentSpace = NoSpace
        \/ \E x \in Elements(ShownBy(list)) :
              /\ CurrentIn(list, picked) = {x} /\ CurrentSpace = x.space /\ x \in ListedSpace
    BY <1>0, CurrentRow DEF CurrentSpace
  <2>2. CASE CurrentIn(list, picked) = {} /\ CurrentSpace = NoSpace
    BY <1>4, <2>0, <2>2 DEF FormFor
  <2>3. ASSUME NEW x \in Elements(ShownBy(list)), CurrentIn(list, picked) = {x},
               CurrentSpace = x.space, x \in ListedSpace
        PROVE  /\ form' \in Form /\ form'.space = CurrentSpace
               /\ form'.space # NoSpace => form'.title \in past.typed[form'.space]
    <3>1. form' = [NoForm EXCEPT !.space = x.space, !.title = x.title]
      BY <1>4, <2>3 DEF FormFor
    <3>2. form' \in Form /\ form'.space = x.space /\ form'.title = x.title
      BY <2>3, <3>1 DEF NoForm, Form, ListedSpace
    <3>3. x.title \in past.typed[x.space]  BY DEF SelectionInv, NamesInv, NamedIn
    <3>. QED  BY <2>3, <3>2, <3>3
  <2>. QED  BY <2>1, <2>2, <2>3
<1>6. /\ wait' \in [Waits -> Wait] /\ \A a \in Waits : SameWait(wait'[a], wait[a])
  <2>1. \A x \in Wait : [x EXCEPT !.same = FALSE] \in Wait
                        /\ SameWait([x EXCEPT !.same = FALSE], x)
    BY DEF Wait, SameWait
  <2>. QED  BY <1>0, <2>1 DEF OpenPanels
<1>7. DoneSame(wait', wait)  BY <1>6 DEF DoneSame, SameWait
<1>8. \A x \in Waits : GoodWait(wait'[x], list.data # NoData, past.typed)
  BY <1>0, <1>6, SameGood
<1>. QED
  BY <1>0, <1>3, <1>5, <1>6, <1>7, <1>8, TabStep DEF OpenPanels, TabTypes

LEMMA WaitSet ==
    ASSUME SelectionInv, NEW a \in Waits, NEW x \in Wait,
           GoodWait(x, list.data # NoData, past.typed),
           x.phase # "done", wait[a].phase # "done",
           wait' = [wait EXCEPT ![a] = x]
    PROVE  /\ wait' \in [Waits -> Wait] /\ DoneSame(wait', wait)
           /\ \A y \in Waits : GoodWait(wait'[y], list.data # NoData, past.typed)
<1>1. wait \in [Waits -> Wait]  BY DEF SelectionInv, TabTypes
<1>2. \A y \in Waits : GoodWait(wait[y], list.data # NoData, past.typed)  BY StaysAsItIs
<1>3. wait'[a] = x /\ \A y \in Waits \ {a} : wait'[y] = wait[y]  BY <1>1
<1>4. DoneSame(wait', wait)  BY <1>3 DEF DoneSame, SameWait
<1>. QED  BY <1>1, <1>2, <1>3, <1>4

LEMMA StepCreateSpace ==
    ASSUME SelectionInv, NEW a \in Waits, NEW t \in Titles, CreateSpace(a, t)
    PROVE  SelectionInv'
<1>0. /\ list \in EntryOf(SpaceLists) /\ Calmer(list, list) /\ past \in Past
      /\ form.space # NoSpace => form.title \in past.typed[form.space]
      /\ asked # NothingAsked => asked.space \in Spaces /\ list.data # NoData
  BY StaysAsItIs
<1>. DEFINE x == [NoWait EXCEPT !.phase = "sent", !.title = t]
<1>1. x \in Wait /\ x.phase = "sent" /\ x.op = "create" /\ x.title = t
  BY DEF NoWait, Wait
<1>2. wait[a].phase = "new" /\ wait' = [wait EXCEPT ![a] = x]
  BY DEF CreateSpace, SendWait
<1>. HIDE DEF x
<1>3. GoodWait(x, list.data # NoData, past.typed)  BY <1>1 DEF GoodWait
<1>4. /\ wait' \in [Waits -> Wait] /\ DoneSame(wait', wait)
      /\ \A y \in Waits : GoodWait(wait'[y], list.data # NoData, past.typed)
  BY <1>1, <1>2, <1>3, WaitSet
<1>5. TabTypes  BY DEF SelectionInv
<1>. QED  BY <1>0, <1>4, <1>5, TabStep DEF CreateSpace, TabTypes

LEMMA StepRenameSpace ==
    ASSUME SelectionInv, NEW a \in Waits, RenameSpace(a)
    PROVE  SelectionInv'
<1>0. /\ list \in EntryOf(SpaceLists) /\ Calmer(list, list) /\ past \in Past
      /\ past.typed \in [Spaces -> SUBSET Titles]
      /\ form.space = CurrentSpace
      /\ form.space # NoSpace => form.title \in past.typed[form.space]
      /\ CurrentSpace # NoSpace => CurrentSpace \in Spaces /\ list.data # NoData
      /\ asked # NothingAsked => asked.space \in Spaces /\ list.data # NoData
  BY StaysAsItIs
<1>5. TabTypes  BY DEF SelectionInv
<1>. DEFINE x == [NoWait EXCEPT !.phase = "sent", !.op = "rename", !.space = CurrentSpace,
                                !.title = form.title, !.same = TRUE]
<1>6. /\ CurrentSpace \in Spaces /\ list.data # NoData
      /\ form.title \in past.typed[CurrentSpace] /\ form.title \in Titles
  BY <1>0 DEF RenameSpace
<1>1. /\ x \in Wait /\ x.phase = "sent" /\ x.op = "rename" /\ x.title = form.title
      /\ x.space = CurrentSpace
  BY <1>6 DEF NoWait, Wait
<1>2. wait[a].phase = "new" /\ wait' = [wait EXCEPT ![a] = x]
  BY DEF RenameSpace, SendWait
<1>. HIDE DEF x
<1>3. GoodWait(x, list.data # NoData, past.typed)  BY <1>1, <1>6 DEF GoodWait
<1>4. /\ wait' \in [Waits -> Wait] /\ DoneSame(wait', wait)
      /\ \A y \in Waits : GoodWait(wait'[y], list.data # NoData, past.typed)
  BY <1>1, <1>2, <1>3, WaitSet
<1>7. form' \in Form /\ form'.space = form.space /\ form'.title = form.title
  BY <1>5 DEF RenameSpace, TabTypes, Form
<1>. QED  BY <1>0, <1>4, <1>5, <1>7, TabStep DEF RenameSpace, TabTypes

LEMMA StepAskDeletion ==
    ASSUME SelectionInv, AskDeletion  PROVE SelectionInv'
<1>0. /\ list \in EntryOf(SpaceLists) /\ Calmer(list, list) /\ past \in Past
      /\ \A x \in Waits : GoodWait(wait[x], list.data # NoData, past.typed)
      /\ form.space # NoSpace => form.title \in past.typed[form.space]
      /\ CurrentSpace # NoSpace => CurrentSpace \in Spaces /\ list.data # NoData
  BY StaysAsItIs
<1>1. CurrentSpace \in Spaces /\ list.data # NoData  BY <1>0 DEF AskDeletion
<1>2. DoneSame(wait', wait)  BY DEF AskDeletion, DoneSame, SameWait
<1>3. TabTypes  BY DEF SelectionInv
<1>4. asked' \in Asked /\ asked'.space \in Spaces  BY <1>1 DEF AskDeletion, Asked
<1>. QED  BY <1>0, <1>1, <1>2, <1>3, <1>4, TabStep DEF AskDeletion, TabTypes

LEMMA StepAnswerDeletion ==
    ASSUME SelectionInv, NEW a \in Waits, AnswerDeletion(a)
    PROVE  SelectionInv'
<1>0. /\ list \in EntryOf(SpaceLists) /\ Calmer(list, list) /\ past \in Past
      /\ \A x \in Waits : GoodWait(wait[x], list.data # NoData, past.typed)
      /\ form.space # NoSpace => form.title \in past.typed[form.space]
      /\ asked # NothingAsked => asked.space \in Spaces /\ list.data # NoData
  BY StaysAsItIs
<1>5. TabTypes  BY DEF SelectionInv
<1>6. asked.space \in Spaces /\ list.data # NoData  BY <1>0 DEF AnswerDeletion, AtHand
<1>7. asked' \in Asked /\ asked' = NothingAsked
  BY DEF AnswerDeletion, NothingAsked, Asked
<1>8. CASE UNCHANGED <<wait, form>>
  <2>1. DoneSame(wait', wait)  BY <1>8 DEF DoneSame, SameWait
  <2>. QED  BY <1>0, <1>5, <1>7, <1>8, <2>1, TabStep DEF AnswerDeletion, TabTypes
<1>9. CASE /\ SendWait(a, [NoWait EXCEPT !.phase = "sent", !.op = "delete",
                                     !.space = asked.space, !.same = asked.same])
           /\ form' = [form EXCEPT !.deleting = @ \/ asked.same]
  <2>. DEFINE x == [NoWait EXCEPT !.phase = "sent", !.op = "delete",
                                  !.space = asked.space, !.same = asked.same]
  <2>1. x \in Wait /\ x.phase = "sent" /\ x.op = "delete" /\ x.space = asked.space
    BY <1>5, <1>6 DEF NoWait, Wait, TabTypes, Asked
  <2>2. wait[a].phase = "new" /\ wait' = [wait EXCEPT ![a] = x]  BY <1>9 DEF SendWait
  <2>. HIDE DEF x
  <2>3. GoodWait(x, list.data # NoData, past.typed)  BY <1>6, <2>1 DEF GoodWait
  <2>4. /\ wait' \in [Waits -> Wait] /\ DoneSame(wait', wait)
        /\ \A y \in Waits : GoodWait(wait'[y], list.data # NoData, past.typed)
    BY <2>1, <2>2, <2>3, WaitSet
  <2>5. (form.deleting \/ asked.same) \in BOOLEAN  BY Zenon
  <2>6. form' \in Form /\ form'.space = form.space /\ form'.title = form.title
    <3>1. \A b \in BOOLEAN : /\ [form EXCEPT !.deleting = b] \in Form
                             /\ [form EXCEPT !.deleting = b].space = form.space
                             /\ [form EXCEPT !.deleting = b].title = form.title
      BY <1>5 DEF TabTypes, Form
    <3>. QED  BY <1>9, <2>5, <3>1
  <2>. QED  BY <1>0, <1>5, <1>7, <2>4, <2>6, TabStep DEF AnswerDeletion, TabTypes
<1>. QED  BY <1>8, <1>9 DEF AnswerDeletion

LEMMA Releases ==
    ASSUME TabTypes, NEW a \in Waits
    PROVE  /\ Released(a) \in Form /\ Released(a).space = form.space
           /\ Released(a).title = form.title
<1>. QED  BY DEF Released, TabTypes, Form

LEMMA StepEndFailed ==
    ASSUME SelectionInv, NEW a \in Waits, EndFailed(a)
    PROVE  SelectionInv'
<1>0. /\ list \in EntryOf(SpaceLists) /\ Calmer(list, list) /\ past \in Past
      /\ form.space # NoSpace => form.title \in past.typed[form.space]
      /\ asked # NothingAsked => asked.space \in Spaces /\ list.data # NoData
  BY StaysAsItIs
<1>5. TabTypes  BY DEF SelectionInv
<1>1. wait[a].phase = "failed" /\ wait' = [wait EXCEPT ![a] = WaitOver]
  BY DEF EndFailed, Over
<1>2. WaitOver.phase # "done"  BY NoWaitGood
<1>4. /\ wait' \in [Waits -> Wait] /\ DoneSame(wait', wait)
      /\ \A y \in Waits : GoodWait(wait'[y], list.data # NoData, past.typed)
  BY <1>1, <1>2, NoWaitGood, WaitSet
<1>7. form' \in Form /\ form'.space = form.space /\ form'.title = form.title
  BY <1>5, Releases DEF EndFailed
<1>. QED  BY <1>0, <1>4, <1>5, <1>7, TabStep DEF EndFailed, TabTypes

LEMMA StepSelectSpace ==
    ASSUME SelectionInv, NEW w \in Spaces, SelectSpace(w)
    PROVE  SelectionInv'
<1>0. /\ list \in EntryOf(SpaceLists) /\ past \in Past
      /\ \A x \in Waits : GoodWait(wait[x], list.data # NoData, past.typed)
  BY StaysAsItIs
<1>1. past' \in Past /\ past'.typed = past.typed /\ past'.chosen = w
  BY <1>0 DEF SelectSpace, Past
<1>2. Render(list, w, w, form, wait) /\ w \in SpacesOf(list) /\ UNCHANGED <<held, title>>
  BY DEF SelectSpace
<1>3. form \in Form /\ wait \in [Waits -> Wait]  BY DEF SelectionInv, TabTypes
<1>4. /\ NamedIn(Elements(ShownBy(list)), past.typed)
      /\ list.phase = "served" =>
            list.answer \in SpaceLists /\ NamedIn(Elements(list.answer), past.typed)
      /\ FreshServer(held, title, wait)
      /\ list.data # NoData /\ ~list.behind => Tells(Elements(list.data), held, title, wait)
      /\ list.phase = "served" /\ ~list.overtaken =>
            Tells(Elements(list.answer), held, title, wait)
  BY DEF SelectionInv, TabTypes, NamesInv, FreshInv, TellInv
<1>. QED  BY <1>0, <1>1, <1>2, <1>3, <1>4, RenderStep

-----------------------------------------------------------------------------
(* What a change at the server makes of the answers that are under way.     *)
Later(x, y, w) ==
    /\ x.phase = "done" /\ x.op = y.op /\ x.space = y.space /\ x.title = y.title
    /\ x.late => y.late
    /\ x.space = w => y.late
    /\ y.late => x.late \/ x.space = w

Elsewhere(h, t, h2, t2, w) == \A v : v # w => RowsAt(h2, t2, v) = RowsAt(h, t, v)

Performs(x, h, t, w) ==
    x.space = w /\ RowsAt(h, t, w) = IF x.op = "delete" THEN {} ELSE {RowOf(x)}

DoneAfter(ws, h2, t2, vs, w, a) ==
    \A b \in Waits : vs[b].phase = "done" =>
        Later(ws[b], vs[b], w) \/ (b = a /\ Performs(vs[b], h2, t2, w))

LEMMA FreshAfter ==
    ASSUME NEW h, NEW t, NEW ws, NEW h2, NEW t2, NEW vs, NEW w, NEW a,
           FreshServer(h, t, ws), Elsewhere(h, t, h2, t2, w), DoneAfter(ws, h2, t2, vs, w, a)
    PROVE  FreshServer(h2, t2, vs)
<1>0. /\ \A v : v # w => RowsAt(h2, t2, v) = RowsAt(h, t, v)
      /\ \A b \in Waits : vs[b].phase = "done" =>
            \/ Later(ws[b], vs[b], w)
            \/ /\ b = a /\ vs[b].space = w
               /\ RowsAt(h2, t2, w) = IF vs[b].op = "delete" THEN {} ELSE {RowOf(vs[b])}
  BY DEF Elsewhere, DoneAfter, Performs
<1>1. ASSUME NEW c \in Waits, vs[c].phase = "done", ~vs[c].late
      PROVE  /\ RowsAt(h2, t2, vs[c].space) =
                    IF vs[c].op = "delete" THEN {} ELSE {RowOf(vs[c])}
             /\ \A b \in Waits \ {c} : Answers(vs[b], vs[c].space) => vs[b].late
  <2>1. CASE Later(ws[c], vs[c], w)
    <3>1. ws[c].phase = "done" /\ ~ws[c].late /\ ws[c].space # w /\ vs[c].space = ws[c].space
      BY <1>1, <2>1 DEF Later
    <3>2. RowOf(vs[c]) = RowOf(ws[c]) /\ vs[c].op = ws[c].op  BY <2>1 DEF Later, RowOf
    <3>3. /\ RowsAt(h, t, ws[c].space) = IF ws[c].op = "delete" THEN {} ELSE {RowOf(ws[c])}
          /\ \A b \in Waits \ {c} : Answers(ws[b], ws[c].space) => ws[b].late
      BY <3>1 DEF FreshServer
    <3>4. RowsAt(h2, t2, vs[c].space) = IF vs[c].op = "delete" THEN {} ELSE {RowOf(vs[c])}
      BY <1>0, <3>1, <3>2, <3>3
    <3>5. ASSUME NEW b \in Waits \ {c}, Answers(vs[b], vs[c].space)  PROVE vs[b].late
      <4>1. Later(ws[b], vs[b], w)  BY <1>0, <3>1, <3>5 DEF Answers
      <4>. QED  BY <3>1, <3>3, <3>5, <4>1 DEF Later, Answers
    <3>. QED  BY <3>4, <3>5
  <2>2. CASE /\ c = a /\ vs[c].space = w
             /\ RowsAt(h2, t2, w) = IF vs[c].op = "delete" THEN {} ELSE {RowOf(vs[c])}
    <3>1. ASSUME NEW b \in Waits \ {c}, Answers(vs[b], vs[c].space)  PROVE vs[b].late
      <4>1. Later(ws[b], vs[b], w)  BY <1>0, <2>2, <3>1 DEF Answers
      <4>. QED  BY <2>2, <3>1, <4>1 DEF Later, Answers
    <3>. QED  BY <2>2, <3>1
  <2>. QED  BY <1>0, <1>1, <2>1, <2>2
<1>. QED  BY <1>1 DEF FreshServer

DoneBefore(ws, vs, w, a) ==
    /\ ws[a].phase # "done" /\ vs[a].phase = "done" /\ vs[a].space = w
    /\ \A b \in Waits \ {a} : ws[b].phase = "done" =>
          vs[b].phase = "done" /\ Later(ws[b], vs[b], w)

LEMMA TellsAfter ==
    ASSUME NEW h, NEW t, NEW ws, NEW h2, NEW t2, NEW vs, NEW w, NEW a \in Waits, NEW D,
           Tells(D, h, t, ws), Elsewhere(h, t, h2, t2, w), DoneBefore(ws, vs, w, a),
           After(vs[a], RowsAt(h, t, w)) = RowsAt(h2, t2, w)
    PROVE  Tells(D, h2, t2, vs)
<1>0. /\ \A v : v # w => RowsAt(h2, t2, v) = RowsAt(h, t, v)
      /\ ws[a].phase # "done" /\ vs[a].phase = "done" /\ vs[a].space = w
      /\ \A b \in Waits \ {a} : ws[b].phase = "done" =>
            vs[b].phase = "done" /\ Later(ws[b], vs[b], w)
  BY DEF Elsewhere, DoneBefore
<1>1. ASSUME NEW v \in Spaces, NEW b \in Waits, Mends(ws[b], D, v, RowsAt(h, t, v))
      PROVE  Mends(vs[b], D, v, RowsAt(h2, t2, v))
  <2>1. b # a /\ vs[b].phase = "done" /\ Later(ws[b], vs[b], w)
    BY <1>0, <1>1 DEF Mends, Answers
  <2>2. RowOf(vs[b]) = RowOf(ws[b]) /\ vs[b].op = ws[b].op /\ vs[b].space = ws[b].space
    BY <2>1 DEF Later, RowOf
  <2>3. After(vs[b], RowsIn(D, v)) = After(ws[b], RowsIn(D, v))
    BY <2>2 DEF After
  <2>. QED  BY <1>0, <1>1, <2>1, <2>2, <2>3 DEF Mends, Answers, Later
<1>2. ASSUME NEW v \in Spaces, RowsIn(D, v) = RowsAt(h, t, v)
      PROVE  \/ RowsIn(D, v) = RowsAt(h2, t2, v)
             \/ \E b \in Waits : Mends(vs[b], D, v, RowsAt(h2, t2, v))
  <2>1. CASE v # w  BY <1>0, <1>2, <2>1
  <2>2. CASE v = w
    <3>1. Mends(vs[a], D, v, RowsAt(h2, t2, v))  BY <1>0, <1>2, <2>2 DEF Mends, Answers
    <3>. QED  BY <3>1
  <2>. QED  BY <2>1, <2>2
<1>3. ASSUME NEW v \in Spaces
      PROVE  \/ RowsIn(D, v) = RowsAt(h2, t2, v)
             \/ \E b \in Waits : Mends(vs[b], D, v, RowsAt(h2, t2, v))
  <2>1. \/ RowsIn(D, v) = RowsAt(h, t, v)
        \/ \E b \in Waits : Mends(ws[b], D, v, RowsAt(h, t, v))
    BY DEF Tells
  <2>2. CASE RowsIn(D, v) = RowsAt(h, t, v)  BY <1>2, <2>2
  <2>3. ASSUME NEW b \in Waits, Mends(ws[b], D, v, RowsAt(h, t, v))
        PROVE  \E c \in Waits : Mends(vs[c], D, v, RowsAt(h2, t2, v))
    BY <1>1, <2>3
  <2>. QED  BY <2>1, <2>2, <2>3
<1>. QED  BY <1>3 DEF Tells

(* A step of the server, or of whoever else writes.                         *)
LEMMA ServerStep ==
    ASSUME SelectionInv, UNCHANGED <<picked, stored, form, asked>>, past' \in Past,
           past'.chosen = past.chosen,
           \A w \in Spaces : past.typed[w] \subseteq past'.typed[w],
           held' \in Seq(Spaces), title' \in [Spaces -> Titles],
           \A w \in Elements(held') : title'[w] \in past'.typed[w],
           wait' \in [Waits -> Wait],
           \A x \in Waits : GoodWait(wait'[x], list.data # NoData, past'.typed),
           FreshServer(held', title', wait'),
           \/ list' = Outdated(list)
           \/ /\ list' = list
              /\ \A D : NamedIn(D, past.typed) /\ Tells(D, held, title, wait) =>
                            Tells(D, held', title', wait')
    PROVE  SelectionInv'
<1>0. list \in EntryOf(SpaceLists)  BY StaysAsItIs
<1>1. /\ list' \in EntryOf(SpaceLists) /\ list'.data = list.data /\ list'.phase = list.phase
      /\ list'.answer = list.answer
  <2>1. Outdated(list) \in EntryOf(SpaceLists)  BY <1>0, EntryTypes
  <2>2. /\ Outdated(list).data = list.data /\ Outdated(list).phase = list.phase
        /\ Outdated(list).answer = list.answer
    BY <1>0, EntryFields
  <2>. QED  BY <1>0, <2>1, <2>2
<1>2. /\ ShownBy(list)' = ShownBy(list) /\ SpacesOf(list)' = SpacesOf(list)
      /\ CurrentSpace' = CurrentSpace
  <2>1. ShownBy(list') = ShownBy(list) /\ SpacesOf(list') = SpacesOf(list)
    BY <1>1, SameShown
  <2>2. SpaceIn(list', picked) = SpaceIn(list, picked)  BY <1>1, SameShown
  <2>. QED  BY <2>1, <2>2 DEF ShownBy, SpacesOf, CurrentSpace, Elements
<1>3. TabTypes'  BY <1>1 DEF SelectionInv, TabTypes
<1>4. ChoiceInv'  BY <1>1, <1>2 DEF SelectionInv, ChoiceInv, SpacesOf, Elements
<1>5. WaitsInv'  BY <1>1 DEF SelectionInv, WaitsInv
<1>6. NamesInv'
  <2>1. ASSUME NEW D, D \subseteq ListedSpace, NamedIn(D, past.typed)
        PROVE  NamedIn(D, past'.typed)
    BY <2>1 DEF NamedIn, ListedSpace
  <2>2. Elements(ShownBy(list)) \subseteq ListedSpace  BY <1>0, ShownRows
  <2>3. list.phase = "served" => Elements(list.answer) \subseteq ListedSpace
    BY InList DEF SelectionInv, TabTypes
  <2>4. NamedIn(Elements(ShownBy(list)), past'.typed)
    BY <2>1, <2>2 DEF SelectionInv, NamesInv
  <2>5. list'.phase = "served" => NamedIn(Elements(list'.answer), past'.typed)
    BY <1>1, <2>1, <2>3 DEF SelectionInv, NamesInv
  <2>6. form'.space = CurrentSpace'  BY <1>2 DEF SelectionInv, NamesInv
  <2>7. form'.space # NoSpace => form'.title \in past'.typed[form'.space]
    BY StaysAsItIs
  <2>. QED  BY <1>2, <2>4, <2>5, <2>6, <2>7 DEF NamesInv, Elements, NamedIn
<1>7. FreshInv'  BY DEF FreshInv
<1>8. TellInv'
  <2>1. CASE list' = Outdated(list)
    <3>1. /\ list'.data # NoData => list'.behind
          /\ list'.phase = "served" => list'.overtaken
      BY <1>0, <2>1, EntryFields
    <3>. QED  BY <3>1 DEF TellInv
  <2>2. CASE /\ list' = list
             /\ \A D : NamedIn(D, past.typed) /\ Tells(D, held, title, wait) =>
                           Tells(D, held', title', wait')
    <3>1. list.data # NoData => NamedIn(Elements(list.data), past.typed)
      BY <1>0, ShownRows DEF SelectionInv, NamesInv
    <3>2. list.phase = "served" => NamedIn(Elements(list.answer), past.typed)
      BY DEF SelectionInv, NamesInv
    <3>. QED  BY <2>2, <3>1, <3>2 DEF SelectionInv, TellInv
  <2>. QED  BY <2>1, <2>2
<1>. QED  BY <1>3, <1>4, <1>5, <1>6, <1>7, <1>8 DEF SelectionInv

LEMMA WaitFacts ==
    ASSUME SelectionInv, NEW x \in Waits
    PROVE  /\ wait \in [Waits -> Wait] /\ wait[x] \in Wait /\ wait[x].late \in BOOLEAN
           /\ GoodWait(wait[x], list.data # NoData, past.typed)
           /\ wait[x].phase = "done" => wait[x].space \in Spaces
           /\ wait[x].phase \in {"sent", "adrift"} /\ wait[x].op # "create" =>
                 wait[x].space \in Spaces
           /\ wait[x].phase \in {"sent", "adrift"} /\ wait[x].op # "delete" =>
                 wait[x].title \in Titles
<1>1. wait \in [Waits -> Wait] /\ wait[x] \in Wait  BY DEF SelectionInv, TabTypes
<1>2. GoodWait(wait[x], list.data # NoData, past.typed)  BY StaysAsItIs
<1>. QED  BY <1>1, <1>2 DEF GoodWait, Wait

LEMMA Writes ==
    ASSUME NEW x \in Wait
    PROVE  /\ \A w \in Spaces :
                 /\ [x EXCEPT !.phase = "done", !.space = w] \in Wait
                 /\ [x EXCEPT !.phase = "done", !.space = w].phase = "done"
                 /\ [x EXCEPT !.phase = "done", !.space = w].op = x.op
                 /\ [x EXCEPT !.phase = "done", !.space = w].space = w
                 /\ [x EXCEPT !.phase = "done", !.space = w].title = x.title
           /\ \A b \in BOOLEAN :
                 /\ [x EXCEPT !.late = b] \in Wait
                 /\ [x EXCEPT !.late = b].phase = x.phase
                 /\ [x EXCEPT !.late = b].op = x.op
                 /\ [x EXCEPT !.late = b].space = x.space
                 /\ [x EXCEPT !.late = b].title = x.title
                 /\ [x EXCEPT !.late = b].late = b
<1>. QED  BY DEF Wait

(* A call is performed.                                                     *)
LEMMA Performed ==
    ASSUME SelectionInv, NEW a \in Waits, NEW w \in Spaces,
           wait[a].phase \in {"sent", "adrift"},
           Replied(a, [phase |-> "done", space |-> w])
    PROVE  /\ wait' \in [Waits -> Wait]
           /\ \A b \in Waits \ {a} :
                 /\ wait[b].phase = wait'[b].phase
                 /\ wait[b].phase = "done" => Later(wait[b], wait'[b], w)
                 /\ \A loaded, typed :
                       GoodWait(wait[b], loaded, typed) => GoodWait(wait'[b], loaded, typed)
           /\ wait[a].phase = "adrift" => wait'[a] = WaitOver
           /\ wait[a].phase = "sent" =>
                 /\ wait'[a].phase = "done" /\ wait'[a].op = wait[a].op
                 /\ wait'[a].space = w /\ wait'[a].title = wait[a].title
<1>. DEFINE l(b) == wait[b].late \/ (wait[b].phase = "done" /\ wait[b].space = w)
            o == [phase |-> "done", space |-> w]
            v(b) == IF b = a THEN IF wait[a].phase = "adrift" THEN WaitOver
                                  ELSE [wait[a] EXCEPT !.phase = "done", !.space = w]
                    ELSE [wait[b] EXCEPT !.late = l(b)]
<1>1. o.phase = "done" /\ o.space = w  OBVIOUS
<1>2. wait' = [b \in Waits |-> v(b)]
  <2>1. \A b \in Waits : l(b) = (wait[b].late \/ (/\ wait[b].phase = "done"
                                                  /\ wait[b].space = o.space
                                                  /\ o.phase = "done"))
    BY <1>1, Zenon
  <2>. QED  BY <1>1, <2>1 DEF Replied
<1>3. \A b \in Waits : l(b) \in BOOLEAN  BY Zenon
<1>4. \A b \in Waits : wait[b] \in Wait  BY WaitFacts
<1>. HIDE DEF l, o
<1>5. \A b \in Waits : v(b) \in Wait
  <2>1. \A b \in Waits : [wait[b] EXCEPT !.late = l(b)] \in Wait  BY <1>3, <1>4, Writes
  <2>2. [wait[a] EXCEPT !.phase = "done", !.space = w] \in Wait
    BY <1>4, Writes
  <2>. QED  BY <2>1, <2>2, NoWaitGood
<1>6. wait' \in [Waits -> Wait]  BY <1>2, <1>5
<1>7. wait'[a] = IF wait[a].phase = "adrift" THEN WaitOver
                 ELSE [wait[a] EXCEPT !.phase = "done", !.space = w]
  BY <1>2
<1>8. wait[a].phase = "sent" =>
                 /\ wait'[a].phase = "done" /\ wait'[a].op = wait[a].op
                 /\ wait'[a].space = w /\ wait'[a].title = wait[a].title
  <2>1. wait[a] \in Wait  BY <1>4
  <2>2. /\ [wait[a] EXCEPT !.phase = "done", !.space = w].phase = "done"
        /\ [wait[a] EXCEPT !.phase = "done", !.space = w].op = wait[a].op
        /\ [wait[a] EXCEPT !.phase = "done", !.space = w].space = w
        /\ [wait[a] EXCEPT !.phase = "done", !.space = w].title = wait[a].title
    BY <2>1 DEF Wait
  <2>. QED  BY <1>7, <2>2
<1>9. ASSUME NEW b \in Waits \ {a}
      PROVE  /\ wait[b].phase = wait'[b].phase
             /\ wait[b].phase = "done" => Later(wait[b], wait'[b], w)
             /\ \A loaded, typed :
                   GoodWait(wait[b], loaded, typed) => GoodWait(wait'[b], loaded, typed)
  <2>1. wait'[b] = [wait[b] EXCEPT !.late = l(b)]  BY <1>2
  <2>2. /\ wait'[b].phase = wait[b].phase /\ wait'[b].op = wait[b].op
        /\ wait'[b].space = wait[b].space /\ wait'[b].title = wait[b].title
        /\ wait'[b].late = l(b)
    <3>1. wait[b] \in Wait /\ l(b) \in BOOLEAN  BY <1>3, <1>4
    <3>. QED  BY <2>1, <3>1 DEF Wait
  <2>3. wait[b].phase = "done" => Later(wait[b], wait'[b], w)
    BY <2>2 DEF Later, l
  <2>. QED  BY <2>2, <2>3 DEF GoodWait, Busy
<1>. QED  BY <1>6, <1>7, <1>8, <1>9

LEMMA StepRefuse ==
    ASSUME SelectionInv, NEW a \in Waits, Refuse(a)  PROVE SelectionInv'
<1>0. /\ list \in EntryOf(SpaceLists) /\ Calmer(list, list) /\ past \in Past
      /\ \A x \in Waits : wait[x] \in Wait /\ GoodWait(wait[x], list.data # NoData, past.typed)
      /\ form.space # NoSpace => form.title \in past.typed[form.space]
      /\ asked # NothingAsked => asked.space \in Spaces /\ list.data # NoData
  BY StaysAsItIs
<1>5. TabTypes  BY DEF SelectionInv
<1>. DEFINE o == [phase |-> "failed", space |-> wait[a].space]
            x == IF wait[a].phase = "adrift" THEN WaitOver
                 ELSE [wait[a] EXCEPT !.phase = "failed", !.space = wait[a].space]
<1>1. wait[a].phase \in {"sent", "adrift"} /\ Replied(a, o)  BY DEF Refuse
<1>2. wait' = [wait EXCEPT ![a] = x]
  <2>1. \A b \in Waits : wait[b] = [wait[b] EXCEPT !.late = @ \/
            (wait[b].phase = "done" /\ wait[b].space = o.space /\ o.phase = "done")]
    <3>1. o.phase # "done"  OBVIOUS
    <3>. HIDE DEF o
    <3>2. ASSUME NEW b \in Waits
          PROVE  (wait[b].late \/ (/\ wait[b].phase = "done" /\ wait[b].space = o.space
                                   /\ o.phase = "done")) = wait[b].late
      <4>1. wait[b].late \in BOOLEAN  BY WaitFacts
      <4>. QED  BY <3>1, <4>1
    <3>3. \A y \in Wait : [y EXCEPT !.late = y.late] = y  BY DEF Wait
    <3>. QED  BY <1>0, <3>2, <3>3
  <2>2. wait = [b \in Waits |-> wait[b]]  BY <1>5 DEF TabTypes
  <2>3. o.phase = "failed" /\ o.space = wait[a].space  OBVIOUS
  <2>. HIDE DEF o
  <2>. QED  BY <1>1, <2>1, <2>2, <2>3 DEF Replied
<1>3. x \in Wait /\ x.phase # "done" /\ GoodWait(x, list.data # NoData, past.typed)
  <2>1. CASE wait[a].phase = "adrift"
    BY <2>1, NoWaitGood
  <2>2. CASE wait[a].phase = "sent"
    <3>1. /\ x \in Wait /\ x.phase = "failed" /\ x.op = wait[a].op
          /\ x.space = wait[a].space /\ x.title = wait[a].title
      BY <1>0, <2>2 DEF Wait
    <3>. QED  BY <1>0, <2>2, <3>1 DEF GoodWait, Busy
  <2>. QED  BY <1>1, <2>1, <2>2
<1>. HIDE DEF x
<1>4. /\ wait' \in [Waits -> Wait] /\ DoneSame(wait', wait)
      /\ \A y \in Waits : GoodWait(wait'[y], list.data # NoData, past.typed)
  BY <1>1, <1>2, <1>3, WaitSet
<1>. QED  BY <1>0, <1>4, <1>5, TabStep DEF Refuse, TabTypes

LEMMA UntoldIs ==
    ASSUME NEW a, Untold(a)
    PROVE  list' = IF wait[a].phase = "adrift" THEN Outdated(list) ELSE list
<1>. QED  BY DEF Untold

(* A call that changed one workspace of the server.                         *)
LEMMA PerformStep ==
    ASSUME SelectionInv, NEW a \in Waits, NEW w \in Spaces,
           wait[a].phase \in {"sent", "adrift"},
           Replied(a, [phase |-> "done", space |-> w]), Untold(a),
           UNCHANGED <<picked, stored, form, asked>>, past' \in Past,
           past'.chosen = past.chosen,
           \A v \in Spaces : past.typed[v] \subseteq past'.typed[v],
           held' \in Seq(Spaces), title' \in [Spaces -> Titles],
           \A v \in Elements(held') : title'[v] \in past'.typed[v],
           wait[a].op = "create" => wait[a].title \in past'.typed[w],
           wait[a].op # "create" => wait[a].space = w,
           Elsewhere(held, title, held', title', w),
           RowsAt(held', title', w) = IF wait[a].op = "delete" THEN {}
                                      ELSE {[space |-> w, title |-> wait[a].title]},
           wait[a].op = "create" => RowsAt(held, title, w) = {},
           wait[a].op = "rename" => RowsAt(held, title, w) # {}
    PROVE  SelectionInv'
<1>1. /\ wait' \in [Waits -> Wait]
      /\ \A b \in Waits \ {a} :
            /\ wait[b].phase = wait'[b].phase
            /\ wait[b].phase = "done" => Later(wait[b], wait'[b], w)
            /\ \A loaded, typed :
                  GoodWait(wait[b], loaded, typed) => GoodWait(wait'[b], loaded, typed)
      /\ wait[a].phase = "adrift" => wait'[a] = WaitOver
      /\ wait[a].phase = "sent" =>
            /\ wait'[a].phase = "done" /\ wait'[a].op = wait[a].op
            /\ wait'[a].space = w /\ wait'[a].title = wait[a].title
  BY Performed
<1>2. ASSUME NEW b \in Waits  PROVE GoodWait(wait'[b], list.data # NoData, past'.typed)
  <2>0. /\ GoodWait(wait[b], list.data # NoData, past.typed)
        /\ wait[b].phase \in {"sent", "adrift", "done"} =>
              wait[b].op = "create" \/ wait[b].space \in Spaces
        /\ wait[b].phase = "done" => wait[b].space \in Spaces
    BY WaitFacts DEF GoodWait
  <2>1. GoodWait(wait[b], list.data # NoData, past'.typed)  BY <2>0, GoodGrows
  <2>2. CASE b # a  BY <1>1, <2>1, <2>2
  <2>3. CASE b = a /\ wait[a].phase = "adrift"  BY <1>1, <2>3, NoWaitGood
  <2>4. CASE b = a /\ wait[a].phase = "sent"
    <3>1. /\ wait'[b].phase = "done" /\ wait'[b].op = wait[b].op
          /\ wait'[b].space = w /\ wait'[b].title = wait[b].title
      BY <1>1, <2>4
    <3>. QED  BY <2>1, <2>4, <3>1 DEF GoodWait, Busy
  <2>. QED  BY <2>2, <2>3, <2>4
<1>3. ASSUME wait[a].phase = "sent"
      PROVE  RowsAt(held', title', w) =
                 IF wait'[a].op = "delete" THEN {} ELSE {RowOf(wait'[a])}
  BY <1>1, <1>3 DEF RowOf
<1>4. FreshServer(held', title', wait')
  <2>1. ASSUME NEW b \in Waits, wait'[b].phase = "done"
        PROVE  Later(wait[b], wait'[b], w) \/ (b = a /\ Performs(wait'[b], held', title', w))
    <3>1. CASE b # a  BY <1>1, <2>1, <3>1
    <3>2. CASE b = a
      <4>1. wait[a].phase = "sent"  BY <1>1, <2>1, <3>2, NoWaitGood
      <4>. QED  BY <1>1, <1>3, <3>2, <4>1 DEF Performs
    <3>. QED  BY <3>1, <3>2
  <2>2. DoneAfter(wait, held', title', wait', w, a)  BY <2>1 DEF DoneAfter
  <2>. QED  BY <2>2, FreshAfter DEF SelectionInv, FreshInv
<1>5. CASE wait[a].phase = "adrift"
  BY <1>1, <1>2, <1>4, <1>5, UntoldIs, ServerStep
<1>6. CASE wait[a].phase = "sent"
  <2>1. After(wait'[a], RowsAt(held, title, w)) = RowsAt(held', title', w)
    <3>0. wait[a].op \in {"create", "rename", "delete"}  BY WaitFacts DEF Wait
    <3>1. CASE wait[a].op = "create"
      BY <1>1, <1>3, <1>6, <3>1 DEF After
    <3>2. CASE wait[a].op = "rename"
      BY <1>1, <1>3, <1>6, <3>2 DEF After
    <3>3. CASE wait[a].op = "delete"
      BY <1>1, <1>3, <1>6, <3>3 DEF After
    <3>. QED  BY <3>0, <3>1, <3>2, <3>3
  <2>2. ASSUME NEW D, Tells(D, held, title, wait)  PROVE Tells(D, held', title', wait')
    <3>1. DoneBefore(wait, wait', w, a)  BY <1>1, <1>6 DEF DoneBefore
    <3>. QED  BY <2>1, <2>2, <3>1, TellsAfter
  <2>3. list' = list  BY <1>6, UntoldIs
  <2>. QED  BY <1>1, <1>2, <1>4, <2>2, <2>3, ServerStep
<1>. QED  BY <1>5, <1>6

LEMMA StepPerformCreate ==
    ASSUME SelectionInv, NEW a \in Waits, PerformCreate(a)  PROVE SelectionInv'
<1>1. PICK w \in Spaces :
          /\ past.typed[w] = {}
          /\ held' = <<w>> \o held
          /\ title' = [title EXCEPT ![w] = wait[a].title]
          /\ past' = [past EXCEPT !.typed[w] = {wait[a].title}]
          /\ Replied(a, [phase |-> "done", space |-> w])
  BY DEF PerformCreate
<1>2. /\ wait[a].phase \in {"sent", "adrift"} /\ wait[a].op = "create" /\ Untold(a)
      /\ UNCHANGED <<picked, stored, form, asked>>
  BY DEF PerformCreate, Asks
<1>3. wait[a].title \in Titles  BY <1>2, WaitFacts
<1>4. past \in Past /\ past.typed \in [Spaces -> SUBSET Titles]  BY StaysAsItIs
<1>5. /\ past' \in Past /\ past'.chosen = past.chosen
      /\ past'.typed = [past.typed EXCEPT ![w] = {wait[a].title}]
  BY <1>1, <1>3, <1>4 DEF Past
<1>6. held \in Seq(Spaces) /\ title \in [Spaces -> Titles]
      /\ \A v \in Elements(held) : v \in Spaces /\ title[v] \in past.typed[v]
  BY DEF SelectionInv, TabTypes, NamesInv, Elements
<1>7. held' \in Seq(Spaces) /\ Elements(held') = {w} \cup Elements(held)
  <2>. DEFINE n == Len(held)
              s == <<w>> \o held
  <2>1. /\ s \in Seq(Spaces) /\ Len(s) = n + 1 /\ n \in Nat /\ s[1] = w
        /\ \A i \in 1 .. n : s[i + 1] = held[i]
        /\ DOMAIN s = 1 .. n + 1 /\ DOMAIN held = 1 .. n
    BY <1>6
  <2>2. held' = s  BY <1>1
  <2>. HIDE DEF s, n
  <2>3. \A i \in 1 .. n + 1 : i = 1 \/ (i - 1 \in 1 .. n /\ i = (i - 1) + 1)  BY <2>1
  <2>4. \A i \in 1 .. n : i + 1 \in 1 .. n + 1  BY <2>1
  <2>5. 1 \in 1 .. n + 1  BY <2>1
  <2>6. ASSUME NEW y \in Elements(s)  PROVE y \in {w} \cup Elements(held)
    <3>1. PICK i \in 1 .. n + 1 : y = s[i]  BY <2>1 DEF Elements
    <3>2. i = 1 \/ (i - 1 \in 1 .. n /\ s[i] = held[i - 1])  BY <2>1, <2>3
    <3>. QED  BY <2>1, <3>1, <3>2 DEF Elements
  <2>7. {w} \cup Elements(held) \subseteq Elements(s)  BY <2>1, <2>4, <2>5 DEF Elements
  <2>. QED  BY <2>1, <2>2, <2>6, <2>7
<1>8. title' \in [Spaces -> Titles] /\ title'[w] = wait[a].title
      /\ \A v \in Spaces \ {w} : title'[v] = title[v]
  BY <1>1, <1>3, <1>6
<1>9. w \notin Elements(held)  BY <1>1, <1>6
<1>10. /\ \A v \in Spaces : past.typed[v] \subseteq past'.typed[v]
       /\ \A v \in Elements(held') : title'[v] \in past'.typed[v]
       /\ wait[a].title \in past'.typed[w]
  BY <1>1, <1>4, <1>5, <1>6, <1>7, <1>8
<1>11. /\ Elsewhere(held, title, held', title', w)
       /\ RowsAt(held', title', w) = {[space |-> w, title |-> wait[a].title]}
       /\ RowsAt(held, title, w) = {}
  BY <1>6, <1>7, <1>8, <1>9 DEF Elsewhere, RowsAt
<1>. QED  BY <1>1, <1>2, <1>5, <1>7, <1>8, <1>10, <1>11, PerformStep

LEMMA StepPerformRename ==
    ASSUME SelectionInv, NEW a \in Waits, PerformRename(a)  PROVE SelectionInv'
<1>. DEFINE w == wait[a].space
<1>1. /\ wait[a].phase \in {"sent", "adrift"} /\ wait[a].op = "rename" /\ Untold(a)
      /\ w \in Elements(held) /\ title' = [title EXCEPT ![w] = wait[a].title]
      /\ Replied(a, [phase |-> "done", space |-> w])
      /\ UNCHANGED <<held, picked, stored, form, asked, past>>
  BY DEF PerformRename, Asks
<1>2. wait[a].title \in Titles /\ w \in Spaces  BY <1>1, WaitFacts
<1>3. past \in Past  BY StaysAsItIs
<1>4. wait[a].title \in past.typed[w]  BY <1>1, WaitFacts DEF GoodWait
<1>. HIDE DEF w
<1>6. held \in Seq(Spaces) /\ title \in [Spaces -> Titles]
      /\ \A v \in Elements(held) : v \in Spaces /\ title[v] \in past.typed[v]
  BY DEF SelectionInv, TabTypes, NamesInv, Elements
<1>8. title' \in [Spaces -> Titles] /\ title'[w] = wait[a].title
      /\ \A v \in Spaces \ {w} : title'[v] = title[v]
  BY <1>1, <1>2, <1>6
<1>9. held' = held /\ Elements(held') = Elements(held)  BY <1>1
<1>10. \A v \in Elements(held') : title'[v] \in past.typed[v]
  BY <1>4, <1>6, <1>8, <1>9
<1>11. /\ Elsewhere(held, title, held', title', w)
       /\ RowsAt(held', title', w) = {[space |-> w, title |-> wait[a].title]}
       /\ RowsAt(held, title, w) # {}
  BY <1>1, <1>6, <1>8, <1>9 DEF Elsewhere, RowsAt
<1>12. wait[a].space = w  BY DEF w
<1>. QED
  BY <1>1, <1>2, <1>3, <1>6, <1>8, <1>9, <1>10, <1>11, <1>12, PerformStep

LEMMA StepPerformDelete ==
    ASSUME SelectionInv, NEW a \in Waits, PerformDelete(a)  PROVE SelectionInv'
<1>. DEFINE w == wait[a].space
<1>1. /\ wait[a].phase \in {"sent", "adrift"} /\ wait[a].op = "delete" /\ Untold(a)
      /\ held' = WithoutSpace(held, w)
      /\ Replied(a, [phase |-> "done", space |-> w])
      /\ UNCHANGED <<title, picked, stored, form, asked, past>>
  BY DEF PerformDelete, Asks
<1>2. w \in Spaces  BY <1>1, WaitFacts
<1>3. past \in Past  BY StaysAsItIs
<1>. HIDE DEF w
<1>6. held \in Seq(Spaces) /\ title \in [Spaces -> Titles]
      /\ \A v \in Elements(held) : title[v] \in past.typed[v]
  BY DEF SelectionInv, TabTypes, NamesInv, Elements
<1>9. held' \in Seq(Spaces) /\ Elements(held') = Elements(held) \ {w}
  BY <1>1, <1>6, WithoutOne
<1>10. \A v \in Elements(held') : title'[v] \in past.typed[v]  BY <1>1, <1>6, <1>9
<1>11. /\ Elsewhere(held, title, held', title', w)
       /\ RowsAt(held', title', w) = {}
  BY <1>1, <1>9 DEF Elsewhere, RowsAt
<1>12. wait[a].space = w  BY DEF w
<1>. QED
  BY <1>1, <1>2, <1>3, <1>6, <1>9, <1>10, <1>11, <1>12, PerformStep

LEMMA StepOverturned ==
    ASSUME SelectionInv, NEW w \in Spaces, UNCHANGED <<picked, stored, form, asked>>,
           list' = Outdated(list), Overtake(w), past' \in Past,
           past'.chosen = past.chosen,
           \A v \in Spaces : past.typed[v] \subseteq past'.typed[v],
           held' \in Seq(Spaces), title' \in [Spaces -> Titles],
           \A v \in Elements(held') : title'[v] \in past'.typed[v],
           Elsewhere(held, title, held', title', w)
    PROVE  SelectionInv'
<1>. DEFINE l(b) == wait[b].late \/ (wait[b].phase = "done" /\ wait[b].space = w)
<1>1. wait' = [b \in Waits |-> [wait[b] EXCEPT !.late = l(b)]]  BY DEF Overtake
<1>2. \A b \in Waits : l(b) \in BOOLEAN  BY Zenon
<1>3. \A b \in Waits : wait[b] \in Wait  BY WaitFacts
<1>. HIDE DEF l
<1>4. ASSUME NEW b \in Waits
      PROVE  /\ wait'[b] \in Wait
             /\ wait'[b].phase = "done" => Later(wait[b], wait'[b], w)
             /\ GoodWait(wait'[b], list.data # NoData, past'.typed)
  <2>1. wait'[b] = [wait[b] EXCEPT !.late = l(b)]  BY <1>1
  <2>2. wait[b] \in Wait /\ l(b) \in BOOLEAN  BY <1>2, <1>3
  <2>3. /\ wait'[b].phase = wait[b].phase /\ wait'[b].op = wait[b].op
        /\ wait'[b].space = wait[b].space /\ wait'[b].title = wait[b].title
        /\ wait'[b].late = l(b) /\ wait'[b] \in Wait
    BY <2>1, <2>2 DEF Wait
  <2>4. /\ GoodWait(wait[b], list.data # NoData, past.typed)
        /\ wait[b].phase \in {"sent", "adrift", "done"} =>
              wait[b].op = "create" \/ wait[b].space \in Spaces
        /\ wait[b].phase = "done" => wait[b].space \in Spaces
    BY WaitFacts DEF GoodWait
  <2>5. GoodWait(wait[b], list.data # NoData, past'.typed)  BY <2>4, GoodGrows
  <2>6. GoodWait(wait'[b], list.data # NoData, past'.typed)
    BY <2>3, <2>5 DEF GoodWait, Busy
  <2>. QED  BY <2>3, <2>6 DEF Later, l
<1>5. wait' \in [Waits -> Wait]  BY <1>1, <1>4
<1>6. DoneAfter(wait, held', title', wait', w, NoSpace)  BY <1>4 DEF DoneAfter
<1>7. FreshServer(held', title', wait')  BY <1>6, FreshAfter DEF SelectionInv, FreshInv
<1>. QED  BY <1>4, <1>5, <1>7, ServerStep

LEMMA StepOtherRenames ==
    ASSUME SelectionInv, NEW w \in Spaces, NEW t \in Titles, OtherRenames(w, t)
    PROVE  SelectionInv'
<1>1. /\ w \in Elements(held) /\ title' = [title EXCEPT ![w] = t]
      /\ list' = Outdated(list) /\ Overtake(w)
      /\ UNCHANGED <<held, picked, stored, form, asked>>
      /\ past' = [past EXCEPT !.events = @ + 1, !.typed[w] = @ \cup {t}]
  BY DEF OtherRenames
<1>2. past \in Past /\ past.typed \in [Spaces -> SUBSET Titles]  BY StaysAsItIs
<1>3. past.events + 1 \in 0 .. MaxEvents
  BY <1>2, SelectionConstants DEF OtherRenames, Past
<1>4. /\ past' \in Past /\ past'.chosen = past.chosen
      /\ past'.typed = [past.typed EXCEPT ![w] = @ \cup {t}]
  <2>1. [past.typed EXCEPT ![w] = @ \cup {t}] \in [Spaces -> SUBSET Titles]  BY <1>2
  <2>. QED  BY <1>1, <1>2, <1>3, <2>1 DEF Past
<1>5. held \in Seq(Spaces) /\ title \in [Spaces -> Titles]
      /\ \A v \in Elements(held) : v \in Spaces /\ title[v] \in past.typed[v]
  BY DEF SelectionInv, TabTypes, NamesInv, Elements
<1>6. title' \in [Spaces -> Titles] /\ title'[w] = t
      /\ \A v \in Spaces \ {w} : title'[v] = title[v]
  BY <1>1, <1>5
<1>7. /\ \A v \in Spaces : past.typed[v] \subseteq past'.typed[v]
      /\ t \in past'.typed[w]
  BY <1>2, <1>4
<1>8. Elements(held') = Elements(held)  BY <1>1
<1>9. \A v \in Elements(held') : title'[v] \in past'.typed[v]
  BY <1>5, <1>6, <1>7, <1>8
<1>10. Elsewhere(held, title, held', title', w)  BY <1>5, <1>6, <1>8 DEF Elsewhere, RowsAt
<1>. QED  BY <1>1, <1>4, <1>5, <1>6, <1>7, <1>9, <1>10, StepOverturned

LEMMA StepOtherRemoves ==
    ASSUME SelectionInv, NEW w \in Spaces, OtherRemoves(w)  PROVE SelectionInv'
<1>1. /\ held' = WithoutSpace(held, w) /\ Happens
      /\ list' = Outdated(list) /\ Overtake(w)
      /\ UNCHANGED <<title, picked, stored, form, asked>>
  BY DEF OtherRemoves
<1>2. past \in Past  BY StaysAsItIs
<1>3. past' \in Past /\ past'.typed = past.typed /\ past'.chosen = past.chosen
  BY <1>1, <1>2, SelectionConstants DEF Happens, Past
<1>5. held \in Seq(Spaces) /\ title \in [Spaces -> Titles]
      /\ \A v \in Elements(held) : title[v] \in past.typed[v]
  BY DEF SelectionInv, TabTypes, NamesInv
<1>6. held' \in Seq(Spaces) /\ Elements(held') = Elements(held) \ {w}
  BY <1>1, <1>5, WithoutOne
<1>7. \A v \in Elements(held') : title'[v] \in past'.typed[v]  BY <1>1, <1>3, <1>5, <1>6
<1>8. Elsewhere(held, title, held', title', w)  BY <1>1, <1>6 DEF Elsewhere, RowsAt
<1>. QED  BY <1>1, <1>3, <1>5, <1>6, <1>7, <1>8, StepOverturned

LEMMA StepLoseCall ==
    ASSUME SelectionInv, NEW a \in Waits, LoseCall(a)  PROVE SelectionInv'
<1>0. /\ list \in EntryOf(SpaceLists) /\ Calmer(list, list) /\ past \in Past
      /\ \A x \in Waits : wait[x] \in Wait /\ GoodWait(wait[x], list.data # NoData, past.typed)
      /\ form.space # NoSpace => form.title \in past.typed[form.space]
      /\ asked # NothingAsked => asked.space \in Spaces /\ list.data # NoData
  BY StaysAsItIs
<1>5. TabTypes  BY DEF SelectionInv
<1>. DEFINE x == [wait[a] EXCEPT !.phase = "failed"]
<1>1. x \in Wait /\ x.phase = "failed" /\ x.op = wait[a].op /\ x.space = wait[a].space
  BY <1>0 DEF Wait
<1>2. /\ wait[a].phase \in {"sent", "done"} /\ wait' = [wait EXCEPT ![a] = x]
      /\ list' = IF wait[a].phase = "done" THEN Outdated(list) ELSE list
      /\ UNCHANGED <<held, title, picked, stored, form, asked, past>>
  <2>1. [wait EXCEPT ![a].phase = "failed"] = [wait EXCEPT ![a] = x]  BY Zenon
  <2>. QED  BY <2>1 DEF LoseCall
<1>. HIDE DEF x
<1>3. GoodWait(x, list.data # NoData, past.typed)  BY <1>0, <1>1, <1>2 DEF GoodWait, Busy
<1>4. CASE wait[a].phase = "sent"
  <2>1. /\ wait' \in [Waits -> Wait] /\ DoneSame(wait', wait)
        /\ \A y \in Waits : GoodWait(wait'[y], list.data # NoData, past.typed)
    BY <1>1, <1>2, <1>3, <1>4, WaitSet
  <2>. QED  BY <1>0, <1>2, <1>4, <1>5, <2>1, TabStep DEF TabTypes
<1>6. CASE wait[a].phase = "done"
  <2>0. wait \in [Waits -> Wait]  BY <1>5 DEF TabTypes
  <2>1. wait'[a] = x /\ \A y \in Waits \ {a} : wait'[y] = wait[y]  BY <1>2, <2>0
  <2>2. /\ wait' \in [Waits -> Wait]
        /\ \A y \in Waits : GoodWait(wait'[y], list.data # NoData, past.typed)
    BY <1>0, <1>1, <1>2, <1>3, <2>0, <2>1
  <2>3. DoneAfter(wait, held, title, wait', NoSpace, a)
    <3>1. ASSUME NEW b \in Waits, wait'[b].phase = "done"
          PROVE  Later(wait[b], wait'[b], NoSpace)
      <4>1. b # a /\ wait'[b] = wait[b]  BY <1>1, <2>1, <3>1
      <4>2. wait[b].space # NoSpace  BY <3>1, <4>1, WaitFacts, SelectionConstants
      <4>. QED  BY <3>1, <4>1, <4>2 DEF Later
    <3>. QED  BY <3>1 DEF DoneAfter
  <2>4. Elsewhere(held, title, held, title, NoSpace)  BY DEF Elsewhere
  <2>5. FreshServer(held, title, wait')  BY <2>3, <2>4, FreshAfter DEF SelectionInv, FreshInv
  <2>6. /\ held' = held /\ title' = title /\ past' = past /\ list' = Outdated(list)
        /\ picked' = picked /\ stored' = stored /\ form' = form /\ asked' = asked
    BY <1>2, <1>6
  <2>7. held \in Seq(Spaces) /\ title \in [Spaces -> Titles]
        /\ \A v \in Elements(held) : title[v] \in past.typed[v]
    BY DEF SelectionInv, TabTypes, NamesInv
  <2>. QED  BY <1>0, <2>2, <2>5, <2>6, <2>7, ServerStep
<1>. QED  BY <1>2, <1>4, <1>6

-----------------------------------------------------------------------------
(* Answers: what the list becomes is what the server has, where the answer  *)
(* was not overtaken.                                                       *)
Follows(x, D, D2) ==
    /\ RowsIn(D2, x.space) = After(x, RowsIn(D, x.space))
    /\ \A v : v # x.space => RowsIn(D2, v) = RowsIn(D, v)

LEMMA TellsAnswered ==
    ASSUME NEW h, NEW t, NEW ws, NEW vs, NEW a \in Waits, NEW D, NEW D2,
           FreshServer(h, t, ws), Tells(D, h, t, ws), Follows(ws[a], D, D2),
           ws[a].phase = "done", ~ws[a].late, ws[a].op \in {"create", "rename", "delete"},
           \A b \in Waits \ {a} : vs[b] = ws[b]
    PROVE  Tells(D2, h, t, vs)
<1>0. /\ RowsIn(D2, ws[a].space) = After(ws[a], RowsIn(D, ws[a].space))
      /\ \A v : v # ws[a].space => RowsIn(D2, v) = RowsIn(D, v)
  BY DEF Follows
<1>1. /\ RowsAt(h, t, ws[a].space) = IF ws[a].op = "delete" THEN {} ELSE {RowOf(ws[a])}
      /\ \A b \in Waits \ {a} : Answers(ws[b], ws[a].space) => ws[b].late
  BY DEF FreshServer
<1>2. After(ws[a], RowsAt(h, t, ws[a].space)) = RowsAt(h, t, ws[a].space)
  BY <1>1 DEF After
<1>3. ASSUME NEW v \in Spaces
      PROVE  \/ RowsIn(D2, v) = RowsAt(h, t, v)
             \/ \E b \in Waits : Mends(vs[b], D2, v, RowsAt(h, t, v))
  <2>1. \/ RowsIn(D, v) = RowsAt(h, t, v)
        \/ \E b \in Waits : Mends(ws[b], D, v, RowsAt(h, t, v))
    BY DEF Tells
  <2>2. CASE RowsIn(D, v) = RowsAt(h, t, v)  BY <1>0, <1>2, <2>2
  <2>3. ASSUME NEW b \in Waits, Mends(ws[b], D, v, RowsAt(h, t, v))
        PROVE  \/ RowsIn(D2, v) = RowsAt(h, t, v)
               \/ \E c \in Waits : Mends(vs[c], D2, v, RowsAt(h, t, v))
    <3>1. CASE b = a  BY <1>0, <2>3, <3>1 DEF Mends, Answers
    <3>2. CASE b # a
      <4>1. vs[b] = ws[b]  BY <3>2
      <4>2. CASE v = ws[a].space
        <5>1. ws[b].late  BY <1>1, <2>3, <3>2, <4>2 DEF Mends
        <5>2. Mends(vs[b], D2, v, RowsAt(h, t, v))  BY <2>3, <4>1, <5>1 DEF Mends
        <5>. QED  BY <5>2
      <4>3. CASE v # ws[a].space
        <5>1. Mends(vs[b], D2, v, RowsAt(h, t, v))
          BY <1>0, <2>3, <4>1, <4>3 DEF Mends
        <5>. QED  BY <5>1
      <4>. QED  BY <4>2, <4>3
    <3>. QED  BY <3>1, <3>2
  <2>. QED  BY <2>1, <2>2, <2>3
<1>. QED  BY <1>3 DEF Tells

(* A call has ended for the tab, too.                                       *)
LEMMA Ends ==
    ASSUME SelectionInv, NEW a \in Waits
    PROVE  /\ Over(a) \in [Waits -> Wait] /\ FreshServer(held, title, Over(a))
           /\ \A b \in Waits \ {a} : Over(a)[b] = wait[b]
           /\ \A x \in Waits : GoodWait(Over(a)[x], list.data # NoData, past.typed)
<1>1. wait \in [Waits -> Wait]  BY DEF SelectionInv, TabTypes
<1>2. /\ Over(a) \in [Waits -> Wait] /\ Over(a)[a] = WaitOver
      /\ \A b \in Waits \ {a} : Over(a)[b] = wait[b]
  BY <1>1, NoWaitGood DEF Over
<1>3. \A x \in Waits : GoodWait(wait[x], list.data # NoData, past.typed)  BY StaysAsItIs
<1>4. \A x \in Waits : GoodWait(Over(a)[x], list.data # NoData, past.typed)
  BY <1>2, <1>3, NoWaitGood
<1>5. DoneAfter(wait, held, title, Over(a), NoSpace, a)
  <2>1. ASSUME NEW b \in Waits, Over(a)[b].phase = "done"
        PROVE  Later(wait[b], Over(a)[b], NoSpace)
    <3>1. b # a /\ Over(a)[b] = wait[b]  BY <1>2, <2>1, NoWaitGood
    <3>2. wait[b].space # NoSpace  BY <2>1, <3>1, WaitFacts, SelectionConstants
    <3>. QED  BY <2>1, <3>1, <3>2 DEF Later
  <2>. QED  BY <2>1 DEF DoneAfter
<1>6. Elsewhere(held, title, held, title, NoSpace)  BY DEF Elsewhere
<1>7. FreshServer(held, title, Over(a))  BY <1>5, <1>6, FreshAfter DEF SelectionInv, FreshInv
<1>. QED  BY <1>2, <1>4, <1>7

LEMMA PutsLate ==
    ASSUME list \in EntryOf(SpaceLists), NEW a \in Waits, wait[a].late \in BOOLEAN,
           NEW s \in SpaceLists
    PROVE  /\ PutLate(a, s) \in EntryOf(SpaceLists)
           /\ PutLate(a, s).data = s
           /\ PutLate(a, s).behind = (list.behind \/ wait[a].late)
           /\ PutLate(a, s).phase = list.phase /\ PutLate(a, s).answer = list.answer
           /\ PutLate(a, s).phase = "served" => PutLate(a, s).overtaken
           /\ \A b \in BOOLEAN :
                 /\ [PutLate(a, s) EXCEPT !.behind = @ \/ b] \in EntryOf(SpaceLists)
                 /\ [PutLate(a, s) EXCEPT !.behind = @ \/ b].data = s
                 /\ [PutLate(a, s) EXCEPT !.behind = @ \/ b].behind =
                        (list.behind \/ wait[a].late \/ b)
                 /\ [PutLate(a, s) EXCEPT !.behind = @ \/ b].phase = list.phase
                 /\ [PutLate(a, s) EXCEPT !.behind = @ \/ b].answer = list.answer
                 /\ list.phase = "served" =>
                        [PutLate(a, s) EXCEPT !.behind = @ \/ b].overtaken
<1>. DEFINE p == Put(list, s)
            q == PutLate(a, s)
<1>1. /\ p \in EntryOf(SpaceLists) /\ p.data = s /\ p.behind = list.behind
      /\ p.phase = "served" => p.overtaken
      /\ p.phase = list.phase /\ p.answer = list.answer
  BY EntryTypes, EntryFields
<1>2. q = [p EXCEPT !.behind = list.behind \/ wait[a].late]  BY <1>1 DEF PutLate
<1>3. (list.behind \/ wait[a].late) \in BOOLEAN  BY Zenon
<1>. HIDE DEF p, q
<1>4. /\ q \in EntryOf(SpaceLists) /\ q.data = s /\ q.behind = (list.behind \/ wait[a].late)
      /\ q.phase = list.phase /\ q.answer = list.answer
      /\ q.phase = "served" => q.overtaken
  BY <1>1, <1>2, <1>3 DEF EntryOf
<1>5. ASSUME NEW b \in BOOLEAN
      PROVE  /\ [q EXCEPT !.behind = @ \/ b] \in EntryOf(SpaceLists)
             /\ [q EXCEPT !.behind = @ \/ b].data = s
             /\ [q EXCEPT !.behind = @ \/ b].behind = (list.behind \/ wait[a].late \/ b)
             /\ [q EXCEPT !.behind = @ \/ b].phase = list.phase
             /\ [q EXCEPT !.behind = @ \/ b].answer = list.answer
             /\ list.phase = "served" => [q EXCEPT !.behind = @ \/ b].overtaken
  <2>1. (q.behind \/ b) \in BOOLEAN  BY Zenon
  <2>2. (q.behind \/ b) = (list.behind \/ wait[a].late \/ b)  BY <1>4
  <2>. QED  BY <1>4, <2>1, <2>2 DEF EntryOf
<1>. QED  BY <1>4, <1>5 DEF q

(* What the three answers make of the list.                                 *)
LEMMA FollowsCreate ==
    ASSUME NEW x, x.op = "create", NEW D
    PROVE  Follows(x, D, {RowOf(x)} \cup D)
<1>1. RowOf(x).space = x.space  BY DEF RowOf
<1>2. \A v : v # x.space => RowsIn({RowOf(x)} \cup D, v) = RowsIn(D, v)
  BY <1>1 DEF RowsIn
<1>3. RowsIn({RowOf(x)} \cup D, x.space) = RowsIn(D, x.space) \cup {RowOf(x)}
  BY <1>1 DEF RowsIn
<1>. QED  BY <1>2, <1>3 DEF Follows, After

LEMMA FollowsRename ==
    ASSUME NEW x, x.op = "rename", NEW D, D \subseteq ListedSpace
    PROVE  Follows(x, D, {IF r.space = x.space THEN [r EXCEPT !.title = x.title] ELSE r : r \in D})
<1>. DEFINE f(r) == IF r.space = x.space THEN [r EXCEPT !.title = x.title] ELSE r
<1>1. \A r \in D : r.space = x.space => f(r) = RowOf(x)  BY DEF ListedSpace, RowOf
<1>2. \A r \in D : r.space # x.space => f(r) = r  OBVIOUS
<1>3. \A r \in D : f(r).space = r.space  BY <1>1, <1>2 DEF RowOf
<1>. HIDE DEF f
<1>4. \A v : v # x.space => RowsIn({f(r) : r \in D}, v) = RowsIn(D, v)
  BY <1>2, <1>3 DEF RowsIn
<1>5. RowsIn({f(r) : r \in D}, x.space) = {RowOf(x) : r \in RowsIn(D, x.space)}
  BY <1>1, <1>3 DEF RowsIn
<1>6. Follows(x, D, {f(r) : r \in D})  BY <1>4, <1>5 DEF Follows, After
<1>. QED  BY <1>6 DEF f

LEMMA FollowsDelete ==
    ASSUME NEW x, x.op = "delete", NEW D
    PROVE  Follows(x, D, {r \in D : r.space # x.space})
<1>1. \A v : v # x.space => RowsIn({r \in D : r.space # x.space}, v) = RowsIn(D, v)
  BY DEF RowsIn
<1>2. RowsIn({r \in D : r.space # x.space}, x.space) = {}  BY DEF RowsIn
<1>. QED  BY <1>1, <1>2 DEF Follows, After

LEMMA StepEndCreate ==
    ASSUME SelectionInv, NEW a \in Waits, EndCreate(a)  PROVE SelectionInv'
<1>0. /\ list \in EntryOf(SpaceLists) /\ past \in Past
      /\ wait[a] \in Wait /\ wait[a].late \in BOOLEAN
      /\ GoodWait(wait[a], list.data # NoData, past.typed)
  BY StaysAsItIs, WaitFacts
<1>1. wait[a].phase = "done" /\ wait[a].op = "create"  BY DEF EndCreate
<1>. DEFINE w == wait[a].space
            x == [space |-> w, title |-> wait[a].title]
            s == <<x>> \o ShownBy(list)
            b == list.data = NoData
            e == [PutLate(a, s) EXCEPT !.behind = @ \/ b]
<1>2. w \in Spaces /\ wait[a].title \in Titles /\ wait[a].title \in past.typed[w]
  BY <1>0, <1>1 DEF GoodWait
<1>3. x \in ListedSpace /\ x = RowOf(wait[a]) /\ x.space = w /\ x.title = wait[a].title
  BY <1>2 DEF ListedSpace, RowOf
<1>4. ShownBy(list) \in SpaceLists  BY <1>0, ShownRows
<1>5. s \in SpaceLists /\ Elements(s) = {x} \cup Elements(ShownBy(list))
  BY <1>3, <1>4, Prepends
<1>6. b \in BOOLEAN  BY Zenon
<1>7. Render(e, w, w, form, Over(a)) /\ UNCHANGED <<held, title>>
      /\ past' = [past EXCEPT !.chosen = w]
  BY DEF EndCreate
<1>. HIDE DEF w, x, s, b
<1>8. /\ e \in EntryOf(SpaceLists) /\ e.data = s
      /\ e.behind = (list.behind \/ wait[a].late \/ b)
      /\ e.phase = list.phase /\ e.answer = list.answer
      /\ list.phase = "served" => e.overtaken
  BY <1>0, <1>5, <1>6, PutsLate
<1>. HIDE DEF e
<1>9. past' \in Past /\ past'.typed = past.typed /\ past'.chosen = w
  BY <1>0, <1>2, <1>7 DEF Past
<1>10. s # NoData  BY <1>5, SelectionConstants DEF SpaceLists
<1>11. ShownBy(e) = s /\ w \in SpacesOf(e)
  BY <1>3, <1>5, <1>8, <1>10 DEF ShownBy, SpacesOf
<1>12. NamedIn(Elements(s), past.typed)
  BY <1>2, <1>3, <1>5 DEF NamedIn, SelectionInv, NamesInv
<1>13. list.phase = "served" =>
           list.answer \in SpaceLists /\ NamedIn(Elements(list.answer), past.typed)
  BY DEF SelectionInv, TabTypes, NamesInv
<1>14. /\ Over(a) \in [Waits -> Wait] /\ FreshServer(held, title, Over(a))
       /\ \A c \in Waits \ {a} : Over(a)[c] = wait[c]
       /\ \A c \in Waits : GoodWait(Over(a)[c], list.data # NoData, past.typed)
  BY Ends
<1>15. \A c \in Waits : GoodWait(Over(a)[c], e.data # NoData, past.typed)
  <2>1. e.data # NoData  BY <1>8, <1>10
  <2>2. ASSUME NEW c \in Waits  PROVE GoodWait(Over(a)[c], e.data # NoData, past.typed)
    BY <1>14, <2>1 DEF GoodWait
  <2>. QED  BY <2>2
<1>16. ~e.behind => Tells(Elements(e.data), held, title, Over(a))
  <2>. SUFFICES ASSUME ~e.behind PROVE Tells(Elements(e.data), held, title, Over(a))
    OBVIOUS
  <2>1. ~list.behind /\ ~wait[a].late /\ list.data # NoData  BY <1>8 DEF b
  <2>2. ShownBy(list) = list.data  BY <2>1 DEF ShownBy
  <2>3. Follows(wait[a], Elements(list.data), Elements(s))
    BY <1>1, <1>3, <1>5, <2>2, FollowsCreate
  <2>4. FreshServer(held, title, wait) /\ Tells(Elements(list.data), held, title, wait)
    BY <2>1 DEF SelectionInv, FreshInv, TellInv
  <2>. QED  BY <1>0, <1>1, <1>8, <1>14, <2>1, <2>3, <2>4, TellsAnswered DEF Wait
<1>17. form \in Form  BY DEF SelectionInv, TabTypes
<1>. QED
  BY <1>2, <1>7, <1>8, <1>9, <1>10, <1>11, <1>12, <1>13, <1>14, <1>15, <1>16, <1>17,
     RenderStep

LEMMA StepEndRename ==
    ASSUME SelectionInv, NEW a \in Waits, EndRename(a)  PROVE SelectionInv'
<1>0. /\ list \in EntryOf(SpaceLists) /\ past \in Past
      /\ wait[a] \in Wait /\ wait[a].late \in BOOLEAN
      /\ GoodWait(wait[a], list.data # NoData, past.typed)
  BY StaysAsItIs, WaitFacts
<1>1. wait[a].phase = "done" /\ wait[a].op = "rename"  BY DEF EndRename
<1>. DEFINE w == wait[a].space
            s == Retitled(ShownBy(list), w, wait[a].title)
            e == PutLate(a, s)
            f(r) == IF r.space = w THEN [r EXCEPT !.title = wait[a].title] ELSE r
<1>2. /\ w \in Spaces /\ wait[a].title \in Titles /\ wait[a].title \in past.typed[w]
      /\ list.data # NoData
  BY <1>0, <1>1 DEF GoodWait, Busy
<1>3. ShownBy(list) \in SpaceLists /\ ShownBy(list) = list.data
      /\ Elements(ShownBy(list)) \subseteq ListedSpace
  BY <1>0, <1>2, ShownRows
<1>5. s \in SpaceLists /\ Elements(s) = {f(r) : r \in Elements(list.data)}
  BY <1>2, <1>3, Retitles
<1>6. Follows(wait[a], Elements(list.data), Elements(s))
  <2>1. Follows(wait[a], Elements(list.data), {f(r) : r \in Elements(list.data)})
    BY <1>1, <1>3, FollowsRename, Zenon
  <2>. QED  BY <1>5, <2>1, Zenon
<1>7. Render(e, picked, stored, Released(a), Over(a)) /\ UNCHANGED <<held, title, past>>
  BY DEF EndRename
<1>. DEFINE ff == {f(r) : r \in Elements(list.data)}
<1>8. /\ \A r \in Elements(list.data) : f(r).space = r.space
      /\ \A r \in Elements(list.data) : f(r).title \in past.typed[r.space]
  <2>1. NamedIn(Elements(list.data), past.typed)  BY <1>3 DEF SelectionInv, NamesInv
  <2>2. ASSUME NEW r \in Elements(list.data)
        PROVE  f(r).space = r.space /\ f(r).title \in past.typed[r.space]
    <3>1. r \in ListedSpace /\ r.title \in past.typed[r.space]  BY <1>3, <2>1 DEF NamedIn
    <3>. QED  BY <1>2, <3>1 DEF ListedSpace
  <2>. QED  BY <2>2
<1>. HIDE DEF w, s, f
<1>9. /\ e \in EntryOf(SpaceLists) /\ e.data = s
      /\ e.behind = (list.behind \/ wait[a].late)
      /\ e.phase = list.phase /\ e.answer = list.answer
      /\ e.phase = "served" => e.overtaken
  BY <1>0, <1>5, PutsLate
<1>. HIDE DEF e
<1>10. s # NoData  BY <1>5, SelectionConstants DEF SpaceLists
<1>11. ShownBy(e) = s /\ SpacesOf(e) = SpacesOf(list)
  <2>1. ShownBy(e) = s  BY <1>9, <1>10 DEF ShownBy
  <2>2. {r.space : r \in Elements(s)} = {r.space : r \in Elements(list.data)}
    BY <1>5, <1>8
  <2>. QED  BY <1>3, <2>1, <2>2 DEF SpacesOf
<1>12. NamedIn(Elements(s), past.typed)  BY <1>5, <1>8 DEF NamedIn
<1>13. list.phase = "served" =>
           list.answer \in SpaceLists /\ NamedIn(Elements(list.answer), past.typed)
  BY DEF SelectionInv, TabTypes, NamesInv
<1>14. /\ Over(a) \in [Waits -> Wait] /\ FreshServer(held, title, Over(a))
       /\ \A c \in Waits \ {a} : Over(a)[c] = wait[c]
       /\ \A c \in Waits : GoodWait(Over(a)[c], list.data # NoData, past.typed)
  BY Ends
<1>15. \A c \in Waits : GoodWait(Over(a)[c], e.data # NoData, past.typed)
  <2>1. e.data # NoData  BY <1>9, <1>10
  <2>2. ASSUME NEW c \in Waits  PROVE GoodWait(Over(a)[c], e.data # NoData, past.typed)
    BY <1>14, <2>1 DEF GoodWait
  <2>. QED  BY <2>2
<1>16. ~e.behind => Tells(Elements(e.data), held, title, Over(a))
  <2>. SUFFICES ASSUME ~e.behind PROVE Tells(Elements(e.data), held, title, Over(a))
    OBVIOUS
  <2>1. ~list.behind /\ ~wait[a].late  BY <1>9
  <2>2. FreshServer(held, title, wait) /\ Tells(Elements(list.data), held, title, wait)
    BY <1>2, <2>1 DEF SelectionInv, FreshInv, TellInv
  <2>. QED  BY <1>0, <1>1, <1>6, <1>9, <1>14, <2>1, <2>2, TellsAnswered DEF Wait
<1>17. /\ Released(a) \in Form /\ Released(a).space = form.space
       /\ Released(a).title = form.title
  BY Releases DEF SelectionInv
<1>18. /\ picked \in Spaces \cup {NoSpace} /\ stored \in Spaces \cup {NoSpace}
       /\ past.chosen # NoSpace =>
             picked = past.chosen /\ stored = past.chosen /\ past.chosen \in SpacesOf(e)
  BY <1>2, <1>11 DEF SelectionInv, TabTypes, ChoiceInv
<1>. QED
  BY <1>0, <1>7, <1>9, <1>10, <1>11, <1>12, <1>13, <1>14, <1>15, <1>16, <1>17, <1>18,
     RenderStep

LEMMA StepEndDelete ==
    ASSUME SelectionInv, NEW a \in Waits, EndDelete(a)  PROVE SelectionInv'
<1>0. /\ list \in EntryOf(SpaceLists) /\ past \in Past
      /\ wait[a] \in Wait /\ wait[a].late \in BOOLEAN
      /\ GoodWait(wait[a], list.data # NoData, past.typed)
  BY StaysAsItIs, WaitFacts
<1>1. wait[a].phase = "done" /\ wait[a].op = "delete"  BY DEF EndDelete
<1>. DEFINE w == wait[a].space
            s == Subsequence(ShownBy(list), KeptPlaces(ShownBy(list), w))
            e == PutLate(a, s)
<1>2. list.data # NoData  BY <1>0, <1>1 DEF GoodWait, Busy
<1>3. ShownBy(list) \in SpaceLists /\ ShownBy(list) = list.data
  BY <1>0, <1>2, ShownRows
<1>5. s \in SpaceLists /\ Elements(s) = {r \in Elements(list.data) : r.space # w}
  BY <1>3, Removes
<1>6. Follows(wait[a], Elements(list.data), Elements(s))
  BY <1>1, <1>5, FollowsDelete
<1>7. /\ Render(e, NoSpace, NoSpace, Released(a), Over(a)) /\ UNCHANGED <<held, title>>
      /\ past' = [past EXCEPT !.chosen = NoSpace]
  BY DEF EndDelete, KeptPlaces
<1>. HIDE DEF w, s
<1>8. past' \in Past /\ past'.typed = past.typed /\ past'.chosen = NoSpace
  BY <1>0, <1>7 DEF Past
<1>9. /\ e \in EntryOf(SpaceLists) /\ e.data = s
      /\ e.behind = (list.behind \/ wait[a].late)
      /\ e.phase = list.phase /\ e.answer = list.answer
      /\ e.phase = "served" => e.overtaken
  BY <1>0, <1>5, PutsLate
<1>. HIDE DEF e
<1>10. s # NoData  BY <1>5, SelectionConstants DEF SpaceLists
<1>11. ShownBy(e) = s  BY <1>9, <1>10 DEF ShownBy
<1>12. NamedIn(Elements(s), past.typed)
  BY <1>3, <1>5 DEF NamedIn, SelectionInv, NamesInv
<1>13. list.phase = "served" =>
           list.answer \in SpaceLists /\ NamedIn(Elements(list.answer), past.typed)
  BY DEF SelectionInv, TabTypes, NamesInv
<1>14. /\ Over(a) \in [Waits -> Wait] /\ FreshServer(held, title, Over(a))
       /\ \A c \in Waits \ {a} : Over(a)[c] = wait[c]
       /\ \A c \in Waits : GoodWait(Over(a)[c], list.data # NoData, past.typed)
  BY Ends
<1>15. \A c \in Waits : GoodWait(Over(a)[c], e.data # NoData, past.typed)
  <2>1. e.data # NoData  BY <1>9, <1>10
  <2>2. ASSUME NEW c \in Waits  PROVE GoodWait(Over(a)[c], e.data # NoData, past.typed)
    BY <1>14, <2>1 DEF GoodWait
  <2>. QED  BY <2>2
<1>16. ~e.behind => Tells(Elements(e.data), held, title, Over(a))
  <2>. SUFFICES ASSUME ~e.behind PROVE Tells(Elements(e.data), held, title, Over(a))
    OBVIOUS
  <2>1. ~list.behind /\ ~wait[a].late  BY <1>9
  <2>2. FreshServer(held, title, wait) /\ Tells(Elements(list.data), held, title, wait)
    BY <1>2, <2>1 DEF SelectionInv, FreshInv, TellInv
  <2>. QED  BY <1>0, <1>1, <1>6, <1>9, <1>14, <2>1, <2>2, TellsAnswered DEF Wait
<1>17. /\ Released(a) \in Form /\ Released(a).space = form.space
       /\ Released(a).title = form.title
  BY Releases DEF SelectionInv
<1>. QED
  BY <1>7, <1>8, <1>9, <1>10, <1>11, <1>12, <1>13, <1>14, <1>15, <1>16, <1>17, RenderStep

-----------------------------------------------------------------------------
(* The list.                                                                *)
LEMMA ServerList ==
    ASSUME SelectionInv
    PROVE  /\ OfServer \in SpaceLists /\ NamedIn(Elements(OfServer), past.typed)
           /\ \A w : RowsIn(Elements(OfServer), w) = RowsAt(held, title, w)
<1>1. held \in Seq(Spaces) /\ title \in [Spaces -> Titles]
      /\ \A v \in Elements(held) : title[v] \in past.typed[v]
  BY DEF SelectionInv, TabTypes, NamesInv
<1>. DEFINE n == Len(held)
            told(v) == [space |-> v, title |-> title[v]]
<1>2. DOMAIN held = 1 .. n /\ n \in Nat /\ \A i \in 1 .. n : held[i] \in Spaces
  BY <1>1
<1>3. \A v \in Spaces : told(v) \in ListedSpace  BY <1>1 DEF ListedSpace
<1>4. \A v : told(v).space = v /\ told(v).title = title[v]  OBVIOUS
<1>5. OfServer = [i \in 1 .. n |-> told(held[i])]  BY <1>2 DEF OfServer
<1>. HIDE DEF n, told
<1>6. OfServer \in [1 .. n -> ListedSpace]  BY <1>2, <1>3, <1>5
<1>7. OfServer \in SpaceLists /\ DOMAIN OfServer = 1 .. n  BY <1>2, <1>6 DEF SpaceLists
<1>8. Elements(OfServer) = {told(v) : v \in Elements(held)}
  BY <1>2, <1>5, <1>7 DEF Elements
<1>9. NamedIn(Elements(OfServer), past.typed)  BY <1>1, <1>4, <1>8 DEF NamedIn
<1>10. ASSUME NEW w  PROVE RowsIn(Elements(OfServer), w) = RowsAt(held, title, w)
  <2>1. CASE w \in Elements(held)
    <3>1. RowsAt(held, title, w) = {told(w)}  BY <2>1 DEF RowsAt, told
    <3>. QED  BY <1>4, <1>8, <2>1, <3>1 DEF RowsIn
  <2>2. CASE w \notin Elements(held)
    BY <1>4, <1>8, <2>2 DEF RowsAt, RowsIn
  <2>. QED  BY <2>1, <2>2
<1>. QED  BY <1>7, <1>9, <1>10

LEMMA StepServeSpaces ==
    ASSUME SelectionInv, ServeSpaces  PROVE SelectionInv'
<1>0. /\ list \in EntryOf(SpaceLists) /\ OfServer \in SpaceLists
      /\ NamedIn(Elements(OfServer), past.typed)
      /\ \A w : RowsIn(Elements(OfServer), w) = RowsAt(held, title, w)
  BY StaysAsItIs, ServerList
<1>1. /\ list' = Serve(list, OfServer)
      /\ UNCHANGED <<held, title, picked, stored, form, asked, wait, past>>
  BY DEF ServeSpaces
<1>. HIDE DEF OfServer
<1>2. /\ list' \in EntryOf(SpaceLists) /\ list'.data = list.data /\ list'.behind = list.behind
      /\ list'.answer = OfServer /\ list'.phase = "served"
  BY <1>0, <1>1, EntryTypes, EntryFields
<1>3. /\ ShownBy(list)' = ShownBy(list) /\ SpacesOf(list)' = SpacesOf(list)
      /\ CurrentSpace' = CurrentSpace
  <2>1. ShownBy(list') = ShownBy(list) /\ SpacesOf(list') = SpacesOf(list)
    BY <1>2, SameShown
  <2>2. SpaceIn(list', picked) = SpaceIn(list, picked)  BY <1>2, SameShown
  <2>. QED  BY <1>1, <2>1, <2>2 DEF ShownBy, SpacesOf, CurrentSpace, Elements
<1>4. TabTypes'  BY <1>0, <1>1, <1>2 DEF SelectionInv, TabTypes
<1>5. ChoiceInv'  BY <1>1, <1>2, <1>3 DEF SelectionInv, ChoiceInv, SpacesOf, Elements
<1>6. WaitsInv'  BY <1>1, <1>2 DEF SelectionInv, WaitsInv
<1>7. NamesInv'
  BY <1>0, <1>1, <1>2, <1>3 DEF SelectionInv, NamesInv, NamedIn, Elements
<1>8. FreshServer(held, title, wait)  BY DEF SelectionInv, FreshInv
<1>9. Tells(Elements(OfServer), held, title, wait)  BY <1>0 DEF Tells
<1>10. FreshInv'  BY <1>1, <1>8 DEF FreshInv
<1>11. TellInv'  BY <1>1, <1>2, <1>9 DEF SelectionInv, TellInv
<1>. QED  BY <1>4, <1>5, <1>6, <1>7, <1>10, <1>11 DEF SelectionInv

LEMMA StepSpacesArrive ==
    ASSUME SelectionInv, SpacesArrive  PROVE SelectionInv'
<1>0. /\ list \in EntryOf(SpaceLists) /\ past \in Past
      /\ \A x \in Waits : GoodWait(wait[x], list.data # NoData, past.typed)
  BY StaysAsItIs
<1>. DEFINE e == Arrive(list)
<1>1. /\ list.phase = "served" /\ Render(e, picked, stored, form, wait)
      /\ past' = [past EXCEPT !.chosen = Choose(e, @)] /\ UNCHANGED <<held, title>>
  BY DEF SpacesArrive
<1>2. /\ e \in EntryOf(SpaceLists) /\ e.data = list.answer /\ e.behind = list.overtaken
      /\ e.phase = "none"
  BY <1>0, EntryTypes, EntryFields
<1>. HIDE DEF e
<1>3. /\ picked \in Spaces \cup {NoSpace} /\ stored \in Spaces \cup {NoSpace}
      /\ form \in Form /\ wait \in [Waits -> Wait] /\ list.answer \in SpaceLists
      /\ NamedIn(Elements(list.answer), past.typed) /\ FreshServer(held, title, wait)
      /\ ~list.overtaken => Tells(Elements(list.answer), held, title, wait)
      /\ past.chosen # NoSpace => picked = past.chosen /\ stored = past.chosen
  BY <1>1 DEF SelectionInv, TabTypes, NamesInv, FreshInv, TellInv, ChoiceInv
<1>4. e.data # NoData  BY <1>2, <1>3, SelectionConstants DEF SpaceLists
<1>5. ShownBy(e) = list.answer  BY <1>2, <1>4 DEF ShownBy
<1>6. Choose(e, past.chosen) \in Spaces \cup {NoSpace}
      /\ (Choose(e, past.chosen) # NoSpace =>
             Choose(e, past.chosen) = past.chosen /\ past.chosen \in SpacesOf(e))
  BY <1>0 DEF Choose, Past
<1>7. /\ past' \in Past /\ past'.typed = past.typed
      /\ past'.chosen = Choose(e, past.chosen)
  BY <1>0, <1>1, <1>6 DEF Past
<1>8. ASSUME NEW x \in Waits  PROVE GoodWait(wait[x], e.data # NoData, past.typed)
  <2>1. GoodWait(wait[x], list.data # NoData, past.typed)  BY <1>0
  <2>. QED  BY <1>4, <2>1 DEF GoodWait
<1>. QED
  BY <1>1, <1>2, <1>3, <1>4, <1>5, <1>6, <1>7, <1>8, RenderStep

LEMMA StepReload ==
    ASSUME SelectionInv, Reload  PROVE SelectionInv'
<1>0. /\ past \in Past /\ wait \in [Waits -> Wait] /\ stored \in Spaces \cup {NoSpace}
      /\ \A x \in Waits : wait[x] \in Wait /\ GoodWait(wait[x], list.data # NoData, past.typed)
  BY StaysAsItIs DEF SelectionInv, TabTypes
<1>1. past' \in Past /\ past'.typed = past.typed /\ past'.chosen = past.chosen
  <2>1. Happens  BY DEF Reload
  <2>. QED  BY <1>0, <2>1, SelectionConstants DEF Happens, Past
<1>2. list' \in EntryOf(SpaceLists) /\ list'.data = NoData /\ list'.phase = "sent"
  <2>1. NewEntry \in EntryOf(SpaceLists)  BY DEF NewEntry, EntryOf
  <2>. QED  BY <2>1, EntryTypes, EntryFields DEF Reload
<1>3. stored' = stored /\ picked' = stored /\ held' = held /\ title' = title
      /\ form' = NoForm /\ asked' = NothingAsked
  <2>1. ShownBy(NewEntry) = <<>> /\ Elements(<<>>) = {} /\ NewEntry.data = NoData
    BY DEF ShownBy, NewEntry, Elements
  <2>2. CurrentIn(NewEntry, stored) = {}  BY <2>1 DEF CurrentIn, SpacesOf
  <2>3. Effect(NewEntry, stored, stored) = stored  BY <2>1, <2>2 DEF Effect
  <2>. QED  BY <2>3 DEF Reload
<1>. DEFINE v(a) == IF wait[a].phase = "sent"
                    THEN [wait[a] EXCEPT !.phase = "adrift", !.same = FALSE]
                    ELSE IF wait[a].phase \in {"done", "failed"} THEN WaitOver ELSE wait[a]
<1>4. wait' = [a \in Waits |-> v(a)]  BY DEF Reload
<1>5. ASSUME NEW a \in Waits
      PROVE  v(a) \in Wait /\ v(a).phase # "done" /\ GoodWait(v(a), FALSE, past.typed)
  <2>0. wait[a] \in Wait /\ GoodWait(wait[a], list.data # NoData, past.typed)  BY <1>0
  <2>1. CASE wait[a].phase = "sent"
    <3>1. /\ v(a) \in Wait /\ v(a).phase = "adrift" /\ v(a).op = wait[a].op
          /\ v(a).space = wait[a].space /\ v(a).title = wait[a].title
      BY <2>0, <2>1 DEF Wait
    <3>. QED  BY <2>0, <2>1, <3>1 DEF GoodWait, Busy
  <2>2. CASE wait[a].phase \in {"done", "failed"}
    <3>1. v(a) = WaitOver  BY <2>2
    <3>2. GoodWait(WaitOver, FALSE, past.typed)  BY NoWaitGood
    <3>. QED  BY <3>1, <3>2, NoWaitGood
  <2>3. CASE wait[a].phase \in {"new", "adrift", "over"}
    <3>1. v(a) = wait[a]  BY <2>3
    <3>. QED  BY <2>0, <2>3, <3>1 DEF GoodWait, Busy
  <2>. QED  BY <2>0, <2>1, <2>2, <2>3 DEF Wait
<1>. HIDE DEF v
<1>6. wait' \in [Waits -> Wait]
      /\ \A a \in Waits : wait'[a].phase # "done" /\ GoodWait(wait'[a], FALSE, past.typed)
  BY <1>4, <1>5
<1>7. NoForm \in Form /\ NoForm.space = NoSpace /\ NothingAsked \in Asked
  BY DEF NoForm, Form, NothingAsked, Asked
<1>8. TabTypes'
  BY <1>0, <1>1, <1>2, <1>3, <1>6, <1>7 DEF SelectionInv, TabTypes
<1>9. ChoiceInv'  BY <1>1, <1>2, <1>3 DEF SelectionInv, ChoiceInv
<1>10. WaitsInv'
  <2>1. (list'.data # NoData) = FALSE  BY <1>2
  <2>. QED  BY <1>1, <1>3, <1>6, <2>1 DEF WaitsInv
<1>11. NamesInv'
  <2>1. ShownBy(list)' = <<>> /\ Elements(<<>>) = {}  BY <1>2 DEF ShownBy, Elements
  <2>2. CurrentSpace' = NoSpace
    BY <2>1 DEF CurrentSpace, SpaceIn, CurrentIn, SpacesOf, Elements
  <2>. QED  BY <1>1, <1>2, <1>3, <1>7, <2>1, <2>2
       DEF SelectionInv, NamesInv, NamedIn, Elements
<1>12. FreshInv' /\ TellInv'  BY <1>2, <1>6 DEF FreshInv, TellInv, FreshServer
<1>. QED  BY <1>8, <1>9, <1>10, <1>11, <1>12 DEF SelectionInv

LEMMA StepSelection ==
    ASSUME SelectionInv, [SelectionNext]_selectionVars  PROVE SelectionInv'
<1>1. CASE UNCHANGED selectionVars
  <2>1. ShownBy(list)' = ShownBy(list) /\ SpacesOf(list)' = SpacesOf(list)
        /\ CurrentSpace' = CurrentSpace /\ Elements(held)' = Elements(held)
    BY <1>1 DEF selectionVars, ShownBy, SpacesOf, CurrentSpace, SpaceIn, CurrentIn,
       FindIn, Elements
  <2>2. TabTypes'  BY <1>1 DEF selectionVars, SelectionInv, TabTypes
  <2>3. ChoiceInv'  BY <1>1, <2>1 DEF selectionVars, SelectionInv, ChoiceInv, SpacesOf, Elements
  <2>4. WaitsInv'  BY <1>1 DEF selectionVars, SelectionInv, WaitsInv
  <2>5. NamesInv'
    BY <1>1, <2>1 DEF selectionVars, SelectionInv, NamesInv, NamedIn, Elements
  <2>6. FreshInv' /\ TellInv'  BY <1>1 DEF selectionVars, SelectionInv, FreshInv, TellInv
  <2>. QED  BY <2>2, <2>3, <2>4, <2>5, <2>6 DEF SelectionInv
<1>2. CASE \E w \in Spaces : SelectSpace(w)  BY <1>2, StepSelectSpace
<1>3. CASE \E a \in Waits, t \in Titles : CreateSpace(a, t)  BY <1>3, StepCreateSpace
<1>4. CASE \E t \in Titles : TypeTitle(t)  BY <1>4, StepTypeTitle
<1>5. CASE \E a \in Waits : RenameSpace(a)  BY <1>5, StepRenameSpace
<1>6. CASE AskDeletion  BY <1>6, StepAskDeletion
<1>7. CASE \E a \in Waits : AnswerDeletion(a)  BY <1>7, StepAnswerDeletion
<1>8. CASE \E a \in Waits :
               Refuse(a) \/ PerformCreate(a) \/ PerformRename(a) \/ PerformDelete(a)
  BY <1>8, StepRefuse, StepPerformCreate, StepPerformRename, StepPerformDelete
<1>9. CASE \E a \in Waits : EndCreate(a) \/ EndRename(a) \/ EndDelete(a) \/ EndFailed(a)
  BY <1>9, StepEndCreate, StepEndRename, StepEndDelete, StepEndFailed
<1>10. CASE \E a \in Waits : LoseCall(a)  BY <1>10, StepLoseCall
<1>11. CASE ServeSpaces \/ SpacesArrive \/ SpacesFail \/ AskForSpaces
  BY <1>11, StepServeSpaces, StepSpacesArrive, StepSpacesFail, StepAskForSpaces
<1>12. CASE \E w \in Spaces, t \in Titles : OtherRenames(w, t)  BY <1>12, StepOtherRenames
<1>13. CASE \E w \in Spaces : OtherRemoves(w) \/ OtherTab(w)
  BY <1>13, StepOtherRemoves, StepOtherTab
<1>14. CASE Reload \/ OpenPanels  BY <1>14, StepReload, StepOpenPanels
<1>. QED
  BY <1>1, <1>2, <1>3, <1>4, <1>5, <1>6, <1>7, <1>8, <1>9, <1>10, <1>11, <1>12, <1>13,
     <1>14 DEF SelectionNext

SelectionSpec == SelectionInit /\ [][SelectionNext]_selectionVars

(* Every reachable state of the tab has its type, for any workspaces, names *)
(* and number of calls: what the list holds, and what is selected and kept. *)
THEOREM SelectionTypesTheorem == SelectionSpec => []SelectionTypeOK
<1>1. SelectionInv => SelectionTypeOK
  <2>. SUFFICES ASSUME TabTypes PROVE SelectionTypeOK  BY DEF SelectionInv
  <2>1. list \in EntryOf(SpaceLists)  BY DEF TabTypes
  <2>2. list \in EntryOf({list.data, list.answer})
    <3>. DEFINE D == {list.data, list.answer}
    <3>1. list.data \in D /\ list.answer \in D  OBVIOUS
    <3>. HIDE DEF D
    <3>2. list \in EntryOf(D)  BY <2>1, <3>1 DEF EntryOf
    <3>. QED  BY <3>2 DEF D
  <2>3. \A d \in {list.data, list.answer} : d # NoData => d \in Seq(ListedSpace)
    BY <2>1 DEF EntryOf, SpaceLists
  <2>. QED  BY <2>2, <2>3 DEF TabTypes, SelectionTypeOK
<1>. QED  BY <1>1, InitSelection, StepSelection, PTL DEF SelectionSpec

(* A workspace that the user switched to or created stays the one shown,    *)
(* through answers in any order, reloads and lists that are read again      *)
(* (contexts/workspace-context.tsx).                                        *)
THEOREM ChoiceTheorem == SelectionSpec => []SelectionHolds
<1>1. SelectionInv => SelectionHolds
  <2>. SUFFICES ASSUME SelectionInv, list.data # NoData, past.chosen # NoSpace
                PROVE  CurrentSpace = past.chosen
    BY DEF SelectionHolds
  <2>1. picked = past.chosen /\ past.chosen \in SpacesOf(list)
    BY DEF SelectionInv, ChoiceInv
  <2>2. list \in EntryOf(SpaceLists)  BY StaysAsItIs
  <2>. QED  BY <2>1, <2>2, CurrentRow DEF CurrentSpace
<1>. QED  BY <1>1, InitSelection, StepSelection, PTL DEF SelectionSpec

(* Names typed for one workspace never become the name of another, and the  *)
(* list that the answers are put into ends as what the server has, but for  *)
(* changes, answers and lists that overtook one another                     *)
(* (setQueryData in contexts/workspace-context.tsx).                        *)
THEOREM SpacesTheorem == SelectionSpec => []SpacesShownHold
<1>1. SelectionInv => NamesStayHome
  BY DEF SelectionInv, NamesInv, NamedIn, NamesStayHome
<1>2. SelectionInv => ListHolds
  <2>. SUFFICES ASSUME SelectionInv, list.data # NoData, ~list.behind,
                       \A a \in Waits : wait[a].phase \in {"new", "over"}
                PROVE  Elements(list.data) = Elements(OfServer)
    BY DEF ListHolds
  <2>1. Tells(Elements(list.data), held, title, wait)  BY DEF SelectionInv, TellInv
  <2>2. \A w \in Spaces : RowsIn(Elements(list.data), w) = RowsIn(Elements(OfServer), w)
    <3>1. \A w \in Spaces : RowsIn(Elements(list.data), w) = RowsAt(held, title, w)
      BY <2>1 DEF Tells, Mends, Answers
    <3>. QED  BY <3>1, ServerList
  <2>3. Elements(list.data) \subseteq ListedSpace /\ Elements(OfServer) \subseteq ListedSpace
    <3>1. list \in EntryOf(SpaceLists) /\ OfServer \in SpaceLists  BY StaysAsItIs, ServerList
    <3>2. list.data \in SpaceLists  BY <3>1 DEF EntryOf
    <3>. QED  BY <3>1, <3>2, InList
  <2>4. \A x \in ListedSpace : x.space \in Spaces  BY DEF ListedSpace
  <2>. QED  BY <2>2, <2>3, <2>4 DEF RowsIn
<1>. QED
  BY <1>1, <1>2, InitSelection, StepSelection, PTL DEF SelectionSpec, SpacesShownHold
=============================================================================

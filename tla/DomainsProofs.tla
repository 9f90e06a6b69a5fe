---------------------------- MODULE DomainsProofs ----------------------------
(* Proofs about module Domains, for any workspaces, hostnames, ids, calls   *)
(* and rows to begin with.                                                  *)
EXTENDS Domains, TLAPS

(* The inductive invariant.  A call under way has what its kind needs, and  *)
(* one that is about to mark a row has seen the row's token in DNS.         *)
GoodCall(f, D) ==
    /\ f.phase # "new" => f.ws \in Workspaces
    /\ f.phase # "new" /\ f.kind # "create" => f.id \in Ids
    /\ f.phase # "new" /\ f.kind = "create" => f.host \in Hosts
    /\ f.phase = "ok" => f.id \in Ids
    /\ f.phase = "proved" => f.id \in D

CallsInv == \A c \in Calls : GoodCall(call[c], dns)

(* A date that is drawn for a row and not yet stored is not before those of *)
(* the other rows, but of the rows that were marked meanwhile.              *)
GoodDate(f, A, T) ==
    f.phase = "proved" =>
        /\ 0 < f.date /\ f.date <= T
        /\ \A i \in Ids : A[i] <= f.date \/ i \in f.over

DatesInv == \A c \in Calls : GoodDate(call[c], at, time)

(* Ids are drawn once; what is verified was in DNS, and not after time.     *)
RowsInv ==
    /\ \A r \in rows : r.id \in born
    /\ \A i \in Ids : at[i] <= time
    /\ \A i \in Ids : at[i] > 0 => i \in dns /\ i \in born

VisitInv ==
    visit.phase = "found" /\ ~visit.moved =>
        \E r \in rows : r.ws = visit.ws /\ r.host = visit.host /\ at[r.id] > 0

ServerInv ==
    /\ alive \subseteq Workspaces
    /\ rows \subseteq Row /\ OneEach(rows)
    /\ at \in [Ids -> 0 .. MaxTime]
    /\ time \in 0 .. MaxTime
    /\ born \subseteq Ids
    /\ dns \subseteq Ids
    /\ RowsInv

PanelInv ==
    /\ call \in [Calls -> Call]
    /\ CallsInv /\ DatesInv

ListsInv ==
    /\ current \in Workspaces
    /\ cache \in [Workspaces -> Cached]
    /\ fetch \in [Workspaces -> Fetch]
    /\ told \in Told
    /\ NothingCrossesOver

IInv == ServerInv /\ PanelInv /\ ListsInv /\ visit \in Visit /\ VisitInv

LEMMA InvariantHasTypes == IInv => TypeOK
<1>. QED  BY DEF IInv, ServerInv, PanelInv, ListsInv, TypeOK

LEMMA InitInv == Init => IInv
<1>. SUFFICES ASSUME Init PROVE IInv  OBVIOUS
<1>1. ServerInv
  <2>1. PICK s \in Initially : /\ rows = s.rows /\ at = s.at /\ time = s.time
                              /\ born = {i \in Ids : at[i] > 0 \/ \E r \in rows : r.id = i}
                              /\ dns = {i \in Ids : at[i] > 0}
    BY DEF Init
  <2>2. /\ rows \subseteq Row /\ OneEach(rows)
        /\ time \in 0 .. MaxTime /\ at \in [Ids -> 0 .. time]
    BY <2>1, DomainsConstants
  <2>6. MaxTime \in Nat  BY DomainsConstants
  <2>7. at \in [Ids -> 0 .. MaxTime]  BY <2>2, <2>6
  <2>3. \A i \in Ids : at[i] <= time  BY <2>2
  <2>4. \A r \in rows : r.id \in born  BY <2>1, <2>2 DEF Row
  <2>5. alive = Workspaces  BY DEF Init
  <2>. QED  BY <2>1, <2>2, <2>3, <2>4, <2>5, <2>7 DEF ServerInv, RowsInv
<1>2. PanelInv
  <2>1. NewCall \in Call  BY DomainsConstants DEF NewCall, Call
  <2>2. call = [c \in Calls |-> NewCall]  BY DEF Init
  <2>3. GoodCall(NewCall, dns) /\ GoodDate(NewCall, at, time)
    BY DEF GoodCall, GoodDate, NewCall
  <2>4. \A c \in Calls : call[c] = NewCall  BY <2>2
  <2>. QED  BY <2>1, <2>2, <2>3, <2>4 DEF PanelInv, CallsInv, DatesInv
<1>3. ListsInv
  BY DEF Init, ListsInv, Cached, Fetch, NoFetch, Told, NothingCrossesOver
<1>4. visit \in Visit /\ VisitInv  BY DEF Init, NoVisit, Visit, VisitInv
<1>. QED  BY <1>1, <1>2, <1>3, <1>4 DEF IInv

-----------------------------------------------------------------------------
(* A call that goes on to f. *)
LEMMA CallBecomes ==
    ASSUME PanelInv, NEW c \in Calls, NEW f \in Call, GoodCall(f, dns'),
           call' = [call EXCEPT ![c] = f], dns \subseteq dns',
           \A d \in Calls : GoodDate(IF d = c THEN f ELSE call[d], at', time')
    PROVE  PanelInv'
<1>1. call' \in [Calls -> Call]  BY DEF PanelInv
<1>2. \A d \in Calls : call'[d] = IF d = c THEN f ELSE call[d]
  BY DEF PanelInv
<1>3. \A d \in Calls : d # c => GoodCall(call'[d], dns')
  <2>1. \A d \in Calls : GoodCall(call[d], dns)  BY DEF PanelInv, CallsInv
  <2>. QED  BY <1>2, <2>1 DEF GoodCall
<1>4. \A d \in Calls : GoodCall(call'[d], dns')
  BY <1>2, <1>3 DEF GoodCall
<1>5. \A d \in Calls : GoodDate(call'[d], at', time')
  BY <1>2
<1>. QED  BY <1>1, <1>4, <1>5 DEF PanelInv, CallsInv, DatesInv

LEMMA CallGoesOn ==
    ASSUME PanelInv, NEW c \in Calls, NEW f \in Call, GoodCall(f, dns'),
           f.phase # "proved", call' = [call EXCEPT ![c] = f], dns \subseteq dns',
           UNCHANGED <<at, time>>
    PROVE  PanelInv'
<1>1. \A d \in Calls : GoodDate(IF d = c THEN f ELSE call[d], at', time')
  BY DEF PanelInv, DatesInv, GoodDate
<1>. QED  BY <1>1, CallBecomes

LEMMA CallMoves ==
    ASSUME PanelInv, NEW c \in Calls, NEW p \in {"sent", "checked", "ok", "done"},
           call[c].phase # "new", Moves(c, p), UNCHANGED <<dns, at, time>>,
           p = "ok" => call[c].id \in Ids
    PROVE  PanelInv'
<1>. DEFINE f == [call[c] EXCEPT !.phase = p]
<1>1. call[c] \in Call /\ GoodCall(call[c], dns)  BY DEF PanelInv, CallsInv
<1>2. f \in Call  BY <1>1 DEF Call
<1>3. call' = [call EXCEPT ![c] = f]  BY DEF Moves
<1>4. /\ f.phase = p /\ f.ws = call[c].ws /\ f.kind = call[c].kind
      /\ f.id = call[c].id /\ f.host = call[c].host
  BY <1>1 DEF Call
<1>. HIDE DEF f
<1>5. GoodCall(f, dns')  BY <1>1, <1>4 DEF GoodCall
<1>. QED  BY <1>2, <1>3, <1>4, <1>5, CallGoesOn

LEMMA ServerStays ==
    ASSUME ServerInv, UNCHANGED <<server, dns>>
    PROVE  ServerInv'
<1>. QED  BY DEF ServerInv, RowsInv, server, OneEach

LEMMA ListsStay ==
    ASSUME ListsInv, UNCHANGED tab
    PROVE  ListsInv'
<1>. QED  BY DEF ListsInv, tab, NothingCrossesOver

LEMMA VisitStays ==
    ASSUME visit \in Visit, VisitInv, UNCHANGED <<server, visit>>
    PROVE  visit' \in Visit /\ VisitInv'
<1>. QED  BY DEF VisitInv, server

(* A step of a call that changes nothing else. *)
LEMMA OnlyTheCall ==
    ASSUME IInv, PanelInv', UNCHANGED <<server, dns, tab, visit>>
    PROVE  IInv'
<1>1. UNCHANGED <<server, dns>> /\ UNCHANGED tab /\ UNCHANGED <<server, visit>>
  OBVIOUS
<1>. QED  BY <1>1, ServerStays, ListsStay, VisitStays DEF IInv

(* A call that was just made, for a hostname or for a row. *)
LEMMA NewFields ==
    /\ NewCall \in Call
    /\ NewCall.kind = "create" /\ NewCall.id = NoId
BY DomainsConstants DEF NewCall, Call

ForHost(w, h) == [NewCall EXCEPT !.phase = "sent", !.ws = w, !.host = h]

ForRow(k, w, i) == [NewCall EXCEPT !.phase = "sent", !.kind = k, !.ws = w, !.id = i]

LEMMA MadeForHost ==
    ASSUME NEW w \in Workspaces, NEW h \in Hosts
    PROVE  /\ ForHost(w, h) \in Call /\ GoodCall(ForHost(w, h), dns)
           /\ ForHost(w, h).phase = "sent" /\ ForHost(w, h).ws = w
           /\ ForHost(w, h).id = NoId
<1>. DEFINE f == ForHost(w, h)
<1>1. /\ f \in Call /\ f.phase = "sent" /\ f.kind = "create" /\ f.ws = w
      /\ f.id = NoId /\ f.host = h
  BY NewFields DEF Call, ForHost
<1>. QED  BY <1>1 DEF GoodCall

LEMMA MadeForRow ==
    ASSUME NEW k \in {"verify", "remove"}, NEW w \in Workspaces, NEW i \in Ids
    PROVE  /\ ForRow(k, w, i) \in Call /\ GoodCall(ForRow(k, w, i), dns)
           /\ ForRow(k, w, i).phase = "sent" /\ ForRow(k, w, i).ws = w
           /\ ForRow(k, w, i).id = i
<1>. DEFINE f == ForRow(k, w, i)
<1>1. /\ f \in Call /\ f.phase = "sent" /\ f.kind = k /\ f.ws = w /\ f.id = i
  BY NewFields DEF Call, ForRow
<1>. QED  BY <1>1 DEF GoodCall

LEMMA Begins ==
    ASSUME IInv, NEW c \in Calls, NEW f \in Call, GoodCall(f, dns), f.phase = "sent",
           Begin(c, f)
    PROVE  IInv'
<1>1. call' = [call EXCEPT ![c] = f] /\ UNCHANGED <<server, dns, tab, visit>>
  BY DEF Begin
<1>2. GoodCall(f, dns')  BY <1>1 DEF GoodCall
<1>3. PanelInv'  BY <1>1, <1>2, CallGoesOn DEF IInv, server
<1>. QED  BY <1>1, <1>3, OnlyTheCall

-----------------------------------------------------------------------------
(* Rows that go: a visit that found one of them is marked. *)
LEMMA RowsGo ==
    ASSUME IInv, NEW R, R \subseteq rows, rows' = R, alive' \subseteq alive,
           visit' = Overtaken(R), UNCHANGED <<at, time, born, dns>>
    PROVE  ServerInv' /\ visit' \in Visit /\ VisitInv'
<1>1. ServerInv'  BY DEF IInv, ServerInv, RowsInv, OneEach
<1>. DEFINE m == \/ visit.moved
                 \/ /\ visit.phase = "found"
                    /\ \E r \in rows \ R : r.host = visit.host
<1>2. visit \in Visit  BY DEF IInv
<1>3. visit' = [visit EXCEPT !.moved = m]  BY DEF Overtaken
<1>4. m \in BOOLEAN  BY <1>2 DEF Visit
<1>5. visit' \in Visit  BY <1>2, <1>3, <1>4 DEF Visit
<1>6. /\ visit'.phase = visit.phase /\ visit'.ws = visit.ws
      /\ visit'.host = visit.host /\ visit'.moved = m
  BY <1>2, <1>3 DEF Visit
<1>7. VisitInv'
  <2>. SUFFICES ASSUME visit'.phase = "found", ~visit'.moved
                PROVE  \E r \in R : r.ws = visit.ws /\ r.host = visit.host /\ at[r.id] > 0
    BY <1>6 DEF VisitInv
  <2>1. visit.phase = "found" /\ ~visit.moved /\ ~ \E r \in rows \ R : r.host = visit.host
    BY <1>6
  <2>2. PICK r \in rows : r.ws = visit.ws /\ r.host = visit.host /\ at[r.id] > 0
    BY <2>1 DEF IInv, VisitInv
  <2>3. r \in R  BY <2>1, <2>2
  <2>. QED  BY <2>2, <2>3
<1>. QED  BY <1>1, <1>5, <1>7

-----------------------------------------------------------------------------
(* The steps of the server *)

LEMMA CheckCreateInv == ASSUME IInv, NEW c \in Calls, CheckCreate(c) PROVE IInv'
<1>1. /\ call[c].phase = "sent" /\ UNCHANGED <<server, dns, tab, visit>>
      /\ \E p \in {"checked", "done"} : Moves(c, p)
  BY DEF CheckCreate
<1>2. PanelInv'  BY <1>1, CallMoves DEF IInv, server
<1>. QED  BY <1>1, <1>2, OnlyTheCall

LEMMA CheckOwnedInv == ASSUME IInv, NEW c \in Calls, CheckOwned(c) PROVE IInv'
<1>1. call[c].phase = "sent" /\ call[c].kind # "create"
      /\ UNCHANGED <<server, dns, tab, visit>>
  BY DEF CheckOwned
<1>2. CASE Moves(c, "done")
  <2>1. PanelInv'  BY <1>1, <1>2, CallMoves DEF IInv, server
  <2>. QED  BY <1>1, <2>1, OnlyTheCall
<1>3. CASE \E r \in Owned(c) :
              call' = [call EXCEPT ![c].phase = "checked", ![c].host = r.host]
  <2>1. PICK r \in Owned(c) :
              call' = [call EXCEPT ![c].phase = "checked", ![c].host = r.host]
    BY <1>3
  <2>2. r.host \in Hosts  BY DEF IInv, ServerInv, Owned, Row
  <2>3. call[c] \in Call /\ GoodCall(call[c], dns)  BY DEF IInv, PanelInv, CallsInv
  <2>. DEFINE f == [call[c] EXCEPT !.phase = "checked", !.host = r.host]
  <2>4. f \in Call  BY <2>2, <2>3 DEF Call
  <2>5. call' = [call EXCEPT ![c] = f]  BY <2>1 DEF IInv, PanelInv
  <2>6. GoodCall(f, dns')
    <3>1. /\ f.phase = "checked" /\ f.ws = call[c].ws /\ f.id = call[c].id
          /\ f.kind = call[c].kind /\ f.host = r.host
      BY <2>3 DEF Call
    <3>. HIDE DEF f
    <3>. QED  BY <1>1, <2>2, <2>3, <3>1 DEF GoodCall
  <2>7. f.phase = "checked"  BY <2>3 DEF Call
  <2>. HIDE DEF f
  <2>8. PanelInv'  BY <1>1, <2>4, <2>5, <2>6, <2>7, CallGoesOn DEF IInv, server
  <2>. QED  BY <1>1, <2>8, OnlyTheCall
<1>. QED  BY <1>2, <1>3 DEF CheckOwned

(* The date drawn is after all that are stored. *)
LEMMA LookUpInv == ASSUME IInv, NEW c \in Calls, LookUp(c) PROVE IInv'
<1>1. /\ call[c].phase = "checked"
      /\ UNCHANGED <<alive, rows, at, born, dns, tab, visit>>
  BY DEF LookUp
<1>2. CASE Moves(c, "done") /\ UNCHANGED time
  <2>1. PanelInv'  BY <1>1, <1>2, CallMoves DEF IInv
  <2>2. UNCHANGED <<server, dns, tab, visit>>  BY <1>1, <1>2 DEF server
  <2>. QED  BY <2>1, <2>2, OnlyTheCall
<1>3. CASE /\ call[c].id \in dns /\ time < MaxTime
           /\ time' = time + 1
           /\ call' = [call EXCEPT ![c].phase = "proved", ![c].date = time + 1]
  <2>. DEFINE f == [call[c] EXCEPT !.phase = "proved", !.date = time + 1]
  <2>1. MaxTime \in Nat /\ time \in 0 .. MaxTime /\ at \in [Ids -> 0 .. MaxTime]
        /\ \A i \in Ids : at[i] <= time
    BY DomainsConstants DEF IInv, ServerInv, RowsInv
  <2>2. /\ time + 1 \in 0 .. MaxTime /\ 0 < time + 1 /\ time <= time'
        /\ time \in Int /\ time' \in Int
    BY <1>3, <2>1
  <2>3. call[c] \in Call /\ GoodCall(call[c], dns)  BY DEF IInv, PanelInv, CallsInv
  <2>4. f \in Call  BY <2>2, <2>3 DEF Call
  <2>5. /\ f.phase = "proved" /\ f.ws = call[c].ws /\ f.kind = call[c].kind
        /\ f.id = call[c].id /\ f.host = call[c].host /\ f.date = time + 1
    BY <2>3 DEF Call
  <2>6. call' = [call EXCEPT ![c] = f]  BY <1>3 DEF IInv, PanelInv
  <2>. HIDE DEF f
  <2>7. GoodCall(f, dns')  BY <1>1, <1>3, <2>3, <2>5 DEF GoodCall
  <2>8. \A d \in Calls : GoodDate(IF d = c THEN f ELSE call[d], at', time')
    <3>1. GoodDate(f, at, time + 1)
      <4>1. \A i \in Ids : at[i] <= time + 1  BY <2>1
      <4>. QED  BY <2>2, <2>5, <4>1 DEF GoodDate
    <3>2. ASSUME NEW d \in Calls  PROVE GoodDate(call[d], at, time + 1)
      <4>1. GoodDate(call[d], at, time) /\ call[d].date \in Int
        BY DomainsConstants DEF IInv, PanelInv, DatesInv, Call
      <4>. QED  BY <2>1, <4>1 DEF GoodDate
    <3>. QED  BY <1>1, <1>3, <3>1, <3>2
  <2>9. PanelInv'  BY <1>1, <2>4, <2>6, <2>7, <2>8, CallBecomes DEF IInv
  <2>10. ServerInv'
    <3>1. \A i \in Ids : at[i] <= time'  BY <1>3, <2>1
    <3>2. RowsInv'  BY <1>1, <3>1 DEF IInv, ServerInv, RowsInv
    <3>. QED  BY <1>1, <1>3, <2>2, <3>2 DEF IInv, ServerInv, OneEach
  <2>11. ListsInv'  BY <1>1, ListsStay DEF IInv
  <2>12. visit' \in Visit /\ VisitInv'  BY <1>1 DEF IInv, VisitInv
  <2>. QED  BY <2>9, <2>10, <2>11, <2>12 DEF IInv
<1>. QED  BY <1>1, <1>2, <1>3 DEF LookUp

LEMMA InsertInv == ASSUME IInv, NEW c \in Calls, Insert(c) PROVE IInv'
<1>1. /\ call[c].phase = "checked" /\ call[c].kind = "create"
      /\ UNCHANGED <<dns, tab, visit>>
  BY DEF Insert
<1>2. CASE Moves(c, "done") /\ UNCHANGED server
  <2>1. PanelInv'  BY <1>1, <1>2, CallMoves DEF IInv, server
  <2>. QED  BY <1>1, <1>2, <2>1, OnlyTheCall
<1>3. CASE \E i \in Ids \ born :
              /\ call[c].ws \in alive /\ \A r \in rows : r.host # call[c].host
              /\ rows' = rows \cup {[id |-> i, ws |-> call[c].ws, host |-> call[c].host]}
              /\ born' = born \cup {i}
              /\ call' = [call EXCEPT ![c].phase = "ok", ![c].id = i]
              /\ UNCHANGED <<alive, at, time>>
  <2>1. PICK i \in Ids \ born :
              /\ call[c].ws \in alive /\ \A r \in rows : r.host # call[c].host
              /\ rows' = rows \cup {[id |-> i, ws |-> call[c].ws, host |-> call[c].host]}
              /\ born' = born \cup {i}
              /\ call' = [call EXCEPT ![c].phase = "ok", ![c].id = i]
              /\ UNCHANGED <<alive, at, time>>
    BY <1>3
  <2>2. call[c] \in Call /\ GoodCall(call[c], dns)  BY DEF IInv, PanelInv, CallsInv
  <2>3. /\ call[c].host \in Hosts /\ call[c].ws \in Workspaces
        /\ call[c].kind = "create"
    BY <1>1, <2>2 DEF GoodCall
  <2>. DEFINE n == [id |-> i, ws |-> call[c].ws, host |-> call[c].host]
              f == [call[c] EXCEPT !.phase = "ok", !.id = i]
  <2>4. n \in Row /\ n.id = i /\ n.host = call[c].host  BY <2>3 DEF Row
  <2>5. f \in Call  BY <2>2 DEF Call
  <2>6. call' = [call EXCEPT ![c] = f]  BY <2>1 DEF IInv, PanelInv
  <2>7. GoodCall(f, dns')
    <3>1. f.phase = "ok" /\ f.ws = call[c].ws /\ f.id = i /\ f.kind = call[c].kind
          /\ f.host = call[c].host
      BY <2>2 DEF Call
    <3>. HIDE DEF f
    <3>. QED  BY <2>3, <3>1 DEF GoodCall
  <2>8. rows' = rows \cup {n}  BY <2>1
  <2>. HIDE DEF f, n
  <2>15. f.phase = "ok"  BY <2>2 DEF f, Call
  <2>9. PanelInv'  BY <1>1, <2>1, <2>5, <2>6, <2>7, <2>15, CallGoesOn DEF IInv
  <2>10. ServerInv /\ \A r \in rows : r.id \in born  BY DEF IInv, ServerInv, RowsInv
  <2>11. OneEach(rows')
    <3>1. OneEach(rows)  BY <2>10 DEF ServerInv
    <3>2. \A r \in rows : r.id # n.id /\ r.host # n.host
      BY <2>1, <2>4, <2>10
    <3>. QED  BY <2>8, <3>1, <3>2 DEF OneEach
  <2>12. ServerInv'
    <3>1. RowsInv  BY <2>10 DEF ServerInv
    <3>2. RowsInv'  BY <1>1, <2>1, <2>4, <2>8, <3>1 DEF RowsInv
    <3>. QED  BY <1>1, <2>1, <2>4, <2>8, <2>10, <2>11, <3>2 DEF ServerInv
  <2>13. ListsInv'  BY <1>1, ListsStay DEF IInv
  <2>14. visit' \in Visit /\ VisitInv'
    <3>1. UNCHANGED visit /\ UNCHANGED at /\ rows \subseteq rows'
      BY <1>1, <2>1, <2>8
    <3>2. visit \in Visit /\ VisitInv  BY DEF IInv
    <3>. QED  BY <3>1, <3>2 DEF VisitInv
  <2>. QED  BY <2>9, <2>12, <2>13, <2>14 DEF IInv
<1>. QED  BY <1>2, <1>3 DEF Insert

(* What an update of verifiedAt leaves: no other time than the one drawn.   *)
LEMMA MarkTimes ==
    ASSUME IInv, NEW c \in Calls, Mark(c)
    PROVE  /\ at' \in [Ids -> 0 .. MaxTime]
           /\ \A i \in Ids : at'[i] <= time
           /\ \A i \in Ids : \/ at'[i] = at[i]
                             \/ at'[i] = call[c].date /\ i = call[c].id
           /\ \A i \in Ids : at[i] > 0 => at'[i] > 0
           /\ \A i \in Ids : at'[i] > 0 => i \in dns /\ i \in born
           /\ call[c].date \in 0 .. MaxTime /\ 0 < call[c].date
           /\ \A i \in Ids : at[i] <= call[c].date \/ i \in call[c].over
           /\ \/ UNCHANGED at /\ Moves(c, "done")
              \/ call[c].id \in Ids /\ call' = Committed(c)
<1>1. /\ at \in [Ids -> 0 .. MaxTime] /\ time \in 0 .. MaxTime
      /\ rows \subseteq Row /\ RowsInv
  BY DEF IInv, ServerInv
<1>2. MaxTime \in Nat  BY DomainsConstants
<1>3. /\ call[c].phase = "proved"
      /\ at' = [i \in Ids |-> IF \E r \in Marked(c) : r.id = i THEN call[c].date ELSE at[i]]
  BY DEF Mark
<1>4. /\ call[c] \in Call /\ GoodCall(call[c], dns) /\ GoodDate(call[c], at, time)
  BY DEF IInv, PanelInv, CallsInv, DatesInv
<1>5. call[c].id \in dns  BY <1>3, <1>4 DEF GoodCall
<1>6. /\ call[c].date \in 0 .. MaxTime /\ 0 < call[c].date /\ call[c].date <= time
      /\ \A i \in Ids : at[i] <= call[c].date \/ i \in call[c].over
  BY <1>3, <1>4 DEF GoodDate, Call
<1>7. \A r \in Marked(c) : r.id = call[c].id /\ r.id \in Ids /\ r.id \in born
  BY <1>1 DEF Marked, Row, RowsInv
<1>8. at' \in [Ids -> 0 .. MaxTime]  BY <1>1, <1>3, <1>6
<1>9. \A i \in Ids : \/ at'[i] = at[i]
                     \/ at'[i] = call[c].date /\ i = call[c].id /\ i \in born
  BY <1>3, <1>7
<1>10. \A i \in Ids : at[i] \in Int /\ 0 <= at[i] /\ at[i] <= time
  BY <1>1, <1>2 DEF RowsInv
<1>11. \A i \in Ids : at'[i] <= time  BY <1>6, <1>9, <1>10
<1>12. \A i \in Ids : at[i] > 0 => at'[i] > 0  BY <1>6, <1>9
<1>13. \A i \in Ids : at'[i] > 0 => i \in dns /\ i \in born
  BY <1>1, <1>5, <1>9 DEF RowsInv
<1>14. CASE Marked(c) = {}
  <2>1. at' = [i \in Ids |-> at[i]]  BY <1>3, <1>14
  <2>2. UNCHANGED at /\ Moves(c, "done")  BY <1>1, <1>14, <2>1 DEF Mark
  <2>. QED  BY <1>6, <1>8, <1>9, <1>11, <1>12, <1>13, <2>2
<1>15. CASE Marked(c) # {}
  <2>1. call' = Committed(c)  BY <1>15 DEF Mark
  <2>2. call[c].id \in Ids  BY <1>7, <1>15
  <2>. QED  BY <1>6, <1>8, <1>9, <1>11, <1>12, <1>13, <2>1, <2>2
<1>. QED  BY <1>14, <1>15

(* The calls after an update: all as they were, but for what they note.     *)
LEMMA CommittedCalls ==
    ASSUME call \in [Calls -> Call], NEW c \in Calls, call[c].id \in Ids,
           call' = Committed(c)
    PROVE  /\ call' \in [Calls -> Call]
           /\ \A d \in Calls :
                  /\ call'[d].kind = call[d].kind /\ call'[d].ws = call[d].ws
                  /\ call'[d].id = call[d].id /\ call'[d].host = call[d].host
                  /\ call'[d].date = call[d].date
                  /\ call'[d].phase = IF d = c THEN "ok" ELSE call[d].phase
                  /\ d # c /\ call[d].phase = "proved" =>
                         call'[d].over = call[d].over \cup {call[c].id}
<1>1. ASSUME NEW d \in Calls
      PROVE  /\ call'[d] \in Call
             /\ call'[d].kind = call[d].kind /\ call'[d].ws = call[d].ws
             /\ call'[d].id = call[d].id /\ call'[d].host = call[d].host
             /\ call'[d].date = call[d].date
             /\ call'[d].phase = IF d = c THEN "ok" ELSE call[d].phase
             /\ d # c /\ call[d].phase = "proved" =>
                    call'[d].over = call[d].over \cup {call[c].id}
  <2>0. call[d] \in Call  OBVIOUS
  <2>1. CASE d = c
    <3>1. call'[d] = [call[d] EXCEPT !.phase = "ok"]  BY <2>1 DEF Committed
    <3>. QED  BY <2>0, <2>1, <3>1 DEF Call
  <2>2. CASE d # c /\ call[d].phase = "proved"
    <3>1. call'[d] = [call[d] EXCEPT !.over = call[d].over \cup {call[c].id}]
      BY <2>2 DEF Committed
    <3>2. call[d].over \cup {call[c].id} \in SUBSET Ids  BY <2>0 DEF Call
    <3>. QED  BY <2>0, <2>2, <3>1, <3>2 DEF Call
  <2>3. CASE d # c /\ call[d].phase # "proved"
    <3>1. call'[d] = call[d]  BY <2>3 DEF Committed
    <3>. QED  BY <2>0, <2>3, <3>1
  <2>. QED  BY <2>1, <2>2, <2>3
<1>2. call' = [d \in Calls |-> call'[d]]  BY DEF Committed
<1>3. call' \in [Calls -> Call]  BY <1>1, <1>2
<1>. QED  BY <1>1, <1>3

(* Those that have drawn their date note what was marked. *)
LEMMA CommittedInv ==
    ASSUME IInv, NEW c \in Calls, Mark(c), call[c].id \in Ids, call' = Committed(c)
    PROVE  PanelInv'
<1>1. /\ call \in [Calls -> Call] /\ CallsInv /\ DatesInv
      /\ call[c].phase = "proved" /\ UNCHANGED <<dns, time>>
  BY DEF IInv, PanelInv, Mark
<1>2. call' \in [Calls -> Call]  BY <1>1, CommittedCalls
<1>3. ASSUME NEW d \in Calls
      PROVE  GoodCall(call'[d], dns') /\ GoodDate(call'[d], at', time')
  <2>1. /\ call'[d].kind = call[d].kind /\ call'[d].ws = call[d].ws
        /\ call'[d].id = call[d].id /\ call'[d].host = call[d].host
        /\ call'[d].date = call[d].date
        /\ call'[d].phase = IF d = c THEN "ok" ELSE call[d].phase
        /\ d # c /\ call[d].phase = "proved" =>
               call'[d].over = call[d].over \cup {call[c].id}
    BY <1>1, CommittedCalls
  <2>2. GoodCall(call[d], dns) /\ GoodDate(call[d], at, time)
    BY <1>1 DEF CallsInv, DatesInv
  <2>3. GoodCall(call'[d], dns')
    BY <1>1, <2>1, <2>2 DEF GoodCall
  <2>4. GoodDate(call'[d], at', time')
    <3>. SUFFICES ASSUME call'[d].phase = "proved"
                  PROVE  /\ 0 < call'[d].date /\ call'[d].date <= time
                         /\ \A i \in Ids : at'[i] <= call'[d].date \/ i \in call'[d].over
      BY <1>1 DEF GoodDate
    <3>1. d # c /\ call[d].phase = "proved"  BY <2>1
    <3>2. /\ 0 < call[d].date /\ call[d].date <= time
          /\ \A i \in Ids : at[i] <= call[d].date \/ i \in call[d].over
      BY <2>2, <3>1 DEF GoodDate
    <3>3. \A i \in Ids : at'[i] = at[i] \/ i = call[c].id  BY MarkTimes
    <3>. QED  BY <2>1, <3>1, <3>2, <3>3
  <2>. QED  BY <2>3, <2>4
<1>. QED  BY <1>2, <1>3 DEF PanelInv, CallsInv, DatesInv

LEMMA MarkInv == ASSUME IInv, NEW c \in Calls, Mark(c) PROVE IInv'
<1>1. /\ call[c].phase = "proved"
      /\ UNCHANGED <<alive, rows, time, born, dns, tab, visit>>
  BY DEF Mark
<1>2. PanelInv'
  <2>1. CASE UNCHANGED at /\ Moves(c, "done")
    BY <1>1, <2>1, CallMoves DEF IInv
  <2>2. CASE call[c].id \in Ids /\ call' = Committed(c)
    BY <2>2, CommittedInv
  <2>. QED  BY <2>1, <2>2, MarkTimes
<1>3. ServerInv'
  <2>1. ServerInv /\ RowsInv  BY DEF IInv, ServerInv
  <2>2. RowsInv'  BY <1>1, <2>1, MarkTimes DEF RowsInv
  <2>. QED  BY <1>1, <2>1, <2>2, MarkTimes DEF ServerInv, OneEach
<1>4. ListsInv'  BY <1>1, ListsStay DEF IInv
<1>5. visit' \in Visit /\ VisitInv'
  <2>1. visit \in Visit /\ VisitInv /\ rows \subseteq Row  BY DEF IInv, ServerInv
  <2>2. \A r \in rows : at[r.id] > 0 => at'[r.id] > 0
    <3>1. \A r \in rows : r.id \in Ids  BY <2>1 DEF Row
    <3>. QED  BY <3>1, MarkTimes
  <2>. QED  BY <1>1, <2>1, <2>2 DEF VisitInv
<1>. QED  BY <1>2, <1>3, <1>4, <1>5 DEF IInv

LEMMA DeleteInv == ASSUME IInv, NEW c \in Calls, Delete(c) PROVE IInv'
<1>. DEFINE R == {r \in rows : r.id # call[c].id}
<1>1. /\ call[c].phase = "checked" /\ call[c].kind = "remove"
      /\ R \subseteq rows /\ rows' = R /\ visit' = Overtaken(R)
      /\ UNCHANGED <<alive, at, time, born, dns, tab>>
      /\ Moves(c, "done") \/ Moves(c, "ok")
  BY DEF Delete
<1>. HIDE DEF R
<1>2. PanelInv'
  <2>1. call[c].id \in Ids  BY <1>1 DEF IInv, PanelInv, CallsInv, GoodCall
  <2>. QED  BY <1>1, <2>1, CallMoves DEF IInv
<1>3. ListsInv'  BY <1>1, ListsStay DEF IInv
<1>. QED  BY <1>1, <1>2, <1>3, RowsGo DEF IInv

LEMMA RemoveWorkspaceInv ==
    ASSUME IInv, NEW w \in Workspaces, RemoveWorkspace(w) PROVE IInv'
<1>. DEFINE R == {r \in rows : r.ws # w}
<1>1. /\ R \subseteq rows /\ rows' = R /\ visit' = Overtaken(R) /\ alive' \subseteq alive
      /\ UNCHANGED <<at, time, born, dns, tab>> /\ UNCHANGED call
  BY DEF RemoveWorkspace
<1>. HIDE DEF R
<1>2. PanelInv'  BY <1>1 DEF IInv, PanelInv, CallsInv, DatesInv, GoodDate
<1>3. ListsInv'  BY <1>1, ListsStay DEF IInv
<1>. QED  BY <1>1, <1>2, <1>3, RowsGo DEF IInv

LEMMA PublishInv == ASSUME IInv, NEW i \in Ids, Publish(i) PROVE IInv'
<1>1. dns' = dns \cup {i} /\ UNCHANGED <<server, call, tab, visit>>
  BY DEF Publish
<1>2. ServerInv'  BY <1>1 DEF IInv, ServerInv, RowsInv, server, OneEach
<1>3. PanelInv'
  BY <1>1 DEF IInv, PanelInv, CallsInv, GoodCall, DatesInv, GoodDate, server
<1>4. ListsInv'  BY <1>1, ListsStay DEF IInv
<1>5. visit' \in Visit /\ VisitInv'
  BY <1>1, VisitStays DEF IInv
<1>. QED  BY <1>2, <1>3, <1>4, <1>5 DEF IInv

-----------------------------------------------------------------------------
(* The steps of the panel and of a visit *)

(* An answer changes the list of the workspace it was asked for.            *)
LEMMA AnswerLists ==
    ASSUME IInv, NEW c \in Calls, call[c].phase = "ok",
           NEW I \in SUBSET Item, \A x \in I : x.ws = call[c].ws
    PROVE  /\ UpdatedItems(c, I) \subseteq Item
           /\ \A x \in UpdatedItems(c, I) : x.ws = call[c].ws
<1>1. /\ call[c] \in Call /\ call[c].id \in Ids /\ call[c].ws \in Workspaces
  BY DEF IInv, PanelInv, CallsInv, GoodCall
<1>2. call[c].kind \in {"create", "verify", "remove"}  BY <1>1 DEF Call
<1>3. CASE call[c].kind = "create"
  <2>. DEFINE n == [id |-> call[c].id, ws |-> call[c].ws, verified |-> FALSE]
  <2>1. n \in Item /\ n.ws = call[c].ws  BY <1>1 DEF Item
  <2>2. UpdatedItems(c, I) = I \cup {n}  BY <1>3 DEF UpdatedItems
  <2>. HIDE DEF n
  <2>. QED  BY <2>1, <2>2
<1>4. CASE call[c].kind = "verify"
  <2>1. UpdatedItems(c, I) =
          {IF x.id = call[c].id THEN [x EXCEPT !.verified = TRUE] ELSE x : x \in I}
    BY <1>4 DEF UpdatedItems
  <2>2. \A x \in Item : [x EXCEPT !.verified = TRUE] \in Item
                       /\ [x EXCEPT !.verified = TRUE].ws = x.ws
    BY DEF Item
  <2>. QED  BY <2>1, <2>2
<1>5. CASE call[c].kind = "remove"
  BY <1>5 DEF UpdatedItems
<1>. QED  BY <1>2, <1>3, <1>4, <1>5

LEMMA AnswerInv == ASSUME IInv, NEW c \in Calls, Answer(c) PROVE IInv'
<1>1. /\ call[c].phase = "ok" /\ Moves(c, "done") /\ told' = News(c)
      /\ UNCHANGED <<server, dns, visit, current>>
  BY DEF Answer
<1>2. call[c] \in Call /\ call[c].ws \in Workspaces /\ call[c].id \in Ids
  BY <1>1 DEF IInv, PanelInv, CallsInv, GoodCall
<1>3. PanelInv'  BY <1>1, <1>2, CallMoves DEF IInv, server
<1>. DEFINE w == call[c].ws
            n == UpdatedItems(c, cache[w].items)
            e == [empty |-> FALSE, items |-> n]
            l == (fetch[w].phase # "none")
<1>4. ListsInv  BY DEF IInv
<1>5. /\ cache[w].items \subseteq Item
      /\ \A x \in cache[w].items : x.ws = w
  BY <1>2, <1>4 DEF ListsInv, Cached, NothingCrossesOver
<1>6. n \subseteq Item /\ \A x \in n : x.ws = w
  BY <1>1, <1>5, AnswerLists
<1>7. e \in Cached /\ e.items = n  BY <1>6 DEF Cached
<1>8. /\ cache' = [cache EXCEPT ![w] = e]
      /\ fetch' = [fetch EXCEPT ![w].late = l]
  BY DEF Answer, List
<1>9. l \in BOOLEAN  OBVIOUS
<1>10. told' \in Told
  <2>1. /\ told \in Told  BY <1>4 DEF ListsInv
  <2>. QED  BY <1>1, <1>2, <2>1 DEF News, Told
<1>. HIDE DEF e, l, n
<1>11. cache' \in [Workspaces -> Cached] /\ current' \in Workspaces
  BY <1>1, <1>2, <1>4, <1>7, <1>8 DEF ListsInv
<1>12. \A v \in Workspaces : cache'[v] = IF v = w THEN e ELSE cache[v]
  BY <1>4, <1>8 DEF ListsInv
<1>13. fetch' = [fetch EXCEPT ![w] = [fetch[w] EXCEPT !.late = l]]
  BY <1>2, <1>4, <1>8 DEF ListsInv
<1>14. /\ fetch[w] \in Fetch
       /\ [fetch[w] EXCEPT !.late = l] \in Fetch
       /\ [fetch[w] EXCEPT !.late = l].items = fetch[w].items
  BY <1>2, <1>4, <1>9 DEF ListsInv, Fetch
<1>15. /\ fetch' \in [Workspaces -> Fetch]
       /\ \A v \in Workspaces : fetch'[v].items = fetch[v].items
  BY <1>2, <1>4, <1>13, <1>14 DEF ListsInv
<1>16. NothingCrossesOver'
  <2>1. \A v \in Workspaces : \A x \in cache[v].items \cup fetch[v].items : x.ws = v
    BY <1>4 DEF ListsInv, NothingCrossesOver
  <2>2. \A v \in Workspaces : \A x \in cache'[v].items : x.ws = v
    BY <1>6, <1>7, <1>12, <2>1
  <2>. QED  BY <1>15, <2>1, <2>2 DEF NothingCrossesOver
<1>17. ListsInv'  BY <1>10, <1>11, <1>15, <1>16 DEF ListsInv
<1>18. ServerInv'  BY <1>1, ServerStays DEF IInv
<1>19. visit' \in Visit /\ VisitInv'  BY <1>1, VisitStays DEF IInv
<1>. QED  BY <1>3, <1>17, <1>18, <1>19 DEF IInv

(* A step that changes lists only. *)
LEMMA OnlyTheLists ==
    ASSUME IInv, ListsInv', UNCHANGED <<server, dns, call, visit>>
    PROVE  IInv'
<1>1. UNCHANGED <<server, dns>> /\ UNCHANGED <<server, visit>>  OBVIOUS
<1>2. PanelInv'  BY DEF IInv, PanelInv, CallsInv, DatesInv, GoodDate, server
<1>. QED  BY <1>1, <1>2, ServerStays, VisitStays DEF IInv

(* A fetch that changes to f. *)
LEMMA FetchGoesOn ==
    ASSUME ListsInv, NEW w \in Workspaces, NEW f \in Fetch, \A x \in f.items : x.ws = w,
           fetch' = [fetch EXCEPT ![w] = f], UNCHANGED <<current, cache, told>>
    PROVE  ListsInv'
<1>1. \A v \in Workspaces : fetch'[v] = IF v = w THEN f ELSE fetch[v]
  BY DEF ListsInv
<1>2. NothingCrossesOver'
  BY <1>1 DEF ListsInv, NothingCrossesOver
<1>. QED  BY <1>2 DEF ListsInv

LEMMA LoadInv == ASSUME IInv, Load PROVE IInv'
<1>. DEFINE f == [NoFetch EXCEPT !.phase = "sent"]
<1>1. f \in Fetch /\ f.items = {}  BY DEF NoFetch, Fetch
<1>2. /\ fetch' = [fetch EXCEPT ![current] = f]
      /\ UNCHANGED <<server, dns, call, current, cache, told, visit>>
  BY DEF Load
<1>. HIDE DEF f
<1>3. ListsInv /\ current \in Workspaces  BY DEF IInv, ListsInv
<1>4. ListsInv'  BY <1>1, <1>2, <1>3, FetchGoesOn
<1>. QED  BY <1>2, <1>4, OnlyTheLists

LEMMA SelectInv == ASSUME IInv, NEW w \in Workspaces, Select(w) PROVE IInv'
<1>1. /\ current' = w
      /\ UNCHANGED <<server, dns, call, cache, fetch, told, visit>>
  BY DEF Select
<1>2. ListsInv'  BY <1>1 DEF IInv, ListsInv, NothingCrossesOver
<1>. QED  BY <1>1, <1>2, OnlyTheLists

LEMMA ServeListInv == ASSUME IInv, NEW w \in Workspaces, ServeList(w) PROVE IInv'
<1>1. /\ UNCHANGED <<server, dns, call, current, cache, told, visit>>
      /\ \/ fetch' = [fetch EXCEPT ![w] = [fetch[w] EXCEPT !.phase = "served",
                                                        !.items = Listed(w)]]
         \/ fetch' = [fetch EXCEPT ![w] = NoFetch]
  BY DEF ServeList
<1>2. ListsInv  BY DEF IInv
<1>3. Listed(w) \subseteq Item /\ \A x \in Listed(w) : x.ws = w
  <2>1. rows \subseteq Row  BY DEF IInv, ServerInv
  <2>2. \A r \in rows : r.id \in Ids /\ r.ws \in Workspaces  BY <2>1 DEF Row
  <2>. SUFFICES ASSUME NEW x \in Listed(w) PROVE x \in Item /\ x.ws = w  OBVIOUS
  <2>3. PICK r \in rows :
          r.ws = w /\ x = [id |-> r.id, ws |-> r.ws, verified |-> at[r.id] > 0]
    BY DEF Listed
  <2>4. CASE at[r.id] > 0
    <3>1. x = [id |-> r.id, ws |-> r.ws, verified |-> TRUE]  BY <2>3, <2>4
    <3>. QED  BY <2>2, <2>3, <3>1 DEF Item
  <2>5. CASE ~(at[r.id] > 0)
    <3>2. (at[r.id] > 0) = FALSE  BY <2>5
    <3>1. x = [id |-> r.id, ws |-> r.ws, verified |-> FALSE]  BY <2>3, <3>2, Zenon
    <3>. QED  BY <2>2, <2>3, <3>1 DEF Item
  <2>. QED  BY <2>4, <2>5
<1>4. CASE fetch' = [fetch EXCEPT ![w] = NoFetch]
  <2>1. NoFetch \in Fetch /\ NoFetch.items = {}  BY DEF NoFetch, Fetch
  <2>2. ListsInv'  BY <1>1, <1>2, <1>4, <2>1, FetchGoesOn
  <2>. QED  BY <1>1, <2>2, OnlyTheLists
<1>5. CASE fetch' = [fetch EXCEPT ![w] = [fetch[w] EXCEPT !.phase = "served",
                                                        !.items = Listed(w)]]
  <2>. DEFINE f == [fetch[w] EXCEPT !.phase = "served", !.items = Listed(w)]
  <2>1. fetch[w] \in Fetch  BY <1>2 DEF ListsInv
  <2>2. f \in Fetch /\ f.items = Listed(w)  BY <1>3, <2>1 DEF Fetch
  <2>3. fetch' = [fetch EXCEPT ![w] = f]  BY <1>5
  <2>. HIDE DEF f
  <2>4. \A x \in f.items : x.ws = w  BY <1>3, <2>2
  <2>5. ListsInv'  BY <1>1, <1>2, <2>2, <2>3, <2>4, FetchGoesOn
  <2>. QED  BY <1>1, <2>5, OnlyTheLists
<1>. QED  BY <1>1, <1>4, <1>5

LEMMA ListArrivesInv == ASSUME IInv, NEW w \in Workspaces, ListArrives(w) PROVE IInv'
<1>1. /\ fetch' = [fetch EXCEPT ![w] = NoFetch]
      /\ UNCHANGED <<server, dns, call, current, visit>>
  BY DEF ListArrives
<1>2. ListsInv  BY DEF IInv
<1>3. NoFetch \in Fetch /\ NoFetch.items = {}  BY DEF NoFetch, Fetch
<1>4. CASE UNCHANGED <<cache, told>>
  <2>1. ListsInv'  BY <1>1, <1>2, <1>3, <1>4, FetchGoesOn
  <2>. QED  BY <1>1, <2>1, OnlyTheLists
<1>5. CASE /\ cache' = [cache EXCEPT ![w] = [empty |-> FALSE, items |-> fetch[w].items]]
           /\ told' = [told EXCEPT !.late = IF fetch[w].late THEN told.late \cup {w}
                                              ELSE told.late \ {w}]
  <2>. DEFINE e == [empty |-> FALSE, items |-> fetch[w].items]
  <2>1. /\ fetch[w].items \subseteq Item
        /\ \A x \in fetch[w].items : x.ws = w
    BY <1>2 DEF ListsInv, Fetch, NothingCrossesOver
  <2>2. e \in Cached /\ e.items = fetch[w].items  BY <2>1 DEF Cached
  <2>3. cache' = [cache EXCEPT ![w] = e]  BY <1>5
  <2>. HIDE DEF e
  <2>4. /\ cache' \in [Workspaces -> Cached] /\ fetch' \in [Workspaces -> Fetch]
        /\ current' \in Workspaces
    BY <1>1, <1>2, <1>3, <2>2, <2>3 DEF ListsInv
  <2>5. told' \in Told  BY <1>2, <1>5 DEF ListsInv, Told
  <2>6. \A v \in Workspaces : /\ cache'[v] = IF v = w THEN e ELSE cache[v]
                             /\ fetch'[v] = IF v = w THEN NoFetch ELSE fetch[v]
    BY <1>1, <1>2, <2>3 DEF ListsInv
  <2>7. NothingCrossesOver'
    <3>1. \A v \in Workspaces : \A x \in cache[v].items \cup fetch[v].items : x.ws = v
      BY <1>2 DEF ListsInv, NothingCrossesOver
    <3>2. \A v \in Workspaces : \A x \in cache'[v].items \cup fetch'[v].items : x.ws = v
      BY <1>3, <2>1, <2>2, <2>6, <3>1
    <3>. QED  BY <3>2 DEF NothingCrossesOver
  <2>8. ListsInv'  BY <2>4, <2>5, <2>7 DEF ListsInv
  <2>. QED  BY <1>1, <2>8, OnlyTheLists
<1>. QED  BY <1>4, <1>5 DEF ListArrives

(* A step of a visit. *)
LEMMA OnlyTheVisit ==
    ASSUME IInv, visit' \in Visit, VisitInv', UNCHANGED <<server, dns, call, tab>>
    PROVE  IInv'
<1>1. UNCHANGED <<server, dns>> /\ UNCHANGED tab /\ UNCHANGED call  OBVIOUS
<1>2. PanelInv'  BY <1>1 DEF IInv, PanelInv, CallsInv, DatesInv, GoodDate, server
<1>. QED  BY <1>1, <1>2, ServerStays, ListsStay DEF IInv

LEMMA ResolveInv == ASSUME IInv, NEW h \in Hosts, Resolve(h) PROVE IInv'
<1>1. UNCHANGED <<server, dns, call, tab>> /\ UNCHANGED <<rows, at>>
  BY DEF Resolve, server
<1>2. visit \in Visit  BY DEF IInv
<1>3. CASE visit' = [visit EXCEPT !.phase = "refused", !.host = h]
  <2>1. visit' \in Visit /\ visit'.phase = "refused"  BY <1>2, <1>3 DEF Visit
  <2>2. VisitInv'  BY <2>1 DEF VisitInv
  <2>. QED  BY <1>1, <2>1, <2>2, OnlyTheVisit
<1>4. CASE \E r \in Resolved(h) :
              visit' = [visit EXCEPT !.phase = "found", !.host = h, !.ws = r.ws]
  <2>1. PICK r \in Resolved(h) :
              visit' = [visit EXCEPT !.phase = "found", !.host = h, !.ws = r.ws]
    BY <1>4
  <2>2. r \in rows /\ r.host = h /\ at[r.id] > 0  BY DEF Resolved
  <2>3. r.ws \in Workspaces  BY <2>2 DEF IInv, ServerInv, Row
  <2>4. visit' \in Visit /\ visit'.ws = r.ws /\ visit'.host = h
    BY <1>2, <2>1, <2>3 DEF Visit
  <2>5. VisitInv'  BY <1>1, <2>2, <2>4 DEF VisitInv
  <2>. QED  BY <1>1, <2>4, <2>5, OnlyTheVisit
<1>. QED  BY <1>3, <1>4 DEF Resolve

LEMMA OpenInv == ASSUME IInv, NEW w \in Workspaces, Open(w) PROVE IInv'
<1>1. UNCHANGED <<server, dns, call, tab>>  BY DEF Open
<1>2. visit \in Visit  BY DEF IInv
<1>3. visit' \in Visit /\ visit'.phase # "found"
  BY <1>2 DEF Open, Visit
<1>4. VisitInv'  BY <1>3 DEF VisitInv
<1>. QED  BY <1>1, <1>3, <1>4, OnlyTheVisit

-----------------------------------------------------------------------------
LEMMA CallStepInv == ASSUME IInv, NEW c \in Calls, Step(c) PROVE IInv'
<1>1. current \in Workspaces  BY DEF IInv, ListsInv
<1>2. ASSUME NEW h \in Hosts, Create(c, h)  PROVE IInv'
  <2>. DEFINE f == ForHost(current, h)
  <2>1. Begin(c, f)  BY <1>2 DEF Create, ForHost
  <2>2. f \in Call /\ GoodCall(f, dns) /\ f.phase = "sent"
    BY <1>1, MadeForHost
  <2>. HIDE DEF f
  <2>. QED  BY <2>1, <2>2, Begins
<1>3. ASSUME NEW x \in Item, Verify(c, x)  PROVE IInv'
  <2>. DEFINE f == ForRow("verify", current, x.id)
  <2>1. x.id \in Ids  BY DEF Item
  <2>2. Begin(c, f)  BY <1>3 DEF Verify, ForRow
  <2>3. f \in Call /\ GoodCall(f, dns) /\ f.phase = "sent"
    BY <1>1, <2>1, MadeForRow
  <2>. HIDE DEF f
  <2>. QED  BY <2>2, <2>3, Begins
<1>4. ASSUME NEW x \in Item, Remove(c, x)  PROVE IInv'
  <2>. DEFINE f == ForRow("remove", current, x.id)
  <2>1. x.id \in Ids  BY DEF Item
  <2>2. Begin(c, f)  BY <1>4 DEF Remove, ForRow
  <2>3. f \in Call /\ GoodCall(f, dns) /\ f.phase = "sent"
    BY <1>1, <2>1, MadeForRow
  <2>. HIDE DEF f
  <2>. QED  BY <2>2, <2>3, Begins
<1>. QED
  BY <1>2, <1>3, <1>4, CheckCreateInv, CheckOwnedInv, LookUpInv, InsertInv, MarkInv,
     DeleteInv, AnswerInv DEF Step

LEMMA StepInv == IInv /\ [Next]_vars => IInv'
<1>. SUFFICES ASSUME IInv, [Next]_vars PROVE IInv'  OBVIOUS
<1>1. CASE Next
  BY <1>1, CallStepInv, RemoveWorkspaceInv, SelectInv, ServeListInv, ListArrivesInv,
     OpenInv, PublishInv, ResolveInv, LoadInv DEF Next
<1>2. CASE UNCHANGED vars
  <2>1. UNCHANGED <<server, dns, call, tab, visit>>  BY <1>2 DEF vars
  <2>2. UNCHANGED <<server, dns, call, visit>> /\ UNCHANGED tab  BY <2>1
  <2>3. ListsInv'  BY <2>2, ListsStay DEF IInv
  <2>. QED  BY <2>2, <2>3, OnlyTheLists
<1>. QED  BY <1>1, <1>2

THEOREM Invariance == Spec => []IInv
<1>. QED  BY InitInv, StepInv, PTL DEF Spec

(* Every variable keeps its type, and a hostname has one row at most.       *)
THEOREM TypeCorrectness == Spec => []TypeOK
<1>. QED  BY Invariance, InvariantHasTypes, PTL

(* A row is marked verified only when its own token was in its DNS.         *)
THEOREM VerifiedTheorem == Spec => []VerifiedMeansProven
<1>1. IInv => VerifiedMeansProven
  BY DEF IInv, ServerInv, RowsInv, Row, VerifiedMeansProven
<1>. QED  BY Invariance, <1>1, PTL

(* The lists of the panel are never mixed up between workspaces.            *)
THEOREM ListsTheorem == Spec => []NothingCrossesOver
<1>1. IInv => NothingCrossesOver  BY DEF IInv, ListsInv
<1>. QED  BY Invariance, <1>1, PTL

(* A custom hostname opens only links of the workspace that verified it.    *)
THEOREM RedirectTheorem == Spec => RedirectsStayHome
<1>. DEFINE A == visit'.phase = "opened" /\ visit.phase # "opened" =>
                   \/ visit.moved
                   \/ \E r \in Verified(visit'.ws) : r.host = visit.host /\ r.id \in dns
<1>1. IInv /\ [Next]_vars => [A]_vars
  <2>. SUFFICES ASSUME IInv, Next, visit'.phase = "opened", visit.phase # "opened",
                       ~visit.moved
                PROVE  \E r \in Verified(visit'.ws) : r.host = visit.host /\ r.id \in dns
    OBVIOUS
  <2>1. visit \in Visit  BY DEF IInv
  <2>2. PICK w \in Workspaces : Open(w)
    <3>1. ~UNCHANGED visit  OBVIOUS
    <3>2. \A R : Overtaken(R).phase = visit.phase
      BY <2>1 DEF Overtaken, Visit
    <3>3. ASSUME NEW c \in Calls, Step(c)  PROVE FALSE
      <4>1. UNCHANGED visit \/ Delete(c)
        BY <3>3 DEF Step, Create, Verify, Remove, Begin, CheckCreate, CheckOwned, LookUp,
                    Insert, Mark, Answer
      <4>2. Delete(c) => visit'.phase = visit.phase  BY <3>2 DEF Delete
      <4>. QED  BY <3>1, <4>1, <4>2
    <3>4. ASSUME NEW h \in Hosts, Resolve(h)  PROVE FALSE
      BY <3>4, <2>1 DEF Resolve, Visit
    <3>5. ASSUME NEW w \in Workspaces,
                 RemoveWorkspace(w) \/ Select(w) \/ ServeList(w) \/ ListArrives(w)
          PROVE  FALSE
      BY <3>1, <3>2, <3>5 DEF RemoveWorkspace, Select, ServeList, ListArrives
    <3>6. ASSUME NEW i \in Ids, Publish(i)  PROVE FALSE
      BY <3>1, <3>6 DEF Publish
    <3>7. ~Load  BY <3>1 DEF Load
    <3>. QED  BY <3>3, <3>4, <3>5, <3>6, <3>7 DEF Next
  <2>3. visit.phase = "found" /\ w = visit.ws /\ visit'.ws = w
    BY <2>1, <2>2 DEF Open, Visit
  <2>4. PICK r \in rows : r.ws = visit.ws /\ r.host = visit.host /\ at[r.id] > 0
    BY <2>3 DEF IInv, VisitInv
  <2>5. r.id \in dns  BY <2>4 DEF IInv, ServerInv, RowsInv, Row
  <2>6. r \in Verified(visit'.ws)  BY <2>3, <2>4 DEF Verified
  <2>. QED  BY <2>4, <2>5, <2>6
<1>2. [][A]_vars => RedirectsStayHome  BY PTL DEF RedirectsStayHome
<1>. QED  BY Invariance, <1>1, <1>2, PTL DEF Spec

(* The hostname of a workspace's short URLs gives way only to one whose     *)
(* verification drew its date before and was stored after.                  *)
THEOREM BrandTheorem == Spec => BrandHolds
<1>. DEFINE A == \A w \in Workspaces : \A r \in Brand(w) :
                   \/ r \in Brand(w)' \/ r \notin rows' \/ at'[r.id] > at[r.id]
                   \/ \E c \in Calls : Mark(c) /\ r.id \in call[c].over
<1>1. IInv /\ [Next]_vars => [A]_vars
  <2>. SUFFICES ASSUME IInv, Next, NEW w \in Workspaces, NEW r \in Brand(w),
                       r \in rows', ~(at'[r.id] > at[r.id]),
                       \A c \in Calls : Mark(c) => r.id \notin call[c].over
                PROVE  r \in Brand(w)'
    OBVIOUS
  <2>1. /\ r \in rows /\ r.ws = w /\ at[r.id] > 0
        /\ \A s \in rows : s.ws = w /\ at[s.id] > 0 => at[r.id] <= at[s.id]
    BY DEF Brand, Verified
  <2>2. /\ \A i \in Ids : at[i] \in Int /\ at[i] <= time
        /\ time \in Int /\ r.id \in Ids
        /\ \A i \in Ids : at[i] > 0 => i \in born
        /\ rows \subseteq Row
    BY <2>1, DomainsConstants DEF IInv, ServerInv, RowsInv, Row
  <2>3. SUFFICES /\ at'[r.id] = at[r.id]
                 /\ \A s \in rows' : s.ws = w /\ at'[s.id] > 0 => at[r.id] <= at'[s.id]
    BY <2>1, <2>2 DEF Brand, Verified
  <2>4. CASE UNCHANGED at /\ rows' \subseteq rows
    BY <2>1, <2>4
  <2>5. ASSUME NEW c \in Calls, Insert(c)
        PROVE  /\ at'[r.id] = at[r.id]
               /\ \A s \in rows' : s.ws = w /\ at'[s.id] > 0 => at[r.id] <= at'[s.id]
    <3>1. UNCHANGED at /\ \A s \in rows' : s \in rows \/ s.id \in Ids \ born
      BY <2>5 DEF Insert, server
    <3>. QED  BY <2>1, <2>2, <3>1
  <2>6. ASSUME NEW c \in Calls, Mark(c)
        PROVE  /\ at'[r.id] = at[r.id]
               /\ \A s \in rows' : s.ws = w /\ at'[s.id] > 0 => at[r.id] <= at'[s.id]
    <3>1. /\ call[c].date \in Int /\ at[r.id] <= call[c].date
          /\ \A i \in Ids : at'[i] = at[i] \/ at'[i] = call[c].date
      BY <2>2, <2>6, MarkTimes, DomainsConstants
    <3>2. rows' = rows /\ \A s \in rows : s.id \in Ids
      BY <2>2, <2>6 DEF Mark, Row
    <3>. QED  BY <2>1, <2>2, <3>1, <3>2
  <2>7. \/ UNCHANGED at /\ rows' \subseteq rows
        \/ \E c \in Calls : Insert(c) \/ Mark(c)
    <3>1. ASSUME NEW c \in Calls, Step(c)
          PROVE  \/ UNCHANGED at /\ rows' \subseteq rows
                 \/ Insert(c) \/ Mark(c)
      BY <3>1 DEF Step, Create, Verify, Remove, Begin, CheckCreate, CheckOwned, LookUp,
                  Delete, Answer, server
    <3>2. ASSUME NEW v \in Workspaces,
                 RemoveWorkspace(v) \/ Select(v) \/ ServeList(v) \/ ListArrives(v) \/ Open(v)
          PROVE  UNCHANGED at /\ rows' \subseteq rows
      BY <3>2 DEF RemoveWorkspace, Select, ServeList, ListArrives, Open, server
    <3>3. ASSUME NEW i \in Ids, Publish(i)  PROVE UNCHANGED at /\ rows' \subseteq rows
      BY <3>3 DEF Publish, server
    <3>4. ASSUME NEW h \in Hosts, Resolve(h)  PROVE UNCHANGED at /\ rows' \subseteq rows
      BY <3>4 DEF Resolve, server
    <3>5. Load => UNCHANGED at /\ rows' \subseteq rows  BY DEF Load, server
    <3>. QED  BY <3>1, <3>2, <3>3, <3>4, <3>5 DEF Next
  <2>. QED  BY <2>4, <2>5, <2>6, <2>7
<1>2. [][A]_vars => BrandHolds  BY PTL DEF BrandHolds
<1>. QED  BY Invariance, <1>1, <1>2, PTL DEF Spec

(* Both: what a custom hostname opens, and what short URLs name.            *)
THEOREM HostsTheorem == Spec => HostsStayHome
BY RedirectTheorem, BrandTheorem DEF HostsStayHome

-----------------------------------------------------------------------------
(* What the panel was told.  The second invariant: an id belongs to one     *)
(* workspace in all the places that speak of it, an id whose removal went   *)
(* through has no row again, and a list that was served while no answer     *)
(* came in between says what the panel was told.                            *)
Home(i, w) ==
    \/ \E r \in rows : r.id = i /\ r.ws = w
    \/ \E x \in cache[w].items \cup fetch[w].items : x.id = i
    \/ \E c \in Calls : call[c].phase # "new" /\ call[c].id = i /\ call[c].ws = w

OneHome == \A i \in Ids, v \in Workspaces, w \in Workspaces :
               Home(i, v) /\ Home(i, w) => v = w

HomesInv == OneHome /\ \A i \in Ids, w \in Workspaces : Home(i, w) => i \in born

Gone == told.removed \cup
        {call[c].id : c \in {d \in Calls : call[d].phase = "ok" /\ call[d].kind = "remove"}}

GoneInv == \A i \in Gone : i \in born /\ \A r \in rows : r.id # i

KindsInv == \A c \in Calls : call[c].phase = "proved" => call[c].kind = "verify"

(* A set of items for a list of w that says what the panel was told. *)
Agrees(I, w) ==
    /\ \A x \in I : x.id \notin told.removed
    /\ \A r \in rows : r.ws = w /\ r.id \in told.created => \E x \in I : x.id = r.id

\* The same after a step.
AgreesThen(I, w) ==
    /\ \A x \in I : x.id \notin told'.removed
    /\ \A r \in rows' : r.ws = w /\ r.id \in told'.created => \E x \in I : x.id = r.id

FetchInv ==
    \A w \in Workspaces :
        fetch[w].phase = "served" /\ ~fetch[w].late => Agrees(fetch[w].items, w)

CacheInv == \A w \in Workspaces \ told.late : Agrees(cache[w].items, w)

NewsInv == told.created \subseteq born /\ FetchInv /\ CacheInv

ToldInv == HomesInv /\ GoneInv /\ KindsInv /\ NewsInv

LEMMA InitTold == Init => ToldInv
<1>. SUFFICES ASSUME Init PROVE ToldInv  OBVIOUS
<1>1. /\ \A c \in Calls : call[c] = NewCall
      /\ \A w \in Workspaces : cache[w].items = {} /\ fetch[w] = NoFetch
      /\ told = [created |-> {}, removed |-> {}, late |-> {}]
  BY DEF Init
<1>2. OneEach(rows) /\ rows \subseteq Row
  BY DomainsConstants DEF Init
<1>3. \A r \in rows : r.id \in born  BY <1>2 DEF Init, Row
<1>4. \A i \in Ids, w \in Workspaces : Home(i, w) => \E r \in rows : r.id = i /\ r.ws = w
  BY <1>1 DEF Home, NoFetch, NewCall
<1>5. HomesInv  BY <1>2, <1>3, <1>4 DEF HomesInv, OneHome, OneEach
<1>6. Gone = {}  BY <1>1 DEF Gone, NewCall
<1>7. GoneInv /\ KindsInv  BY <1>1, <1>6 DEF GoneInv, KindsInv, NewCall
<1>8. NewsInv  BY <1>1 DEF NewsInv, FetchInv, CacheInv, Agrees, NoFetch
<1>. QED  BY <1>5, <1>7, <1>8 DEF ToldInv

(* Ids stay where they are known. *)
LEMMA HomesStay ==
    ASSUME HomesInv, born \subseteq born',
           \A i \in Ids, w \in Workspaces : Home(i, w)' => Home(i, w)
    PROVE  HomesInv'
<1>1. OneHome'  BY DEF HomesInv, OneHome
<1>2. \A i \in Ids, w \in Workspaces : Home(i, w)' => i \in born'  BY DEF HomesInv
<1>. QED  BY <1>1, <1>2 DEF HomesInv

LEMMA GoneStay ==
    ASSUME GoneInv, born \subseteq born', Gone' \subseteq Gone,
           \A r \in rows' : r \in rows \/ r.id \notin born
    PROVE  GoneInv'
<1>. QED  BY DEF GoneInv

(* What the panel was told, while the server does something. *)
LEMMA NewsStay ==
    ASSUME NewsInv, UNCHANGED <<cache, fetch, told>>, born \subseteq born',
           \A r \in rows' : r \in rows \/ r.id \notin born
    PROVE  NewsInv'
<1>1. ASSUME NEW I, NEW w, Agrees(I, w)  PROVE Agrees(I, w)'
  BY <1>1 DEF Agrees, NewsInv
<1>2. FetchInv'  BY <1>1 DEF NewsInv, FetchInv
<1>3. CacheInv'  BY <1>1 DEF NewsInv, CacheInv
<1>. QED  BY <1>2, <1>3 DEF NewsInv

\* Two calls that differ in what does not matter here.
Alike(f, g) == f.phase = g.phase /\ f.kind = g.kind /\ f.id = g.id /\ f.ws = g.ws

(* A step of the server or of a call, whose rows stay or go. *)
LEMMA QuietStep ==
    ASSUME ToldInv, UNCHANGED <<cache, fetch, told, born>>, rows' \subseteq rows,
           \A c \in Calls :
               \/ Alike(call'[c], call[c])
               \/ /\ call'[c].phase # "new" => \A w \in Workspaces :
                         call'[c].id \in Ids /\ call'[c].ws = w => Home(call'[c].id, w)
                  /\ call'[c].phase = "proved" => call'[c].kind = "verify"
                  /\ call'[c].phase = "ok" /\ call'[c].kind = "remove" =>
                         call'[c].id \in born /\ \A r \in rows' : r.id # call'[c].id
    PROVE  ToldInv'
<1>1. UNCHANGED <<cache, fetch, told>>  OBVIOUS
<1>2. \A i \in Ids, w \in Workspaces : Home(i, w)' => Home(i, w)
  <2>. SUFFICES ASSUME NEW i \in Ids, NEW w \in Workspaces, Home(i, w)'
                PROVE  Home(i, w)
    OBVIOUS
  <2>1. CASE \E r \in rows' : r.id = i /\ r.ws = w  BY <2>1 DEF Home
  <2>2. CASE \E x \in cache'[w].items \cup fetch'[w].items : x.id = i
    BY <1>1, <2>2 DEF Home
  <2>3. CASE \E c \in Calls : call'[c].phase # "new" /\ call'[c].id = i /\ call'[c].ws = w
    <3>1. PICK c \in Calls : call'[c].phase # "new" /\ call'[c].id = i /\ call'[c].ws = w
      BY <2>3
    <3>2. CASE Alike(call'[c], call[c])  BY <3>1, <3>2 DEF Home, Alike
    <3>3. CASE ~Alike(call'[c], call[c])  BY <3>1, <3>3
    <3>. QED  BY <3>2, <3>3
  <2>. QED  BY <2>1, <2>2, <2>3 DEF Home
<1>3. HomesInv'  BY <1>2, HomesStay DEF ToldInv
<1>4. GoneInv'
  <2>. SUFFICES ASSUME NEW i \in Gone'  PROVE i \in born' /\ \A r \in rows' : r.id # i
    BY DEF GoneInv
  <2>1. CASE i \in told'.removed
    BY <1>1, <2>1 DEF ToldInv, GoneInv, Gone
  <2>2. ASSUME NEW c \in Calls, call'[c].phase = "ok", call'[c].kind = "remove",
               i = call'[c].id
        PROVE  i \in born' /\ \A r \in rows' : r.id # i
    <3>1. CASE Alike(call'[c], call[c])
      BY <2>2, <3>1 DEF ToldInv, GoneInv, Gone, Alike
    <3>2. CASE ~Alike(call'[c], call[c])  BY <2>2, <3>2
    <3>. QED  BY <3>1, <3>2
  <2>. QED  BY <2>1, <2>2 DEF Gone
<1>5. KindsInv'  BY DEF ToldInv, KindsInv, Alike
<1>6. NewsInv'  BY NewsStay DEF ToldInv
<1>. QED  BY <1>3, <1>4, <1>5, <1>6 DEF ToldInv

(* A call that goes on, with the id and the workspace that it has. *)
LEMMA QuietCall ==
    ASSUME IInv, ToldInv, NEW c \in Calls, call[c].phase # "new",
           call'[c].phase = "proved" => call[c].kind = "verify",
           call'[c].phase = "ok" /\ call[c].kind = "remove" =>
               \A r \in rows' : r.id # call[c].id,
           \A d \in Calls : d # c => Alike(call'[d], call[d]),
           call'[c].kind = call[c].kind,
           call'[c].id = call[c].id, call'[c].ws = call[c].ws,
           UNCHANGED <<cache, fetch, told, born>>, rows' \subseteq rows
    PROVE  ToldInv'
<1>1. call[c].ws \in Workspaces  BY DEF IInv, PanelInv, CallsInv, GoodCall
<1>2. \A w \in Workspaces : call[c].id \in Ids /\ call[c].ws = w => Home(call[c].id, w)
  BY DEF Home
<1>3. call[c].kind = "remove" => call[c].id \in born
  <2>1. call[c].kind = "remove" => call[c].id \in Ids
    BY DEF IInv, PanelInv, CallsInv, GoodCall
  <2>. QED  BY <1>1, <1>2, <2>1 DEF ToldInv, HomesInv
<1>4. \A d \in Calls :
          \/ Alike(call'[d], call[d])
          \/ /\ call'[d].phase # "new" => \A w \in Workspaces :
                    call'[d].id \in Ids /\ call'[d].ws = w => Home(call'[d].id, w)
             /\ call'[d].phase = "proved" => call'[d].kind = "verify"
             /\ call'[d].phase = "ok" /\ call'[d].kind = "remove" =>
                    call'[d].id \in born /\ \A r \in rows' : r.id # call'[d].id
  <2>. TAKE d \in Calls
  <2>1. CASE d = c  BY <1>2, <1>3, <2>1
  <2>2. CASE d # c  BY <2>2
  <2>. QED  BY <2>1, <2>2
<1>. QED  BY <1>4, QuietStep

LEMMA MovesQuietly ==
    ASSUME IInv, ToldInv, NEW c \in Calls, NEW p, Moves(c, p),
           call[c].phase # "new", p = "proved" => call[c].kind = "verify",
           p = "ok" /\ call[c].kind = "remove" => \A r \in rows' : r.id # call[c].id,
           UNCHANGED <<cache, fetch, told, born>>, rows' \subseteq rows
    PROVE  ToldInv'
<1>1. call \in [Calls -> Call]  BY DEF IInv, PanelInv
<1>2. /\ \A d \in Calls : d # c => call'[d] = call[d]
      /\ call'[c] = [call[c] EXCEPT !.phase = p]
  BY <1>1 DEF Moves
<1>3. /\ call'[c].phase = p /\ call'[c].kind = call[c].kind
      /\ call'[c].id = call[c].id /\ call'[c].ws = call[c].ws
  BY <1>1, <1>2 DEF Call
<1>. QED  BY <1>2, <1>3, QuietCall DEF Alike

-----------------------------------------------------------------------------
LEMMA BeginTold ==
    ASSUME ToldInv, IInv, NEW c \in Calls, NEW f \in Call, Begin(c, f), f.phase = "sent",
           f.ws = current, f.id \in Ids => \E x \in Shown : x.id = f.id
    PROVE  ToldInv'
<1>1. /\ call' = [call EXCEPT ![c] = f] /\ call \in [Calls -> Call]
      /\ UNCHANGED <<cache, fetch, told, born, rows>>
  BY DEF Begin, IInv, PanelInv, tab, server
<1>2. f.id \in Ids => Home(f.id, current)  BY DEF Home, Shown
<1>3. \A d \in Calls : call'[d] = IF d = c THEN f ELSE call[d]  BY <1>1
<1>. QED  BY <1>1, <1>2, <1>3, QuietStep DEF Alike

LEMMA CheckTold ==
    ASSUME IInv, ToldInv, NEW c \in Calls, CheckCreate(c) \/ CheckOwned(c) \/ LookUp(c)
    PROVE  ToldInv'
<1>1. UNCHANGED <<cache, fetch, told, born, rows>>
  BY DEF CheckCreate, CheckOwned, LookUp, tab, server
<1>2. call[c].phase \in {"sent", "checked"}  BY DEF CheckCreate, CheckOwned, LookUp
<1>3. ASSUME NEW p \in {"checked", "done"}, Moves(c, p)  PROVE ToldInv'
  BY <1>1, <1>2, <1>3, MovesQuietly
<1>4. CASE CheckCreate(c)
  BY <1>3, <1>4 DEF CheckCreate
<1>5. CASE LookUp(c)
  <2>1. call[c].kind = "verify" /\ call \in [Calls -> Call]
    BY <1>5 DEF LookUp, IInv, PanelInv
  <2>2. CASE Moves(c, "done")  BY <1>3, <2>2
  <2>3. CASE call' = [call EXCEPT ![c].phase = "proved", ![c].date = time + 1]
    <3>1. /\ \A d \in Calls : d # c => call'[d] = call[d]
          /\ call'[c] = [call[c] EXCEPT !.phase = "proved", !.date = time + 1]
      BY <2>1, <2>3
    <3>2. /\ call'[c].phase = "proved" /\ call'[c].kind = call[c].kind
          /\ call'[c].id = call[c].id /\ call'[c].ws = call[c].ws
      BY <2>1, <3>1 DEF Call
    <3>. QED  BY <1>1, <1>2, <2>1, <3>1, <3>2, QuietCall DEF Alike
  <2>. QED  BY <1>5, <2>2, <2>3 DEF LookUp
<1>6. CASE CheckOwned(c)
  <2>1. CASE Moves(c, "done")  BY <1>3, <2>1
  <2>2. CASE \E r \in Owned(c) :
                 call' = [call EXCEPT ![c].phase = "checked", ![c].host = r.host]
    <3>1. PICK r \in Owned(c) :
                 call' = [call EXCEPT ![c].phase = "checked", ![c].host = r.host]
      BY <2>2
    <3>2. call \in [Calls -> Call]  BY DEF IInv, PanelInv
    <3>3. /\ \A d \in Calls : d # c => call'[d] = call[d]
          /\ call'[c] = [call[c] EXCEPT !.phase = "checked", !.host = r.host]
      BY <3>1, <3>2
    <3>4. /\ call'[c].phase = "checked" /\ call'[c].kind = call[c].kind
          /\ call'[c].id = call[c].id /\ call'[c].ws = call[c].ws
      BY <3>2, <3>3 DEF Call
    <3>. QED  BY <1>1, <1>2, <3>3, <3>4, QuietCall DEF Alike
  <2>. QED  BY <1>6, <2>1, <2>2 DEF CheckOwned
<1>. QED  BY <1>4, <1>5, <1>6

LEMMA InsertTold ==
    ASSUME IInv, ToldInv, NEW c \in Calls, Insert(c)
    PROVE  ToldInv'
<1>1. /\ call[c].phase = "checked" /\ call[c].kind = "create"
      /\ UNCHANGED <<cache, fetch, told>>
  BY DEF Insert, tab
<1>2. CASE Moves(c, "done") /\ UNCHANGED server
  <2>1. UNCHANGED <<born, rows>>  BY <1>2 DEF server
  <2>. QED  BY <1>1, <1>2, <2>1, MovesQuietly
<1>3. CASE \E i \in Ids \ born :
              /\ rows' = rows \cup {[id |-> i, ws |-> call[c].ws, host |-> call[c].host]}
              /\ born' = born \cup {i}
              /\ call' = [call EXCEPT ![c].phase = "ok", ![c].id = i]
  <2>1. PICK i \in Ids \ born :
              /\ rows' = rows \cup {[id |-> i, ws |-> call[c].ws, host |-> call[c].host]}
              /\ born' = born \cup {i}
              /\ call' = [call EXCEPT ![c].phase = "ok", ![c].id = i]
    BY <1>3
  <2>2. call \in [Calls -> Call] /\ call[c].ws \in Workspaces
    BY <1>1 DEF IInv, PanelInv, CallsInv, GoodCall
  <2>3. /\ \A d \in Calls : d # c => call'[d] = call[d]
        /\ call'[c] = [call[c] EXCEPT !.phase = "ok", !.id = i]
    BY <2>1, <2>2
  <2>4. /\ call'[c].phase = "ok" /\ call'[c].kind = "create"
        /\ call'[c].id = i /\ call'[c].ws = call[c].ws
    BY <1>1, <2>2, <2>3 DEF Call
  <2>5. \A r \in rows' : r \in rows \/ (r.id = i /\ r.ws = call[c].ws)  BY <2>1
  <2>6. \A j \in Ids, w \in Workspaces :
            Home(j, w)' => Home(j, w) \/ (j = i /\ w = call[c].ws)
    BY <1>1, <2>3, <2>4, <2>5 DEF Home
  <2>7. \A w \in Workspaces : ~Home(i, w)  BY <2>1 DEF ToldInv, HomesInv
  <2>8. OneHome'  BY <2>6, <2>7 DEF OneHome, ToldInv, HomesInv
  <2>9. HomesInv'  BY <2>1, <2>6, <2>8 DEF ToldInv, HomesInv
  <2>10. Gone' \subseteq Gone
    <3>1. \A d \in Calls : call'[d].phase = "ok" /\ call'[d].kind = "remove" =>
              call'[d] = call[d]
      BY <2>3, <2>4
    <3>2. told' = told  BY <1>1
    <3>. QED  BY <3>1, <3>2 DEF Gone
  <2>11. \A r \in rows' : r \in rows \/ r.id \notin born  BY <2>1, <2>5
  <2>12. GoneInv'  BY <2>1, <2>10, <2>11, GoneStay DEF ToldInv
  <2>13. KindsInv'  BY <2>3, <2>4 DEF ToldInv, KindsInv
  <2>14. NewsInv'  BY <1>1, <2>1, <2>11, NewsStay DEF ToldInv
  <2>. QED  BY <2>9, <2>12, <2>13, <2>14 DEF ToldInv
<1>. QED  BY <1>2, <1>3 DEF Insert

LEMMA MarkTold ==
    ASSUME IInv, ToldInv, NEW c \in Calls, Mark(c)
    PROVE  ToldInv'
<1>1. /\ call[c].phase = "proved" /\ call[c].kind = "verify"
      /\ UNCHANGED <<cache, fetch, told, born, rows>>
  BY DEF Mark, tab, ToldInv, KindsInv
<1>2. CASE Moves(c, "done")  BY <1>1, <1>2, MovesQuietly
<1>3. CASE call[c].id \in Ids /\ call' = Committed(c)
  <2>1. \A d \in Calls :
            /\ call'[d].kind = call[d].kind /\ call'[d].ws = call[d].ws
            /\ call'[d].id = call[d].id
            /\ call'[d].phase = IF d = c THEN "ok" ELSE call[d].phase
    BY <1>3, CommittedCalls DEF IInv, PanelInv
  <2>2. \A d \in Calls : d # c => Alike(call'[d], call[d])  BY <2>1 DEF Alike
  <2>. QED  BY <1>1, <2>1, <2>2, QuietCall
<1>. QED  BY <1>2, <1>3, MarkTimes

LEMMA DeleteTold ==
    ASSUME IInv, ToldInv, NEW c \in Calls, Delete(c)
    PROVE  ToldInv'
<1>1. /\ call[c].phase = "checked" /\ rows' = {r \in rows : r.id # call[c].id}
      /\ UNCHANGED <<cache, fetch, told, born>>
      /\ \E p \in {"done", "ok"} : Moves(c, p)
  BY DEF Delete, tab
<1>. QED  BY <1>1, MovesQuietly

(* Steps that do not touch calls, lists or what was told. *)
LEMMA AroundTold ==
    ASSUME ToldInv, UNCHANGED <<call, cache, fetch, told, born>>, rows' \subseteq rows
    PROVE  ToldInv'
<1>1. \A c \in Calls : Alike(call'[c], call[c])  BY DEF Alike
<1>. QED  BY <1>1, QuietStep

-----------------------------------------------------------------------------
(* Steps that change lists only. *)
LEMMA ListsChange ==
    ASSUME ToldInv, UNCHANGED <<server, call>>, told'.removed = told.removed,
           \A w \in Workspaces : \A x \in cache'[w].items \cup fetch'[w].items :
               x.id \in Ids => Home(x.id, w),
           NewsInv'
    PROVE  ToldInv'
<1>1. UNCHANGED <<rows, born>>  BY DEF server
<1>2. \A i \in Ids, w \in Workspaces : Home(i, w)' => Home(i, w)
  BY <1>1 DEF Home
<1>3. HomesInv'  BY <1>1, <1>2, HomesStay DEF ToldInv
<1>4. Gone' = Gone  BY DEF Gone
<1>5. GoneInv'  BY <1>1, <1>4 DEF ToldInv, GoneInv
<1>6. KindsInv'  BY DEF ToldInv, KindsInv
<1>. QED  BY <1>3, <1>5, <1>6 DEF ToldInv

(* A fetch that changes to f: what it brings is at home and agrees. *)
LEMMA FetchTold ==
    ASSUME IInv, ToldInv, NEW w \in Workspaces, NEW f,
           fetch' = [fetch EXCEPT ![w] = f], UNCHANGED <<server, call, cache, told>>,
           \A x \in f.items : x.id \in Ids => Home(x.id, w),
           f.phase = "served" /\ ~f.late => Agrees(f.items, w)
    PROVE  ToldInv'
<1>1. \A v \in Workspaces : fetch'[v] = IF v = w THEN f ELSE fetch[v]
  BY DEF IInv, ListsInv
<1>2. UNCHANGED <<rows, born>>  BY DEF server
<1>3. \A v \in Workspaces : \A x \in cache'[v].items \cup fetch'[v].items :
          x.id \in Ids => Home(x.id, v)
  BY <1>1 DEF Home
<1>4. \A I, v : Agrees(I, v) <=> Agrees(I, v)'  BY <1>2 DEF Agrees
<1>5. FetchInv'  BY <1>1, <1>4 DEF ToldInv, NewsInv, FetchInv
<1>6. CacheInv'  BY <1>4 DEF ToldInv, NewsInv, CacheInv
<1>7. NewsInv'  BY <1>2, <1>5, <1>6 DEF ToldInv, NewsInv
<1>. QED  BY <1>3, <1>7, ListsChange

LEMMA LoadTold == ASSUME IInv, ToldInv, Load PROVE ToldInv'
<1>. DEFINE f == [NoFetch EXCEPT !.phase = "sent"]
<1>1. f.phase = "sent" /\ f.items = {}  BY DEF NoFetch
<1>2. /\ fetch' = [fetch EXCEPT ![current] = f] /\ UNCHANGED <<server, call, cache, told>>
  BY DEF Load
<1>3. current \in Workspaces  BY DEF IInv, ListsInv
<1>. HIDE DEF f
<1>. QED  BY <1>1, <1>2, <1>3, FetchTold

LEMMA ServeTold == ASSUME IInv, ToldInv, NEW w \in Workspaces, ServeList(w) PROVE ToldInv'
<1>1. UNCHANGED <<server, call, cache, told>>  BY DEF ServeList
<1>2. CASE fetch' = [fetch EXCEPT ![w] = NoFetch]
  <2>1. NoFetch.phase = "none" /\ NoFetch.items = {}  BY DEF NoFetch
  <2>. QED  BY <1>1, <1>2, <2>1, FetchTold
<1>3. CASE fetch' = [fetch EXCEPT ![w] = [fetch[w] EXCEPT !.phase = "served",
                                                        !.items = Listed(w)]]
  <2>. DEFINE f == [fetch[w] EXCEPT !.phase = "served", !.items = Listed(w)]
  <2>1. f.items = Listed(w)  BY DEF IInv, ListsInv, Fetch
  <2>2. fetch' = [fetch EXCEPT ![w] = f]  BY <1>3
  <2>. HIDE DEF f
  <2>3. \A x \in Listed(w) : \E r \in rows : r.ws = w /\ r.id = x.id  BY DEF Listed
  <2>4. \A x \in Listed(w) : x.id \in Ids => Home(x.id, w)  BY <2>3 DEF Home
  <2>5. \A r \in rows : r.ws = w => \E x \in Listed(w) : x.id = r.id
    <3>. SUFFICES ASSUME NEW r \in rows, r.ws = w
                  PROVE  \E x \in Listed(w) : x.id = r.id
      OBVIOUS
    <3>. DEFINE x == [id |-> r.id, ws |-> r.ws, verified |-> at[r.id] > 0]
    <3>1. x \in Listed(w) /\ x.id = r.id  BY DEF Listed
    <3>. HIDE DEF x
    <3>. QED  BY <3>1
  <2>6. \A x \in Listed(w) : x.id \notin told.removed
    BY <2>3 DEF ToldInv, GoneInv, Gone
  <2>7. Agrees(Listed(w), w)  BY <2>5, <2>6 DEF Agrees
  <2>. QED  BY <1>1, <2>1, <2>2, <2>4, <2>7, FetchTold
<1>. QED  BY <1>2, <1>3 DEF ServeList

LEMMA ArrivesTold ==
    ASSUME IInv, ToldInv, NEW w \in Workspaces, ListArrives(w) PROVE ToldInv'
<1>1. /\ fetch[w].phase = "served" /\ fetch' = [fetch EXCEPT ![w] = NoFetch]
      /\ UNCHANGED <<server, call>>
  BY DEF ListArrives
<1>2. NoFetch.phase = "none" /\ NoFetch.items = {}  BY DEF NoFetch
<1>3. CASE UNCHANGED <<cache, told>>
  BY <1>1, <1>2, <1>3, FetchTold
<1>4. CASE /\ cache' = [cache EXCEPT ![w] = [empty |-> FALSE, items |-> fetch[w].items]]
           /\ told' = [told EXCEPT !.late = IF fetch[w].late THEN told.late \cup {w}
                                              ELSE told.late \ {w}]
  <2>1. /\ cache \in [Workspaces -> Cached] /\ fetch \in [Workspaces -> Fetch]
        /\ told \in Told
    BY DEF IInv, ListsInv
  <2>2. \A v \in Workspaces :
            /\ cache'[v].items = IF v = w THEN fetch[w].items ELSE cache[v].items
            /\ fetch'[v] = IF v = w THEN NoFetch ELSE fetch[v]
    BY <1>1, <1>4, <2>1
  <2>3. /\ told'.removed = told.removed /\ told'.created = told.created
        /\ told'.late = IF fetch[w].late THEN told.late \cup {w} ELSE told.late \ {w}
    BY <1>4, <2>1 DEF Told
  <2>4. UNCHANGED <<rows, born>>  BY <1>1 DEF server
  <2>5. \A I, v : Agrees(I, v) <=> Agrees(I, v)'  BY <2>3, <2>4 DEF Agrees
  <2>6. \A v \in Workspaces : \A x \in cache'[v].items \cup fetch'[v].items :
            x.id \in Ids => Home(x.id, v)
    BY <1>2, <2>2 DEF Home
  <2>7. FetchInv'  BY <1>2, <2>2, <2>5 DEF ToldInv, NewsInv, FetchInv
  <2>8. CacheInv'
    <3>. SUFFICES ASSUME NEW v \in Workspaces \ told'.late
                  PROVE  Agrees(cache'[v].items, v)
      BY <2>5 DEF CacheInv
    <3>1. CASE v = w
      <4>1. ~fetch[w].late  BY <2>3, <3>1
      <4>2. Agrees(fetch[w].items, w)  BY <1>1, <4>1 DEF ToldInv, NewsInv, FetchInv
      <4>. QED  BY <2>2, <3>1, <4>2
    <3>2. CASE v # w
      <4>1. v \notin told.late /\ cache'[v].items = cache[v].items  BY <2>2, <2>3, <3>2
      <4>. QED  BY <4>1 DEF ToldInv, NewsInv, CacheInv
    <3>. QED  BY <3>1, <3>2
  <2>9. NewsInv'  BY <2>3, <2>4, <2>7, <2>8 DEF ToldInv, NewsInv
  <2>. QED  BY <1>1, <2>3, <2>6, <2>9, ListsChange
<1>. QED  BY <1>3, <1>4 DEF ListArrives

(* An answer says nothing about the lists of other workspaces.              *)
LEMMA ElsewhereAgrees ==
    ASSUME IInv, ToldInv, NEW c \in Calls, call[c].phase = "ok", call[c].id \in Ids,
           call[c].ws \in Workspaces, told' = News(c), UNCHANGED <<server>>,
           NEW v \in Workspaces, v # call[c].ws, NEW I, Agrees(I, v),
           \A x \in I : x.id \in Ids => Home(x.id, v)
    PROVE  AgreesThen(I, v)
<1>1. ~Home(call[c].id, v)
  <2>1. Home(call[c].id, call[c].ws)  BY DEF Home
  <2>. QED  BY <2>1 DEF ToldInv, HomesInv, OneHome
<1>2. \A x \in I : x.id # call[c].id  BY <1>1
<1>3. \A r \in rows : r.ws = v => r.id # call[c].id  BY <1>1 DEF Home
<1>4. /\ told'.removed \subseteq told.removed \cup {call[c].id}
      /\ told'.created \subseteq told.created \cup {call[c].id}
      /\ rows' = rows
  BY DEF News, server
<1>. QED  BY <1>2, <1>3, <1>4 DEF Agrees, AgreesThen

LEMMA AnswerTold == ASSUME IInv, ToldInv, NEW c \in Calls, Answer(c) PROVE ToldInv'
<1>. DEFINE w == call[c].ws
            i == call[c].id
            n == UpdatedItems(c, cache[w].items)
            l == (fetch[w].phase # "none")
<1>1. /\ call[c].phase = "ok" /\ Moves(c, "done") /\ told' = News(c)
      /\ UNCHANGED <<server, dns, visit, current>>
  BY DEF Answer
<1>2. call[c] \in Call /\ w \in Workspaces /\ i \in Ids
  BY <1>1 DEF IInv, PanelInv, CallsInv, GoodCall
<1>3. Home(i, w)  BY <1>1 DEF Home
<1>4. i \in born  BY <1>2, <1>3 DEF ToldInv, HomesInv
<1>5. UNCHANGED <<rows, born>> /\ UNCHANGED <<server>>  BY <1>1 DEF server
<1>6. /\ call \in [Calls -> Call] /\ cache \in [Workspaces -> Cached]
      /\ fetch \in [Workspaces -> Fetch] /\ told \in Told
  BY DEF IInv, PanelInv, ListsInv
<1>7. /\ \A d \in Calls : d # c => call'[d] = call[d]
      /\ call'[c].phase = "done" /\ call'[c].kind = call[c].kind
      /\ call'[c].id = i /\ call'[c].ws = w
  BY <1>1, <1>2, <1>6 DEF Moves, Call
<1>8. \A v \in Workspaces :
          cache'[v].items = IF v = w THEN n ELSE cache[v].items
  BY <1>2, <1>6 DEF Answer, List
<1>9. \A v \in Workspaces :
          /\ fetch'[v].items = fetch[v].items
          /\ v # w => fetch'[v] = fetch[v]
          /\ fetch'[v].phase = fetch[v].phase
          /\ fetch'[w].late = l
  BY <1>2, <1>6 DEF Answer, List, Fetch
<1>10. /\ told.late \subseteq told'.late
       /\ told'.removed = IF call[c].kind = "remove" THEN told.removed \cup {i}
                            ELSE told.removed
       /\ told'.created = IF call[c].kind = "create" THEN told.created \cup {i}
                            ELSE told.created
       /\ call[c].kind = "create" /\ i \in told.removed => w \in told'.late
  BY <1>1 DEF News
<1>11. call[c].kind \in {"create", "verify", "remove"}  BY <1>2 DEF Call
<1>12. \A x \in n : x.id = i \/ \E y \in cache[w].items : y.id = x.id
  <2>1. CASE call[c].kind = "create"  BY <2>1 DEF UpdatedItems
  <2>2. CASE call[c].kind = "verify"
    <3>1. n = {IF x.id = i THEN [x EXCEPT !.verified = TRUE] ELSE x : x \in cache[w].items}
      BY <2>2 DEF UpdatedItems
    <3>2. \A x \in cache[w].items : [x EXCEPT !.verified = TRUE].id = x.id
      BY <1>2, <1>6 DEF Cached, Item
    <3>. QED  BY <3>1, <3>2
  <2>3. CASE call[c].kind = "remove"  BY <2>3 DEF UpdatedItems
  <2>. QED  BY <1>11, <2>1, <2>2, <2>3
<1>. HIDE DEF n, l
<1>13. HomesInv'
  <2>1. \A j \in Ids, v \in Workspaces : Home(j, v)' => Home(j, v)
    <3>. SUFFICES ASSUME NEW j \in Ids, NEW v \in Workspaces, Home(j, v)'
                  PROVE  Home(j, v)
      OBVIOUS
    <3>1. CASE \E r \in rows' : r.id = j /\ r.ws = v  BY <1>5, <3>1 DEF Home
    <3>2. CASE \E x \in cache'[v].items : x.id = j
      BY <1>3, <1>8, <1>12, <3>2 DEF Home
    <3>3. CASE \E x \in fetch'[v].items : x.id = j  BY <1>9, <3>3 DEF Home
    <3>4. CASE \E d \in Calls : call'[d].phase # "new" /\ call'[d].id = j /\ call'[d].ws = v
      BY <1>3, <1>7, <3>4 DEF Home
    <3>. QED  BY <3>1, <3>2, <3>3, <3>4 DEF Home
  <2>. QED  BY <1>5, <2>1, HomesStay DEF ToldInv
<1>14. GoneInv'
  <2>1. Gone' \subseteq Gone  BY <1>1, <1>7, <1>10 DEF Gone
  <2>. QED  BY <1>5, <2>1, GoneStay DEF ToldInv
<1>15. KindsInv'  BY <1>7 DEF ToldInv, KindsInv
<1>16. \A v \in Workspaces : \A x \in cache[v].items \cup fetch[v].items :
           x.id \in Ids => Home(x.id, v)
  BY DEF Home
<1>17. FetchInv'
  <2>. SUFFICES ASSUME NEW v \in Workspaces, fetch'[v].phase = "served", ~fetch'[v].late
                PROVE  AgreesThen(fetch'[v].items, v)
    BY DEF FetchInv, Agrees, AgreesThen
  <2>1. v # w  BY <1>9 DEF l
  <2>2. fetch'[v] = fetch[v]  BY <1>9, <2>1
  <2>3. Agrees(fetch[v].items, v)  BY <2>2 DEF ToldInv, NewsInv, FetchInv
  <2>4. \A x \in fetch[v].items : x.id \in Ids => Home(x.id, v)  BY <1>16
  <2>5. AgreesThen(fetch[v].items, v)
    BY <1>1, <1>2, <1>5, <2>1, <2>3, <2>4, ElsewhereAgrees
  <2>. QED  BY <2>2, <2>5
<1>18. CacheInv'
  <2>. SUFFICES ASSUME NEW v \in Workspaces \ told'.late
                PROVE  AgreesThen(cache'[v].items, v)
    BY DEF CacheInv, Agrees, AgreesThen
  <2>1. v \notin told.late  BY <1>10
  <2>2. Agrees(cache[v].items, v)  BY <2>1 DEF ToldInv, NewsInv, CacheInv
  <2>3. CASE v # w
    <3>1. \A x \in cache[v].items : x.id \in Ids => Home(x.id, v)  BY <1>16
    <3>2. AgreesThen(cache[v].items, v)
      BY <1>1, <1>2, <1>5, <2>2, <2>3, <3>1, ElsewhereAgrees
    <3>. QED  BY <1>8, <2>3, <3>2
  <2>4. CASE v = w
    <3>1. cache'[v].items = n  BY <1>8, <2>4
    <3>2. CASE call[c].kind = "create"
      <4>1. n = cache[w].items \cup {[id |-> i, ws |-> w, verified |-> FALSE]}
        BY <3>2 DEF n, UpdatedItems
      <4>2. i \notin told.removed /\ told'.removed = told.removed
        BY <1>10, <2>4, <3>2
      <4>. DEFINE z == [id |-> i, ws |-> w, verified |-> FALSE]
      <4>z. z.id = i  OBVIOUS
      <4>. HIDE DEF z
      <4>3. /\ \A x \in n : x.id = i \/ x \in cache[w].items
            /\ \E x \in n : x.id = i
            /\ cache[w].items \subseteq n
        <5>1. n = cache[w].items \cup {z}  BY <4>1 DEF z
        <5>. QED  BY <4>z, <5>1
      <4>4. told'.created = told.created \cup {i}  BY <1>10, <3>2
      <4>5. \A x \in n : x.id \notin told'.removed
        BY <2>2, <2>4, <4>2, <4>3 DEF Agrees
      <4>6. \A r \in rows' : r.ws = v /\ r.id \in told'.created => \E x \in n : x.id = r.id
        BY <1>5, <2>2, <2>4, <4>3, <4>4 DEF Agrees
      <4>. QED  BY <3>1, <4>5, <4>6 DEF AgreesThen
    <3>3. CASE call[c].kind = "verify"
      <4>1. n = {IF x.id = i THEN [x EXCEPT !.verified = TRUE] ELSE x : x \in cache[w].items}
        BY <3>3 DEF n, UpdatedItems
      <4>2. \A x \in cache[w].items : [x EXCEPT !.verified = TRUE].id = x.id
        BY <1>2, <1>6 DEF Cached, Item
      <4>3. \A x \in cache[w].items : \E y \in n : y.id = x.id  BY <4>1, <4>2
      <4>4. told'.removed = told.removed /\ told'.created = told.created
        BY <1>10, <3>3
      <4>5. \A x \in n : \E y \in cache[w].items : y.id = x.id  BY <4>1, <4>2
      <4>6. \A x \in n : x.id \notin told'.removed
        BY <2>2, <2>4, <4>4, <4>5 DEF Agrees
      <4>7. \A r \in rows' : r.ws = v /\ r.id \in told'.created => \E x \in n : x.id = r.id
        BY <1>5, <2>2, <2>4, <4>3, <4>4 DEF Agrees
      <4>. QED  BY <3>1, <4>6, <4>7 DEF AgreesThen
    <3>4. CASE call[c].kind = "remove"
      <4>1. n = {x \in cache[w].items : x.id # i}  BY <3>4 DEF n, UpdatedItems
      <4>2. told'.removed = told.removed \cup {i} /\ told'.created = told.created
        BY <1>10, <3>4
      <4>3. i \in Gone  BY <1>1, <3>4 DEF Gone
      <4>4. \A r \in rows : r.id # i  BY <4>3 DEF ToldInv, GoneInv
      <4>. QED  BY <1>5, <2>2, <2>4, <3>1, <4>1, <4>2, <4>4 DEF Agrees, AgreesThen
    <3>. QED  BY <1>11, <3>2, <3>3, <3>4
  <2>. QED  BY <2>3, <2>4
<1>19. told'.created \subseteq born'
  BY <1>4, <1>5, <1>10 DEF ToldInv, NewsInv
<1>20. NewsInv'  BY <1>17, <1>18, <1>19 DEF NewsInv
<1>. QED  BY <1>13, <1>14, <1>15, <1>20 DEF ToldInv

-----------------------------------------------------------------------------
LEMMA ToldStep == IInv /\ ToldInv /\ [Next]_vars => ToldInv'
<1>. SUFFICES ASSUME IInv, ToldInv, [Next]_vars PROVE ToldInv'  OBVIOUS
<1>1. current \in Workspaces  BY DEF IInv, ListsInv
<1>2. ASSUME NEW c \in Calls, Step(c)  PROVE ToldInv'
  <2>1. ASSUME NEW h \in Hosts, Create(c, h)  PROVE ToldInv'
    <3>. DEFINE f == ForHost(current, h)
    <3>1. Begin(c, f)  BY <2>1 DEF Create, ForHost
    <3>2. f \in Call /\ f.phase = "sent" /\ f.ws = current /\ f.id = NoId
      BY <1>1, MadeForHost
    <3>. HIDE DEF f
    <3>3. f.id \notin Ids  BY <3>2, DomainsConstants
    <3>. QED  BY <3>1, <3>2, <3>3, BeginTold
  <2>2. ASSUME NEW x \in Item, Verify(c, x)  PROVE ToldInv'
    <3>. DEFINE f == ForRow("verify", current, x.id)
    <3>1. x.id \in Ids  BY DEF Item
    <3>2. x \in Shown /\ Begin(c, f)  BY <2>2 DEF Verify, ForRow
    <3>3. f \in Call /\ f.phase = "sent" /\ f.ws = current /\ f.id = x.id
      BY <1>1, <3>1, MadeForRow
    <3>. HIDE DEF f
    <3>. QED  BY <3>2, <3>3, BeginTold
  <2>3. ASSUME NEW x \in Item, Remove(c, x)  PROVE ToldInv'
    <3>. DEFINE f == ForRow("remove", current, x.id)
    <3>1. x.id \in Ids  BY DEF Item
    <3>2. x \in Shown /\ Begin(c, f)  BY <2>3 DEF Remove, ForRow
    <3>3. f \in Call /\ f.phase = "sent" /\ f.ws = current /\ f.id = x.id
      BY <1>1, <3>1, MadeForRow
    <3>. HIDE DEF f
    <3>. QED  BY <3>2, <3>3, BeginTold
  <2>. QED  BY <1>2, <2>1, <2>2, <2>3, CheckTold, InsertTold, MarkTold, DeleteTold,
               AnswerTold DEF Step
<1>3. ASSUME NEW w \in Workspaces, RemoveWorkspace(w)  PROVE ToldInv'
  BY <1>3, AroundTold DEF RemoveWorkspace, tab
<1>4. ASSUME UNCHANGED <<call, cache, fetch, told, rows, born>>  PROVE ToldInv'
  BY <1>4, AroundTold
<1>5. ASSUME NEW w \in Workspaces, Select(w) \/ Open(w)  PROVE ToldInv'
  BY <1>4, <1>5 DEF Select, Open, tab, server
<1>6. ASSUME NEW i \in Ids, Publish(i)  PROVE ToldInv'
  BY <1>4, <1>6 DEF Publish, tab, server
<1>7. ASSUME NEW h \in Hosts, Resolve(h)  PROVE ToldInv'
  BY <1>4, <1>7 DEF Resolve, tab, server
<1>8. ASSUME UNCHANGED vars  PROVE ToldInv'
  BY <1>4, <1>8 DEF vars, tab, server
<1>. QED
  BY <1>2, <1>3, <1>5, <1>6, <1>7, <1>8, ServeTold, ArrivesTold, LoadTold DEF Next

THEOREM ToldInvariance == Spec => []ToldInv
<1>. QED  BY InitTold, ToldStep, Invariance, PTL DEF Spec

(* What the panel said was created or removed stays so in its lists, but    *)
(* for a list that was under way at that answer.                            *)
THEOREM ToldTheorem == Spec => []ToldStaysTold
<1>1. ToldInv => ToldStaysTold
  BY DEF ToldInv, NewsInv, CacheInv, Agrees, ToldStaysTold
<1>. QED  BY ToldInvariance, <1>1, PTL
-----------------------------------------------------------------------------
(* The registry of hostnames: Domains implements HostRegistry.              *)

ClaimOf(r, f) == [id |-> r.id, ws |-> r.ws, host |-> r.host, proven |-> f[r.id] > 0]

ClaimsOf(R, f) == {ClaimOf(r, f) : r \in R}

LEMMA ClaimsNamed == Claims = ClaimsOf(rows, at) /\ Claims' = ClaimsOf(rows', at')
BY DEF Claims, ClaimsOf, ClaimOf

(* What a row is for the registry. *)
LEMMA ClaimFields ==
    ASSUME NEW r, NEW f
    PROVE  LET a == ClaimOf(r, f)
           IN  a.id = r.id /\ a.ws = r.ws /\ a.host = r.host /\ a.proven = (f[r.id] > 0)
BY DEF ClaimOf

LEMMA ClaimIs ==
    ASSUME NEW r, NEW f, NEW v, (f[r.id] > 0) = v
    PROVE  ClaimOf(r, f) = [id |-> r.id, ws |-> r.ws, host |-> r.host, proven |-> v]
BY Zenon DEF ClaimOf

LEMMA ClaimTypes ==
    ASSUME NEW r \in Row, NEW f PROVE ClaimOf(r, f) \in Registry!Claimed
<1>1. r.id \in Ids /\ r.ws \in Workspaces /\ r.host \in Hosts  BY DEF Row
<1>2. (f[r.id] > 0) \in BOOLEAN  OBVIOUS
<1>. QED  BY <1>1, <1>2 DEF ClaimOf, Registry!Claimed

LEMMA ProvenClaim ==
    ASSUME NEW a \in Registry!Claimed, NEW b \in Registry!Claimed,
           a.id = b.id, a.ws = b.ws, a.host = b.host, b.proven
    PROVE  b = [a EXCEPT !.proven = TRUE]
BY DEF Registry!Claimed

(* An insert is a claim: the id is new, so that it has no time yet.         *)
LEMMA InsertClaims ==
    ASSUME IInv, NEW c \in Calls, Insert(c)
    PROVE  UNCHANGED <<alive, rows, at, born, dns>> \/ Registry!Next
<1>1. UNCHANGED dns /\ call[c].kind = "create" /\ call[c].phase = "checked"
  BY DEF Insert
<1>2. CASE UNCHANGED server
  BY <1>1, <1>2 DEF server
<1>3. CASE \E i \in Ids \ born :
              /\ call[c].ws \in alive /\ \A r \in rows : r.host # call[c].host
              /\ rows' = rows \cup {[id |-> i, ws |-> call[c].ws, host |-> call[c].host]}
              /\ born' = born \cup {i}
              /\ UNCHANGED <<alive, at>>
  <2>1. PICK i \in Ids \ born :
              /\ call[c].ws \in alive /\ \A r \in rows : r.host # call[c].host
              /\ rows' = rows \cup {[id |-> i, ws |-> call[c].ws, host |-> call[c].host]}
              /\ born' = born \cup {i}
              /\ UNCHANGED <<alive, at>>
    BY <1>3
  <2>2. GoodCall(call[c], dns) /\ alive \subseteq Workspaces
    BY DEF IInv, PanelInv, CallsInv, ServerInv
  <2>3. call[c].ws \in Workspaces /\ call[c].host \in Hosts
    BY <1>1, <2>2 DEF GoodCall
  <2>. DEFINE w == call[c].ws
              h == call[c].host
              n == [id |-> i, ws |-> w, host |-> h]
              b == [id |-> i, ws |-> w, host |-> h, proven |-> FALSE]
  <2>4. (at[n.id] > 0) = FALSE
    <3>1. ~(at[i] > 0)  BY DEF IInv, ServerInv, RowsInv
    <3>. QED  BY <3>1
  <2>5. ClaimOf(n, at) = b
    <3>1. n.id = i /\ n.ws = w /\ n.host = h  OBVIOUS
    <3>2. ClaimOf(n, at) = [id |-> n.id, ws |-> n.ws, host |-> n.host, proven |-> FALSE]
      BY <2>4, ClaimIs
    <3>. QED  BY <3>1, <3>2
  <2>6. rows' = rows \cup {n}  BY <2>1
  <2>. HIDE DEF n, b
  <2>7. Claims' = Claims \cup {b}
    <3>1. Claims' = {ClaimOf(r, at) : r \in rows'}  BY <2>1, ClaimsNamed DEF ClaimsOf
    <3>2. Claims = {ClaimOf(r, at) : r \in rows}  BY ClaimsNamed DEF ClaimsOf
    <3>. QED  BY <2>5, <2>6, <3>1, <3>2
  <2>8. \A a \in Claims : a.host # h
    BY <2>1, ClaimsNamed, ClaimFields DEF ClaimsOf
  <2>. HIDE DEF w, h
  <2>9. w \in alive /\ w \in Workspaces /\ h \in Hosts
    BY <2>1, <2>3 DEF w, h
  <2>10. Registry!Claim(w, h, i)
    BY <1>1, <2>1, <2>7, <2>8, <2>9 DEF Registry!Claim, b
  <2>. QED  BY <2>9, <2>10 DEF Registry!Next
<1>. QED  BY <1>2, <1>3 DEF Insert

(* The update of verifiedAt proves the claim of the row it finds.           *)
LEMMA MarkProves ==
    ASSUME IInv, NEW c \in Calls, Mark(c)
    PROVE  UNCHANGED <<alive, rows, at, born, dns>> \/ Registry!Next
<1>1. UNCHANGED <<alive, rows, born, dns>> /\ call[c].phase = "proved"  BY DEF Mark
<1>2. CASE Marked(c) = {}
  <2>1. at' = [i \in Ids |-> at[i]] /\ at = [i \in Ids |-> at[i]]
    BY <1>2 DEF Mark, IInv, ServerInv
  <2>. QED  BY <1>1, <2>1
<1>3. CASE Marked(c) # {}
  <2>1. PICK r \in rows : r.id = call[c].id  BY <1>3 DEF Marked
  <2>2. at' = [i \in Ids |-> IF \E s \in Marked(c) : s.id = i THEN call[c].date ELSE at[i]]
    BY DEF Mark
  <2>3. /\ rows \subseteq Row /\ OneEach(rows) /\ time \in 0 .. MaxTime
        /\ GoodCall(call[c], dns)
    BY DEF IInv, ServerInv, PanelInv, CallsInv
  <2>4. MaxTime \in Nat  BY DomainsConstants
  <2>5. r.id \in dns  BY <1>1, <2>1, <2>3 DEF GoodCall
  <2>6. \A s \in rows : s.id \in Ids  BY <2>3 DEF Row
  <2>7. \A s \in rows : s.id = r.id => s = r  BY <2>3 DEF OneEach
  <2>8. r \in Marked(c) /\ \A s \in Marked(c) : s.id = r.id  BY <2>1 DEF Marked
  <2>9. at'[r.id] > 0
    <3>1. at'[r.id] = call[c].date  BY <2>2, <2>6, <2>8
    <3>. QED  BY <3>1, MarkTimes
  <2>10. \A s \in rows : s # r => at'[s.id] = at[s.id]
    BY <2>2, <2>6, <2>7, <2>8
  <2>. DEFINE a == ClaimOf(r, at)
              b == [a EXCEPT !.proven = TRUE]
  <2>11. ClaimOf(r, at') = b
    <3>. DEFINE d == ClaimOf(r, at')
    <3>1. r \in Row  BY <2>3
    <3>2. a \in Registry!Claimed /\ d \in Registry!Claimed  BY <3>1, ClaimTypes
    <3>3. /\ a.id = r.id /\ a.ws = r.ws /\ a.host = r.host
          /\ d.id = r.id /\ d.ws = r.ws /\ d.host = r.host
          /\ d.proven = (at'[r.id] > 0)
      BY ClaimFields
    <3>. HIDE DEF a, d
    <3>. QED  BY <2>9, <3>2, <3>3, ProvenClaim DEF b, d
  <2>12. \A s \in rows : s # r => ClaimOf(s, at') = ClaimOf(s, at)
    BY <2>10 DEF ClaimOf
  <2>13. \A s \in rows : s # r => ClaimOf(s, at) # a
    <3>. SUFFICES ASSUME NEW s \in rows, s # r PROVE ClaimOf(s, at) # a  OBVIOUS
    <3>1. ClaimOf(s, at).id = s.id /\ a.id = r.id  BY ClaimFields
    <3>. QED  BY <2>7, <3>1
  <2>14. a.id = r.id  BY ClaimFields
  <2>. HIDE DEF a, b
  <2>15. a \in Claims  BY ClaimsNamed DEF ClaimsOf, a
  <2>16. Claims' = (Claims \ {a}) \cup {b}
    <3>1. Claims' = {ClaimOf(s, at') : s \in rows}  BY <1>1, ClaimsNamed DEF ClaimsOf
    <3>2. Claims = {ClaimOf(s, at) : s \in rows}  BY ClaimsNamed DEF ClaimsOf
    <3>3. a = ClaimOf(r, at)  BY DEF a
    <3>4. \A x : x \in Claims' => x \in (Claims \ {a}) \cup {b}
      BY <2>11, <2>12, <2>13, <3>1, <3>2
    <3>5. \A x : x \in (Claims \ {a}) \cup {b} => x \in Claims'
      BY <2>11, <2>12, <2>13, <3>1, <3>2, <3>3
    <3>. QED  BY <3>4, <3>5
  <2>17. Registry!Prove(a)
    BY <1>1, <2>5, <2>14, <2>16 DEF Registry!Prove, b
  <2>. QED  BY <2>15, <2>17 DEF Registry!Next
<1>. QED  BY <1>2, <1>3

(* The delete releases the claim of the row it finds.                       *)
LEMMA DeleteReleases ==
    ASSUME IInv, NEW c \in Calls, Delete(c)
    PROVE  UNCHANGED <<alive, rows, at, born, dns>> \/ Registry!Next
<1>1. /\ UNCHANGED <<alive, at, born, dns>>
      /\ rows' = {r \in rows : r.id # call[c].id}
  BY DEF Delete
<1>2. CASE \A r \in rows : r.id # call[c].id
  <2>1. rows' = rows  BY <1>1, <1>2
  <2>. QED  BY <1>1, <2>1
<1>3. CASE \E r \in rows : r.id = call[c].id
  <2>1. PICK r \in rows : r.id = call[c].id  BY <1>3
  <2>2. OneEach(rows)  BY DEF IInv, ServerInv
  <2>3. \A s \in rows : s.id = r.id <=> s = r  BY <2>2 DEF OneEach
  <2>4. rows' = rows \ {r}  BY <1>1, <2>1, <2>3
  <2>. DEFINE a == ClaimOf(r, at)
  <2>5. \A s \in rows : s # r => ClaimOf(s, at) # a
    <3>. SUFFICES ASSUME NEW s \in rows, s # r PROVE ClaimOf(s, at) # a  OBVIOUS
    <3>1. ClaimOf(s, at).id = s.id /\ a.id = r.id  BY ClaimFields
    <3>. QED  BY <2>3, <3>1
  <2>6. a \in Claims  BY ClaimsNamed DEF ClaimsOf
  <2>7. Claims' = Claims \ {a}
    BY <1>1, <2>4, <2>5, ClaimsNamed DEF ClaimsOf
  <2>8. Registry!Release(a)  BY <1>1, <2>7 DEF Registry!Release
  <2>. QED  BY <2>6, <2>8 DEF Registry!Next
<1>. QED  BY <1>2, <1>3

LEMMA RemoveCloses ==
    ASSUME NEW w \in Workspaces, RemoveWorkspace(w) PROVE Registry!Next
<1>1. /\ w \in alive /\ alive' = alive \ {w}
      /\ rows' = {r \in rows : r.ws # w}
      /\ UNCHANGED <<at, born, dns>>
  BY DEF RemoveWorkspace
<1>2. Claims' = {a \in Claims : a.ws # w}
  <2>1. \A r \in rows : ClaimOf(r, at).ws = r.ws  BY ClaimFields
  <2>. QED  BY <1>1, <2>1, ClaimsNamed DEF ClaimsOf
<1>3. Registry!Close(w)  BY <1>1, <1>2 DEF Registry!Close
<1>. QED  BY <1>3 DEF Registry!Next

LEMMA PublishPublishes ==
    ASSUME NEW i \in Ids, Publish(i) PROVE Registry!Next
<1>1. PICK r \in rows : r.id = i  BY DEF Publish
<1>2. dns' = dns \cup {i} /\ UNCHANGED <<alive, rows, at, born>>
  BY DEF Publish, server
<1>. DEFINE a == ClaimOf(r, at)
<1>3. a \in Claims /\ a.id = i  BY <1>1, ClaimsNamed, ClaimFields DEF ClaimsOf
<1>4. UNCHANGED Claims  BY <1>2, ClaimsNamed
<1>5. Registry!Publish(a)  BY <1>2, <1>3, <1>4 DEF Registry!Publish
<1>. QED  BY <1>3, <1>5 DEF Registry!Next

(* A step of the server is one of the registry, and no other step is. *)
LEMMA RegistryStep ==
    ASSUME IInv, Next
    PROVE  UNCHANGED <<alive, rows, at, born, dns>> \/ Registry!Next
<1>1. ASSUME NEW c \in Calls, Step(c)
      PROVE  UNCHANGED <<alive, rows, at, born, dns>> \/ Insert(c) \/ Mark(c) \/ Delete(c)
  BY <1>1 DEF Step, Create, Verify, Remove, Begin, CheckCreate, CheckOwned, LookUp,
              Answer, server
<1>2. ASSUME NEW w \in Workspaces, Select(w) \/ ServeList(w) \/ ListArrives(w) \/ Open(w)
      PROVE  UNCHANGED <<alive, rows, at, born, dns>>
  BY <1>2 DEF Select, ServeList, ListArrives, Open, server
<1>3. ASSUME NEW h \in Hosts, Resolve(h)  PROVE UNCHANGED <<alive, rows, at, born, dns>>
  BY <1>3 DEF Resolve, server
<1>4. Load => UNCHANGED <<alive, rows, at, born, dns>>  BY DEF Load, server
<1>. QED
  BY <1>1, <1>2, <1>3, <1>4, InsertClaims, MarkProves, DeleteReleases, RemoveCloses,
     PublishPublishes DEF Next

(* Every step of the panel and of the server is a step of the registry, or  *)
(* leaves it alone: a hostname is claimed while nobody has it, and proven   *)
(* by a token that was published for this very claim.                       *)
THEOREM RegistrySteps == Spec => HostsImplementRegistry
<1>. DEFINE A == UNCHANGED <<alive, rows, at, born, dns>> \/ Registry!Next
<1>1. IInv /\ [Next]_vars => [A]_vars
  BY RegistryStep
<1>2. [][A]_vars => HostsImplementRegistry  BY PTL DEF HostsImplementRegistry
<1>. QED  BY Invariance, <1>1, <1>2, PTL DEF Spec

(* The rows to begin with make a sound registry. *)
LEMMA RegistryInit == ASSUME Init PROVE Registry!Init
<1>1. IInv  BY InitInv
<1>2. /\ rows \subseteq Row /\ OneEach(rows) /\ born \subseteq Ids /\ dns \subseteq Ids
      /\ \A r \in rows : r.id \in born
      /\ \A i \in Ids : at[i] > 0 => i \in dns
  BY <1>1 DEF IInv, ServerInv, RowsInv
<1>3. alive = Workspaces  BY DEF Init
<1>4. Claims = {ClaimOf(r, at) : r \in rows}  BY ClaimsNamed DEF ClaimsOf
<1>5. Claims \subseteq Registry!Claimed
  BY <1>2, <1>4, ClaimTypes
<1>6. Registry!Sound
  <2>1. \A r \in rows : /\ r.id \in Ids
                        /\ ClaimOf(r, at).id = r.id /\ ClaimOf(r, at).host = r.host
                        /\ ClaimOf(r, at).proven = (at[r.id] > 0)
    BY <1>2, ClaimFields DEF Row
  <2>2. \A a \in Claims, b \in Claims : a.host = b.host \/ a.id = b.id => a = b
    BY <1>2, <1>4, <2>1 DEF OneEach
  <2>3. \A a \in Claims : a.id \in born /\ (a.proven => a.id \in dns)
    BY <1>2, <1>4, <2>1
  <2>. QED  BY <2>2, <2>3 DEF Registry!Sound
<1>. QED  BY <1>2, <1>3, <1>5, <1>6 DEF Registry!Init

(* Domains implements the registry of hostnames. *)
THEOREM RegistryTheorem == Spec => Registry!Spec
<1>1. IInv /\ [Next]_vars => [Registry!Next]_(Registry!registry)
  <2>. SUFFICES ASSUME IInv, [Next]_vars
                PROVE  Registry!Next \/ UNCHANGED Registry!registry
    OBVIOUS
  <2>1. UNCHANGED <<alive, rows, at, born, dns>> \/ Registry!Next
    BY RegistryStep DEF vars, server
  <2>2. UNCHANGED <<alive, rows, at, born, dns>> => UNCHANGED Registry!registry
    BY ClaimsNamed DEF Registry!registry
  <2>. QED  BY <2>1, <2>2
<1>. QED  BY Invariance, RegistryInit, <1>1, PTL DEF Spec, Registry!Spec
=============================================================================

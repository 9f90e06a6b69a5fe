----------------------------- MODULE LinksProofs -----------------------------
(* Proofs about module Links: StatusInv and PasswordInv are inductive, and  *)
(* the properties of the runs of Links follow for any number of links,      *)
(* requests and password hashes and any length of time.                     *)
EXTENDS Links, TLAPS

LEMMA IdleType == Idle \in Request
BY DEF Idle, Request

(* What a history note leaves alone in every request. *)
LEMMA OvertakeFacts ==
    ASSUME TypeOK, NEW ls, NEW ops
    PROVE  /\ DOMAIN Overtake(ls, ops) = Requests
           /\ \A q \in Requests :
                /\ Overtake(ls, ops)[q] \in Request
                /\ Overtake(ls, ops)[q].op = req[q].op
                /\ Overtake(ls, ops)[q].links = req[q].links
                /\ Overtake(ls, ops)[q].status = req[q].status
                /\ Overtake(ls, ops)[q].expiresAt = req[q].expiresAt
                /\ Overtake(ls, ops)[q].passwordHash = req[q].passwordHash
                /\ req[q].missed \subseteq Overtake(ls, ops)[q].missed
                /\ req[q].op \in ops =>
                     ls \cap req[q].links \subseteq Overtake(ls, ops)[q].missed
<1>1. DOMAIN Overtake(ls, ops) = Requests
  BY DEF Overtake
<1>2. ASSUME NEW q \in Requests
      PROVE  /\ Overtake(ls, ops)[q] \in Request
             /\ Overtake(ls, ops)[q].op = req[q].op
             /\ Overtake(ls, ops)[q].links = req[q].links
             /\ Overtake(ls, ops)[q].status = req[q].status
             /\ Overtake(ls, ops)[q].expiresAt = req[q].expiresAt
             /\ Overtake(ls, ops)[q].passwordHash = req[q].passwordHash
             /\ req[q].missed \subseteq Overtake(ls, ops)[q].missed
             /\ req[q].op \in ops =>
                  ls \cap req[q].links \subseteq Overtake(ls, ops)[q].missed
  <2>1. req[q] \in Request
    BY DEF TypeOK
  <2>2. CASE req[q].op \in ops
    <3>1. Overtake(ls, ops)[q]
            = [req[q] EXCEPT !.missed = req[q].missed \cup (ls \cap req[q].links)]
      BY <2>2 DEF Overtake
    <3> QED  BY <2>1, <3>1 DEF Request
  <2>3. CASE req[q].op \notin ops
    <3>1. Overtake(ls, ops)[q] = req[q]
      BY <2>3 DEF Overtake
    <3> QED  BY <2>1, <2>3, <3>1
  <2> QED  BY <2>2, <2>3
<1> QED  BY <1>1, <1>2

(* A request goes on knowing what it knew in a step that changes none of    *)
(* the rows it holds, or has its note made in missed if it does.            *)
LEMMA Undisturbed ==
    ASSUME TypeOK, TypeOK', NEW r \in Requests, Knows(r),
           /\ req'[r].op = req[r].op
           /\ req'[r].links = req[r].links
           /\ req'[r].status = req[r].status
           /\ req'[r].expiresAt = req[r].expiresAt
           /\ req[r].missed \subseteq req'[r].missed,
           \A l \in req[r].links \ req'[r].missed :
              req[r].op \in {"edit", "status", "sync"} =>
                /\ link'[l].status \in {link[l].status, "deleted"}
                /\ req[r].op = "sync" /\ isExpired(l) => isExpired(l)'
                /\ req[r].op = "status" /\ isExpired(l)' => isExpired(l)
    PROVE  Knows(r)'
<1>1. EditKnows(r)'
  BY DEF Knows, EditKnows
<1>2. SyncKnows(r)'
  BY DEF Knows, SyncKnows
<1>3. ActivationKnows(r)'
  BY DEF Knows, ActivationKnows
<1> QED  BY <1>1, <1>2, <1>3 DEF Knows

-----------------------------------------------------------------------------
(* Type correctness, one lemma for the handlers' first halves and one for   *)
(* each write.                                                              *)

LEMMA InitType == Init => TypeOK
<1> SUFFICES ASSUME Init  PROVE TypeOK
  OBVIOUS
<1>1. \A r \in Requests : req[r] \in Request /\ req[r].op = "idle"
  BY IdleType DEF Init, Idle
<1>2. now \in Times /\ link \in [Links -> Row]
  BY LinkConstants DEF Init, Row, Statuses, Times, Never
<1> QED  BY <1>1, <1>2 DEF Init, TypeOK

(* One request is replaced. *)
LEMMA RequestReplaced ==
    ASSUME TypeOK, NEW r \in Requests, NEW x \in Request,
           x.op = "unlock" => x.passwordHash \in Hashes,
           x.op = "status" => x.status \in Statuses,
           req' = [req EXCEPT ![r] = x]
    PROVE  /\ req' \in [Requests -> Request]
           /\ \A q \in Requests :
                /\ req'[q].op = "unlock" => req'[q].passwordHash \in Hashes
                /\ req'[q].op = "status" => req'[q].status \in Statuses
           /\ req'[r] = x
           /\ \A q \in Requests \ {r} : req'[q] = req[q]
BY DEF TypeOK

(* One request ends after a note was made in others. *)
LEMMA RequestEnded ==
    ASSUME TypeOK, NEW r \in Requests, NEW ls, NEW ops,
           req' = [Overtake(ls, ops) EXCEPT ![r] = Idle]
    PROVE  /\ req' \in [Requests -> Request]
           /\ \A q \in Requests :
                /\ req'[q].op = "unlock" => req'[q].passwordHash \in Hashes
                /\ req'[q].op = "status" => req'[q].status \in Statuses
           /\ req'[r] = Idle
           /\ \A q \in Requests \ {r} : req'[q] = Overtake(ls, ops)[q]
<1>1. /\ req'[r] = Idle /\ Idle.op = "idle"
      /\ \A q \in Requests \ {r} : req'[q] = Overtake(ls, ops)[q]
  BY OvertakeFacts DEF Idle
<1>2. DOMAIN req' = Requests /\ req' = [q \in Requests |-> req'[q]]
  BY OvertakeFacts DEF Overtake
<1>3. \A q \in Requests : req'[q] \in Request
  BY <1>1, OvertakeFacts, IdleType
<1>4. ASSUME NEW q \in Requests
      PROVE  /\ req'[q].op = "unlock" => req'[q].passwordHash \in Hashes
             /\ req'[q].op = "status" => req'[q].status \in Statuses
  <2>1. CASE q = r
    BY <1>1, <2>1
  <2>2. CASE q # r
    BY <1>1, <2>2, OvertakeFacts DEF TypeOK
  <2> QED  BY <2>1, <2>2
<1> QED  BY <1>1, <1>2, <1>3, <1>4

LEMMA HandlerTypes ==
    ASSUME TypeOK, NEW r \in Requests,
           \/ \E l \in Links, e \in Times \cup {Keep}, h \in Hashes \cup {NoHash, Keep} :
                  UpdateLink(r, l, e, h)
           \/ \E l \in Links, s \in Statuses : UpdateLinkStatus(r, l, s)
           \/ \E ls \in SUBSET Links : FindExpired(r, ls)
           \/ \E l \in Links, h \in Hashes \cup {NoHash} : Visit(r, l, h)
           \/ \E l \in Links : Unlock(r, l)
           \/ Redirect(r)
    PROVE  TypeOK'
<1>1. CASE \E l \in Links, e \in Times \cup {Keep}, h \in Hashes \cup {NoHash, Keep} :
              UpdateLink(r, l, e, h)
  <2>1. PICK l \in Links, e \in Times \cup {Keep}, h \in Hashes \cup {NoHash, Keep} :
               UpdateLink(r, l, e, h)
    BY <1>1
  <2> DEFINE x == [Idle EXCEPT !.op = "edit", !.links = {l}, !.status = EditedStatus(l, e),
                             !.expiresAt = e, !.passwordHash = h]
  <2>2. x \in Request /\ x.op \notin {"unlock", "status"}
    BY <2>1 DEF UpdateLink, Idle, Request, EditedStatus, Statuses
  <2>3. req' = [req EXCEPT ![r] = x]
    BY <2>1 DEF UpdateLink
  <2> HIDE DEF x
  <2> QED  BY <2>1, <2>2, <2>3, RequestReplaced DEF UpdateLink, TypeOK
<1>2. CASE \E l \in Links, s \in Statuses : UpdateLinkStatus(r, l, s)
  <2>1. PICK l \in Links, s \in Statuses : UpdateLinkStatus(r, l, s)
    BY <1>2
  <2> DEFINE x == [Idle EXCEPT !.op = "status", !.links = {l}, !.status = s]
  <2>2. x \in Request /\ x.op = "status" /\ x.status \in Statuses
    BY <2>1 DEF UpdateLinkStatus, Idle, Request
  <2>3. req' = [req EXCEPT ![r] = x]
    BY <2>1 DEF UpdateLinkStatus
  <2> HIDE DEF x
  <2> QED  BY <2>1, <2>2, <2>3, RequestReplaced DEF UpdateLinkStatus, TypeOK
<1>3. CASE \E ls \in SUBSET Links : FindExpired(r, ls)
  <2>1. PICK ls \in SUBSET Links : FindExpired(r, ls)
    BY <1>3
  <2> DEFINE x == [Idle EXCEPT !.op = "sync", !.links = ls]
  <2>2. x \in Request /\ x.op \notin {"unlock", "status"}
    BY <2>1 DEF FindExpired, Idle, Request
  <2>3. req' = [req EXCEPT ![r] = x]
    BY <2>1 DEF FindExpired
  <2> HIDE DEF x
  <2> QED  BY <2>1, <2>2, <2>3, RequestReplaced DEF FindExpired, TypeOK
<1>4. CASE \E l \in Links, h \in Hashes \cup {NoHash} : Visit(r, l, h)
  <2>1. PICK l \in Links, h \in Hashes \cup {NoHash} : Visit(r, l, h)
    BY <1>4
  <2> DEFINE x == [Idle EXCEPT !.op = "visit", !.links = {l}, !.passwordHash = h]
  <2>2. x \in Request /\ x.op \notin {"unlock", "status"}
    BY <2>1 DEF Visit, Idle, Request
  <2>3. req' = [req EXCEPT ![r] = x]
    BY <2>1 DEF Visit
  <2> HIDE DEF x
  <2> QED  BY <2>1, <2>2, <2>3, RequestReplaced DEF Visit, TypeOK
<1>5. CASE \E l \in Links : Unlock(r, l)
  <2>1. PICK l \in Links : Unlock(r, l)
    BY <1>5
  <2>2. link[l].passwordHash \in Hashes
    BY <2>1 DEF Unlock, TypeOK, Row
  <2> DEFINE x == [Idle EXCEPT !.op = "unlock", !.links = {l}, !.passwordHash = link[l].passwordHash]
  <2>3. x \in Request /\ x.op = "unlock" /\ x.passwordHash \in Hashes
    BY <2>1, <2>2 DEF Unlock, Idle, Request
  <2>4. req' = [req EXCEPT ![r] = x]
    BY <2>1 DEF Unlock
  <2> HIDE DEF x
  <2> QED  BY <2>1, <2>3, <2>4, RequestReplaced DEF Unlock, TypeOK
<1>6. CASE Redirect(r)
  <2>1. req' \in [Requests -> Request]
    BY <1>6, IdleType DEF Redirect, TypeOK
  <2>2. \A l \in req[r].links : l \in Links
    BY DEF TypeOK, Request
  <2>3. tokens' \subseteq Token
    BY <1>6, <2>2 DEF Redirect, TypeOK, Token
  <2>4. \A q \in Requests : req'[q] = req[q] \/ req'[q].op = "idle"
    BY <1>6 DEF Redirect, TypeOK, Idle
  <2> QED  BY <1>6, <2>1, <2>3, <2>4 DEF Redirect, TypeOK
<1> QED  BY <1>1, <1>2, <1>3, <1>4, <1>5, <1>6

LEMMA WriteTypes ==
    ASSUME TypeOK,
           \/ \E l \in Links, e \in Times, h \in Hashes \cup {NoHash} : CreateLink(l, e, h)
           \/ \E r \in Requests, l \in Links : WriteLink(r, l) \/ WriteStatus(r, l)
           \/ \E r \in Requests : WriteExpired(r)
           \/ \E l \in Links : DeleteLink(l)
           \/ Tick
    PROVE  TypeOK'
<1>1. CASE \E l \in Links, e \in Times, h \in Hashes \cup {NoHash} : CreateLink(l, e, h)
  <2>1. PICK l \in Links, e \in Times, h \in Hashes \cup {NoHash} : CreateLink(l, e, h)
    BY <1>1
  <2>2. [status |-> "ACTIVE", expiresAt |-> e, passwordHash |-> h] \in Row
    BY DEF Row, Statuses
  <2>3. link' \in [Links -> Row]
    BY <2>1, <2>2 DEF CreateLink, TypeOK
  <2> QED  BY <2>1, <2>3 DEF CreateLink, TypeOK
<1>2. CASE \E r \in Requests, l \in Links : WriteLink(r, l)
  <2>1. PICK r \in Requests, l \in Links : WriteLink(r, l)
    BY <1>2
  <2>2. req[r] \in Request /\ link[l] \in Row
    BY DEF TypeOK
  <2>3. CASE Exists(l)
    <3> DEFINE row == [status |-> Replaced(link[l].status, req[r].status),
                       expiresAt |-> Replaced(link[l].expiresAt, req[r].expiresAt),
                       passwordHash |-> Replaced(link[l].passwordHash, req[r].passwordHash)]
    <3>1. row \in Row
      BY <2>2 DEF Row, Request, Replaced
    <3>2. link' = [link EXCEPT ![l] = row]
      BY <2>1, <2>3 DEF WriteLink
    <3> HIDE DEF row
    <3>3. link' \in [Links -> Row]
      BY <3>1, <3>2 DEF TypeOK
    <3>4. req' = [Overtake({l}, Overtaken(r)) EXCEPT ![r] = Idle]
      BY <2>1, <2>3 DEF WriteLink
    <3>5. excused' \in {excused, excused \cup {l}, excused \ {l}}
      BY <2>1, <2>3 DEF WriteLink
    <3>6. excused' \subseteq Links
      BY <3>5 DEF TypeOK
    <3>7. /\ req' \in [Requests -> Request]
          /\ \A q \in Requests :
               /\ req'[q].op = "unlock" => req'[q].passwordHash \in Hashes
               /\ req'[q].op = "status" => req'[q].status \in Statuses
      BY <3>4, RequestEnded
    <3> QED  BY <2>1, <3>3, <3>6, <3>7 DEF WriteLink, TypeOK
  <2>4. CASE ~Exists(l)
    <3>1. req' = [req EXCEPT ![r] = Idle] /\ UNCHANGED <<link, excused>>
      BY <2>1, <2>4 DEF WriteLink
    <3>2. Idle.op = "idle"
      BY DEF Idle
    <3> QED  BY <2>1, <3>1, <3>2, IdleType, RequestReplaced DEF WriteLink, TypeOK
  <2> QED  BY <2>3, <2>4
<1>3. CASE \E r \in Requests, l \in Links : WriteStatus(r, l)
  <2>1. PICK r \in Requests, l \in Links : WriteStatus(r, l)
    BY <1>3
  <2>2. req[r] \in Request /\ link[l] \in Row
    BY DEF TypeOK
  <2>3. CASE Exists(l)
    <3>1. [link[l] EXCEPT !.status = req[r].status] \in Row
      BY <2>1, <2>2 DEF WriteStatus, TypeOK, Row
    <3>2. link' = [link EXCEPT ![l] = [link[l] EXCEPT !.status = req[r].status]]
      BY <2>1, <2>3 DEF WriteStatus
    <3>3. link' \in [Links -> Row]
      BY <3>1, <3>2 DEF TypeOK
    <3>4. req' = [Overtake({l}, {"edit", "status", "sync"}) EXCEPT ![r] = Idle]
      BY <2>1, <2>3 DEF WriteStatus
    <3>5. excused' \in {excused \cup {l}, excused \ {l}}
      BY <2>1, <2>3 DEF WriteStatus
    <3>6. excused' \subseteq Links
      BY <3>5 DEF TypeOK
    <3> QED  BY <2>1, <3>3, <3>4, <3>6, RequestEnded DEF WriteStatus, TypeOK
  <2>4. CASE ~Exists(l)
    <3>1. req' = [req EXCEPT ![r] = Idle] /\ UNCHANGED <<link, excused>>
      BY <2>1, <2>4 DEF WriteStatus
    <3>2. Idle.op = "idle"
      BY DEF Idle
    <3> QED  BY <2>1, <3>1, <3>2, IdleType, RequestReplaced DEF WriteStatus, TypeOK
  <2> QED  BY <2>3, <2>4
<1>4. CASE \E r \in Requests : WriteExpired(r)
  <2>1. PICK r \in Requests : WriteExpired(r)
    BY <1>4
  <2> DEFINE ls == {l \in req[r].links : Exists(l)}
  <2>2. ls \subseteq Links
    BY DEF TypeOK, Request
  <2>3. link' = [l \in Links |-> IF l \in ls THEN [link[l] EXCEPT !.status = "EXPIRED"]
                                 ELSE link[l]]
    BY <2>1 DEF WriteExpired
  <2>4. req' = [Overtake(ls, {"edit", "status", "sync"}) EXCEPT ![r] = Idle]
    BY <2>1 DEF WriteExpired
  <2>5. excused' = (excused \ ls) \cup (ls \cap req[r].missed)
    BY <2>1 DEF WriteExpired
  <2> HIDE DEF ls
  <2>6. \A l \in Links : [link[l] EXCEPT !.status = "EXPIRED"] \in Row
    BY DEF TypeOK, Row, Statuses
  <2>7. link' \in [Links -> Row]
    BY <2>3, <2>6 DEF TypeOK
  <2> QED  BY <2>1, <2>2, <2>4, <2>5, <2>7, RequestEnded DEF WriteExpired, TypeOK
<1>5. CASE \E l \in Links : DeleteLink(l)
  <2>1. PICK l \in Links : DeleteLink(l)
    BY <1>5
  <2>2. [link[l] EXCEPT !.status = "deleted"] \in Row
    BY DEF TypeOK, Row
  <2>3. link' = [link EXCEPT ![l] = [link[l] EXCEPT !.status = "deleted"]]
    BY <2>1 DEF DeleteLink
  <2> QED  BY <2>1, <2>2, <2>3 DEF DeleteLink, TypeOK
<1>6. CASE Tick
  <2>1. now' \in Times
    BY <1>6, LinkConstants DEF Tick, TypeOK, Times
  <2>2. /\ DOMAIN req' = Requests /\ req' = [q \in Requests |-> req'[q]]
        /\ \E ls : req' = Overtake(ls, {"status"})
    BY <1>6 DEF Tick, Overtake
  <2>3. \A q \in Requests : /\ req'[q] \in Request
                            /\ req'[q].op = req[q].op
                            /\ req'[q].status = req[q].status
                            /\ req'[q].passwordHash = req[q].passwordHash
    BY <2>2, OvertakeFacts
  <2>4. Times' = Times
    BY DEF Times
  <2> QED  BY <1>6, <2>1, <2>2, <2>3, <2>4 DEF Tick, TypeOK, Row
<1> QED  BY <1>1, <1>2, <1>3, <1>4, <1>5, <1>6

LEMMA TypeStep == TypeOK /\ [Next]_vars => TypeOK'
<1> SUFFICES ASSUME TypeOK, [Next]_vars  PROVE TypeOK'
  OBVIOUS
<1>1. CASE Next
  BY <1>1, HandlerTypes, WriteTypes DEF Next, OwnerStep, VisitorStep
<1>2. CASE UNCHANGED vars
  BY <1>2 DEF vars, TypeOK, Times
<1> QED  BY <1>1, <1>2

-----------------------------------------------------------------------------
(* StatusInv *)

(* A handler that changes no row preserves the invariant if its own request *)
(* starts out knowing what it should.                                       *)
LEMMA HandlerStep ==
    ASSUME StatusInv, TypeOK', UNCHANGED <<now, link, excused>>,
           NEW r \in Requests,
           \A q \in Requests \ {r} : req'[q] = req[q],
           \A l \in req'[r].links : link[l].status # "none",
           Knows(r)'
    PROVE  StatusInv'
<1>1. HeldLinksExist'
  BY DEF StatusInv, HeldLinksExist
<1>2. ASSUME NEW q \in Requests \ {r}
      PROVE  Knows(q)'
  <2>1. Knows(q) /\ req'[q] = req[q] /\ TypeOK
    BY DEF StatusInv
  <2>2. \A l \in Links : (isExpired(l) <=> isExpired(l)') /\ link'[l].status = link[l].status
    BY DEF isExpired
  <2>3. req[q].links \subseteq Links
    BY <2>1 DEF TypeOK, Request
  <2> QED  BY <2>1, <2>2, <2>3, Undisturbed
<1>3. ExpiredMeansExpired'
  BY DEF StatusInv, ExpiredMeansExpired, isExpired
<1> QED  BY <1>1, <1>2, <1>3 DEF StatusInv

(* A write that ends request r, overtakes the other deciding requests that  *)
(* hold the links ls it changes, and leaves the other links alone.          *)
Writes(r, ls, ops) ==
    /\ now' = now
    /\ req' = [Overtake(ls, ops) EXCEPT ![r] = Idle]
    /\ \A l \in ls : link'[l].status # "none"
    /\ \A l \in Links : \/ l \in ls /\ {"edit", "status", "sync"} \subseteq ops
                        \/ /\ link'[l].status = link[l].status
                           /\ link'[l].expiresAt = link[l].expiresAt
    /\ \A l \in Links : link'[l].status = "EXPIRED" => isExpired(l)' \/ l \in excused'

LEMMA WriteStep ==
    ASSUME StatusInv, TypeOK', NEW r \in Requests, NEW ls, NEW ops, Writes(r, ls, ops)
    PROVE  StatusInv'
<1>1. TypeOK /\ HeldLinksExist /\ \A q \in Requests : Knows(q) /\ req[q] \in Request
  BY DEF StatusInv, TypeOK
<1>2. req'[r] = Idle /\ \A q \in Requests \ {r} : req'[q] = Overtake(ls, ops)[q]
  BY <1>1, RequestEnded DEF Writes
<1>3. Idle.links = {} /\ Idle.op = "idle"
  BY DEF Idle
<1>4. Knows(r)'
  BY <1>2, <1>3 DEF Knows, EditKnows, SyncKnows, ActivationKnows
<1>5. ASSUME NEW q \in Requests \ {r}
      PROVE  Knows(q)' /\ \A l \in req'[q].links : link'[l].status # "none"
  <2>1. /\ req'[q].op = req[q].op
        /\ req'[q].links = req[q].links
        /\ req'[q].status = req[q].status
        /\ req'[q].expiresAt = req[q].expiresAt
        /\ req[q].missed \subseteq req'[q].missed
        /\ req[q].op \in ops => ls \cap req[q].links \subseteq req'[q].missed
    BY <1>1, <1>2, OvertakeFacts
  <2>2. req[q].links \subseteq Links /\ Knows(q)
    BY <1>1 DEF Request
  <2>3. \A l \in req[q].links \ req'[q].missed :
           req[q].op \in {"edit", "status", "sync"} =>
             /\ link'[l].status = link[l].status
             /\ link'[l].expiresAt = link[l].expiresAt
    BY <2>1, <2>2 DEF Writes
  <2>4. \A l \in req[q].links \ req'[q].missed :
           req[q].op \in {"edit", "status", "sync"} => (isExpired(l) <=> isExpired(l)')
    BY <2>3 DEF isExpired, Writes
  <2>5. Knows(q)'
    BY <1>1, <2>1, <2>2, <2>3, <2>4, Undisturbed
  <2>6. \A l \in req'[q].links : link'[l].status # "none"
    BY <1>1, <2>1, <2>2 DEF HeldLinksExist, Writes
  <2> QED  BY <2>5, <2>6
<1>6. HeldLinksExist'
  BY <1>2, <1>3, <1>5 DEF HeldLinksExist
<1>7. ExpiredMeansExpired'
  BY DEF ExpiredMeansExpired, Writes
<1> QED  BY <1>4, <1>5, <1>6, <1>7 DEF StatusInv

LEMMA IdleKnows ==
    ASSUME NEW r \in Requests, req'[r] = Idle
    PROVE  Knows(r)' /\ \A l \in req'[r].links : link[l].status # "none"
BY DEF Idle, Knows, EditKnows, SyncKnows, ActivationKnows

LEMMA StatusStep == StatusInv /\ [Next]_vars => StatusInv'
<1> SUFFICES ASSUME StatusInv, [Next]_vars  PROVE StatusInv'
  OBVIOUS
<1>1. TypeOK /\ TypeOK'
  BY TypeStep DEF StatusInv
<1>2. ASSUME NEW l \in Links, NEW e \in Times, NEW h \in Hashes \cup {NoHash},
             CreateLink(l, e, h)
      PROVE  StatusInv'
  <2>1. /\ link[l].status = "none" /\ link'[l].status = "ACTIVE"
        /\ \A k \in Links \ {l} : link'[k] = link[k]
        /\ req' = req /\ now' = now /\ excused' = excused
    BY <1>1, <1>2 DEF CreateLink, TypeOK
  <2>2. \A q \in Requests : req[q].links \subseteq Links /\ l \notin req[q].links /\ Knows(q)
    BY <1>1, <2>1 DEF StatusInv, HeldLinksExist, TypeOK, Request
  <2>3. \A k \in Links \ {l} : isExpired(k) <=> isExpired(k)'
    BY <2>1 DEF isExpired
  <2>4. \A q \in Requests : Knows(q)'
    BY <1>1, <2>1, <2>2, <2>3, Undisturbed
  <2>5. HeldLinksExist'
    BY <2>1, <2>2 DEF StatusInv, HeldLinksExist
  <2>6. ExpiredMeansExpired'
    BY <2>1, <2>3 DEF StatusInv, ExpiredMeansExpired
  <2> QED  BY <1>1, <2>4, <2>5, <2>6 DEF StatusInv
<1>3. ASSUME NEW r \in Requests, NEW l \in Links, NEW e \in Times \cup {Keep},
             NEW h \in Hashes \cup {NoHash, Keep}, UpdateLink(r, l, e, h)
      PROVE  StatusInv'
  <2>1. /\ req'[r] = [Idle EXCEPT !.op = "edit", !.links = {l}, !.status = EditedStatus(l, e),
                                  !.expiresAt = e, !.passwordHash = h]
        /\ \A q \in Requests \ {r} : req'[q] = req[q]
        /\ Exists(l) /\ UNCHANGED <<now, link, excused>>
    BY <1>1, <1>3 DEF UpdateLink, TypeOK
  <2>2. /\ req'[r].op = "edit" /\ req'[r].links = {l} /\ req'[r].expiresAt = e
        /\ req'[r].status = EditedStatus(l, e)
    BY <2>1 DEF Idle
  <2>3. Knows(r)'
    BY <2>1, <2>2, LinkConstants
       DEF Knows, EditKnows, SyncKnows, ActivationKnows, EditedStatus, Statuses
  <2> QED  BY <1>1, <2>1, <2>2, <2>3, HandlerStep DEF Exists, Statuses
<1>4. ASSUME NEW r \in Requests, NEW l \in Links, WriteLink(r, l)
      PROVE  StatusInv'
  <2>1. CASE Exists(l)
    <3>1. /\ \A k \in Links \ {l} : link'[k] = link[k]
          /\ link'[l].status = Replaced(link[l].status, req[r].status)
          /\ link'[l].expiresAt = Replaced(link[l].expiresAt, req[r].expiresAt)
          /\ req[r].op = "edit" /\ req[r].links = {l} /\ now' = now
          /\ \A k \in Links \ {l} : k \in excused => k \in excused'
          /\ req[r].expiresAt = Keep => excused' = excused
          /\ req[r].expiresAt # Keep /\ l \in req[r].missed => l \in excused'
      BY <1>1, <1>4, <2>1 DEF WriteLink, TypeOK
    <3>2. /\ req[r].status \in {"ACTIVE", Keep}
          /\ req[r].expiresAt = Keep => req[r].status = Keep
          /\ req[r].expiresAt # Keep /\ l \notin req[r].missed =>
               \/ req[r].status = Keep /\ link[l].status # "EXPIRED"
               \/ req[r].status = "ACTIVE"
      BY <3>1 DEF StatusInv, Knows, EditKnows
    <3> DEFINE ops == Overtaken(r)
    <3>3. /\ req' = [Overtake({l}, ops) EXCEPT ![r] = Idle]
          /\ req[r].expiresAt # Keep => {"edit", "status", "sync"} \subseteq ops
      BY <1>4, <2>1 DEF WriteLink, Overtaken
    <3> HIDE DEF ops
    <3>4. link'[l].status # "none"
      BY <2>1, <3>1, <3>2, LinkConstants DEF Exists, Replaced, Statuses
    <3>5. \A k \in Links : \/ k \in {l} /\ {"edit", "status", "sync"} \subseteq ops
                           \/ /\ link'[k].status = link[k].status
                              /\ link'[k].expiresAt = link[k].expiresAt
      BY <3>1, <3>2, <3>3 DEF Replaced
    <3>6. ASSUME NEW k \in Links, link'[k].status = "EXPIRED"
          PROVE  isExpired(k)' \/ k \in excused'
      <4>1. link[k].status = "EXPIRED" => isExpired(k) \/ k \in excused
        BY DEF StatusInv, ExpiredMeansExpired
      <4>2. CASE k # l
        BY <3>1, <3>6, <4>1, <4>2 DEF isExpired
      <4>3. CASE k = l /\ req[r].expiresAt = Keep
        BY <3>1, <3>2, <3>6, <4>1, <4>3 DEF isExpired, Replaced
      <4>4. CASE k = l /\ req[r].expiresAt # Keep
        BY <3>1, <3>2, <3>6, <4>4, LinkConstants DEF Replaced, Statuses
      <4> QED  BY <4>2, <4>3, <4>4
    <3> DEFINE ls == {l}
    <3>7. /\ \A k \in ls : link'[k].status # "none"
          /\ \A k \in Links : \/ k \in ls /\ {"edit", "status", "sync"} \subseteq ops
                              \/ /\ link'[k].status = link[k].status
                                 /\ link'[k].expiresAt = link[k].expiresAt
          /\ req' = [Overtake(ls, ops) EXCEPT ![r] = Idle] /\ now' = now
      BY <3>1, <3>3, <3>4, <3>5
    <3>8. Writes(r, ls, ops)
      BY <3>6, <3>7 DEF Writes
    <3> QED  BY <1>1, <3>8, WriteStep
  <2>2. CASE ~Exists(l)
    <3>1. req' = [req EXCEPT ![r] = Idle] /\ UNCHANGED <<now, link, excused>>
      BY <1>4, <2>2 DEF WriteLink
    <3>2. req'[r] = Idle /\ \A q \in Requests \ {r} : req'[q] = req[q]
      BY <1>1, <3>1 DEF TypeOK
    <3> QED  BY <1>1, <3>1, <3>2, IdleKnows, HandlerStep
  <2> QED  BY <2>1, <2>2
<1>5. ASSUME NEW r \in Requests, NEW l \in Links, NEW s \in Statuses,
             UpdateLinkStatus(r, l, s)
      PROVE  StatusInv'
  <2>1. /\ req'[r] = [Idle EXCEPT !.op = "status", !.links = {l}, !.status = s]
        /\ \A q \in Requests \ {r} : req'[q] = req[q]
        /\ Exists(l) /\ UNCHANGED <<now, link, excused>>
        /\ s = "ACTIVE" => ~isExpired(l)
    BY <1>1, <1>5 DEF UpdateLinkStatus, StatusAllowed, TypeOK
  <2>2. req'[r].op = "status" /\ req'[r].links = {l} /\ req'[r].status = s
    BY <2>1 DEF Idle
  <2>3. Knows(r)'
    BY <2>1, <2>2 DEF Knows, EditKnows, SyncKnows, ActivationKnows, isExpired
  <2> QED  BY <1>1, <2>1, <2>2, <2>3, HandlerStep DEF Exists, Statuses
<1>6. ASSUME NEW r \in Requests, NEW l \in Links, WriteStatus(r, l)
      PROVE  StatusInv'
  <2>1. CASE Exists(l)
    <3> DEFINE ls == {l}
               ops == {"edit", "status", "sync"}
    <3>1. link[l] \in Row /\ req[r].status \in Statuses
      BY <1>1, <1>6 DEF WriteStatus, TypeOK
    <3>2. link' = [link EXCEPT ![l] = [link[l] EXCEPT !.status = req[r].status]]
      BY <1>6, <2>1 DEF WriteStatus
    <3>3. /\ \A k \in Links \ {l} : link'[k] = link[k]
          /\ link'[l].status = req[r].status
          /\ link'[l].expiresAt = link[l].expiresAt
      BY <1>1, <3>1, <3>2 DEF TypeOK, Row
    <3>4. /\ \A k \in Links \ {l} : k \in excused => k \in excused'
          /\ req[r].status = "EXPIRED" => l \in excused'
          /\ req' = [Overtake(ls, ops) EXCEPT ![r] = Idle] /\ now' = now
      BY <1>6, <2>1 DEF WriteStatus
    <3>5. \A k \in Links : link'[k].status = "EXPIRED" => isExpired(k)' \/ k \in excused'
      BY <3>3, <3>4 DEF StatusInv, ExpiredMeansExpired, isExpired
    <3>6. /\ \A k \in ls : link'[k].status # "none"
          /\ \A k \in Links : \/ k \in ls /\ {"edit", "status", "sync"} \subseteq ops
                              \/ /\ link'[k].status = link[k].status
                                 /\ link'[k].expiresAt = link[k].expiresAt
      BY <3>1, <3>3 DEF Statuses
    <3>7. Writes(r, ls, ops)
      BY <3>4, <3>5, <3>6 DEF Writes
    <3> QED  BY <1>1, <3>7, WriteStep
  <2>2. CASE ~Exists(l)
    <3>1. req' = [req EXCEPT ![r] = Idle] /\ UNCHANGED <<now, link, excused>>
      BY <1>6, <2>2 DEF WriteStatus
    <3>2. req'[r] = Idle /\ \A q \in Requests \ {r} : req'[q] = req[q]
      BY <1>1, <3>1 DEF TypeOK
    <3> QED  BY <1>1, <3>1, <3>2, IdleKnows, HandlerStep
  <2> QED  BY <2>1, <2>2
<1>7. ASSUME NEW r \in Requests, NEW ls \in SUBSET Links, FindExpired(r, ls)
      PROVE  StatusInv'
  <2>1. /\ req'[r] = [Idle EXCEPT !.op = "sync", !.links = ls]
        /\ \A q \in Requests \ {r} : req'[q] = req[q]
        /\ UNCHANGED <<now, link, excused>>
        /\ \A l \in ls : link[l].status = "ACTIVE" /\ isExpired(l)
    BY <1>1, <1>7 DEF FindExpired, Marks, TypeOK
  <2>2. req'[r].op = "sync" /\ req'[r].links = ls
    BY <2>1 DEF Idle
  <2>3. Knows(r)'
    BY <2>1, <2>2 DEF Knows, EditKnows, SyncKnows, ActivationKnows, isExpired
  <2> QED  BY <1>1, <2>1, <2>2, <2>3, HandlerStep
<1>8. ASSUME NEW r \in Requests, WriteExpired(r)
      PROVE  StatusInv'
  <2> DEFINE ls == {l \in req[r].links : Exists(l)}
  <2> DEFINE ops == {"edit", "status", "sync"}
  <2>1. /\ ls \subseteq req[r].links /\ \A l \in ls : Exists(l)
        /\ link' = [l \in Links |-> IF l \in ls THEN [link[l] EXCEPT !.status = "EXPIRED"]
                                    ELSE link[l]]
        /\ req' = [Overtake(ls, ops) EXCEPT ![r] = Idle]
        /\ excused' = (excused \ ls) \cup (ls \cap req[r].missed)
        /\ req[r].op = "sync" /\ now' = now
    BY <1>8 DEF WriteExpired
  <2> HIDE DEF ls
  <2>2. \A l \in Links : /\ link[l] \in Row
                         /\ link'[l].expiresAt = link[l].expiresAt
                         /\ l \in ls => link'[l].status = "EXPIRED"
                         /\ l \notin ls => link'[l] = link[l]
    BY <1>1, <2>1 DEF TypeOK, Row
  <2>3. \A l \in Links : isExpired(l) <=> isExpired(l)'
    BY <2>1, <2>2 DEF isExpired
  <2>4. \A l \in ls \ req[r].missed : isExpired(l)
    BY <2>1 DEF StatusInv, Knows, SyncKnows
  <2>5. \A l \in Links : link'[l].status = "EXPIRED" => isExpired(l)' \/ l \in excused'
    BY <2>1, <2>2, <2>3, <2>4 DEF StatusInv, ExpiredMeansExpired
  <2>6. ls \subseteq Links
    BY <1>1, <2>1 DEF TypeOK, Request
  <2>7. /\ \A l \in ls : link'[l].status # "none"
        /\ \A l \in Links : \/ l \in ls /\ {"edit", "status", "sync"} \subseteq ops
                            \/ /\ link'[l].status = link[l].status
                               /\ link'[l].expiresAt = link[l].expiresAt
    BY <2>2, <2>6
  <2>8. Writes(r, ls, ops)
    BY <2>1, <2>5, <2>7 DEF Writes
  <2> QED  BY <1>1, <2>8, WriteStep
<1>9. ASSUME NEW l \in Links, DeleteLink(l)
      PROVE  StatusInv'
  <2>1. /\ link'[l].status = "deleted"
        /\ \A k \in Links : link'[k].expiresAt = link[k].expiresAt
        /\ \A k \in Links \ {l} : link'[k].status = link[k].status
        /\ req' = req /\ now' = now /\ excused' = excused
    BY <1>1, <1>9 DEF DeleteLink, TypeOK, Row
  <2>2. \A q \in Requests : req[q].links \subseteq Links /\ Knows(q)
    BY <1>1 DEF StatusInv, TypeOK, Request
  <2>3. \A k \in Links : isExpired(k) <=> isExpired(k)'
    BY <2>1 DEF isExpired
  <2>4. \A q \in Requests : Knows(q)'
    BY <1>1, <2>1, <2>2, <2>3, Undisturbed
  <2>5. HeldLinksExist' /\ ExpiredMeansExpired'
    BY <2>1, <2>2, <2>3 DEF StatusInv, HeldLinksExist, ExpiredMeansExpired
  <2> QED  BY <1>1, <2>4, <2>5 DEF StatusInv
<1>10. ASSUME NEW r \in Requests,
              \/ \E l \in Links, h \in Hashes \cup {NoHash} : Visit(r, l, h)
              \/ \E l \in Links : Unlock(r, l)
              \/ Redirect(r)
       PROVE  StatusInv'
  <2>1. /\ \A q \in Requests \ {r} : req'[q] = req[q]
        /\ UNCHANGED <<now, link, excused>>
        /\ req'[r].op \in {"visit", "unlock", "idle"}
        /\ \A l \in req'[r].links : Exists(l)
    <3>1. CASE \E l \in Links, h \in Hashes \cup {NoHash} : Visit(r, l, h)
      BY <1>1, <3>1 DEF Visit, Idle, TypeOK, Open, Exists, Statuses
    <3>2. CASE \E l \in Links : Unlock(r, l)
      BY <1>1, <3>2 DEF Unlock, Idle, TypeOK, Open, Exists, Statuses
    <3>3. CASE Redirect(r)
      BY <1>1, <3>3 DEF Redirect, Idle, TypeOK
    <3> QED  BY <1>10, <3>1, <3>2, <3>3
  <2>2. Knows(r)'
    BY <2>1 DEF Knows, EditKnows, SyncKnows, ActivationKnows
  <2> QED  BY <1>1, <2>1, <2>2, HandlerStep DEF Exists, Statuses
<1>11. CASE Tick
  <2> DEFINE ls == {l \in Links : link[l].expiresAt = now'}
  <2>1. /\ now' = now + 1 /\ link' = link /\ excused' = excused
        /\ req' = Overtake(ls, {"status"})
    BY <1>11 DEF Tick
  <2>2. \A l \in Links : /\ isExpired(l) => isExpired(l)'
                         /\ isExpired(l)' /\ l \notin ls => isExpired(l)
    BY <1>1, <2>1, LinkConstants DEF isExpired, TypeOK, Row, Times
  <2> HIDE DEF ls
  <2>3. ASSUME NEW q \in Requests
        PROVE  Knows(q)' /\ \A l \in req'[q].links : link'[l].status # "none"
    <3>1. /\ req'[q].op = req[q].op
          /\ req'[q].links = req[q].links
          /\ req'[q].status = req[q].status
          /\ req'[q].expiresAt = req[q].expiresAt
          /\ req[q].missed \subseteq req'[q].missed
          /\ req[q].op = "status" => ls \cap req[q].links \subseteq req'[q].missed
      BY <1>1, <2>1, OvertakeFacts
    <3>2. req[q].links \subseteq Links /\ Knows(q)
      BY <1>1 DEF StatusInv, TypeOK, Request
    <3>3. Knows(q)'
      BY <1>1, <2>1, <2>2, <3>1, <3>2, Undisturbed
    <3> QED  BY <2>1, <3>1, <3>3 DEF StatusInv, HeldLinksExist
  <2>4. HeldLinksExist' /\ ExpiredMeansExpired'
    BY <2>1, <2>2, <2>3 DEF StatusInv, HeldLinksExist, ExpiredMeansExpired
  <2> QED  BY <1>1, <2>3, <2>4 DEF StatusInv
<1>12. CASE UNCHANGED vars
  BY <1>12 DEF vars, StatusInv, TypeOK, HeldLinksExist, ExpiredMeansExpired,
               Knows, EditKnows, SyncKnows, ActivationKnows, isExpired, Times
<1> QED  BY <1>2, <1>3, <1>4, <1>5, <1>6, <1>7, <1>8, <1>9, <1>10, <1>11, <1>12
         DEF Next, OwnerStep, VisitorStep

LEMMA StatusInit == Init => StatusInv
<1> SUFFICES ASSUME Init  PROVE StatusInv
  OBVIOUS
<1>1. \A r \in Requests : req[r].op = "idle" /\ req[r].links = {}
  BY DEF Init, Idle
<1>2. \A l \in Links : link[l].status = "none"
  BY DEF Init
<1> QED  BY <1>1, <1>2, InitType
         DEF StatusInv, HeldLinksExist, Knows, EditKnows, SyncKnows, ActivationKnows,
             ExpiredMeansExpired

(* StatusInv is inductive: requests that were not overtaken know the status *)
(* and expiry of the rows they will write.                                  *)
THEOREM StatusInvariant == Spec => []StatusInv
BY StatusInit, StatusStep, PTL DEF Spec

(* Every variable keeps its type. *)
THEOREM TypeCorrectness == Spec => []TypeOK
<1>1. StatusInv => TypeOK
  BY DEF StatusInv
<1> QED  BY <1>1, StatusInvariant, PTL

(* No sequence of complete requests leaves a link EXPIRED by the handlers   *)
(* themselves while its expiry is still to come or was removed.             *)
THEOREM ExpiredTheorem == Spec => []ExpiredMeansExpired
<1>1. StatusInv => ExpiredMeansExpired
  BY DEF StatusInv
<1> QED  BY <1>1, StatusInvariant, PTL

(* Who changes the status of a link that is not deleted, and how. *)
LEMMA StatusChanges ==
    ASSUME StatusInv, Next, NEW l \in Links,
           Exists(l), link'[l].status \notin {link[l].status, "deleted"}
    PROVE  \E r \in Requests :
             /\ l \in req[r].links /\ req'[r].op = "idle"
             /\ \/ /\ req[r].op = "edit" /\ req[r].expiresAt # Keep
                   /\ l \in req[r].missed \/ link[l].status = "EXPIRED"
                \/ req[r].op = "status" /\ req[r].status = link'[l].status
                \/ /\ req[r].op = "sync" /\ link'[l].status = "EXPIRED"
                   /\ l \in req[r].missed \/ link[l].status = "ACTIVE"
<1>1. TypeOK /\ Idle.op = "idle" /\ Idle.links = {}
  BY DEF StatusInv, Idle
<1>2. ASSUME NEW k \in Links, NEW e \in Times, NEW h \in Hashes \cup {NoHash},
             CreateLink(k, e, h)
      PROVE  FALSE
  BY <1>1, <1>2 DEF CreateLink, TypeOK, Exists, Statuses
<1>3. ASSUME NEW r \in Requests, NEW k \in Links, WriteLink(r, k)
      PROVE  /\ l \in req[r].links /\ req'[r].op = "idle"
             /\ req[r].op = "edit" /\ req[r].expiresAt # Keep
             /\ l \in req[r].missed \/ link[l].status = "EXPIRED"
  <2>0. k = l /\ Exists(k)
    BY <1>1, <1>3 DEF WriteLink, TypeOK
  <2>1. /\ k = l /\ req[r].op = "edit" /\ req[r].links = {l}
        /\ link'[l].status = Replaced(link[l].status, req[r].status)
        /\ req' = [Overtake({l}, Overtaken(r)) EXCEPT ![r] = Idle]
    <3> DEFINE row == [status |-> Replaced(link[l].status, req[r].status),
                       expiresAt |-> Replaced(link[l].expiresAt, req[r].expiresAt),
                       passwordHash |-> Replaced(link[l].passwordHash, req[r].passwordHash)]
    <3>1. /\ link' = [link EXCEPT ![l] = row]
          /\ req[r].op = "edit" /\ req[r].links = {l}
          /\ req' = [Overtake({l}, Overtaken(r)) EXCEPT ![r] = Idle]
      BY <1>3, <2>0 DEF WriteLink
    <3>2. link'[l] = row
      BY <1>1, <3>1 DEF TypeOK
    <3> QED  BY <2>0, <3>1, <3>2
  <2>2. req'[r] = Idle
    BY <1>1, <2>1, RequestEnded
  <2>3. req[r].status # Keep
    BY <2>1 DEF Replaced
  <2>4. /\ req[r].expiresAt # Keep
        /\ l \notin req[r].missed => link[l].status \in {"EXPIRED", "deleted"}
    BY <2>1, <2>3 DEF StatusInv, Knows, EditKnows
  <2> QED  BY <1>1, <2>1, <2>2, <2>4 DEF Exists, Statuses
<1>4. ASSUME NEW r \in Requests, NEW k \in Links, WriteStatus(r, k)
      PROVE  /\ l \in req[r].links /\ req'[r].op = "idle"
             /\ req[r].op = "status" /\ req[r].status = link'[l].status
  <2>1. /\ k = l /\ req[r].op = "status" /\ req[r].links = {l}
        /\ link' = [link EXCEPT ![l] = [link[l] EXCEPT !.status = req[r].status]]
        /\ req' = [Overtake({l}, {"edit", "status", "sync"}) EXCEPT ![r] = Idle]
    BY <1>1, <1>4 DEF WriteStatus, TypeOK
  <2>2. req'[r] = Idle
    BY <1>1, <2>1, RequestEnded
  <2>3. link'[l].status = req[r].status
    BY <1>1, <2>1 DEF TypeOK, Row
  <2> QED  BY <1>1, <2>1, <2>2, <2>3
<1>5. ASSUME NEW r \in Requests, WriteExpired(r)
      PROVE  /\ l \in req[r].links /\ req'[r].op = "idle"
             /\ req[r].op = "sync" /\ link'[l].status = "EXPIRED"
             /\ l \in req[r].missed \/ link[l].status = "ACTIVE"
  <2>1. /\ l \in req[r].links /\ req[r].op = "sync"
        /\ link'[l] = [link[l] EXCEPT !.status = "EXPIRED"]
    BY <1>1, <1>5 DEF WriteExpired
  <2>2. \E ls, ops : req' = [Overtake(ls, ops) EXCEPT ![r] = Idle]
    BY <1>5 DEF WriteExpired
  <2>3. req'[r] = Idle
    BY <1>1, <2>2, RequestEnded
  <2>4. l \notin req[r].missed => link[l].status \in {"ACTIVE", "deleted"}
    BY <2>1 DEF StatusInv, Knows, SyncKnows
  <2>5. link'[l].status = "EXPIRED"
    BY <1>1, <2>1 DEF TypeOK, Row
  <2> QED  BY <1>1, <2>1, <2>3, <2>4, <2>5 DEF Exists, Statuses
<1>6. ASSUME NEW k \in Links, DeleteLink(k)
      PROVE  FALSE
  BY <1>1, <1>6 DEF DeleteLink, TypeOK, Row
<1>7. ASSUME NEW r \in Requests,
             \/ \E k \in Links, e \in Times \cup {Keep}, h \in Hashes \cup {NoHash, Keep} :
                    UpdateLink(r, k, e, h)
             \/ \E k \in Links, s \in Statuses : UpdateLinkStatus(r, k, s)
             \/ \E ls \in SUBSET Links : FindExpired(r, ls)
             \/ VisitorStep(r)
      PROVE  FALSE
  BY <1>7 DEF UpdateLink, UpdateLinkStatus, FindExpired, VisitorStep, Visit, Unlock,
              Redirect
<1>12. ASSUME Tick  PROVE FALSE
  BY <1>12 DEF Tick
<1>8. CASE \E r \in Requests, k \in Links : WriteLink(r, k)
  BY <1>3, <1>8
<1>9. CASE \E r \in Requests, k \in Links : WriteStatus(r, k)
  BY <1>4, <1>9
<1>10. CASE \E r \in Requests : WriteExpired(r)
  BY <1>5, <1>10
<1>11. \/ \E r \in Requests, k \in Links : WriteLink(r, k) \/ WriteStatus(r, k)
       \/ \E r \in Requests : WriteExpired(r)
  <2>1. PICK r \in Requests : OwnerStep(r)
    BY <1>2, <1>6, <1>7, <1>12 DEF Next
  <2>2. \/ \E k \in Links : WriteLink(r, k) \/ WriteStatus(r, k)
        \/ WriteExpired(r)
    BY <1>7, <2>1 DEF OwnerStep
  <2> QED  BY <2>2
<1> QED
  BY <1>8, <1>9, <1>10, <1>11

(* Only the owner, or a request overtaken by the owner, takes a link out of *)
(* DISABLED.                                                                *)
THEOREM DisabledTheorem == Spec => DisabledStaysDisabled
<1>1. ASSUME StatusInv, [Next]_vars
      PROVE  \A l \in Links :
               (link[l].status = "DISABLED" /\ link'[l].status \in {"ACTIVE", "EXPIRED"})
                 => \E r \in Requests :
                      /\ l \in req[r].links /\ req'[r].op = "idle"
                      /\ req[r].op = "status" \/ l \in req[r].missed
  BY <1>1, StatusChanges DEF Exists, Statuses, vars
<1> QED  BY <1>1, StatusInvariant, PTL DEF Spec, DisabledStaysDisabled

(* A link past its expiry is made active only with a new expiry. *)
THEOREM ActivationTheorem == Spec => ActivationNeedsTime
<1>1. ASSUME StatusInv, [Next]_vars
      PROVE  \A l \in Links :
               (link[l].status \in {"EXPIRED", "DISABLED"} /\ isExpired(l)
                  /\ link'[l].status = "ACTIVE")
                 => \E r \in Requests :
                      /\ l \in req[r].links /\ req'[r].op = "idle"
                      /\ req[r].expiresAt # Keep \/ l \in req[r].missed
  <2> SUFFICES ASSUME NEW l \in Links, link[l].status \in {"EXPIRED", "DISABLED"},
                      isExpired(l), link'[l].status = "ACTIVE"
               PROVE  \E r \in Requests :
                        /\ l \in req[r].links /\ req'[r].op = "idle"
                        /\ req[r].expiresAt # Keep \/ l \in req[r].missed
    OBVIOUS
  <2>1. Next /\ Exists(l)
    BY <1>1 DEF vars, Exists, Statuses
  <2>2. PICK r \in Requests :
             /\ l \in req[r].links /\ req'[r].op = "idle"
             /\ \/ req[r].op = "edit" /\ req[r].expiresAt # Keep
                \/ req[r].op = "status" /\ req[r].status = "ACTIVE"
    BY <1>1, <2>1, StatusChanges
  <2>3. Knows(r)
    BY <1>1 DEF StatusInv
  <2> QED  BY <2>2, <2>3 DEF Knows, ActivationKnows
<1> QED  BY <1>1, StatusInvariant, PTL DEF Spec, ActivationNeedsTime

-----------------------------------------------------------------------------
(* PasswordInv, with the types and HeldLinksExist that StatusInv has. *)

(* A step that writes no hash and makes no cookie. *)
LEMMA HashFrame ==
    ASSUME TypeOK, PasswordInv, UNCHANGED <<used, tokens>>,
           \A l \in Links : link'[l].passwordHash = link[l].passwordHash,
           \A q \in Requests :
              \/ req'[q].op \notin {"edit", "visit", "unlock"} /\ req'[q].passwordHash = Keep
              \/ /\ req'[q].op = req[q].op
                 /\ req'[q].links = req[q].links
                 /\ req'[q].passwordHash = req[q].passwordHash
                 /\ req[q].missed \subseteq req'[q].missed
    PROVE  PasswordInv'
<1>1. KnownHashes'
  BY DEF PasswordInv, KnownHashes
<1>2. PendingHashesAreNew'
  BY LinkConstants DEF PasswordInv, PendingHashesAreNew
<1>3. OldCookiesOpenNothing'
  BY DEF PasswordInv, OldCookiesOpenNothing
<1> QED  BY <1>1, <1>2, <1>3 DEF PasswordInv

LEMMA IdleHashes ==
    /\ Idle.op = "idle" /\ Idle.passwordHash = Keep
    /\ Idle.links = {} /\ Idle.missed = {}
BY DEF Idle

LEMMA PasswordStep == StatusInv /\ PasswordInv /\ [Next]_vars => PasswordInv'
<1> SUFFICES ASSUME StatusInv, PasswordInv, [Next]_vars  PROVE PasswordInv'
  OBVIOUS
<1>1. /\ TypeOK /\ HeldLinksExist /\ KnownHashes
      /\ PendingHashesAreNew /\ OldCookiesOpenNothing
  BY DEF StatusInv, PasswordInv
<1>2. ASSUME NEW l \in Links, NEW e \in Times, NEW h \in Hashes \cup {NoHash},
             CreateLink(l, e, h)
      PROVE  PasswordInv'
  <2>1. /\ link[l].status = "none" /\ link'[l].passwordHash = h
        /\ \A k \in Links \ {l} : link'[k] = link[k]
        /\ req' = req /\ tokens' = tokens
        /\ used' = used \cup ({h} \cap Hashes) /\ h \notin used
    BY <1>1, <1>2, LinkConstants DEF CreateLink, Fresh, TypeOK
  <2>2. \A q \in Requests : l \notin req[q].links
    BY <1>1, <2>1 DEF HeldLinksExist
  <2>3. KnownHashes'
    BY <1>1, <2>1 DEF KnownHashes
  <2>4. PendingHashesAreNew'
    BY <1>1, <2>1, LinkConstants DEF KnownHashes, PendingHashesAreNew
  <2>5. OldCookiesOpenNothing'
    BY <1>1, <2>1, <2>2 DEF OldCookiesOpenNothing
  <2> QED  BY <2>3, <2>4, <2>5 DEF PasswordInv
<1>3. ASSUME NEW r \in Requests, NEW l \in Links, NEW e \in Times \cup {Keep},
             NEW h \in Hashes \cup {NoHash, Keep}, UpdateLink(r, l, e, h)
      PROVE  PasswordInv'
  <2>1. /\ req'[r] = [Idle EXCEPT !.op = "edit", !.links = {l}, !.status = EditedStatus(l, e),
                                  !.expiresAt = e, !.passwordHash = h]
        /\ \A q \in Requests \ {r} : req'[q] = req[q]
        /\ UNCHANGED <<link, tokens>>
        /\ used' = used \cup ({h} \cap Hashes) /\ h \notin used
    BY <1>1, <1>3, LinkConstants DEF UpdateLink, Fresh, TypeOK
  <2>2. /\ req'[r].op = "edit" /\ req'[r].passwordHash = h
        /\ \A q \in Requests \ {r} : req'[q] = req[q]
        /\ UNCHANGED <<link, tokens>>
    BY <2>1 DEF Idle
  <2>3. KnownHashes'
    BY <1>1, <2>1, <2>2 DEF KnownHashes
  <2>4. PendingHashesAreNew'
    <3>1. \A q \in Requests : req[q].passwordHash \in Hashes => req[q].passwordHash # h
      BY <1>1, <2>1, LinkConstants DEF KnownHashes
    <3>2. h \in Hashes => /\ \A k \in Links : link[k].passwordHash # h
                         /\ \A t \in tokens : t.hash # h
      BY <1>1, <2>1, LinkConstants DEF KnownHashes
    <3> QED  BY <1>1, <2>2, <3>1, <3>2 DEF PendingHashesAreNew
  <2>5. OldCookiesOpenNothing'
    BY <1>1, <2>2 DEF OldCookiesOpenNothing
  <2> QED  BY <2>3, <2>4, <2>5 DEF PasswordInv
<1>4. ASSUME NEW r \in Requests, NEW l \in Links, WriteLink(r, l), Exists(l)
      PROVE  PasswordInv'
  <2>1. /\ \A k \in Links \ {l} : link'[k] = link[k]
        /\ link'[l].passwordHash = Replaced(link[l].passwordHash, req[r].passwordHash)
        /\ req[r].op = "edit" /\ req[r].links = {l} /\ UNCHANGED <<used, tokens>>
    BY <1>1, <1>4 DEF WriteLink, TypeOK
  <2>2. req' = [Overtake({l}, Overtaken(r)) EXCEPT ![r] = Idle]
    BY <1>4 DEF WriteLink
  <2>3. /\ req'[r] = Idle
        /\ \A q \in Requests \ {r} : req'[q] = Overtake({l}, Overtaken(r))[q]
    BY <1>1, <2>2, RequestEnded
  <2>4. req[r].passwordHash # Keep => "visit" \in Overtaken(r)
    BY DEF Overtaken
  <2>5. \A q \in Requests \ {r} :
           /\ req'[q].op = req[q].op
           /\ req'[q].links = req[q].links
           /\ req'[q].passwordHash = req[q].passwordHash
           /\ req[q].missed \subseteq req'[q].missed
           /\ req[q].op \in Overtaken(r) => {l} \cap req[q].links \subseteq req'[q].missed
    BY <1>1, <2>3, OvertakeFacts
  <2>6. KnownHashes'
    BY <1>1, <2>1, <2>3, <2>5, IdleHashes DEF KnownHashes, Replaced
  <2>7. PendingHashesAreNew'
    BY <1>1, <2>1, <2>3, <2>5, IdleHashes, LinkConstants DEF PendingHashesAreNew, Replaced
  <2>8. OldCookiesOpenNothing'
    BY <1>1, <2>1, <2>3, <2>4, <2>5, IdleHashes DEF OldCookiesOpenNothing, Replaced
  <2> QED  BY <2>6, <2>7, <2>8 DEF PasswordInv
<1>5. ASSUME NEW r \in Requests, NEW l \in Links, WriteLink(r, l), ~Exists(l)
      PROVE  PasswordInv'
  <2>1. /\ UNCHANGED <<link, used, tokens>>
        /\ req'[r] = Idle /\ \A q \in Requests \ {r} : req'[q] = req[q]
    BY <1>1, <1>5 DEF WriteLink, TypeOK
  <2> QED  BY <1>1, <2>1, IdleHashes, HashFrame
<1>6. ASSUME NEW r \in Requests,
             \/ \E l \in Links, s \in Statuses : UpdateLinkStatus(r, l, s)
             \/ \E ls \in SUBSET Links : FindExpired(r, ls)
      PROVE  PasswordInv'
  <2>1. /\ UNCHANGED <<link, used, tokens>>
        /\ req'[r].op \in {"status", "sync"} /\ req'[r].passwordHash = Keep
        /\ \A q \in Requests \ {r} : req'[q] = req[q]
    <3>1. CASE \E l \in Links, s \in Statuses : UpdateLinkStatus(r, l, s)
      BY <1>1, <3>1 DEF UpdateLinkStatus, TypeOK, Idle
    <3>2. CASE \E ls \in SUBSET Links : FindExpired(r, ls)
      BY <1>1, <3>2 DEF FindExpired, TypeOK, Idle
    <3> QED  BY <1>6, <3>1, <3>2
  <2> QED  BY <1>1, <2>1, HashFrame
<1>7. ASSUME NEW r \in Requests,
             \/ \E l \in Links : WriteStatus(r, l)
             \/ WriteExpired(r)
      PROVE  PasswordInv'
  <2>1. UNCHANGED <<used, tokens>>
    BY <1>7 DEF WriteStatus, WriteExpired
  <2>2. \A k \in Links : link'[k].passwordHash = link[k].passwordHash
    <3>1. \A k \in Links, s \in Statuses :
             [link[k] EXCEPT !.status = s].passwordHash = link[k].passwordHash
      BY <1>1 DEF TypeOK, Row
    <3>2. ASSUME NEW l \in Links, WriteStatus(r, l)
          PROVE  \A k \in Links : link'[k].passwordHash = link[k].passwordHash
      <4>1. req[r].status \in Statuses
        BY <1>1, <3>2 DEF WriteStatus, TypeOK
      <4>2. \/ link' = link
            \/ link' = [link EXCEPT ![l] = [link[l] EXCEPT !.status = req[r].status]]
        BY <3>2 DEF WriteStatus
      <4> QED  BY <1>1, <3>1, <4>1, <4>2 DEF TypeOK
    <3>3. CASE WriteExpired(r)
      BY <3>1, <3>3 DEF WriteExpired, Statuses
    <3> QED  BY <1>7, <3>2, <3>3
  <2>3. \/ req' = [req EXCEPT ![r] = Idle]
        \/ \E ls, ops : req' = [Overtake(ls, ops) EXCEPT ![r] = Idle]
    BY <1>7 DEF WriteStatus, WriteExpired
  <2>4. CASE req' = [req EXCEPT ![r] = Idle]
    <3>1. req'[r] = Idle /\ \A q \in Requests \ {r} : req'[q] = req[q]
      BY <1>1, <2>4 DEF TypeOK
    <3> QED  BY <1>1, <2>1, <2>2, <3>1, IdleHashes, HashFrame
  <2>5. ASSUME NEW ls, NEW ops, req' = [Overtake(ls, ops) EXCEPT ![r] = Idle]
        PROVE  PasswordInv'
    <3>1. req'[r] = Idle /\ \A q \in Requests \ {r} : req'[q] = Overtake(ls, ops)[q]
      BY <1>1, <2>5, RequestEnded
    <3>2. \A q \in Requests \ {r} :
             /\ req'[q].op = req[q].op
             /\ req'[q].links = req[q].links
             /\ req'[q].passwordHash = req[q].passwordHash
             /\ req[q].missed \subseteq req'[q].missed
      BY <1>1, <3>1, OvertakeFacts
    <3> QED  BY <1>1, <2>1, <2>2, <3>1, <3>2, IdleHashes, HashFrame
  <2> QED  BY <2>3, <2>4, <2>5
<1>8. ASSUME NEW l \in Links, DeleteLink(l)
      PROVE  PasswordInv'
  <2>1. /\ UNCHANGED <<used, tokens, req>>
        /\ \A k \in Links : link'[k].passwordHash = link[k].passwordHash
    BY <1>1, <1>8 DEF DeleteLink, TypeOK, Row
  <2> QED  BY <1>1, <2>1, HashFrame
<1>9. ASSUME NEW r \in Requests, NEW l \in Links, NEW h \in Hashes \cup {NoHash},
             \/ Visit(r, l, h)
             \/ Unlock(r, l) /\ h = link[l].passwordHash
      PROVE  PasswordInv'
  <2>1. /\ link[l].passwordHash = h /\ UNCHANGED <<link, used, tokens>>
        /\ req'[r].op \in {"visit", "unlock"}
        /\ req'[r].op = "unlock" => h # NoHash
        /\ req'[r].links = {l} /\ req'[r].passwordHash = h
        /\ \A q \in Requests \ {r} : req'[q] = req[q]
    <3>1. CASE Visit(r, l, h)
      BY <1>1, <3>1 DEF Visit, Unlocked, TypeOK, Idle
    <3>2. CASE Unlock(r, l) /\ h = link[l].passwordHash
      BY <1>1, <3>2 DEF Unlock, TypeOK, Idle
    <3> QED  BY <1>9, <3>1, <3>2
  <2>2. KnownHashes'
    BY <1>1, <2>1 DEF KnownHashes
  <2>3. PendingHashesAreNew'
    BY <1>1, <2>1 DEF PendingHashesAreNew
  <2>4. OldCookiesOpenNothing'
    BY <1>1, <2>1 DEF OldCookiesOpenNothing
  <2> QED  BY <2>2, <2>3, <2>4 DEF PasswordInv
<1>10. ASSUME NEW r \in Requests, Redirect(r)
       PROVE  PasswordInv'
  <2>1. /\ UNCHANGED <<link, used>> /\ req'[r] = Idle
        /\ \A q \in Requests \ {r} : req'[q] = req[q]
        /\ req[r].op \in {"visit", "unlock"}
        /\ \A t \in tokens' : t \in tokens \/ (req[r].op = "unlock" /\ t.hash = req[r].passwordHash)
    BY <1>1, <1>10 DEF Redirect, TypeOK
  <2>2. KnownHashes'
    BY <1>1, <2>1, IdleHashes DEF KnownHashes
  <2>3. PendingHashesAreNew'
    BY <1>1, <2>1, IdleHashes, LinkConstants DEF PendingHashesAreNew
  <2>4. OldCookiesOpenNothing'
    BY <1>1, <2>1, IdleHashes DEF OldCookiesOpenNothing
  <2> QED  BY <2>2, <2>3, <2>4 DEF PasswordInv
<1>11. CASE Tick
  <2>1. /\ UNCHANGED <<link, used, tokens>>
        /\ \E ls : req' = Overtake(ls, {"status"})
    BY <1>11 DEF Tick
  <2>2. \A q \in Requests :
           /\ req'[q].op = req[q].op
           /\ req'[q].links = req[q].links
           /\ req'[q].passwordHash = req[q].passwordHash
           /\ req[q].missed \subseteq req'[q].missed
    BY <1>1, <2>1, OvertakeFacts
  <2> QED  BY <1>1, <2>1, <2>2, HashFrame
<1>12. CASE UNCHANGED vars
  BY <1>1, <1>12, HashFrame DEF vars
<1>13. ASSUME NEW r \in Requests, VisitorStep(r)
       PROVE  PasswordInv'
  <2>1. \A l \in Links : Unlock(r, l) => link[l].passwordHash \in Hashes
    BY <1>1 DEF Unlock, TypeOK, Row
  <2> QED  BY <1>9, <1>10, <1>13, <2>1 DEF VisitorStep
<1>14. ASSUME NEW r \in Requests, OwnerStep(r)
       PROVE  PasswordInv'
  BY <1>3, <1>4, <1>5, <1>6, <1>7, <1>14 DEF OwnerStep
<1> QED  BY <1>2, <1>8, <1>11, <1>12, <1>13, <1>14 DEF Next

LEMMA PasswordInit == Init => PasswordInv
<1> SUFFICES ASSUME Init  PROVE PasswordInv
  OBVIOUS
<1>1. \A r \in Requests : req[r].op = "idle" /\ req[r].passwordHash = Keep
  BY IdleHashes DEF Init
<1>2. tokens = {} /\ \A l \in Links : link[l].passwordHash = NoHash
  BY DEF Init
<1> QED  BY <1>1, <1>2
         DEF PasswordInv, KnownHashes, PendingHashesAreNew, OldCookiesOpenNothing

THEOREM PasswordInvariant == Spec => []PasswordInv
BY PasswordInit, PasswordStep, StatusInvariant, PTL DEF Spec

(* A visitor on the way to the destination of a link whose password was not *)
(* changed since proved the password the link has now.                      *)
THEOREM CookieTheorem == Spec => []OldCookiesOpenNothing
<1>1. PasswordInv => OldCookiesOpenNothing
  BY DEF PasswordInv
<1> QED  BY <1>1, PasswordInvariant, PTL

(* No write ever brings back the hash a stale cookie names. *)
THEOREM StaleCookieTheorem == Spec => StaleCookiesStayStale
<1>1. ASSUME StatusInv, PasswordInv, [Next]_vars
      PROVE  \A t \in tokens : link[t.link].passwordHash # t.hash
                                => link'[t.link].passwordHash # t.hash
  <2> SUFFICES ASSUME NEW t \in tokens, link'[t.link].passwordHash # link[t.link].passwordHash
               PROVE  link'[t.link].passwordHash # t.hash
    OBVIOUS
  <2>1. /\ TypeOK /\ t.link \in Links /\ t.hash \in Hashes
        /\ t.hash \in used /\ t.hash # NoHash
    BY <1>1, LinkConstants DEF PasswordInv, KnownHashes, StatusInv, TypeOK, Token
  <2>2. PICK l : l = t.link
    OBVIOUS
  <2>3. ASSUME NEW k \in Links, NEW e \in Times, NEW h \in Hashes \cup {NoHash},
               CreateLink(k, e, h)
        PROVE  link'[l].passwordHash # t.hash
    BY <1>1, <2>1, <2>2, <2>3 DEF CreateLink, Fresh, TypeOK
  <2>4. ASSUME NEW r \in Requests, NEW k \in Links, WriteLink(r, k)
        PROVE  link'[l].passwordHash # t.hash
    <3>1. /\ req[r].op = "edit"
          /\ link'[l].passwordHash \in {link[l].passwordHash, req[r].passwordHash}
      BY <2>1, <2>2, <2>4 DEF WriteLink, Replaced, TypeOK
    <3> QED  BY <1>1, <2>1, <2>2, <3>1 DEF PasswordInv, PendingHashesAreNew
  <2>5. \A k \in Links, s \in Statuses \cup {"deleted"} :
           [link[k] EXCEPT !.status = s].passwordHash = link[k].passwordHash
    BY <2>1 DEF TypeOK, Row
  <2>6. ASSUME NEW r \in Requests, NEW k \in Links, WriteStatus(r, k)
        PROVE  FALSE
    <3>1. req[r].status \in Statuses
      BY <2>1, <2>6 DEF WriteStatus, TypeOK
    <3>2. \/ link' = link
          \/ link' = [link EXCEPT ![k] = [link[k] EXCEPT !.status = req[r].status]]
      BY <2>6 DEF WriteStatus
    <3>3. [link[k] EXCEPT !.status = req[r].status].passwordHash = link[k].passwordHash
      BY <2>5, <3>1
    <3>4. link' = [link EXCEPT ![k] = [link[k] EXCEPT !.status = req[r].status]] =>
             \A m \in Links : link'[m].passwordHash = link[m].passwordHash
      <4> DEFINE row == [link[k] EXCEPT !.status = req[r].status]
      <4>1. row.passwordHash = link[k].passwordHash
        BY <3>3
      <4> HIDE DEF row
      <4>2. link' = [link EXCEPT ![k] = row] =>
               \A m \in Links : link'[m].passwordHash = link[m].passwordHash
        BY <2>1, <4>1 DEF TypeOK
      <4> QED  BY <4>2 DEF row
    <3> QED  BY <2>1, <3>2, <3>4
  <2>7. ASSUME NEW r \in Requests, WriteExpired(r)
        PROVE  FALSE
    BY <2>1, <2>5, <2>7 DEF WriteExpired, Statuses
  <2>8. ASSUME NEW k \in Links, DeleteLink(k)
        PROVE  FALSE
    <3>1. link' = [link EXCEPT ![k] = [link[k] EXCEPT !.status = "deleted"]]
      BY <2>8 DEF DeleteLink
    <3> QED  BY <2>1, <2>5, <3>1 DEF TypeOK
  <2>9. ASSUME link' = link
        PROVE  FALSE
    BY <2>9
  <2>10. ASSUME NEW r \in Requests, VisitorStep(r)
         PROVE  FALSE
    BY <2>9, <2>10 DEF VisitorStep, Visit, Unlock, Redirect
  <2>11. ASSUME NEW r \in Requests, OwnerStep(r)
         PROVE  link'[l].passwordHash # t.hash
    BY <2>4, <2>6, <2>7, <2>9, <2>11 DEF OwnerStep, UpdateLink, UpdateLinkStatus, FindExpired
  <2>12. Tick \/ UNCHANGED vars => FALSE
    BY <2>9 DEF Tick, vars
  <2> QED  BY <1>1, <2>2, <2>3, <2>8, <2>10, <2>11, <2>12 DEF Next
<1> QED  BY <1>1, StatusInvariant, PasswordInvariant, PTL DEF Spec, StaleCookiesStayStale

(* Both rules of statuses.                                                 *)
THEOREM StatusTheorem == Spec => StatusIsChosen
BY DisabledTheorem, ActivationTheorem DEF StatusIsChosen
=============================================================================

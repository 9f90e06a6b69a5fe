-------------------------------- MODULE Links --------------------------------
(***************************************************************************)
(* The life of a short link: apps/api/src/links/links.service.ts.          *)
(*                                                                         *)
(* Every handler reads the row, decides, and later writes it by id without *)
(* testing it again; what it decided on waits in req[r].  The handlers     *)
(* between the two await DNS lookups, bcrypt and the click queue.  Aliases *)
(* (unique in the database), titles and destinations are left out; who may *)
(* write a link is the subject of module Workspaces, and what becomes of a *)
(* tracked visit that of module ClickIngestion.                            *)
(***************************************************************************)
EXTENDS Naturals

CONSTANTS
    Links,
    Hashes,     \* bcrypt hashes; hashing a password again gives another one
    Requests,   \* concurrent HTTP requests
    LastTick,   \* bound on the clock
    NoHash, Keep

Statuses == {"ACTIVE", "DISABLED", "EXPIRED"}

ASSUME LinkConstants ==
    /\ LastTick \in Nat
    /\ NoHash \notin Hashes
    /\ Keep \notin Hashes \cup {NoHash} /\ Keep \notin Statuses /\ Keep \notin Nat

VARIABLES
    now,        \* the clock
    link,       \* Link rows
    used,       \* hashes bcrypt has returned
    tokens,     \* password-unlock cookies in visitors' browsers
    excused,    \* history: links EXPIRED by hand or by an overtaken request
    req         \* what each request decided, until it writes

vars == <<now, link, used, tokens, excused, req>>

-----------------------------------------------------------------------------
Never == 0                  \* expiresAt null
Times == 0..LastTick
Future == (now + 1)..LastTick

Row == [status : Statuses \cup {"none", "deleted"}, expiresAt : Times,
        passwordHash : Hashes \cup {NoHash}]

Token == [link : Links, hash : Hashes]

(* What updateLink or updateLinkStatus will write (Keep: not in the data),  *)
(* the links getUserLinks will mark, or the link a visitor is shown with    *)
(* the hash its cookie proves.  missed is history: the links among them     *)
(* whose row was written, or for updateLinkStatus whose expiry passed,      *)
(* after the handler looked.                                                *)
Request == [op : {"idle", "edit", "status", "sync", "visit", "unlock"},
            links : SUBSET Links,
            status : Statuses \cup {Keep},
            expiresAt : Times \cup {Keep},
            passwordHash : Hashes \cup {NoHash, Keep},
            missed : SUBSET Links]

Idle == [op |-> "idle", links |-> {}, status |-> Keep, expiresAt |-> Keep,
         passwordHash |-> Keep, missed |-> {}]

TypeOK ==
    /\ now \in Times
    /\ link \in [Links -> Row]
    /\ used \subseteq Hashes
    /\ tokens \subseteq Token
    /\ excused \subseteq Links
    /\ req \in [Requests -> Request]
    /\ \A r \in Requests :
         /\ req[r].op = "unlock" => req[r].passwordHash \in Hashes
         /\ req[r].op = "status" => req[r].status \in Statuses

Init ==
    /\ now = 0
    /\ link = [l \in Links |-> [status |-> "none", expiresAt |-> Never,
                                passwordHash |-> NoHash]]
    /\ used = {}
    /\ tokens = {}
    /\ excused = {}
    /\ req = [r \in Requests |-> Idle]

Exists(l) == link[l].status \in Statuses

isExpired(l) == link[l].expiresAt # Never /\ link[l].expiresAt <= now

(* bcrypt.hash of a new password, if one is given. *)
Fresh(h) == h \in (Hashes \ used) \cup {NoHash, Keep}

(* History: requests of the kinds ops that hold a row written in this step. *)
Overtake(ls, ops) ==
    [q \in Requests |->
        IF req[q].op \in ops THEN [req[q] EXCEPT !.missed = @ \cup (ls \cap req[q].links)]
        ELSE req[q]]

-----------------------------------------------------------------------------
(* Owners *)

(* createLink; an expiry is in the future when it is accepted. *)
CreateLink(l, e, h) ==
    /\ link[l].status = "none"
    /\ e \in Future \cup {Never}
    /\ Fresh(h) /\ h # Keep
    /\ link' = [link EXCEPT ![l] = [status |-> "ACTIVE", expiresAt |-> e, passwordHash |-> h]]
    /\ used' = used \cup ({h} \cap Hashes)
    /\ UNCHANGED <<now, tokens, excused, req>>

\* Mutant: any new expiry reactivates, whatever the status was.
ReactivatesAlways(l, e) == IF e # Keep THEN "ACTIVE" ELSE Keep

(* The status updateLink writes: a new expiry reactivates an expired link. *)
EditedStatus(l, e) ==
    IF e # Keep /\ link[l].status = "EXPIRED" THEN "ACTIVE" ELSE Keep

(* updateLink up to its write *)
UpdateLink(r, l, e, h) ==
    /\ req[r].op = "idle"
    /\ Exists(l)
    /\ e \in Future \cup {Never, Keep}
    /\ Fresh(h)
    /\ req' = [req EXCEPT ![r] = [Idle EXCEPT !.op = "edit", !.links = {l},
                                              !.status = EditedStatus(l, e),
                                              !.expiresAt = e, !.passwordHash = h]]
    /\ used' = used \cup ({h} \cap Hashes)
    /\ UNCHANGED <<now, link, tokens, excused>>

Replaced(old, new) == IF new = Keep THEN old ELSE new

(* History: the requests that rely on what the edit r writes. *)
Overtaken(r) ==
    (IF req[r].expiresAt = Keep THEN {} ELSE {"edit", "status", "sync"})
      \cup (IF req[r].passwordHash = Keep THEN {} ELSE {"visit"})

(* updateLink's update by id; it fails if the link was deleted. *)
WriteLink(r, l) ==
    /\ req[r].op = "edit"
    /\ req[r].links = {l}
    /\ IF Exists(l)
       THEN /\ link' = [link EXCEPT ![l] =
                   [status |-> Replaced(link[l].status, req[r].status),
                    expiresAt |-> Replaced(link[l].expiresAt, req[r].expiresAt),
                    passwordHash |-> Replaced(link[l].passwordHash, req[r].passwordHash)]]
            /\ req' = [Overtake({l}, Overtaken(r)) EXCEPT ![r] = Idle]
            /\ excused' = IF req[r].expiresAt = Keep THEN excused
                          ELSE IF l \in req[r].missed THEN excused \cup {l} ELSE excused \ {l}
       ELSE /\ req' = [req EXCEPT ![r] = Idle]
            /\ UNCHANGED <<link, excused>>
    /\ UNCHANGED <<now, used, tokens>>

(* updateLinkStatus refuses to activate a link whose expiry has passed. *)
StatusAllowed(l, s) == s = "ACTIVE" => ~isExpired(l)

(* updateLinkStatus up to its write *)
UpdateLinkStatus(r, l, s) ==
    /\ req[r].op = "idle"
    /\ Exists(l)
    /\ StatusAllowed(l, s)
    /\ req' = [req EXCEPT ![r] = [Idle EXCEPT !.op = "status", !.links = {l}, !.status = s]]
    /\ UNCHANGED <<now, link, used, tokens, excused>>

(* updateLinkStatus's update by id *)
WriteStatus(r, l) ==
    /\ req[r].op = "status"
    /\ req[r].links = {l}
    /\ IF Exists(l)
       THEN /\ link' = [link EXCEPT ![l].status = req[r].status]
            /\ req' = [Overtake({l}, {"edit", "status", "sync"}) EXCEPT ![r] = Idle]
            /\ excused' = IF l \in req[r].missed \/ req[r].status = "EXPIRED"
                          THEN excused \cup {l} ELSE excused \ {l}
       ELSE /\ req' = [req EXCEPT ![r] = Idle]
            /\ UNCHANGED <<link, excused>>
    /\ UNCHANGED <<now, used, tokens>>

(* deleteLink; findAccessibleLink before it cannot go stale. *)
DeleteLink(l) ==
    /\ Exists(l)
    /\ link' = [link EXCEPT ![l].status = "deleted"]
    /\ UNCHANGED <<now, used, tokens, excused, req>>

\* Mutant: active links of any age are marked.
MarksFresh(l) == link[l].status = "ACTIVE"

(* The links a handler will mark EXPIRED. *)
Marks(l) == link[l].status = "ACTIVE" /\ isExpired(l)

(* getUserLinks (all links) and handleRedirect or unlockRedirect (one) find *)
(* active links whose expiry has passed.                                    *)
FindExpired(r, ls) ==
    /\ req[r].op = "idle"
    /\ ls # {}
    /\ \/ ls = {l \in Links : Marks(l)}
       \/ \E l \in Links : ls = {l} /\ Marks(l)
    /\ req' = [req EXCEPT ![r] = [Idle EXCEPT !.op = "sync", !.links = ls]]
    /\ UNCHANGED <<now, link, used, tokens, excused>>

(* Their update by id, for the rows that still exist. *)
WriteExpired(r) ==
    LET ls == {l \in req[r].links : Exists(l)} IN
    /\ req[r].op = "sync"
    /\ link' = [l \in Links |->
                  IF l \in ls THEN [link[l] EXCEPT !.status = "EXPIRED"] ELSE link[l]]
    /\ req' = [Overtake(ls, {"edit", "status", "sync"}) EXCEPT ![r] = Idle]
    /\ excused' = (excused \ ls) \cup (ls \cap req[r].missed)
    /\ UNCHANGED <<now, used, tokens>>

-----------------------------------------------------------------------------
(* Visitors *)

\* Mutant: the unlock cookie signs the link's id alone.
UnlockedById(l, h) == \E t \in tokens : t.link = l /\ t.hash = h

(* hasValidPasswordUnlock: the cookie signs the link's id and its hash. *)
Unlocked(l, h) == [link |-> l, hash |-> h] \in tokens /\ link[l].passwordHash = h

Open(l) == link[l].status = "ACTIVE" /\ ~isExpired(l)

(* handleRedirect up to trackClick, with the cookie (of hash h) it accepts  *)
Visit(r, l, h) ==
    /\ req[r].op = "idle"
    /\ Open(l)
    /\ \/ link[l].passwordHash = NoHash /\ h = NoHash
       \/ link[l].passwordHash # NoHash /\ Unlocked(l, h)
    /\ req' = [req EXCEPT ![r] = [Idle EXCEPT !.op = "visit", !.links = {l},
                                              !.passwordHash = h]]
    /\ UNCHANGED <<now, link, used, tokens, excused>>

(* unlockRedirect up to trackClick, for a visitor who knows the password;   *)
(* without a password it is handleRedirect.                                 *)
Unlock(r, l) ==
    /\ req[r].op = "idle"
    /\ Open(l)
    /\ link[l].passwordHash # NoHash
    /\ req' = [req EXCEPT ![r] = [Idle EXCEPT !.op = "unlock", !.links = {l},
                                              !.passwordHash = link[l].passwordHash]]
    /\ UNCHANGED <<now, link, used, tokens, excused>>

(* The answer: the redirect, and unlockRedirect's cookie for the hash read. *)
Redirect(r) ==
    /\ req[r].op \in {"visit", "unlock"}
    /\ tokens' = tokens \cup
         {[link |-> l, hash |-> req[r].passwordHash] :
             l \in IF req[r].op = "unlock" THEN req[r].links ELSE {}}
    /\ req' = [req EXCEPT ![r] = Idle]
    /\ UNCHANGED <<now, link, used, excused>>

Tick ==
    /\ now < LastTick
    /\ now' = now + 1
    /\ req' = Overtake({l \in Links : link[l].expiresAt = now'}, {"status"})
    /\ UNCHANGED <<link, used, tokens, excused>>

-----------------------------------------------------------------------------
OwnerStep(r) ==
    \/ \E l \in Links, e \in Times \cup {Keep}, h \in Hashes \cup {NoHash, Keep} :
            UpdateLink(r, l, e, h)
    \/ \E l \in Links, s \in Statuses : UpdateLinkStatus(r, l, s)
    \/ \E l \in Links : WriteLink(r, l) \/ WriteStatus(r, l)
    \/ \E ls \in SUBSET Links : FindExpired(r, ls)
    \/ WriteExpired(r)

VisitorStep(r) ==
    \/ \E l \in Links, h \in Hashes \cup {NoHash} : Visit(r, l, h)
    \/ \E l \in Links : Unlock(r, l)
    \/ Redirect(r)

Next ==
    \/ \E l \in Links, e \in Times, h \in Hashes \cup {NoHash} : CreateLink(l, e, h)
    \/ \E r \in Requests : OwnerStep(r) \/ VisitorStep(r)
    \/ \E l \in Links : DeleteLink(l)
    \/ Tick

Spec == Init /\ [][Next]_vars

-----------------------------------------------------------------------------
(* Properties *)

(* A link is EXPIRED because its expiry has passed, because its owner said  *)
(* so, or because the row changed under the request that wrote it: no       *)
(* sequence of complete requests strands a link with a valid expiry.        *)
ExpiredMeansExpired ==
    \A l \in Links : link[l].status = "EXPIRED" => isExpired(l) \/ l \in excused

(* A disabled link changes its status only by updateLinkStatus, or by a     *)
(* request that read the row before it was disabled.                        *)
DisabledStaysDisabled ==
    [][\A l \in Links :
         (link[l].status = "DISABLED" /\ link'[l].status \in {"ACTIVE", "EXPIRED"})
           => \E r \in Requests :
                /\ l \in req[r].links /\ req'[r].op = "idle"
                /\ req[r].op = "status" \/ l \in req[r].missed]_vars

(* A link whose expiry has passed is made active only with a new expiry:    *)
(* neither by updateLinkStatus nor by an edit, unless it passed, or the row *)
(* was written, after the handler looked.                                   *)
ActivationNeedsTime ==
    [][\A l \in Links :
         (link[l].status \in {"EXPIRED", "DISABLED"} /\ isExpired(l) /\ link'[l].status = "ACTIVE")
           => \E r \in Requests :
                /\ l \in req[r].links /\ req'[r].op = "idle"
                /\ req[r].expiresAt # Keep \/ l \in req[r].missed]_vars

(* Both: a status is left only as its owner chose (updateLinkStatus,        *)
(* updateLink).                                                             *)
StatusIsChosen == DisabledStaysDisabled /\ ActivationNeedsTime

(* A cookie unlocks a link for the password it was given for: changing or   *)
(* removing a password turns away every visitor who has not got past the    *)
(* gate already.                                                            *)
OldCookiesOpenNothing ==
    \A r \in Requests, l \in Links :
        (req[r].op = "visit" /\ l \in req[r].links /\ l \notin req[r].missed)
            => req[r].passwordHash = link[l].passwordHash

(* A cookie that went stale stays stale, even when the owner goes back to   *)
(* an earlier password or two edits of the password race: every cookie      *)
(* names one hashing of the password.                                       *)
StaleCookiesStayStale ==
    [][\A t \in tokens : link[t.link].passwordHash # t.hash
                            => link'[t.link].passwordHash # t.hash]_vars

-----------------------------------------------------------------------------
(* The inductive invariant: what a request that has not been overtaken      *)
(* still knows about the row it will write.                                 *)

HeldLinksExist == \A r \in Requests : \A l \in req[r].links : link[l].status # "none"

EditKnows(r) ==
    req[r].op = "edit" =>
        /\ req[r].status \in {"ACTIVE", Keep}
        /\ req[r].expiresAt = Keep => req[r].status = Keep
        /\ \A l \in req[r].links \ req[r].missed :
             req[r].expiresAt # Keep =>
               IF req[r].status = Keep THEN link[l].status # "EXPIRED"
               ELSE link[l].status \in {"EXPIRED", "deleted"}

SyncKnows(r) ==
    req[r].op = "sync" =>
        \A l \in req[r].links \ req[r].missed :
            isExpired(l) /\ link[l].status \in {"ACTIVE", "deleted"}

ActivationKnows(r) ==
    (req[r].op = "status" /\ req[r].status = "ACTIVE") =>
        \A l \in req[r].links \ req[r].missed : ~isExpired(l)

Knows(r) == EditKnows(r) /\ SyncKnows(r) /\ ActivationKnows(r)

StatusInv ==
    /\ TypeOK
    /\ HeldLinksExist
    /\ \A r \in Requests : Knows(r)
    /\ ExpiredMeansExpired

(* Hashes that are somewhere were returned by bcrypt, and the one an edit   *)
(* is about to write is nowhere else.                                       *)
KnownHashes ==
    /\ \A l \in Links : link[l].passwordHash \in used \cup {NoHash}
    /\ \A t \in tokens : t.hash \in used
    /\ \A r \in Requests : req[r].passwordHash \in used \cup {NoHash, Keep}
    /\ \A r \in Requests : req[r].op = "unlock" => req[r].passwordHash \in used

PendingHashesAreNew ==
    \A r \in Requests : (req[r].op = "edit" /\ req[r].passwordHash \in Hashes) =>
        /\ \A l \in Links : link[l].passwordHash # req[r].passwordHash
        /\ \A t \in tokens : t.hash # req[r].passwordHash
        /\ \A q \in Requests \ {r} : req[q].passwordHash # req[r].passwordHash

PasswordInv ==
    /\ KnownHashes
    /\ PendingHashesAreNew
    /\ OldCookiesOpenNothing
=============================================================================

----------------------------- MODULE QueryCache -----------------------------
(***************************************************************************)
(* What the pages of the web client rely on when they read through         *)
(* TanStack Query (set up in apps/web/src/components/providers.tsx): one   *)
(* entry per query key, operators on it for what a page or an answer does. *)
(* The library is not part of the repository: it is modelled from how the  *)
(* pages use it.                                                           *)
(*                                                                         *)
(* The retry after a failed request is part of the request.  Time is left  *)
(* out: an entry that nobody marked may be fresh (30 seconds) or not.      *)
(***************************************************************************)
EXTENDS Naturals

CONSTANT NoData

(* answer: what the server said, until it arrives.  overtaken and behind   *)
(* are history: the answer under way, or the data, was read at the server  *)
(* before a change that is not going to have it fetched again.             *)
EntryOf(Data) ==
    [data : Data \cup {NoData}, marked : BOOLEAN, failed : BOOLEAN,
     phase : {"none", "sent", "served"}, answer : Data \cup {NoData},
     overtaken : BOOLEAN, behind : BOOLEAN]

NewEntry == [data |-> NoData, marked |-> FALSE, failed |-> FALSE, phase |-> "none",
             answer |-> NoData, overtaken |-> FALSE, behind |-> FALSE]

Fetching(e) == e.phase # "none"

Loading(e) == e.data = NoData /\ Fetching(e)

Restart(e) == [e EXCEPT !.phase = "sent", !.answer = NoData, !.overtaken = FALSE]

(* A page that asks while a request is under way waits for that one.       *)
Want(e) == IF Fetching(e) THEN e ELSE Restart(e)

(* What becomes of an entry when a page begins to show it.                 *)
Opened(e) ==
    IF e.data = NoData \/ e.marked THEN {Want(e)} ELSE {e, Want(e)}

Serve(e, data) == [e EXCEPT !.phase = "served", !.answer = data]

Arrive(e) ==
    [NewEntry EXCEPT !.data = e.answer, !.behind = e.overtaken]

(* setQueryData: the data is replaced, a request under way goes on. *)
Put(e, data) ==
    [e EXCEPT !.data = data, !.marked = FALSE, !.failed = FALSE,
              !.overtaken = (e.phase = "served")]

Fail(e) ==
    [e EXCEPT !.phase = "none", !.answer = NoData, !.overtaken = FALSE,
              !.failed = TRUE, !.marked = TRUE]

(* invalidateQueries: the entry is marked.  An entry that a page shows is  *)
(* fetched again; a request for it that is under way is given up, unless it*)
(* is the first one.                                                       *)
LeftBehind(e) == [e EXCEPT !.marked = TRUE, !.overtaken = (e.phase = "served")]

Invalidate(e, shown) ==
    IF shown /\ ~Loading(e)
    THEN Restart([e EXCEPT !.marked = TRUE])
    ELSE LeftBehind(e)

(* A change that the page is not told of. *)
Outdated(e) == [e EXCEPT !.behind = (e.data # NoData),
                         !.overtaken = (e.phase = "served")]
=============================================================================

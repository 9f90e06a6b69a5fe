---------------------------- MODULE MC_Analytics ----------------------------
(* The instances of Analytics and of the page that shows a link with its    *)
(* analytics, for TLC: one of the two moves, the other stays as it begins.  *)
EXTENDS Analytics, LinkEditor, TLC

CONSTANTS a1

VARIABLE part       \* which of the two moves

allVars == <<part, vars, editorVars>>

AllInit ==
    /\ part \in {"api", "page"}
    /\ Init /\ EditorInit
    /\ part = "page" => zone = 0

AllNext ==
    /\ UNCHANGED part
    /\ \/ part = "api" /\ Next /\ UNCHANGED editorVars
       \/ part = "page" /\ EditorNext /\ UNCHANGED vars

AllSpec == AllInit /\ [][AllNext]_allVars

-----------------------------------------------------------------------------
(* The API: three days, and zones on both sides of UTC. *)

MCMoments == {2, 23, 46, 70}

MCZones == {-5, 0, 3}

MCGiven == {23}

(* Bound: rows come or go once while a request is answered, and no longer   *)
(* once it is.                                                              *)
OneChange ==
    /\ moved # {} => events' = events /\ links' = links
    /\ ask.phase = "done" => UNCHANGED <<events, links, now>>

Symmetry == Permutations(Links) \cup Permutations(Clicks)

-----------------------------------------------------------------------------
(* The page. *)

(* A title, the same with spaces around it, and none. *)
MCTitles == {"title", " title ", ""}

MCTrim == [t \in MCTitles |-> IF t = " title " THEN "title" ELSE t]

First == [title |-> NoTitle, alias |-> a1, expiresAt |-> 3, hasPassword |-> TRUE,
          status |-> "ACTIVE"]

MCBegins == {First}

\* What differs from the first link; an empty title is as good as none.
Changed ==
    {f \in DOMAIN First : row[f] # First[f]} \ (IF row.title = "" THEN {"title"} ELSE {})

Used == {c \in Calls : editCall[c].phase # "new"}

Waiting == {c \in Used : editCall[c].phase # "over"}

Calm ==
    /\ ~Fetching(entry) /\ elsewhere = 0
    /\ question = NewCall /\ Waiting = {}

(* Bound: one field is edited at a time, two of the link's own differ from  *)
(* the first, or one after two calls or changes by others; the picker is    *)
(* used while nothing else happens; two requests or questions at once.      *)
Bounded ==
    /\ form.expiresAt \notin {2, 6, NoMoment} => Calm
    /\ picker.open => Calm /\ form.edited \subseteq {"expiresAt"}
    /\ ~Calm => Cardinality(Changed) <= 2
    /\ Cardinality(form.edited) <= 1
    /\ Cardinality(Used) + elsewhere = 2 => Cardinality(Changed) <= 1
    /\ Cardinality(Used) + elsewhere <= 2
    /\ Cardinality(Waiting) + (IF Fetching(entry) THEN 1 ELSE 0)
         + (IF question # NewCall THEN 1 ELSE 0) <= 2
=============================================================================

----------------------------- MODULE LinkEditor -----------------------------
(***************************************************************************)
(* The page of one link: apps/web/src/app/(app)/links/[id]/page.tsx with   *)
(* the form it fills from its cached query, the date picker of that form   *)
(* (components/ui/datetime-picker.tsx) and what the API does for it        *)
(* (link of analytics.service.ts, updateLink, updateLinkStatus and         *)
(* deleteLink of links.service.ts).                                        *)
(*                                                                         *)
(* Time is counted in quarters of a day: its start, some seconds later,    *)
(* 23:59 and some seconds later, so that a whole minute is an even number. *)
(* A title may be absent, and others may store one with spaces around it.  *)
(* It stands for the destination too, which the form treats alike.         *)
(* The clicks that are loaded with the link are left out, but for their    *)
(* making an answer differ from the last.  The page's check and write of   *)
(* a call at the server are one step, as in LinksPage.                     *)
(***************************************************************************)
EXTENDS Integers, FiniteSets, QueryCache

CONSTANTS
    Titles, Aliases,
    Trim,           \* String.prototype.trim
    Empty,          \* ''
    NoTitle,        \* null
    Instants,       \* when the clock is looked at
    Expiries,       \* expiresAt that other clients of the API set
    MaxCalls,       \* bound: calls of the page
    MaxElsewhere,   \* bound: changes by others
    Begins,         \* the link to begin with
    NoMoment, NoDay

Days == 0 .. 2

Ticks == 0 .. 11

DayOf(t) == t \div 4

Over(t, now) == IF t = NoMoment THEN FALSE ELSE t <= now

EditStatuses == {"ACTIVE", "DISABLED", "EXPIRED"}

Link == [title : Titles \cup {NoTitle}, alias : Aliases, expiresAt : Ticks \cup {NoMoment},
         hasPassword : BOOLEAN, status : EditStatuses]

Fields == {"title", "alias", "expiresAt", "password"}

ASSUME LinkEditorConstants ==
    /\ Instants \subseteq 0 .. 7 /\ Expiries \subseteq 0 .. 7 /\ 0 \in Instants
    /\ MaxElsewhere \in Nat /\ MaxCalls \in Nat
    /\ NoMoment \notin Ticks /\ NoDay \notin Days /\ NoData \notin Link
    /\ Begins \subseteq Link
    /\ Empty \in Titles /\ NoTitle \notin Titles
    /\ Trim \in [Titles -> Titles] /\ \A t \in Titles : Trim[Trim[t]] = Trim[t]

VARIABLES
    clock,
    row,        \* the link
    gone,       \* whether it was deleted
    elsewhere,  \* number of changes by others
    entry,      \* the cached ['link-analytics', ...]
    form,
    picker,
    question,   \* that useConfirm shows
    editCall,   \* calls of the page
    left        \* whether the page was left

server == <<clock, row, gone, elsewhere>>
editorVars == <<server, entry, form, picker, question, editCall, left>>

-----------------------------------------------------------------------------
(* edited and seen are history: the fields that were edited since the form *)
(* was filled, and the link it was filled from.                            *)
Form == [title : Titles, alias : Aliases, expiresAt : Ticks \cup {NoMoment},
         password : BOOLEAN, clear : BOOLEAN, edited : SUBSET Fields, seen : Link]

Picker == [open : BOOLEAN, min : Days, draft : Days \cup {NoDay}, time : {0, 2}]

(* What a call sends, and the link that it is answered with.  realias: the *)
(* alias is sent too, as it differs from the cached one.  late is history: *)
(* the link was changed after the answer had been read.                    *)
EditCall == [phase : {"new", "sent", "done", "refused", "leaving", "over"},
         op : {"save", "toggle", "delete"}, status : EditStatuses, form : Form,
         realias : BOOLEAN, answer : Link, late : BOOLEAN]

Calls == 1 .. MaxCalls      \* in the order they are made

Someone == CHOOSE l \in Link : TRUE

EditorTypeOK ==
    /\ clock \in Instants
    /\ row \in Link
    /\ gone \in BOOLEAN /\ left \in BOOLEAN
    /\ elsewhere \in 0 .. MaxElsewhere
    /\ entry \in EntryOf(Link)
    /\ form \in Form
    /\ picker \in Picker
    /\ question \in EditCall
    /\ editCall \in [Calls -> EditCall]

Closed == [open |-> FALSE, min |-> 0, draft |-> NoDay, time |-> 2]

Second(t) == t      \* Mutant: the seconds are kept

(* toDateTimeLocalValue keeps the minute. *)
Minute(t) == IF t = NoMoment THEN NoMoment ELSE t - (t % 2)

(* title ?? '' *)
Text(t) == IF t = NoTitle THEN Empty ELSE t

(* The effect on [analytics]. *)
Filled(l) ==
    [title |-> Text(l.title), alias |-> l.alias, expiresAt |-> Minute(l.expiresAt),
     password |-> FALSE, clear |-> FALSE, edited |-> {}, seen |-> l]

NewCall == [phase |-> "new", op |-> "save", status |-> "ACTIVE", form |-> Filled(Someone),
            realias |-> FALSE, answer |-> Someone, late |-> FALSE]

(* The effect on [open, value] of the picker. *)
Showing(p, t) ==
    [p EXCEPT !.draft = IF t = NoMoment THEN NoDay ELSE DayOf(t),
              !.time = IF t = NoMoment THEN 2 ELSE t % 4]

ValueGiven(p, old, new) ==
    IF p.open /\ old # new THEN Showing(p, new) ELSE p

SetForm(f) ==
    /\ form' = f
    /\ picker' = ValueGiven(picker, form.expiresAt, f.expiresAt)

EditorInit ==
    /\ clock = 0
    /\ row \in Begins
    /\ gone = FALSE /\ left = FALSE
    /\ elsewhere = 0
    /\ entry = Want(NewEntry)
    /\ form = Filled(Someone)
    /\ picker = Closed
    /\ question = NewCall
    /\ editCall = [c \in Calls |-> NewCall]

-----------------------------------------------------------------------------
(* The query *)

ServeLink ==
    /\ entry.phase = "sent" /\ ~gone
    /\ entry' = Serve(entry, row)
    /\ UNCHANGED <<server, form, picker, question, editCall, left>>

(* An equal answer leaves the form as it is; clicks make it differ. *)
LinkArrives ==
    /\ entry.phase = "served"
    /\ entry' = Arrive(entry)
    /\ \/ SetForm(Filled(entry.answer))
       \/ entry.answer = entry.data /\ UNCHANGED <<form, picker>>
    /\ UNCHANGED <<server, question, editCall, left>>

LinkFails ==
    /\ entry.phase = "sent" /\ gone
    /\ entry' = Fail(entry)
    /\ UNCHANGED <<server, form, picker, question, editCall, left>>

(* The retry button of the error, or a connection that has come back.      *)
Refetch ==
    /\ ~left /\ ~Fetching(entry)
    /\ entry' = Want(entry)
    /\ UNCHANGED <<server, form, picker, question, editCall, left>>

-----------------------------------------------------------------------------
(* The form *)

Usable == ~left /\ question = NewCall /\ entry.data # NoData

Edit(f, fields) ==
    /\ Usable
    /\ SetForm([f EXCEPT !.edited = @ \cup fields])
    /\ UNCHANGED <<server, entry, question, editCall, left>>

EditTitle(t) == t # form.title /\ Edit([form EXCEPT !.title = t], {"title"})

EditAlias(a) == a # form.alias /\ Edit([form EXCEPT !.alias = a], {"alias"})

TypePassword ==
    /\ ~form.clear
    /\ Edit([form EXCEPT !.password = TRUE, !.clear = FALSE], {"password"})

ClearPassword ==
    /\ entry.data # NoData /\ entry.data.hasPassword
    /\ Edit([form EXCEPT !.clear = ~form.clear,
                         !.password = IF form.clear THEN @ ELSE FALSE], {"password"})

EditExpiry(t) == Edit([form EXCEPT !.expiresAt = t], {"expiresAt"})

(* datetime-picker.tsx: the button, its clear mark, and the panel. *)
TogglePicker ==
    /\ Usable
    /\ picker' = IF picker.open THEN Closed
                 ELSE Showing([picker EXCEPT !.open = TRUE, !.min = DayOf(clock)],
                              form.expiresAt)
    /\ UNCHANGED <<server, entry, form, question, editCall, left>>

ClearExpiry == form.expiresAt # NoMoment /\ EditExpiry(NoMoment)

PickDay(d) ==
    /\ Usable /\ picker.open /\ d >= picker.min
    /\ picker' = [picker EXCEPT !.draft = d,
                                !.time = IF form.expiresAt = NoMoment THEN 2 ELSE @]
    /\ UNCHANGED <<server, entry, form, question, editCall, left>>

PickTime(t) ==
    /\ Usable /\ picker.open /\ t # picker.time
    /\ picker' = [picker EXCEPT !.time = t]
    /\ UNCHANGED <<server, entry, form, question, editCall, left>>

(* applyPreset, clearValue and applyDraft close the panel. *)
Picked(t) ==
    /\ Usable /\ picker.open
    /\ form' = [form EXCEPT !.expiresAt = t, !.edited = @ \cup {"expiresAt"}]
    /\ picker' = Closed
    /\ UNCHANGED <<server, entry, question, editCall, left>>

ApplyPreset == Picked((DayOf(clock) + 1) * 4 + 2)

ApplyDraft == picker.draft # NoDay /\ Picked(picker.draft * 4 + picker.time)

-----------------------------------------------------------------------------
(* Calls *)

Data == entry.data

Active(ops) == \E c \in Calls : editCall[c].op \in ops /\ editCall[c].phase \notin {"new", "over"}

Send(c, fields) ==
    /\ editCall[c].phase = "new" /\ \A d \in 1 .. c - 1 : editCall[d].phase # "new"
    /\ editCall' = [editCall EXCEPT ![c] = [fields EXCEPT !.phase = "sent"]]
    /\ UNCHANGED <<server, entry, form, picker, left>>

AskFirst(fields) ==
    /\ question' = [fields EXCEPT !.phase = "sent"]
    /\ UNCHANGED <<server, entry, form, picker, editCall, left>>

(* handleSaveEdit: a new alias has to be confirmed. *)
SaveEdit(c) ==
    /\ Usable /\ ~Active({"save"})
    /\ LET fields == [NewCall EXCEPT !.form = form, !.realias = (form.alias # Data.alias)]
       IN \/ ~fields.realias /\ Send(c, fields) /\ UNCHANGED question
          \/ fields.realias /\ AskFirst(fields)

(* handleToggleStatus: there is no button for an expired link. *)
ToggleStatus(c) ==
    /\ Usable /\ ~Active({"toggle", "delete"})
    /\ LET fields == [NewCall EXCEPT !.op = "toggle"]
       IN \/ Data.status = "DISABLED" /\ Send(c, fields) /\ UNCHANGED question
          \/ Data.status = "ACTIVE" /\ AskFirst([fields EXCEPT !.status = "DISABLED"])

(* handleDeleteLink *)
AskDeleteLink ==
    /\ Usable /\ ~Active({"toggle", "delete"})
    /\ AskFirst([NewCall EXCEPT !.op = "delete"])

Confirm(c) ==
    /\ question # NewCall
    /\ Send(c, question)
    /\ question' = NewCall

Cancel ==
    /\ question # NewCall
    /\ question' = NewCall
    /\ UNCHANGED <<server, entry, form, picker, editCall, left>>

SavedBare(x) ==         \* Mutant: an empty password is sent as none
    [title |-> Trim[x.form.title], alias |-> IF x.realias THEN x.form.alias ELSE row.alias,
     expiresAt |-> x.form.expiresAt, hasPassword |-> x.form.password,
     status |-> IF row.status = "EXPIRED" THEN "ACTIVE" ELSE row.status]

(* The title is sent trimmed, whether or not it was edited, and stored. *)
Saved(x) ==
    [title |-> Trim[x.form.title], alias |-> IF x.realias THEN x.form.alias ELSE row.alias,
     expiresAt |-> x.form.expiresAt,
     hasPassword |-> ~x.form.clear /\ (x.form.password \/ row.hasPassword),
     status |-> IF row.status = "EXPIRED" THEN "ACTIVE" ELSE row.status]

(* history: the answers that are under way now tell of an older link.      *)
Late(calls) ==
    [d \in Calls |->
        IF calls[d].phase = "done" THEN [calls[d] EXCEPT !.late = TRUE] ELSE calls[d]]

Done(c, l) ==
    /\ row' = l
    /\ editCall' = [Late(editCall) EXCEPT ![c].phase = "done", ![c].answer = l]
    /\ UNCHANGED <<clock, elsewhere, entry, form, picker, question, left>>

(* updateLink: expiresAt is always among what the form sends. *)
ServeSave(c) ==
    /\ editCall[c].phase = "sent" /\ editCall[c].op = "save" /\ ~gone
    /\ ~Over(editCall[c].form.expiresAt, clock)
    /\ Done(c, Saved(editCall[c]))
    /\ UNCHANGED gone

(* updateLinkStatus *)
ServeToggle(c) ==
    /\ editCall[c].phase = "sent" /\ editCall[c].op = "toggle" /\ ~gone
    /\ editCall[c].status = "ACTIVE" => ~Over(row.expiresAt, clock)
    /\ Done(c, [row EXCEPT !.status = editCall[c].status])
    /\ UNCHANGED gone

(* deleteLink *)
ServeDelete(c) ==
    /\ editCall[c].phase = "sent" /\ editCall[c].op = "delete" /\ ~gone
    /\ Done(c, row)
    /\ gone' = TRUE

(* A past expiry, a taken alias, a destination that is not allowed, ...    *)
Refuse(c) ==
    /\ editCall[c].phase = "sent"
    /\ editCall' = [editCall EXCEPT ![c].phase = "refused"]
    /\ UNCHANGED <<server, entry, form, picker, question, left>>

Finish(c) ==
    editCall' = [editCall EXCEPT ![c] = [NewCall EXCEPT !.phase = "over", !.op = editCall[c].op]]

Refused(c) ==
    /\ editCall[c].phase = "refused"
    /\ Finish(c)
    /\ UNCHANGED <<server, entry, form, picker, question, left>>

(* updateCachedAnalytics *)
CachedNot(c, data) == entry     \* Mutant: the cache is left to its next refresh

Cached(c, data) ==
    [Put(entry, data) EXCEPT !.behind = @ \/ editCall[c].late]

(* The effect runs when the data did change: a status that is put into the  *)
(* link as it was makes no new data.                                        *)
Refilled(data, f) == IF data = Data THEN f ELSE Filled(data)

(* The answer of one call can tell of less than the other has done, if it  *)
(* is the later to arrive. It carries the count of clicks too, so the data *)
(* may be new, and the form filled again, where the link is as it was.     *)
SaveAnswered(c) ==
    /\ editCall[c].phase = "done" /\ editCall[c].op = "save"
    /\ Finish(c)
    /\ LET fresh == editCall[c].answer
           put == Cached(c, fresh)
           kept == [form EXCEPT !.password = FALSE, !.clear = FALSE]
       IN /\ entry' = IF editCall[c].realias THEN Invalidate(put, ~left) ELSE put
          /\ \E f \in {Refilled(fresh, kept), Filled(fresh)} :
                SetForm(IF editCall[c].realias THEN [f EXCEPT !.alias = fresh.alias] ELSE f)
    /\ UNCHANGED <<server, question, left>>

ToggleAnswered(c) ==
    /\ editCall[c].phase = "done" /\ editCall[c].op = "toggle"
    /\ Finish(c)
    /\ LET data == [Data EXCEPT !.status = editCall[c].answer.status]
       IN /\ entry' = Cached(c, data)
          /\ SetForm(Refilled(data, form))
    /\ UNCHANGED <<server, question, left>>

(* The page waits for the refresh, and is left. *)
DeleteAnswered(c) ==
    /\ editCall[c].phase = "done" /\ editCall[c].op = "delete"
    /\ editCall' = [editCall EXCEPT ![c].phase = "leaving"]
    /\ entry' = Invalidate(entry, ~left)
    /\ UNCHANGED <<server, form, picker, question, left>>

Leave(c) ==
    /\ editCall[c].phase = "leaving" /\ ~Fetching(entry)
    /\ Finish(c)
    /\ left' = TRUE
    /\ UNCHANGED <<server, entry, form, picker, question>>

AnswerLost(c) ==
    /\ editCall[c].phase = "done"
    /\ Finish(c)
    /\ entry' = Outdated(entry)
    /\ UNCHANGED <<server, form, picker, question, left>>

-----------------------------------------------------------------------------
(* Time and others *)

Pass ==
    /\ clock' \in {t \in Instants : t > clock}
    /\ UNCHANGED <<row, gone, elsewhere, entry, form, picker, question, editCall, left>>

Become(l) ==
    /\ ~gone /\ l # row
    /\ row' = l
    /\ entry' = Outdated(entry)
    /\ editCall' = Late(editCall)
    /\ UNCHANGED <<clock, gone, form, picker, question, left>>

(* A visit or a list meets the link as expired. *)
Expire ==
    /\ row.status = "ACTIVE" /\ Over(row.expiresAt, clock)
    /\ Become([row EXCEPT !.status = "EXPIRED"])
    /\ UNCHANGED elsewhere

ChangeElsewhere ==
    /\ elsewhere < MaxElsewhere
    /\ elsewhere' = elsewhere + 1
    /\ \/ \E t \in Titles \cup {NoTitle} : Become([row EXCEPT !.title = t])
       \/ \E t \in Expiries : t > clock /\ Become([row EXCEPT !.expiresAt = t])
       \/ Become([row EXCEPT !.status = "EXPIRED"])
       \/ Become([row EXCEPT !.hasPassword = ~@])

Editing ==
    \/ \E t \in Titles : EditTitle(t)
    \/ \E a \in Aliases : EditAlias(a)
    \/ TypePassword \/ ClearPassword
    \/ TogglePicker \/ ClearExpiry \/ ApplyPreset \/ ApplyDraft
    \/ \E d \in Days : PickDay(d)
    \/ \E t \in {0, 2} : PickTime(t)

Calling ==
    \/ AskDeleteLink \/ Cancel
    \/ \E c \in Calls :
          \/ SaveEdit(c) \/ ToggleStatus(c) \/ Confirm(c)
          \/ ServeSave(c) \/ ServeToggle(c) \/ ServeDelete(c) \/ Refuse(c)
          \/ Refused(c) \/ SaveAnswered(c) \/ ToggleAnswered(c)
          \/ DeleteAnswered(c) \/ Leave(c) \/ AnswerLost(c)

EditorNext ==
    \/ ServeLink \/ LinkArrives \/ LinkFails \/ Refetch
    \/ Editing \/ Calling
    \/ Pass \/ Expire \/ ChangeElsewhere

EditorSpec == EditorInit /\ [][EditorNext]_editorVars

-----------------------------------------------------------------------------
(* What the page shows of the link is what the server has, once its calls  *)
(* are answered and nothing is loaded: unless the link was changed from    *)
(* elsewhere, an answer was lost, or one that had been read before a change*)
(* was the last to arrive (links/[id]/page.tsx:177, 232).                  *)
ShownLinkHolds ==
    /\ ~left /\ ~gone
    /\ Data # NoData /\ ~Fetching(entry)
    /\ \A c \in Calls : editCall[c].phase # "done"
    => entry.behind \/ Data = row

(* The form sends every field (links/[id]/page.tsx:163).  All the same a   *)
(* save changes what was edited and nothing else, unless it had been       *)
(* changed elsewhere after the form was filled, which is undone: but for   *)
(* what the form cannot hold, the seconds of the expiry, spaces around the *)
(* title, and its absence, for which an empty title is stored; and but for *)
(* the status EXPIRED, which any save ends if the time is not over. A link *)
(* whose time is over does not come back by editing something else.        *)
KeptBy(x) ==
    LET seen == x.form.seen
        touched(f, same) == same \/ f \in x.form.edited
    IN /\ touched("title", \/ row'.title = Trim[Text(row.title)]
                           \/ row.title # seen.title)
       /\ touched("alias", row'.alias = row.alias \/ row.alias # seen.alias)
       /\ touched("password", row'.hasPassword = row.hasPassword)
       /\ touched("expiresAt", \/ row'.expiresAt = Minute(row.expiresAt)
                               \/ row.expiresAt # seen.expiresAt)
       /\ \/ row'.status = row.status
          \/ /\ row.status = "EXPIRED" /\ row'.status = "ACTIVE"
             /\ touched("expiresAt", \/ ~Over(row.expiresAt, clock)
                                     \/ row.expiresAt # seen.expiresAt)

SavesKeepTheRest == [][\A c \in Calls : ServeSave(c) => KeptBy(editCall[c])]_editorVars

(* The picker (datetime-picker.tsx:114, 385) gives no day that is over,    *)
(* unless it was the day before, or the panel was open at midnight.        *)
AheadOf(t, before) ==
    \/ DayOf(t) >= DayOf(clock)
    \/ before # NoMoment /\ DayOf(t) = DayOf(before)
    \/ picker.open /\ picker.min < DayOf(clock)

PickedDaysAreAhead ==
    [][form'.expiresAt \notin {form.expiresAt, NoMoment} /\ "expiresAt" \in form'.edited
          => AheadOf(form'.expiresAt, form.expiresAt)]_editorVars

(* Both: what the form sends, and what it lets one pick                    *)
(* (links/[id]/page.tsx:163, datetime-picker.tsx:114).                     *)
FormsAreHonest == SavesKeepTheRest /\ PickedDaysAreAhead
=============================================================================

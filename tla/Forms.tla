-------------------------------- MODULE Forms --------------------------------
(* The forms actions and recurring patterns are added and edited with          *)
(* (components/ActionForm.tsx, RecurringForm.tsx and the fields they share): the *)
(* line, the pickers, the dates, what a save sends, and what the server makes of  *)
(* it, while the item changes elsewhere and the list is fetched anew.             *)
EXTENDS Composer, Integers

CONSTANTS
  Unset,                \* not picked
  Kinds,                \* the forms that are opened
  Alphabet, MaxText,    \* "line": what is typed, character by character
  Phrases, Words,       \* the other forms: the texts that are written to add and to edit
  NewNames,             \* names made in a picker
  Labels,               \* tags of the tags field
  Page,                 \* the project whose page "file" is on
  Actions, Patterns,    \* the items that are edited
  Days, Lead,           \* the days that are entered; the lead time of the account
  Weekdays,             \* the days of the week that are toggled
  MaxMoves,             \* bounds: inputs of a run, and saves, to add and to edit
  MaxAdds, MaxEdits

Day  == Int \cup {None}
Item == [description : Text, context : Text \cup {None}, project : Text \cup {None},
         tags : SUBSET Text, due : Day, showFrom : Day, period : {"weekly", "monthly"},
         weekdays : SUBSET Int, startFrom : Day, endDate : Day]
\* No action is stored that hides past the day it is due.
Sound(item) == item.due # None => item.showFrom # None /\ item.showFrom <= item.due

\* "line": the line of "add", alone.  "file": the bar of a project's page.
\* "defer": the dates of an action.
AllKinds == {"line", "add", "file", "plan", "edit", "defer", "rework"}
ASSUME KindsAssumption == Kinds \subseteq AllKinds
ASSUME NamesAssumption == Len(Contexts) > 0 /\ Page \in Names(Projects)
ASSUME DaysAssumption  == Days \subseteq Nat /\ Lead \in Nat
ASSUME InputsAssumption == /\ Alphabet \subseteq Chars /\ Weekdays \subseteq Nat
                           /\ Phrases \cup Words \cup NewNames \cup Labels \subseteq Text
ASSUME ItemsAssumption == \A item \in Actions \cup Patterns : item \in Item /\ Sound(item)
ASSUME BoundsAssumption == {MaxMoves, MaxAdds, MaxEdits} \subseteq Nat
\* The markers are no values.
ASSUME MarkersAssumption == None # Unset /\ None \notin Int /\ Unset \notin Text

VARIABLES
  kind, open,               \* the form; an edit closes
  text, caret, menu,        \* its line, and whether completions may show
  picks,                    \* what the pickers chose or named
  ctl,                      \* the other fields
  entry,                    \* a date that is typed and not set yet
  loaded,                   \* the preferences have arrived
  remembered,               \* the context of the last action
  todo,                     \* the item as the list has it, when editing
  stored,                   \* the item on the server, or the last one that was made
  sent,                     \* saves that are under way
  moves, saves,             \* bounds
  opened                    \* history: what the form showed when it was opened

line   == <<caret, menu>>
fields == <<text, picks, ctl, entry>>
form   == <<open, fields, opened>>
server == <<stored, sent, saves>>
world  == <<kind, loaded, remembered, todo>>
vars   == <<world, form, line, server, moves>>

Editing == kind \in {"edit", "defer", "rework"}
Pattern == kind \in {"plan", "rework"}
On      == IF Editing THEN {} ELSE IF kind = "file" THEN {"@", "!"} ELSE Sigils

Dates   == IF Pattern THEN {"startFrom", "endDate"} ELSE {"due", "showFrom"}
Parts   == Dates \cup CASE kind = "defer" -> {}
                       [] Pattern -> {"description", "context", "project", "tags", "period", "weekdays"}
                       [] OTHER   -> {"description", "context", "project", "tags"}
Fields  == {"description", "context", "project", "tags", "due", "showFrom",
            "period", "weekdays", "startFrom", "endDate"}

\* What a form opens with.
NoItem         == [f \in Fields |-> CASE f = "description" -> <<>> [] f = "tags" -> {}
                                      [] f = "weekdays" -> {1} [] f = "period" -> "weekly"
                                      [] OTHER -> None]
PicksOf(item)  == [context |-> item.context, newContext |-> None, newProject |-> None,
                   project |-> IF Editing THEN item.project ELSE Unset]
Fillings       == [tags : SUBSET Text, due : Day, showFrom : Day, period : {"weekly", "monthly"},
                   weekdays : SUBSET Int, startFrom : Day, endDate : Day]
CtlOf(item)    == [f \in Fields \ {"description", "context", "project"} |->
                     IF f = "weekdays" /\ item[f] = {} THEN {1} ELSE item[f]]
\* History: how an edited item is shown before anything is changed.
Opening(item)  == [f \in Fields |-> CASE f = "description" -> Description(item[f], <<>>)
                                       [] f \in {"context", "project"} -> item[f]
                                       [] OTHER -> CtlOf(item)[f]]

-----------------------------------------------------------------------------
(* What the line, the pickers and the defaults add up to (hooks/useIdentity.ts) *)

\* What is typed stands first, but for a name made in a picker before one that exists.
Or(x, y)               == IF x # None THEN x ELSE y
Existing(w)            == IF w # None /\ w.known THEN w.name ELSE None
NewOr(w, named)        == IF w # None /\ ~w.known THEN w.name ELSE named
Named(w, named, other) == Or(NewOr(w, named), Or(Existing(w), other))

\* On its page, a project is there again when "no project" was picked.
DefaultContext == Or(picks.context, Or(remembered, Contexts[1]))
DefaultProject == Or(IF picks.project = Unset THEN None ELSE picks.project,
                     IF kind = "file" THEN Page ELSE None)

\* The item that the form shows.
Reading(tokens) ==
  [description |-> Description(text, tokens),
   context     |-> Named(First(tokens, "@"), picks.newContext, DefaultContext),
   project     |-> Named(First(tokens, "#"), picks.newProject, DefaultProject),
   tags        |-> TagsOf(tokens) \cup ctl.tags,
   due |-> ctl.due, showFrom |-> ctl.showFrom, period |-> ctl.period, weekdays |-> ctl.weekdays,
   startFrom |-> ctl.startFrom, endDate |-> ctl.endDate]
Read  == Tokens(text, On)
Shown == Reading(Read)

-----------------------------------------------------------------------------
(* What a save sends: a field that is left out keeps its value, None clears it *)

\* The fields that are sent, as the form shows them.
Sends(these, shown) == [f \in these |-> shown[f]]
OfWeek(f)           == f = "weekdays" => ctl.period = "weekly"
\* All of an item that is new, or of a pattern, the schedule as its period has it.
Whole(shown)        == Sends({f \in Parts : OfWeek(f)}, shown)

\* Fault: both dates are sent.
ChangesOfAll(shown) == Sends(Dates \cup {f \in Parts : shown[f] # todo[f]}, shown)

\* A place that does not exist is sent by its name, others by their ids.
Made(f) == \/ f = "context" /\ NewOr(First(Read, "@"), picks.newContext) # None
           \/ f = "project" /\ NewOr(First(Read, "#"), picks.newProject) # None
\* Only the fields that differ from the item as the list has it now; a new name always.
Changes(shown) == Sends({f \in Parts : Made(f) \/ shown[f] # todo[f]}, shown)

-----------------------------------------------------------------------------
(* The two dates of an action (components/DateFields.tsx, lib/actionDates.ts) *)

\* An action does not hide past the day it is due.
Clamped(due, showFrom) == IF due # None /\ showFrom # None /\ showFrom > due THEN due ELSE showFrom

Shifted(from, to, showFrom) == IF from = None THEN showFrom ELSE showFrom + (to - from)

\* Fault: the show-from is left where it may be too late.
SetUnclamped(f, d) ==
  CASE f # "due" -> [ctl EXCEPT ![f] = d]
    [] d = None  -> [ctl EXCEPT !.due = None, !.showFrom = None]
    [] OTHER     -> [ctl EXCEPT !.due = d, !.showFrom = IF @ # None THEN @ ELSE d]

\* The due date carries the show-from with it, or makes one; a blank one clears both.
SetDate(f, d) ==
  CASE f \in {"startFrom", "endDate"} -> [ctl EXCEPT ![f] = d]
    [] f = "showFrom"                 -> [ctl EXCEPT !.showFrom = Clamped(ctl.due, d)]
    [] f = "due" /\ d = None          -> [ctl EXCEPT !.due = None, !.showFrom = None]
    [] OTHER -> [ctl EXCEPT !.due = d,
                            !.showFrom = Clamped(d, IF @ # None THEN Shifted(ctl.due, d, @)
                                                    ELSE d - (IF loaded THEN Lead ELSE 0))]

Allowed(f, d) == f = "showFrom" /\ d # None /\ ctl.due # None => d <= ctl.due
Enabled(f)    == f \in Dates /\ (f = "showFrom" => ctl.due # None)
\* A typed date that is not a day of the calendar goes back to what was set.
Committed     == IF entry # None /\ entry.day # ctl[entry.field] /\ Allowed(entry.field, entry.day)
                 THEN SetDate(entry.field, entry.day) ELSE ctl

-----------------------------------------------------------------------------
(* What the server makes of it (internal/service/todo.go, recurring.go, resolve.go) *)

\* A name that is made is stored bare: no blanks around it, and no sigil before it.  It may
\* be the name of a place that exists, which is used then.
Bared(q, g)  == IF q # <<>> /\ q[1] = g THEN Tail(q) ELSE q
NameOf(n, f) == Bared(Trimmed(n), IF f = "context" THEN "@" ELSE "#")
TagNames(ts) == {Trimmed(t) : t \in ts} \ {<<>>}
\* The fields of a save as the server reads them.  A description is trimmed here already.
Meant(w)     == [f \in DOMAIN w.req |-> CASE f \in w.made -> NameOf(w.req[f], f)
                                          [] f = "tags"   -> TagNames(w.req[f])
                                          [] OTHER        -> w.req[f]]
\* A name of which nothing is left is refused.
Nameable(w)  == \A f \in w.made : Meant(w)[f] # <<>>

\* Fault: the lead time of the account is not applied.
LeftBlank(item) == [item EXCEPT !.showFrom = Clamped(item.due, @)]
\* A due date has a show-from, not later than it.
Dated(item) == [item EXCEPT !.showFrom = Clamped(item.due, IF item.due # None /\ @ = None
                                                           THEN item.due - Lead ELSE @)]
Put(item, req)     == [f \in Fields |-> IF f \in DOMAIN req THEN req[f] ELSE item[f]]
Created(req)       == Dated(Put([NoItem EXCEPT !.weekdays = {}], req))
\* With its due date goes a show-from.
Clears(req)        == "due" \in DOMAIN req /\ req.due = None
Updated(item, req) == Dated([Put(item, req) EXCEPT !.showFrom = IF Clears(req) THEN None ELSE @])

-----------------------------------------------------------------------------
(* The line of "add": typing and completion (components/ActionInput.tsx) *)

Init ==
  /\ kind \in Kinds
  /\ todo \in (CASE kind \in {"edit", "defer"} -> Actions [] kind = "rework" -> Patterns
                 [] OTHER -> {NoItem})
  /\ open = TRUE /\ menu = FALSE /\ caret = 0 /\ entry = None /\ loaded = FALSE
  /\ text = todo.description /\ picks = PicksOf(todo) /\ ctl = CtlOf(todo)
  /\ remembered = None /\ stored = todo /\ sent = {} /\ moves = 0 /\ saves = 0
  /\ opened = Opening(todo)

OnLine == kind = "line" /\ UNCHANGED <<world, open, picks, ctl, entry, opened, server, moves>>

Type(c) ==
  /\ OnLine /\ Len(text) < MaxText
  /\ text' = SubSeq(text, 1, caret) \o <<c>> \o SubSeq(text, caret + 1, Len(text))
  /\ caret' = caret + 1 /\ menu' = TRUE

Erase ==
  /\ OnLine /\ caret > 0
  /\ text' = SubSeq(text, 1, caret - 1) \o SubSeq(text, caret + 1, Len(text))
  /\ caret' = caret - 1 /\ menu' = TRUE

MoveCaret(c) == OnLine /\ caret' = c /\ UNCHANGED <<text, menu>>
Focus        == OnLine /\ ~menu /\ menu' = TRUE /\ UNCHANGED <<text, caret>>
\* Escape, or the field is left.
Hide         == OnLine /\ menu /\ menu' = FALSE /\ UNCHANGED <<text, caret>>

\* The token that is completed: nothing is offered for a second context or project.
Offering(token) == IF menu /\ token # None /\ ~Taken(text, token, On) THEN {token} ELSE {}
Active          == Offering(ActiveToken(text, caret, On))
Offers(token, new) == IF new THEN {Creatable(token)} \ {None} ELSE Suggested(token)

Settle(next) == text' = next.text /\ caret' = next.caret /\ menu' = FALSE
Choose(token, name, new) ==
  OnLine /\ Len(text) <= MaxText /\ Settle(Applied(text, token, name, new))

Complete == \E token \in Active, new \in BOOLEAN : \E name \in Offers(token, new) :
              Choose(token, name, new)

-----------------------------------------------------------------------------
(* The other fields *)

\* An input of the user's: leaving a date field sets the date that was typed in it.
Input ==
  /\ kind # "line" /\ open /\ moves < MaxMoves /\ moves' = moves + 1
  /\ UNCHANGED <<world, open, opened, line, server>>
OnForm == Input /\ entry = None /\ entry' = None

Rephrase(p) == /\ OnForm /\ kind # "defer" /\ p # text
               /\ text' = p /\ UNCHANGED <<picks, ctl>>
Pick(new)   == OnForm /\ kind # "defer" /\ picks' = new /\ UNCHANGED <<text, ctl>>
Fill(new)   == OnForm /\ ctl' = new /\ UNCHANGED <<text, picks>>

\* Choosing one that exists and naming a new one each clears the other.  A name that is
\* new in the text is shown alone.
Listed(w)      == w # None => w.known
PickContext(c) == Listed(First(Read, "@")) /\ Pick([picks EXCEPT !.context = c, !.newContext = None])
PickProject(p) == Listed(First(Read, "#")) /\ Pick([picks EXCEPT !.project = p, !.newProject = None])
\* What is in the list is not offered to be made: the names that exist, an item's among them.
IsNew(n, w, names, own) == Listed(w) => n \notin names \cup {own}
NameContext(n) == /\ IsNew(n, First(Read, "@"), Names(Contexts), opened.context)
                  /\ Pick([picks EXCEPT !.context = None, !.newContext = n])
NameProject(n) == /\ IsNew(n, First(Read, "#"), Names(Projects), opened.project)
                  /\ Pick([picks EXCEPT !.project = Unset, !.newProject = n])

SetTags(l)    == kind # "defer" /\ Fill([ctl EXCEPT !.tags = l])
SetPeriod(p)  == Pattern /\ Fill([ctl EXCEPT !.period = p])
ToggleDay(d)  == Pattern /\ ctl.period = "weekly"
                 /\ Fill([ctl EXCEPT !.weekdays = IF d \in @ THEN @ \ {d} ELSE @ \cup {d}])
\* A day of the calendar, a quick-set, or the clear button.
ChooseDay(f, d) == Enabled(f) /\ Allowed(f, d) /\ Fill(SetDate(f, d))
ClearDay(f)     == f \in Dates /\ ctl[f] # None /\ Fill(SetDate(f, None))
TypeDay(f, d)   == /\ Input /\ entry = None /\ Enabled(f)
                   /\ entry' = [field |-> f, day |-> d] /\ UNCHANGED <<text, picks, ctl>>
CommitDay       == /\ open /\ entry # None /\ ctl' = Committed /\ entry' = None
                   /\ UNCHANGED <<world, open, opened, line, text, picks, server, moves>>

LoadPreferences == /\ kind # "line" /\ ~Pattern /\ ~loaded /\ loaded' = TRUE
                   /\ UNCHANGED <<kind, remembered, todo, form, line, server, moves>>

-----------------------------------------------------------------------------
(* Saving *)

Request(shown)  == IF kind \in {"edit", "defer"} THEN Changes(shown) ELSE Whole(shown)
Sensible(shown) == /\ shown.description # <<>> /\ shown.context # None
                   /\ Pattern /\ shown.startFrom # None /\ shown.endDate # None
                      => shown.startFrom <= shown.endDate

\* The fields as an item has them; none are left of a form that is closed.
Show(item) == /\ text' = item.description /\ picks' = PicksOf(item) /\ ctl' = CtlOf(item)
              /\ entry' = None /\ opened' = Opening(item)
Close      == open' = FALSE /\ Show(NoItem)

\* The form listens to its latest save, as long as it stays open.
Unheard  == {[w EXCEPT !.heard = FALSE] : w \in sent}

\* Enter and Ctrl+Enter submit while an earlier save is under way, and Ctrl+Enter while
\* a date is typed: that date is set, and not in what is sent.
SaveOf(shown, req) ==
  /\ kind = "defer" \/ Sensible(shown)
  /\ IF DOMAIN req = {} THEN UNCHANGED <<sent, saves>>
     ELSE /\ saves' = saves + 1
          /\ sent' = Unheard \cup {[n |-> saves', req |-> req, pc |-> "sent", heard |-> TRUE,
                                    made |-> {f \in DOMAIN req : Made(f)},
                                    shown |-> shown, opened |-> opened, base |-> todo]}
  /\ IF kind = "edit" \/ (kind = "defer" /\ DOMAIN req # {}) THEN Close
     ELSE ctl' = Committed /\ entry' = None /\ UNCHANGED <<open, text, picks, opened>>
Submit ==
  /\ kind # "line" /\ open /\ saves < (IF Editing THEN MaxEdits ELSE MaxAdds)
  /\ \E shown \in {Shown} : SaveOf(shown, Request(shown))
  /\ UNCHANGED <<world, line, stored, moves>>

\* The server carries a save out; its answer may be lost.
Result(w) == IF Editing THEN Updated(stored, Meant(w)) ELSE Created(Meant(w))
Carry(w, outcome) ==
  /\ w.pc = "sent" /\ Nameable(w) /\ stored' = Result(w)
  /\ sent' = (sent \ {w}) \cup {[w EXCEPT !.pc = outcome]}
  /\ UNCHANGED <<world, form, line, saves, moves>>
\* The tags are written after the row, taken off first: it fails between these.
CarryHalf(w) ==
  /\ w.pc = "sent" /\ Nameable(w) /\ "tags" \in DOMAIN w.req
  /\ \E left \in {{}, IF Editing THEN stored.tags ELSE {}} :
       stored' = [Result(w) EXCEPT !.tags = left]
  /\ sent' = (sent \ {w}) \cup {[w EXCEPT !.pc = "failed"]}
  /\ UNCHANGED <<world, form, line, saves, moves>>
Carried(w) == Carry(w, "ok") \/ Carry(w, "failed") \/ CarryHalf(w)
Refuse(w) ==
  /\ w.pc = "sent" /\ sent' = (sent \ {w}) \cup {[w EXCEPT !.pc = "failed"]}
  /\ UNCHANGED <<world, form, line, saves, moves, stored>>

\* An added action empties the form, but for its context; a new pattern less of it.
Added(w) ==
  /\ remembered' = IF Meant(w).context \in Names(Contexts) THEN Meant(w).context ELSE None
  /\ text' = <<>> /\ UNCHANGED <<line, kind, loaded, todo, opened, open>>
  /\ IF Pattern
     THEN picks' = [picks EXCEPT !.project = Unset] /\ ctl' = [ctl EXCEPT !.tags = {}]
     ELSE /\ picks' = [picks EXCEPT !.project = Unset, !.newContext = None, !.newProject = None]
          /\ ctl' = [ctl EXCEPT !.tags = {}, !.due = None, !.showFrom = None]
  \* A date field is made anew when its date changes.
  /\ entry' = IF entry # None /\ ctl[entry.field] # ctl'[entry.field] THEN None ELSE entry
\* A pattern that is edited stays open until it is saved; nothing waits for an action's answer.
Answer(w) ==
  /\ w.pc # "sent" /\ sent' = sent \ {w} /\ UNCHANGED <<stored, saves, moves>>
  /\ IF w.pc = "failed" \/ ~w.heard \/ kind \in {"edit", "defer"} THEN UNCHANGED <<world, form, line>>
     ELSE IF kind = "rework" THEN Close /\ UNCHANGED <<world, line>> ELSE Added(w)

Dismiss == /\ Editing /\ open /\ Close /\ sent' = Unheard
           /\ UNCHANGED <<world, line, stored, saves, moves>>
Reopen  == /\ Editing /\ ~open /\ open' = TRUE /\ Show(todo)
           /\ UNCHANGED <<world, line, server, moves>>

\* Another tab changes the item, and the list is read again.
Elsewhere(item) == /\ Editing /\ moves < MaxMoves /\ moves' = moves + 1
                   /\ item # stored /\ stored' = item
                   /\ UNCHANGED <<world, form, line, sent, saves>>
Refetch == /\ Editing /\ todo # stored /\ todo' = stored
           /\ UNCHANGED <<kind, loaded, remembered, form, line, server, moves>>

Next ==
  \/ \E c \in Alphabet : Type(c)
  \/ Erase \/ Focus \/ Hide \/ Complete
  \/ \E c \in 0..Len(text) : MoveCaret(c)
  \/ \E p \in (IF Editing THEN Words ELSE Phrases) : Rephrase(p)
  \/ \E c \in Names(Contexts) : PickContext(c)
  \/ \E p \in Names(Projects) \cup {None} : PickProject(p)
  \/ \E n \in NewNames : NameContext(n) \/ NameProject(n)
  \/ \E l \in SUBSET Labels : SetTags(l)
  \/ \E p \in {"weekly", "monthly"} : SetPeriod(p)
  \/ \E d \in Weekdays : ToggleDay(d)
  \/ \E f \in Dates, d \in Days : ChooseDay(f, d) \/ TypeDay(f, d)
  \/ \E f \in Dates : ClearDay(f) \/ TypeDay(f, None)
  \/ CommitDay \/ LoadPreferences \/ Submit \/ Dismiss \/ Reopen \/ Refetch
  \/ \E w \in sent : Carried(w) \/ Refuse(w) \/ Answer(w)
  \/ \E item \in (IF Pattern THEN Patterns ELSE Actions) : Elsewhere(item)

Spec == Init /\ [][Next]_vars
-----------------------------------------------------------------------------
(* Properties *)

\* No form shows an action that hides past the day it is due, no item is stored that does,
\* and every stored field has a value, however little of it a save sent; saves under way are
\* told apart.
TypeOK ==
  /\ kind \in Kinds /\ {open, menu, loaded} \subseteq BOOLEAN
  /\ text \in Text /\ caret \in 0..(IF kind = "line" THEN Len(text) ELSE 0)
  /\ ctl \in Fillings /\ (ctl.due # None /\ ctl.showFrom # None => ctl.showFrom <= ctl.due)
  /\ remembered \in Names(Contexts) \cup {None}
  /\ todo \in Item /\ Sound(todo) /\ stored \in Item /\ Sound(stored)
  /\ moves \in 0..MaxMoves /\ saves \in 0..(IF Editing THEN MaxEdits ELSE MaxAdds)
  /\ \A v, w \in sent : v.n \in 1..saves /\ (v.n = w.n => v = w)

\* A name that a token cannot run into the next one with: it begins with no sigil, quotation
\* mark or blank, and has no blank at its end, before a sigil or before another blank.
Plain(n)   == /\ Len(n) > 0 /\ n[1] \notin Sigils /\ n[1] # Mark /\ ~Blank(n, 1) /\ ~Blank(n, Len(n))
              /\ \A k \in 1..Len(n) - 1 : Blank(n, k) => n[k + 1] \notin Sigils /\ ~Blank(n, k + 1)
PlainNames == \A g \in Sigils : \A n \in Known(g) : Plain(n)

\* The form shows what will be stored, "instead of snapping to it after a round-trip"
\* (DateFields.tsx:57-60): a save that is carried out while the item is as the form was
\* opened on leaves every field as it was shown, whichever of them were sent.  A show-from
\* that was left blank is filled in, weekdays need a weekly pattern, and a new name and tags
\* that are not plain are stored bare: in quotes, " b" is shown with its blank and stored
\* as "b".  Tags are lost when the save fails after the row is written (todo.go:237-243).
SavesWhatIsShown ==
  [][\A w \in sent :
       /\ Carried(w)
       /\ Editing => \A f \in Parts : w.opened[f] = w.base[f] /\ stored[f] = w.base[f]
       => \A f \in Parts :
            \/ stored'[f] = w.shown[f]
            \/ f = "showFrom" /\ w.shown[f] = None /\ w.shown.due # None
               /\ stored'[f] = w.shown.due - Lead
            \/ f = "weekdays" /\ w.shown.period # "weekly"
            \/ f \in w.made /\ ~Plain(w.shown[f]) /\ stored'[f] = NameOf(w.shown[f], f)
            \/ f = "tags" /\ ~(\A t \in w.shown[f] : Plain(t)) /\ stored'[f] = TagNames(w.shown[f])
            \/ f = "tags" /\ CarryHalf(w)]_vars

\* What an edit does to a field that was not touched in its form.  It leaves it alone; a due
\* date that is sent takes the show-from with it.
Untouched(w, f) == f \in Parts => w.shown[f] = w.opened[f]
Stays(w, f)     == stored'[f] = stored[f] \/ (f = "showFrom" /\ w.shown.due # w.base.due)
\* Or it puts back what the form was opened with, if the list had the field otherwise when the
\* form was saved.  A show-from is put back as the due date allows.
PutBack(w, f) ==
  /\ f \in Parts /\ w.opened[f] # w.base[f]
  /\ \/ stored'[f] = w.opened[f]
     \/ f = "showFrom"
     \/ f = "tags" /\ (stored'[f] = TagNames(w.opened[f]) \/ CarryHalf(w))

\* What another tab changed in a field that was not touched stays, unless the list was fetched
\* anew while the form was open and shows the change, or it is a description with runs of
\* blanks, which the form shows as one.  Such a change is taken back: changes() sends what
\* differs from the list as it is now (ActionForm.tsx:141-172), not "only the fields that
\* actually moved", and it sends what the form was opened with, never something else.
KeepsTheRest ==
  [][\A w \in sent :
       Carried(w) /\ kind \in {"edit", "defer"}
       => \A f \in Fields : Untouched(w, f) => Stays(w, f) \/ PutBack(w, f)]_vars

\* A completion writes the name that was chosen: it is what the text is then read as at that
\* place, an existing one as existing and a new one as new.  Three texts are read otherwise:
\* a name completed right before more of a word, or inside an open quotation, and a new
\* name with a character in it that ends a name (ActionInput.tsx:161-162 says "matching how
\* the parser reads an unknown token").  The lists hold plain names: where another name is
\* "a #b", the "a" that was chosen before a "#b" is read as that one.
CompletionNames ==
  [][\A token \in Active, new \in BOOLEAN : \A name \in Offers(token, new), tokens \in {Tokens(text', On)} :
       /\ Choose(token, name, new)
       /\ caret' = Len(text') \/ Blank(text', caret' + 1)
       /\ \A t \in Names(tokens) : t.start < token.start => t.after <= token.start
       /\ new => Names(name) \cap (IF " " \in Names(name) THEN {Mark} ELSE Sigils \cup {Mark}) = {}
       => \E t \in Names(tokens) : t.start = token.start /\ t.name = name /\ t.known = ~new]_vars
=============================================================================

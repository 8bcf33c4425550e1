------------------------------- MODULE Filing -------------------------------
(***************************************************************************)
(* Where the work of ONE account is filed: contexts and projects, and the  *)
(* actions, recurrence patterns and notes that refer to them by id.        *)
(* service/context.go, project.go, resolve.go, the filing parts of         *)
(* service/todo.go and recurring.go, and api/tag_note_handler.go.          *)
(*                                                                         *)
(* The schema has no foreign keys.  That a reference leads to a row rests  *)
(* on checks made before a write and on contents being emptied before a    *)
(* container is dropped, in requests of which only some take the account   *)
(* guard.  A step is one database statement; reads that follow each other  *)
(* are one step when no write of one other request between them could be   *)
(* told from a write before or after both.                                 *)
(*                                                                         *)
(* Contexts and projects are "places".  Of a place only the name is kept   *)
(* (states, positions, descriptions and the default context of a project   *)
(* decide nothing here), names being what ByName compares: trimmed of      *)
(* their sigil and lower-cased.  Dates and allowances of actions are in    *)
(* module Tickler: a refusal on their account is an Abort here.            *)
(***************************************************************************)
EXTENDS Naturals, FiniteSets

CONSTANTS
  Requests,       \* request handlers that may run at once
  ContextIds,     \* row ids of contexts, never reused
  ProjectIds,     \* row ids of projects, never reused
  ItemIds,        \* row ids of actions, patterns and notes, never reused
  Names,          \* names of places, as ByName compares them
  None,           \* a nil pointer, an empty row
  Gone,           \* the row of this id has been deleted
  ContextLimit, ProjectLimit, NoteLimit,   \* --quota.contexts, .projects, .notes
  MaxRequests     \* bound on the requests of a behaviour

Places == ContextIds \cup ProjectIds

ASSUME Apart ==
  /\ ContextIds \cap ProjectIds = {}
  /\ Gone # None /\ {None, Gone} \cap (Names \cup Places \cup ItemIds \cup Requests) = {}
ASSUME Limits ==
  /\ IsFiniteSet(Places) /\ IsFiniteSet(ItemIds)
  /\ {ContextLimit, ProjectLimit, NoteLimit} \subseteq Nat

VARIABLES
  place,     \* Places -> name, None or Gone
  items,     \* ItemIds -> row, None or Gone
  holder,    \* the request inside the account guard
  req,       \* what each request holds in its local variables
  started,   \* requests begun so far
  named,     \* ghost: places a guarded request created because nothing had the name (those
             \* that the edit of a note creates are in byEdit instead)
  byEdit,    \* ghost: projects created by the edit of a note
  raced      \* ghost: <<item, place>> written while that place was being deleted

vars == <<place, items, holder, req, started, named, byEdit, raced>>
ghosts == <<named, byEdit, raced>>

-----------------------------------------------------------------------------
(* Rows *)

Item == [kind : {"todo", "pattern", "note"}, ctx : ContextIds \cup {None},
         proj : ProjectIds \cup {None}]
ASSUME NotRows == {None, Gone} \cap Item = {}

LivePlaces == {x \in Places : place[x] \notin {None, Gone}}
LiveItems == {i \in ItemIds : items[i] \notin {None, Gone}}
OfKind(kind) == {i \in LiveItems : items[i].kind = kind}
InContext(kind, c) == {i \in OfKind(kind) : items[i].ctx = c}
InProject(kind, p) == {i \in OfKind(kind) : items[i].proj = p}

\* ByName.
Called(name, ids) == {x \in ids \cap LivePlaces : place[x] = name}

HasContextRoom == Cardinality(ContextIds \cap LivePlaces) < ContextLimit
HasProjectRoom == Cardinality(ProjectIds \cap LivePlaces) < ProjectLimit
HasNoteRoom == Cardinality(OfKind("note")) < NoteLimit

Idle == [op |-> "none", pc |-> "idle", id |-> None, row |-> None, name |-> None,
         check |-> {}, batch |-> {}, deleteNotes |-> None]

\* An account in any state its requests leave behind one after the other.
Init ==
  /\ place \in [Places -> Names \cup {None}]
  /\ items \in [ItemIds -> Item \cup {None}]
  /\ \A i \in LiveItems :
       /\ items[i].ctx = None <=> items[i].kind = "note"
       /\ {items[i].ctx, items[i].proj} \subseteq LivePlaces \cup {None}
  /\ Cardinality(ContextIds \cap LivePlaces) <= ContextLimit
  /\ Cardinality(ProjectIds \cap LivePlaces) <= ProjectLimit
  /\ Cardinality(OfKind("note")) <= NoteLimit
  /\ holder = None /\ started = 0
  /\ req = [r \in Requests |-> Idle]
  /\ named = {} /\ byEdit = {} /\ raced = {}

At(r, pc) == req[r].pc = pc
Go(r, pc) == req' = [req EXCEPT ![r].pc = pc]
Return(r) ==
  /\ req' = [req EXCEPT ![r] = Idle]
  /\ holder' = IF holder = r THEN None ELSE holder

Begin(r) == At(r, "idle") /\ started < MaxRequests /\ started' = started + 1
Guarded(r) == Begin(r) /\ holder = None /\ holder' = r
Unguarded(r) == Begin(r) /\ UNCHANGED holder

\* A place some request is deleting, and what an item row refers to.
Deleting(x) == \E r \in Requests : req[r].op \in {"dropContext", "dropProject"}
                                   /\ req[r].id = x
Refs(row) == {row.ctx, row.proj} \ {None}
Races(i, row) == {<<i, x>> : x \in {y \in Refs(row) : y \notin LivePlaces \/ Deleting(y)}}

\* Row i is written; what is noted of the row it replaces is forgotten.
Put(i, row) ==
  /\ items' = [items EXCEPT ![i] = row]
  /\ raced' = {e \in raced : e[1] # i} \cup Races(i, row)

-----------------------------------------------------------------------------
(* Creating and editing items.  Under the guard, but for the edit of a note. *)

\* Fault: the create handlers do not take the guard.
CreateItemUnguarded(r, kind) ==
  /\ Unguarded(r)
  /\ req' = [req EXCEPT ![r] = [Idle EXCEPT !.op = "create",
               !.pc = IF kind = "note" THEN "project" ELSE "context",
               !.row = [kind |-> kind, ctx |-> None, proj |-> None]]]
  /\ UNCHANGED <<place, items, ghosts>>

\* Create of an action, a pattern or a note, up to its first statement.
CreateItem(r, kind) ==
  /\ Guarded(r)
  /\ req' = [req EXCEPT ![r] = [Idle EXCEPT !.op = "create",
               !.pc = IF kind = "note" THEN "project" ELSE "context",
               !.row = [kind |-> kind, ctx |-> None, proj |-> None]]]
  /\ UNCHANGED <<place, items, ghosts>>

\* Update of an action or a pattern reads its row.
UpdateItem(r, i) ==
  /\ i \in OfKind("todo") \cup OfKind("pattern") /\ Guarded(r)
  /\ req' = [req EXCEPT ![r] = [Idle EXCEPT !.op = "update", !.pc = "context",
                                  !.id = i, !.row = items[i]]]
  /\ UNCHANGED <<place, items, ghosts>>

\* The edit of a note reads its row; body only, cleared or filed elsewhere.
EditNote(r, i) ==
  /\ i \in OfKind("note") /\ Unguarded(r)
  /\ req' = [req EXCEPT ![r] = [Idle EXCEPT !.op = "editNote", !.pc = "project",
                                  !.id = i, !.row = items[i]]]
  /\ UNCHANGED <<place, items, ghosts>>

\* nameResolver.Context on an id, a known name or an unknown one.
ResolveContext(r) ==
  LET found(c, check) == req' = [req EXCEPT ![r].row.ctx = c, ![r].pc = "project",
                                            ![r].check = check]
  IN
  /\ At(r, "context")
  /\ \/ /\ \/ req[r].op = "update" /\ found(req[r].row.ctx, {})
           \/ \E c \in ContextIds : place[c] # None /\ found(c, {c})
           \/ \E name \in Names :
                \/ \E c \in Called(name, ContextIds) : found(c, {c})
                \/ /\ Called(name, ContextIds) = {} /\ HasContextRoom
                   /\ req' = [req EXCEPT ![r].name = name, ![r].pc = "newContext"]
        /\ UNCHANGED holder
     \/ (\E name \in Names : Called(name, ContextIds) = {}) /\ ~HasContextRoom /\ Return(r)
  /\ UNCHANGED <<place, items, started, ghosts>>

\* After the project: the references an action or a pattern was given are
\* checked; a note has its allowance checked when it is new.
AfterProject(r) == IF req[r].op = "editNote" THEN "write" ELSE "check"

\* nameResolver.Project for actions and patterns, noteHandler.resolveProject for
\* notes, which checks an explicit id at once.
ResolveProject(r) ==
  LET note == req[r].row.kind = "note"
      found(p, check) == req' = [req EXCEPT ![r].row.proj = p, ![r].pc = AfterProject(r),
                                            ![r].check = @ \cup check]
  IN
  /\ At(r, "project")
  /\ \/ /\ \/ found(req[r].row.proj, {}) \/ found(None, {})
           \/ \E p \in ProjectIds :
                IF note THEN p \in LivePlaces /\ found(p, {})
                ELSE place[p] # None /\ found(p, {p})
           \/ \E name \in Names :
                \/ \E p \in Called(name, ProjectIds) : found(p, IF note THEN {} ELSE {p})
                \/ /\ Called(name, ProjectIds) = {} /\ HasProjectRoom
                   /\ req' = [req EXCEPT ![r].name = name, ![r].pc = "newProject"]
        /\ UNCHANGED holder
     \/ /\ \/ (\E name \in Names : Called(name, ProjectIds) = {}) /\ ~HasProjectRoom
           \/ note /\ \E p \in ProjectIds : place[p] = Gone
        /\ Return(r)
  /\ UNCHANGED <<place, items, started, ghosts>>

\* The insert of a place, for its own create handler or for a name that had none.
NewContext(r) ==
  /\ At(r, "newContext")
  /\ \E c \in ContextIds :
       /\ place[c] = None
       /\ place' = [place EXCEPT ![c] = req[r].name]
       /\ IF req[r].op = "addPlace" THEN Return(r) /\ UNCHANGED named
          ELSE /\ req' = [req EXCEPT ![r].row.ctx = c, ![r].check = {c},
                                     ![r].pc = "project", ![r].name = None]
               /\ named' = named \cup {c}
               /\ UNCHANGED holder
  /\ UNCHANGED <<items, started, byEdit, raced>>

NewProject(r) ==
  /\ At(r, "newProject")
  /\ \E p \in ProjectIds :
       /\ place[p] = None
       /\ place' = [place EXCEPT ![p] = req[r].name]
       /\ IF req[r].op = "addPlace" THEN Return(r) /\ UNCHANGED <<named, byEdit>>
          ELSE /\ req' = [req EXCEPT ![r].row.proj = p, ![r].pc = AfterProject(r),
                                     ![r].check = @ \cup {p}, ![r].name = None]
               /\ named' = IF req[r].op = "editNote" THEN named ELSE named \cup {p}
               /\ byEdit' = IF req[r].op = "editNote" THEN byEdit \cup {p} ELSE byEdit
               /\ UNCHANGED holder
  /\ UNCHANGED <<items, started, raced>>

\* contexts.ByID, checkProject; CheckNote for a note.
CheckRefs(r) ==
  /\ At(r, "check")
  /\ IF IF req[r].row.kind = "note" THEN HasNoteRoom ELSE req[r].check \subseteq LivePlaces
     THEN Go(r, "write") /\ UNCHANGED holder ELSE Return(r)
  /\ UNCHANGED <<place, items, started, ghosts>>

\* The insert or the whole-row write.  A row deleted meanwhile is ErrNotFound.
\* Create of a pattern goes on to spawn its first action.
WriteItem(r) ==
  LET row == req[r].row IN
  /\ At(r, "write")
  /\ \/ /\ req[r].op = "create"
        /\ \E i \in ItemIds :
             /\ items[i] = None /\ Put(i, row)
             /\ IF row.kind = "pattern"
                THEN /\ req' = [req EXCEPT ![r].pc = "spawn", ![r].id = i, ![r].check = {}]
                     /\ UNCHANGED holder
                ELSE Return(r)
     \/ /\ req[r].op # "create"
        /\ IF req[r].id \in LiveItems THEN Put(req[r].id, row) ELSE UNCHANGED <<items, raced>>
        /\ Return(r)
  /\ UNCHANGED <<place, started, named, byEdit>>

\* Complete, Reactivate and Reorder read a whole row and write it back, unguarded.
TouchTodo(r, i) ==
  /\ i \in OfKind("todo") /\ Unguarded(r)
  /\ req' = [req EXCEPT ![r] = [Idle EXCEPT !.op = "touch", !.pc = "write",
                                  !.id = i, !.row = items[i]]]
  /\ UNCHANGED <<place, items, ghosts>>

\* Sweep and SpawnNext read a pattern; its action is filed where the pattern was,
\* then the whole pattern row is written back.  An exhausted pattern is only
\* written back; an open instance or a full account is an Abort here.
SpawnFor(r, i) ==
  /\ i \in OfKind("pattern") /\ Guarded(r)
  /\ req' = [req EXCEPT ![r] = [Idle EXCEPT !.op = "spawn", !.pc = "spawn",
                                  !.id = i, !.row = items[i]]]
  /\ UNCHANGED <<place, items, ghosts>>

SpawnTodo(r) ==
  /\ At(r, "spawn")
  /\ \/ \E i \in ItemIds :
          items[i] = None /\ Put(i, [req[r].row EXCEPT !.kind = "todo"])
     \/ UNCHANGED <<items, raced>>
  /\ Go(r, "save")
  /\ UNCHANGED <<place, holder, started, named, byEdit>>

SavePattern(r) ==
  /\ At(r, "save")
  /\ IF req[r].id \in LiveItems THEN Put(req[r].id, req[r].row)
     ELSE UNCHANGED <<items, raced>>
  /\ Return(r)
  /\ UNCHANGED <<place, started, named, byEdit>>

\* Delete of one action, pattern or note.
Removed(set) ==
  /\ items' = [i \in ItemIds |-> IF i \in set THEN Gone ELSE items[i]]
  /\ raced' = {e \in raced : e[1] \notin set}

DeleteItem(i) ==
  /\ i \in LiveItems /\ started < MaxRequests /\ started' = started + 1
  /\ Removed({i})
  /\ UNCHANGED <<place, holder, req, named, byEdit>>

-----------------------------------------------------------------------------
(* Places *)

\* Create of a context or a project: no other place is asked for its name.
AddPlace(r) ==
  /\ Guarded(r)
  /\ \E name \in Names, ids \in {ContextIds, ProjectIds} :
       /\ IF ids = ContextIds THEN HasContextRoom ELSE HasProjectRoom
       /\ req' = [req EXCEPT ![r] = [Idle EXCEPT !.op = "addPlace", !.name = name,
                    !.pc = IF ids = ContextIds THEN "newContext" ELSE "newProject"]]
  /\ UNCHANGED <<place, items, ghosts>>

\* Update of a place and Review read its row and write the whole of it.
EditPlace(r, x) ==
  /\ x \in LivePlaces /\ Unguarded(r)
  /\ req' = [req EXCEPT ![r] = [Idle EXCEPT !.op = "editPlace", !.pc = "rename",
                                  !.id = x, !.name = place[x]]]
  /\ UNCHANGED <<place, items, ghosts>>

WritePlace(r) ==
  LET x == req[r].id IN
  /\ At(r, "rename")
  /\ \E name \in Names :
       IF x \in LivePlaces
       THEN /\ place' = [place EXCEPT ![x] = name]
            /\ named' = IF name = place[x] THEN named ELSE named \ {x}
       ELSE UNCHANGED <<place, named>>
  /\ Return(r)
  /\ UNCHANGED <<items, started, byEdit, raced>>

\* ContextService.Delete: ByID and the actions counted, then the patterns.
DeleteContext(r, c) ==
  /\ c \in LivePlaces /\ Unguarded(r)
  /\ req' = [req EXCEPT ![r] = [Idle EXCEPT !.op = "dropContext", !.pc = "count",
                                  !.id = c, !.batch = InContext("todo", c)]]
  /\ UNCHANGED <<place, items, ghosts>>

\* Fault: only the actions are counted.
CountTodosOnly(r) ==
  /\ At(r, "count")
  /\ IF req[r].batch = {} THEN Go(r, "drop") ELSE Go(r, "list") \/ Go(r, "refused")
  /\ UNCHANGED <<place, items, holder, started, ghosts>>

\* Empty: drop it.  Otherwise purge it with force, or refuse without.
CountContext(r) ==
  /\ At(r, "count")
  /\ IF req[r].batch = {} /\ InContext("pattern", req[r].id) = {}
     THEN Go(r, "drop") ELSE Go(r, "list") \/ Go(r, "refused")
  /\ UNCHANGED <<place, items, holder, started, ghosts>>

\* purge: the actions listed, deleted one by one, then the patterns at once.
ListContext(r) ==
  /\ At(r, "list")
  /\ req' = [req EXCEPT ![r].pc = "purge", ![r].batch = InContext("todo", req[r].id)]
  /\ UNCHANGED <<place, items, holder, started, ghosts>>

\* An action that is gone already is an error that ends the purge.
PurgeTodo(r) ==
  /\ At(r, "purge")
  /\ \E i \in req[r].batch :
       IF i \in LiveItems
       THEN /\ Removed({i})
            /\ req' = [req EXCEPT ![r].batch = @ \ {i}]
            /\ UNCHANGED holder
       ELSE Return(r) /\ UNCHANGED <<items, raced>>
  /\ UNCHANGED <<place, started, named, byEdit>>

PurgePatterns(r) ==
  /\ At(r, "purge") /\ req[r].batch = {}
  /\ Removed(InContext("pattern", req[r].id))
  /\ Go(r, "drop")
  /\ UNCHANGED <<place, holder, started, named, byEdit>>

\* ProjectService.Delete: ByID and the notes listed; notes need an answer.
DeleteProject(r, p) ==
  /\ p \in LivePlaces /\ Unguarded(r)
  /\ \E answer \in {None, TRUE, FALSE} :
       req' = [req EXCEPT ![r] =
                 [Idle EXCEPT !.op = "dropProject", !.id = p, !.deleteNotes = answer,
                    !.batch = InProject("note", p),
                    !.pc = IF answer = None /\ InProject("note", p) # {}
                           THEN "refused" ELSE "todos"]]
  /\ UNCHANGED <<place, items, ghosts>>

Refused(r) ==
  /\ At(r, "refused") /\ Return(r)
  /\ UNCHANGED <<place, items, started, ghosts>>

\* Fault: the column is zeroed where NULL means none.
DetachedToZero(kind, p) ==
  /\ items' = [i \in ItemIds |-> IF i \in InProject(kind, p)
                                 THEN [items[i] EXCEPT !.proj = 0] ELSE items[i]]
  /\ UNCHANGED raced

\* DetachProject of the three repositories.
Detached(kind, p) ==
  /\ items' = [i \in ItemIds |-> IF i \in InProject(kind, p)
                                 THEN [items[i] EXCEPT !.proj = None] ELSE items[i]]
  /\ raced' = {e \in raced : ~(e[1] \in InProject(kind, p) /\ e[2] = p)}

DetachTodos(r) ==
  /\ At(r, "todos") /\ Detached("todo", req[r].id) /\ Go(r, "patterns")
  /\ UNCHANGED <<place, holder, started, named, byEdit>>

\* Whether there are notes to decide on was read at the start.
DetachPatterns(r) ==
  /\ At(r, "patterns") /\ Detached("pattern", req[r].id)
  /\ Go(r, IF req[r].batch = {} THEN "drop" ELSE "notes")
  /\ UNCHANGED <<place, holder, started, named, byEdit>>

SettleNotes(r) ==
  /\ At(r, "notes")
  /\ IF req[r].deleteNotes = TRUE THEN Removed(InProject("note", req[r].id))
     ELSE Detached("note", req[r].id)
  /\ Go(r, "drop")
  /\ UNCHANGED <<place, holder, started, named, byEdit>>

\* The row of the place, last.
DropPlace(r) ==
  /\ At(r, "drop")
  /\ place' = [place EXCEPT ![req[r].id] = Gone]
  /\ named' = named \ {req[r].id} /\ byEdit' = byEdit \ {req[r].id}
  /\ Return(r)
  /\ UNCHANGED <<items, started, raced>>

\* A statement fails, an allowance of module Tickler refuses, or the client or the
\* process goes away: nothing already written is taken back.
Abort(r) ==
  /\ ~At(r, "idle") /\ Return(r)
  /\ UNCHANGED <<place, items, started, ghosts>>

Step(r) ==
  \/ \E kind \in {"todo", "pattern", "note"} : CreateItem(r, kind)
  \/ \E i \in ItemIds : UpdateItem(r, i) \/ EditNote(r, i) \/ TouchTodo(r, i) \/ SpawnFor(r, i)
  \/ \E x \in Places : EditPlace(r, x)
  \/ \E c \in ContextIds : DeleteContext(r, c)
  \/ \E p \in ProjectIds : DeleteProject(r, p)
  \/ AddPlace(r) \/ ResolveContext(r) \/ ResolveProject(r) \/ NewContext(r) \/ NewProject(r)
  \/ CheckRefs(r) \/ WriteItem(r) \/ SpawnTodo(r) \/ SavePattern(r) \/ WritePlace(r)
  \/ CountContext(r) \/ ListContext(r) \/ PurgeTodo(r) \/ PurgePatterns(r)
  \/ DetachTodos(r) \/ DetachPatterns(r) \/ SettleNotes(r) \/ DropPlace(r)
  \/ Refused(r) \/ Abort(r)

Next ==
  \/ \E r \in Requests : Step(r)
  \/ \E i \in ItemIds : DeleteItem(i)

Spec == Init /\ [][Next]_vars

-----------------------------------------------------------------------------
(* Properties *)

Request == [op : {"none", "create", "update", "editNote", "touch", "spawn", "addPlace",
                  "editPlace", "dropContext", "dropProject"},
            pc : {"idle", "context", "newContext", "project", "newProject", "check",
                  "write", "spawn", "save", "rename", "count", "list", "purge", "todos",
                  "patterns", "notes", "drop", "refused"},
            id : ItemIds \cup Places \cup {None}, row : Item \cup {None},
            name : Names \cup {None}, check : SUBSET Places, batch : SUBSET ItemIds,
            deleteNotes : {None, TRUE, FALSE}]

TypeOK ==
  /\ place \in [Places -> Names \cup {None, Gone}]
  /\ items \in [ItemIds -> Item \cup {None, Gone}]
  /\ holder \in Requests \cup {None}
  /\ req \in [Requests -> Request]
  /\ started \in Nat
  /\ named \subseteq Places /\ byEdit \subseteq ProjectIds
  /\ raced \subseteq ItemIds \X Places

\* However its requests interleave and fail, an account never has more contexts or
\* notes than its allowance, nor more projects, not counting those the edit of a
\* note created: that path checks and inserts outside the guard.
AllowancesHeld ==
  /\ Cardinality(ContextIds \cap LivePlaces) <= ContextLimit
  /\ Cardinality((ProjectIds \cap LivePlaces) \ byEdit) <= ProjectLimit
  /\ Cardinality(OfKind("note")) <= NoteLimit

\* Two requests that type the same new name file under one place: of the places that
\* guarded requests created for a name nothing had (nameResolver, resolve.go:33-76), and
\* that still have it, no two have the same name.  It says nothing of a project that
\* the edit of a note creates: that path looks for the name and inserts outside the
\* guard (tag_note_handler.go:210), so it may make a second project of a name, as a
\* create of a place under a name of its own, or its renaming, always may.
NamesResolveOnce ==
  \A x, y \in named :
    /\ {x, y} \subseteq ContextIds \/ {x, y} \subseteq ProjectIds
    /\ place[x] = place[y]
    => x = y

\* Every reference leads to a row, through deletes that are refused, stop half-way
\* or overlap, unless the item was last written while that very place was being
\* deleted or after it was.
ReferencesLead ==
  \A i \in LiveItems : \A x \in Refs(items[i]) : x \in LivePlaces \/ <<i, x>> \in raced

\* The claim without its exception: an action's context is mandatory and exists
\* (comment on ContextService.Delete).
ContextExists ==
  \A i \in OfKind("todo") : items[i].ctx \in LivePlaces
=============================================================================

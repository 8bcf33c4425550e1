----------------------------- MODULE Belongings -----------------------------
(***************************************************************************)
(* What hangs off the actions of ONE account: attachments, whose bytes are *)
(* objects in a store and whose metadata are rows, and tags, rows linked   *)
(* to actions.  service/attachment.go, the tag and attachment parts of     *)
(* service/todo.go, quota.go, repo/bun_prefs.go and the tags of            *)
(* repo/bun_gtd.go.                                                        *)
(*                                                                         *)
(* A step is one database statement or one call of the object store.  The  *)
(* two cannot be written together, and an upload is not guarded while its  *)
(* bytes are on the way.  A file is known by its stored name, drawn at     *)
(* random by every upload and so never drawn twice.                        *)
(***************************************************************************)
EXTENDS Integers, FiniteSets, FiniteSetsExt

CONSTANTS
  Requests,      \* request handlers that may run at once
  TodoIds,       \* row ids of actions, never reused
  Files,         \* stored names of uploads
  TagNames,      \* tag names after normalizeTags
  None,          \* a nil pointer
  Sizes,         \* sizes an upload may have, at most MaxUploadBytes
  StorageLimit,  \* --quota.storage
  TagLimit,      \* --quota.tags
  Postgres,      \* the guard is a transaction of its own, which may fail to commit
  MaxRequests    \* bound on the requests of a behaviour

\* A name has a bounded length (validateName), so there are finitely many.
ASSUME NamesAssumption == IsFiniteSet(TagNames)
ASSUME Bounds == Sizes \subseteq Nat /\ StorageLimit \in Nat \ {0} /\ TagLimit \in Nat \ {0}
ASSUME Dialect == Postgres \in BOOLEAN
ASSUME NoneIsNone == None \notin TodoIds \cup Files \cup Requests

VARIABLES
  todos,     \* ids of the action rows
  rows,      \* attachment rows: [file, todo, size]
  objects,   \* stored names in the object store
  tags,      \* names of the tag rows
  links,     \* taggings: <<todo, name>>
  holder,    \* the request inside the account guard
  req,       \* what each request holds in its local variables
  drawn,     \* ghost: stored names drawn so far
  started,   \* requests begun so far
  leaked,    \* ghost: objects a failure, or an overlapping delete, left behind
  late,      \* ghost: files and links added to an action that was being deleted
  unsure     \* ghost: files recorded by a guarded write that was reported as failed

vars == <<todos, rows, objects, tags, links, holder, req, drawn, started, leaked, late, unsure>>

-----------------------------------------------------------------------------
Row == [file : Files, todo : TodoIds, size : Sizes]
Idle == [op |-> "none", pc |-> "idle", todo |-> None, row |-> None, names |-> {}, batch |-> {}]

\* TotalBytesForUser.
Used == MapThenSumSet(LAMBDA a : a.size, rows)
Of(t) == {a \in rows : a.todo = t}
\* CheckStorage.
Fits(size) == Used + size <= StorageLimit

\* CheckTags: the names that are new are added to the rows there are.
TagsFit(names) == Cardinality(tags \cup names) <= TagLimit

\* An account whose actions carry nothing yet.
Init ==
  /\ todos \in SUBSET TodoIds /\ todos # {}
  /\ rows = {} /\ objects = {} /\ links = {}
  /\ tags = {}
  /\ holder = None /\ drawn = {} /\ started = 0
  /\ req = [r \in Requests |-> Idle]
  /\ leaked = {} /\ late = {} /\ unsure = {}

At(r, pc) == req[r].pc = pc
Go(r, pc) == req' = [req EXCEPT ![r].pc = pc]
Release(r) == holder' = IF holder = r THEN None ELSE holder
Return(r) == req' = [req EXCEPT ![r] = Idle] /\ Release(r)
Begin(r) == At(r, "idle") /\ started < MaxRequests /\ started' = started + 1

\* Actions that are gone, or that a request has begun to delete.
Doomed == {t \in TodoIds : t \notin todos
            \/ \E r \in Requests : req[r].op = "deleteTodo" /\ req[r].todo = t}
Mark(t, new) == late' = IF t \in Doomed THEN late \cup new ELSE late

-----------------------------------------------------------------------------
(* Save *)

\* The action is there and the account is not full already.
StartUpload(r, t) ==
  /\ Begin(r) /\ t \in todos /\ Fits(0)
  /\ \E f \in Files \ drawn, size \in Sizes :
       /\ req' = [req EXCEPT ![r] = [Idle EXCEPT !.op = "upload", !.pc = "put", !.todo = t,
                    !.row = [file |-> f, todo |-> t, size |-> size]]]
       /\ drawn' = drawn \cup {f}
  /\ UNCHANGED <<todos, rows, objects, tags, links, holder, leaked, late, unsure>>

\* An error of the store may come after the object was stored.
PutObject(r) ==
  LET f == req[r].row.file IN
  /\ At(r, "put")
  /\ objects' = objects \cup {f}
  /\ \/ Go(r, "size") /\ UNCHANGED <<holder, leaked>>
     \/ Return(r) /\ leaked' = leaked \cup {f}
  /\ UNCHANGED <<todos, rows, tags, links, drawn, started, late, unsure>>

\* Fault: the second check is not guarded.
CheckSizeUnguarded(r) ==
  /\ At(r, "size")
  /\ Go(r, IF Fits(req[r].row.size) THEN "row" ELSE "undo")
  /\ UNCHANGED <<todos, rows, objects, tags, links, holder, drawn, started, leaked, late, unsure>>

\* Fault: what does not fit is refused without taking the object back.
CheckSizeForgets(r) ==
  /\ At(r, "size") /\ holder = None
  /\ IF Fits(req[r].row.size) THEN Go(r, "row") /\ holder' = r ELSE Return(r)
  /\ UNCHANGED <<todos, rows, objects, tags, links, drawn, started, leaked, late, unsure>>

\* The guard, and the allowance again with the real size.
CheckSize(r) ==
  /\ At(r, "size") /\ holder = None
  /\ IF Fits(req[r].row.size) THEN Go(r, "row") /\ holder' = r
     ELSE Go(r, "undo") /\ UNCHANGED holder
  /\ UNCHANGED <<todos, rows, objects, tags, links, drawn, started, leaked, late, unsure>>

\* The row, or an error that takes the object back.  On Postgres the row is stored by
\* another connection than the guard's, whose own commit may still fail.
CreateRow(r) ==
  LET a == req[r].row IN
  /\ At(r, "row")
  /\ \/ rows' = rows \cup {a} /\ Mark(a.todo, {a.file}) /\ Return(r) /\ UNCHANGED unsure
     \/ /\ Postgres
        /\ rows' = rows \cup {a} /\ Mark(a.todo, {a.file}) /\ unsure' = unsure \cup {a.file}
        /\ Go(r, "undo") /\ Release(r)
     \/ Go(r, "undo") /\ Release(r) /\ UNCHANGED <<rows, late, unsure>>
  /\ UNCHANGED <<todos, objects, tags, links, drawn, started, leaked>>

\* The store may fail, and its error is not looked at.
RemoveObject(f) ==
  \/ objects' = objects \ {f} /\ leaked' = leaked \ {f}
  \/ UNCHANGED objects /\ leaked' = leaked \cup ({f} \cap objects)

UndoPut(r) ==
  /\ At(r, "undo") /\ RemoveObject(req[r].row.file) /\ Return(r)
  /\ UNCHANGED <<todos, rows, tags, links, drawn, started, late, unsure>>

-----------------------------------------------------------------------------
(* Deleting: one attachment, those of a completed action, an action *)

\* Fault: the object goes before the row.
StartDeleteObjectFirst(r, a) ==
  /\ Begin(r) /\ a \in rows
  /\ objects' = objects \ {a.file}
  /\ req' = [req EXCEPT ![r] = [Idle EXCEPT !.op = "delete", !.pc = "deleteRow", !.row = a]]
  /\ UNCHANGED <<todos, rows, tags, links, holder, drawn, leaked, late, unsure>>

\* Delete reads the row, deletes it, then removes the object.
StartDelete(r, a) ==
  /\ Begin(r) /\ a \in rows
  /\ req' = [req EXCEPT ![r] = [Idle EXCEPT !.op = "delete", !.pc = "deleteRow", !.row = a]]
  /\ UNCHANGED <<todos, rows, objects, tags, links, holder, drawn, leaked, late, unsure>>

\* A row another request deleted is ErrNotFound.
DeleteRow(r) ==
  /\ At(r, "deleteRow")
  /\ rows' = rows \ {req[r].row}
  /\ IF req[r].row \in rows
     THEN /\ req' = [req EXCEPT ![r].pc = "remove", ![r].batch = {req[r].row.file}]
          /\ UNCHANGED holder
     ELSE Return(r)
  /\ UNCHANGED <<todos, objects, tags, links, drawn, started, leaked, late, unsure>>

\* Delete of an action, which need not be there: its taggings first.
StartDeleteTodo(r, t) ==
  /\ Begin(r)
  /\ links' = {l \in links : l[1] # t}
  /\ req' = [req EXCEPT ![r] = [Idle EXCEPT !.op = "deleteTodo", !.pc = "list", !.todo = t]]
  /\ UNCHANGED <<todos, rows, objects, tags, holder, drawn, leaked, late, unsure>>

\* Complete with auto_delete_attachments on: the files, not the action.
StartAutoDelete(r, t) ==
  /\ Begin(r) /\ t \in todos
  /\ req' = [req EXCEPT ![r] = [Idle EXCEPT !.op = "complete", !.pc = "list", !.todo = t]]
  /\ UNCHANGED <<todos, rows, objects, tags, links, holder, drawn, leaked, late, unsure>>

\* Fault: the files of an action are not looked for.
ListNothing(r) ==
  /\ At(r, "list")
  /\ Go(r, IF req[r].op = "complete" THEN "end" ELSE "deleteTodo")
  /\ UNCHANGED <<todos, rows, objects, tags, links, holder, drawn, started, leaked, late, unsure>>

\* DeleteForTodo: the rows listed, then deleted by their action, then the objects
\* of those listed.  A row inserted in between loses its row and keeps its object.
ListForTodo(r) ==
  /\ At(r, "list")
  /\ req' = [req EXCEPT ![r].batch = {a.file : a \in Of(req[r].todo)},
               ![r].pc = IF Of(req[r].todo) # {} THEN "deleteRows"
                         ELSE IF req[r].op = "complete" THEN "end" ELSE "deleteTodo"]
  /\ UNCHANGED <<todos, rows, objects, tags, links, holder, drawn, started, leaked, late, unsure>>

DeleteRows(r) ==
  LET mine == Of(req[r].todo) IN
  /\ At(r, "deleteRows")
  /\ rows' = rows \ mine
  /\ leaked' = leaked \cup {f \in {a.file : a \in mine} : f \notin req[r].batch}
  /\ Go(r, "remove")
  /\ UNCHANGED <<todos, objects, tags, links, holder, drawn, started, late, unsure>>

RemoveObjects(r) ==
  /\ At(r, "remove")
  /\ \E f \in req[r].batch :
       /\ RemoveObject(f)
       /\ req' = [req EXCEPT ![r].batch = @ \ {f},
                    ![r].pc = IF req[r].batch # {f} THEN "remove"
                              ELSE IF req[r].op = "deleteTodo" THEN "deleteTodo" ELSE "end"]
  /\ UNCHANGED <<todos, rows, tags, links, holder, drawn, started, late, unsure>>

\* The row of the action, last.
DeleteTodo(r) ==
  /\ At(r, "deleteTodo")
  /\ todos' = todos \ {req[r].todo}
  /\ Return(r)
  /\ UNCHANGED <<rows, objects, tags, links, drawn, started, leaked, late, unsure>>

End(r) ==
  /\ At(r, "end") /\ Return(r)
  /\ UNCHANGED <<todos, rows, objects, tags, links, drawn, started, leaked, late, unsure>>

-----------------------------------------------------------------------------
(* Tagging: Create and Update of an action with a tag list, and the tags an  *)
(* instance inherits, all under the guard, so that nobody else writes tag    *)
(* rows between the select and the insert of EnsureAll.                      *)

\* The action is read (or has just been inserted) and the list is checked.
StartTag(r, t) ==
  /\ Begin(r) /\ holder = None /\ t \in todos
  /\ \E names \in SUBSET TagNames :
       /\ TagsFit(names)
       /\ req' = [req EXCEPT ![r] = [Idle EXCEPT !.op = "tag", !.pc = "write", !.todo = t,
                                       !.names = names]]
  /\ holder' = r
  /\ UNCHANGED <<todos, rows, objects, tags, links, drawn, leaked, late, unsure>>

\* The row is written, which finds out whether it is still there, and SetForTodo
\* deletes the links it had.
WriteTodo(r) ==
  /\ At(r, "write")
  /\ IF req[r].todo \in todos
     THEN /\ links' = {l \in links : l[1] # req[r].todo}
          /\ Go(r, "ensure") /\ UNCHANGED holder
     ELSE Return(r) /\ UNCHANGED links
  /\ UNCHANGED <<todos, rows, objects, tags, drawn, started, leaked, late, unsure>>

EnsureTag(r) ==
  /\ At(r, "ensure")
  /\ \E n \in req[r].names \ tags : tags' = tags \cup {n}
  /\ UNCHANGED <<todos, rows, objects, links, holder, req, drawn, started, leaked, late, unsure>>

\* Fault: the links are built before the insert of a new action gave it its id.
InsertLinksUnnumbered(r) ==
  LET new == {None} \X req[r].names IN
  /\ At(r, "ensure") /\ req[r].names \subseteq tags
  /\ links' = links \cup new
  /\ Return(r)
  /\ UNCHANGED <<todos, rows, objects, tags, drawn, started, leaked, late, unsure>>

InsertLinks(r) ==
  LET new == {req[r].todo} \X req[r].names IN
  /\ At(r, "ensure") /\ req[r].names \subseteq tags
  /\ links' = links \cup new
  /\ Mark(req[r].todo, new)
  /\ Return(r)
  /\ UNCHANGED <<todos, rows, objects, tags, drawn, started, leaked, unsure>>

-----------------------------------------------------------------------------
(* Failure *)

\* The objects a request alone knows of: stored without a row yet, or without one
\* any more and still to be removed.
Held(r) ==
  CASE req[r].pc \in {"size", "row", "undo"} -> {req[r].row.file}
    [] req[r].pc = "remove"                  -> req[r].batch
    [] OTHER                                 -> {}

\* A statement or a call fails, or the client or the process goes away.
Abort(r) ==
  /\ ~At(r, "idle") /\ Return(r)
  /\ leaked' = leaked \cup (Held(r) \cap objects)
  /\ UNCHANGED <<todos, rows, objects, tags, links, drawn, started, late, unsure>>

Next ==
  \E r \in Requests :
    \/ \E t \in TodoIds : \/ StartUpload(r, t) \/ StartDeleteTodo(r, t)
                          \/ StartAutoDelete(r, t) \/ StartTag(r, t)
    \/ \E a \in rows : StartDelete(r, a)
    \/ PutObject(r) \/ CheckSize(r) \/ CreateRow(r) \/ UndoPut(r)
    \/ DeleteRow(r) \/ ListForTodo(r) \/ DeleteRows(r) \/ RemoveObjects(r)
    \/ DeleteTodo(r) \/ End(r) \/ WriteTodo(r) \/ EnsureTag(r) \/ InsertLinks(r)
    \/ Abort(r)

Spec == Init /\ [][Next]_vars

-----------------------------------------------------------------------------
(* Properties *)

TypeOK ==
  /\ todos \subseteq TodoIds /\ rows \subseteq Row
  /\ objects \subseteq Files /\ drawn \subseteq Files
  /\ leaked \subseteq Files /\ unsure \subseteq Files
  /\ tags \subseteq TagNames /\ links \subseteq TodoIds \X TagNames
  /\ late \subseteq Files \cup (TodoIds \X TagNames)
  /\ holder \in Requests \cup {None} /\ started \in Nat
  /\ req \in [Requests ->
       [op : {"none", "upload", "delete", "deleteTodo", "complete", "tag"},
        pc : {"idle", "put", "size", "row", "undo", "deleteRow", "list", "deleteRows",
              "remove", "deleteTodo", "end", "write", "ensure"},
        todo : TodoIds \cup {None}, row : Row \cup {None}, names : SUBSET TagNames,
        batch : SUBSET Files]]

\* Uploads whose bytes were all on the way at once never bring the account above its
\* storage, nor tag lists sent at once above its tags.
WithinAllowance == Used <= StorageLimit /\ Cardinality(tags) <= TagLimit

\* An attachment that is listed can be opened: however uploads, deletes, completions
\* and failures overlap, no row outlives its object, but for an upload whose row was
\* stored although its guard reported a failure, so that its object was taken back.
RowsHaveObjects == \A a \in rows : a.file \in objects \cup unsure

\* An object without a row is in the hands of a request that will record it or
\* remove it, or a failure or an overlapping delete left it behind.
ObjectsAccounted ==
  \A f \in objects :
    \/ \E a \in rows : a.file = f
    \/ \E r \in Requests : f \in Held(r)
    \/ f \in leaked

\* What belongs to an action goes with it: no row and no link is left of an action
\* that is gone, but those added while it was being deleted.
NothingOutlivesItsAction ==
  /\ \A a \in rows : a.todo \in todos \/ a.file \in late
  /\ \A l \in links : l[1] \in todos \/ l \in late
=============================================================================

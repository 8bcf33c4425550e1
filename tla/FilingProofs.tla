----------------------------- MODULE FilingProofs -----------------------------
(***************************************************************************)
(* Proofs about Filing, for any number of requests, places and items and   *)
(* any allowances.                                                         *)
(***************************************************************************)
EXTENDS Filing, FiniteSetTheorems, TLAPS

\* A note has no context.
Row == {row \in Item : row.kind = "note" => row.ctx = None}

Owners == {"create", "update", "spawn", "addPlace"}

\* What a request has in hand at each statement.
HandsFull(q) ==
  /\ q.pc = "context" => q.op \in {"create", "update"}
  /\ q.pc = "newContext" => q.op \in {"create", "update", "addPlace"}
  /\ q.pc = "project" => q.op \in {"create", "update", "editNote"}
  /\ q.pc = "newProject" => q.op \in {"create", "update", "editNote", "addPlace"}
  /\ q.pc = "check" => q.op \in {"create", "update"}
  /\ q.pc = "write" => q.op \in {"create", "update", "editNote", "touch"}
  /\ q.pc \in {"spawn", "save"} => /\ q.op \in {"create", "spawn"}
                                   /\ q.row.kind = "pattern" /\ q.id \in ItemIds
  /\ q.op = "spawn" => q.pc \in {"spawn", "save"}
  /\ q.pc = "rename" => q.op = "editPlace"
  /\ q.pc \in {"count", "list", "purge"} => q.op = "dropContext"
  /\ q.pc \in {"todos", "patterns", "notes"} => q.op = "dropProject"
  /\ q.pc = "drop" => q.op \in {"dropContext", "dropProject"}
  /\ q.op = "dropContext" => q.id \in ContextIds
  /\ q.op = "dropProject" => q.id \in ProjectIds
  /\ q.op \in {"create", "update", "editNote", "touch", "spawn"} => q.row \in Row
  /\ q.op = "update" => q.row.kind # "note" /\ q.id \in ItemIds
  /\ q.op = "editNote" => q.row.kind = "note" /\ q.id \in ItemIds
  /\ q.op = "touch" => q.row.kind = "todo" /\ q.id \in ItemIds
  /\ q.op \in {"create", "update"} /\ q.pc \in {"context", "newContext"} => q.row.kind # "note"
  /\ q.pc \in {"newContext", "newProject"} => q.name \in Names

Typed == TypeOK /\ items \in [ItemIds -> Row \cup {None, Gone}]
Ready == \A r \in Requests : HandsFull(req[r])

\* Only the holder of the guard is in a guarded handler.
Held == \A r \in Requests : req[r].op \in Owners => holder = r

Base == Typed /\ Ready /\ Held

-----------------------------------------------------------------------------
(* Types *)

LEMMA IdleType == Idle \in Request /\ HandsFull(Idle)
BY DEF Idle, Request, HandsFull

LEMMA Requesting ==
  ASSUME Base, NEW r \in Requests
  PROVE  req[r] \in Request /\ HandsFull(req[r]) /\ req \in [Requests -> Request]
BY DEF Base, Typed, TypeOK, Ready

\* A request goes on with q in hand: it has the guard if it needs it, and takes it
\* from nobody.
LEMMA Going ==
  ASSUME Base, NEW r \in Requests, NEW q \in Request, HandsFull(q),
         req' = [req EXCEPT ![r] = q],
         q.op \in Owners => holder' = r,
         \/ holder' = holder
         \/ holder = None /\ holder' = r
         \/ holder = r /\ holder' = None
  PROVE  /\ req' \in [Requests -> Request] /\ holder' \in Requests \cup {None}
         /\ Ready' /\ Held'
<1>1. req \in [Requests -> Request] /\ holder \in Requests \cup {None} /\ None \notin Requests
  BY Apart DEF Base, Typed, TypeOK
<1>2. req' \in [Requests -> Request] /\ holder' \in Requests \cup {None}
  BY <1>1
<1>3. Ready'
  BY <1>1 DEF Ready, Base
<1>4. Held'
  BY <1>1 DEF Held, Base
<1> QED BY <1>2, <1>3, <1>4

LEMMA Returning ==
  ASSUME Base, NEW r \in Requests, Return(r)
  PROVE  /\ req' \in [Requests -> Request] /\ holder' \in Requests \cup {None}
         /\ Ready' /\ Held' /\ req' = [req EXCEPT ![r] = Idle]
<1>1. Idle.op \notin Owners
  BY DEF Idle, Owners
<1> QED BY <1>1, Going, IdleType DEF Return

\* A request takes the next statement of its handler.
LEMMA GoingOn ==
  ASSUME Base, NEW r \in Requests, NEW q \in Request, HandsFull(q),
         req' = [req EXCEPT ![r] = q], q.op = req[r].op, holder' = holder
  PROVE  /\ req' \in [Requests -> Request] /\ holder' \in Requests \cup {None}
         /\ Ready' /\ Held'
BY Going DEF Base, Held

LEMMA NextPc ==
  ASSUME Base, NEW r \in Requests, NEW pc,
         pc \in {"write", "save", "drop", "list", "refused", "patterns", "notes"},
         HandsFull([req[r] EXCEPT !.pc = pc]), Go(r, pc), holder' = holder
  PROVE  /\ req' \in [Requests -> Request] /\ holder' \in Requests \cup {None}
         /\ Ready' /\ Held'
         /\ req' = [req EXCEPT ![r] = [req[r] EXCEPT !.pc = pc]]
<1> DEFINE q == [req[r] EXCEPT !.pc = pc]
<1>1. q \in Request /\ q.op = req[r].op
  BY Requesting DEF Request
<1>2. req' = [req EXCEPT ![r] = q]
  BY Requesting DEF Go
<1> HIDE DEF q
<1>3. HandsFull(q)
  BY DEF q
<1> QED BY <1>1, <1>2, <1>3, GoingOn DEF q

LEMMA Starting ==
  ASSUME Base, NEW r \in Requests, NEW q \in Request, HandsFull(q),
         Guarded(r) \/ (Unguarded(r) /\ q.op \notin Owners),
         req' = [req EXCEPT ![r] = q]
  PROVE  /\ req' \in [Requests -> Request] /\ holder' \in Requests \cup {None}
         /\ Ready' /\ Held' /\ started' \in Nat
<1>1. started' \in Nat
  BY DEF Guarded, Unguarded, Begin, Base, Typed, TypeOK
<1> QED BY <1>1, Going DEF Guarded, Unguarded

LEMMA PutTyped ==
  ASSUME Base, NEW i \in ItemIds, NEW row \in Row, Put(i, row)
  PROVE  /\ items' \in [ItemIds -> Row \cup {None, Gone}] /\ raced' \subseteq ItemIds \X Places
         /\ items' \in [ItemIds -> Item \cup {None, Gone}]
<1>1. items' \in [ItemIds -> Row \cup {None, Gone}]
  BY DEF Put, Base, Typed
<1>2. Refs(row) \subseteq Places
  BY DEF Refs, Row, Item, Places
<1>3. raced' \subseteq ItemIds \X Places
  BY <1>2 DEF Put, Races, Base, Typed, TypeOK
<1> QED BY <1>1, <1>3 DEF Row

LEMMA RemovedTyped ==
  ASSUME Base, NEW set, Removed(set)
  PROVE  /\ items' \in [ItemIds -> Row \cup {None, Gone}] /\ raced' \subseteq ItemIds \X Places
         /\ items' \in [ItemIds -> Item \cup {None, Gone}]
BY DEF Removed, Base, Typed, TypeOK, Row

LEMMA LiveRow ==
  ASSUME Base, NEW i \in LiveItems
  PROVE  i \in ItemIds /\ items[i] \in Row
BY DEF Base, Typed, LiveItems

LEMMA DetachedTyped ==
  ASSUME Base, NEW kind, NEW p, Detached(kind, p)
  PROVE  /\ items' \in [ItemIds -> Row \cup {None, Gone}] /\ raced' \subseteq ItemIds \X Places
         /\ items' \in [ItemIds -> Item \cup {None, Gone}]
<1>1. \A i \in InProject(kind, p) : [items[i] EXCEPT !.proj = None] \in Row
  BY LiveRow DEF InProject, OfKind, Row, Item
<1>2. items' \in [ItemIds -> Row \cup {None, Gone}]
  BY <1>1 DEF Detached, Base, Typed
<1>3. raced' \subseteq ItemIds \X Places
  BY DEF Detached, Base, Typed, TypeOK
<1> QED BY <1>2, <1>3 DEF Row

-----------------------------------------------------------------------------
(* The steps of a request, by what it has in hand after them *)

Moves(r, q) == q \in Request /\ HandsFull(q) /\ req' = [req EXCEPT ![r] = q]

\* The tables stay as they are.
Still == UNCHANGED <<place, items, ghosts>>

LEMMA Settling ==
  ASSUME Base, Still, started' \in Nat, req' \in [Requests -> Request],
         holder' \in Requests \cup {None}, Ready', Held'
  PROVE  Base'
BY DEF Still, ghosts, Base, Typed, TypeOK

LEMMA CreateItemStep ==
  ASSUME Base, NEW r \in Requests, NEW kind \in {"todo", "pattern", "note"}, CreateItem(r, kind)
  PROVE  /\ Base' /\ Still
         /\ \E q \in Request : Moves(r, q) /\ q.op = "create" /\ q.pc \in {"context", "project"}
<1> DEFINE row == [kind |-> kind, ctx |-> None, proj |-> None]
           q   == [Idle EXCEPT !.op = "create",
                     !.pc = IF kind = "note" THEN "project" ELSE "context", !.row = row]
<1>1. row \in Row /\ row.kind = kind
  BY DEF Row, Item
<1> HIDE DEF row
<1>2. /\ q \in Request /\ q.op = "create" /\ q.row = row
      /\ q.pc = IF kind = "note" THEN "project" ELSE "context"
  BY <1>1 DEF Idle, Request, Row
<1>3. req' = [req EXCEPT ![r] = q] /\ Guarded(r) /\ Still
  BY DEF CreateItem, Still, row
<1> HIDE DEF q
<1>4. HandsFull(q)
  BY <1>1, <1>2 DEF HandsFull
<1>5. Base'
  BY <1>2, <1>3, <1>4, Starting, Settling
<1> QED BY <1>2, <1>3, <1>4, <1>5 DEF Moves

\* A row was read, to be written back.
LEMMA ReadStep ==
  ASSUME Base, NEW r \in Requests, NEW i \in ItemIds,
         UpdateItem(r, i) \/ EditNote(r, i) \/ TouchTodo(r, i) \/ SpawnFor(r, i)
  PROVE  /\ Base' /\ Still
         /\ \E q \in Request :
              /\ Moves(r, q) /\ q.id = i /\ q.row = items[i]
              /\ q.op \in {"update", "editNote", "touch", "spawn"}
              /\ q.pc \in {"context", "project", "write", "spawn"}
<1>1. Still
  BY DEF UpdateItem, EditNote, TouchTodo, SpawnFor, Still
<1>2. items[i] \in Row
  BY LiveRow DEF UpdateItem, EditNote, TouchTodo, SpawnFor, OfKind
<1>3. ASSUME NEW op \in {"update", "editNote", "touch", "spawn"},
             NEW pc \in {"context", "project", "write", "spawn"},
             HandsFull([Idle EXCEPT !.op = op, !.pc = pc, !.id = i, !.row = items[i]]),
             Guarded(r) \/ (Unguarded(r) /\ op \notin Owners),
             req' = [req EXCEPT ![r] = [Idle EXCEPT !.op = op, !.pc = pc, !.id = i,
                                                    !.row = items[i]]]
      PROVE  /\ Base'
             /\ \E q \in Request :
                  /\ Moves(r, q) /\ q.id = i /\ q.row = items[i]
                  /\ q.op \in {"update", "editNote", "touch", "spawn"}
                  /\ q.pc \in {"context", "project", "write", "spawn"}
  <2> DEFINE q == [Idle EXCEPT !.op = op, !.pc = pc, !.id = i, !.row = items[i]]
  <2>1. q \in Request /\ q.op = op /\ q.pc = pc /\ q.id = i /\ q.row = items[i]
    BY <1>2 DEF Idle, Request, Row
  <2>2. HandsFull(q) /\ req' = [req EXCEPT ![r] = q]
    BY <1>3
  <2> HIDE DEF q
  <2>3. Base'
    BY <1>1, <1>3, <2>1, <2>2, Starting, Settling
  <2> QED BY <2>1, <2>2, <2>3 DEF Moves
<1>4. CASE UpdateItem(r, i)
  <2>1. HandsFull([Idle EXCEPT !.op = "update", !.pc = "context", !.id = i, !.row = items[i]])
    BY <1>2, <1>4 DEF UpdateItem, OfKind, HandsFull, Idle
  <2> QED BY <1>1, <1>3, <1>4, <2>1 DEF UpdateItem
<1>5. CASE EditNote(r, i)
  <2>1. HandsFull([Idle EXCEPT !.op = "editNote", !.pc = "project", !.id = i, !.row = items[i]])
    BY <1>2, <1>5 DEF EditNote, OfKind, HandsFull, Idle
  <2> QED BY <1>1, <1>3, <1>5, <2>1 DEF EditNote, Owners
<1>6. CASE TouchTodo(r, i)
  <2>1. HandsFull([Idle EXCEPT !.op = "touch", !.pc = "write", !.id = i, !.row = items[i]])
    BY <1>2, <1>6 DEF TouchTodo, OfKind, HandsFull, Idle
  <2> QED BY <1>1, <1>3, <1>6, <2>1 DEF TouchTodo, Owners
<1>7. CASE SpawnFor(r, i)
  <2>1. HandsFull([Idle EXCEPT !.op = "spawn", !.pc = "spawn", !.id = i, !.row = items[i]])
    BY <1>2, <1>7 DEF SpawnFor, OfKind, HandsFull, Idle
  <2> QED BY <1>1, <1>3, <1>7, <2>1 DEF SpawnFor
<1> QED BY <1>1, <1>4, <1>5, <1>6, <1>7

LEMMA AddPlaceStep ==
  ASSUME Base, NEW r \in Requests, AddPlace(r)
  PROVE  /\ Base' /\ Still
         /\ \E q \in Request :
              /\ Moves(r, q) /\ q.op = "addPlace"
              /\ \/ q.pc = "newContext" /\ HasContextRoom
                 \/ q.pc = "newProject" /\ HasProjectRoom
<1>1. PICK name \in Names, ids \in {ContextIds, ProjectIds} :
        /\ IF ids = ContextIds THEN HasContextRoom ELSE HasProjectRoom
        /\ req' = [req EXCEPT ![r] = [Idle EXCEPT !.op = "addPlace", !.name = name,
                     !.pc = IF ids = ContextIds THEN "newContext" ELSE "newProject"]]
  BY DEF AddPlace
<1> DEFINE q == [Idle EXCEPT !.op = "addPlace", !.name = name,
                   !.pc = IF ids = ContextIds THEN "newContext" ELSE "newProject"]
<1>2. /\ q \in Request /\ q.op = "addPlace" /\ q.name = name
      /\ q.pc = IF ids = ContextIds THEN "newContext" ELSE "newProject"
  BY DEF Idle, Request
<1>3. req' = [req EXCEPT ![r] = q] /\ Guarded(r) /\ Still
  BY <1>1 DEF AddPlace, Still
<1> HIDE DEF q
<1>4. HandsFull(q)
  BY <1>2 DEF HandsFull
<1>5. Base'
  BY <1>2, <1>3, <1>4, Starting, Settling
<1> QED BY <1>1, <1>2, <1>3, <1>4, <1>5 DEF Moves

LEMMA EditPlaceStep ==
  ASSUME Base, NEW r \in Requests, NEW x \in Places, EditPlace(r, x)
  PROVE  /\ Base' /\ Still
         /\ \E q \in Request : Moves(r, q) /\ q.op = "editPlace" /\ q.pc = "rename"
<1> DEFINE q == [Idle EXCEPT !.op = "editPlace", !.pc = "rename", !.id = x, !.name = place[x]]
<1>1. place[x] \in Names
  BY DEF EditPlace, LivePlaces, Base, Typed, TypeOK
<1>2. q \in Request /\ q.op = "editPlace" /\ q.pc = "rename"
  BY <1>1 DEF Idle, Request
<1>3. req' = [req EXCEPT ![r] = q] /\ Unguarded(r) /\ Still
  BY DEF EditPlace, Still
<1> HIDE DEF q
<1>4. HandsFull(q)
  BY <1>2 DEF HandsFull
<1>5. Base'
  BY <1>2, <1>3, <1>4, Starting, Settling DEF Owners
<1> QED BY <1>2, <1>3, <1>4, <1>5 DEF Moves

LEMMA DeleteContextStep ==
  ASSUME Base, NEW r \in Requests, NEW c \in ContextIds, DeleteContext(r, c)
  PROVE  /\ Base' /\ Still
         /\ \E q \in Request : /\ Moves(r, q) /\ q.op = "dropContext" /\ q.pc = "count"
                               /\ q.id = c /\ q.batch = InContext("todo", c)
<1> DEFINE q == [Idle EXCEPT !.op = "dropContext", !.pc = "count", !.id = c,
                             !.batch = InContext("todo", c)]
<1>1. InContext("todo", c) \subseteq ItemIds
  BY DEF InContext, OfKind, LiveItems
<1>2. /\ q \in Request /\ q.op = "dropContext" /\ q.pc = "count"
      /\ q.id = c /\ q.batch = InContext("todo", c)
  BY <1>1 DEF Idle, Request, Places
<1>3. req' = [req EXCEPT ![r] = q] /\ Unguarded(r) /\ Still
  BY DEF DeleteContext, Still
<1> HIDE DEF q
<1>4. HandsFull(q)
  BY <1>2 DEF HandsFull
<1>5. Base'
  BY <1>2, <1>3, <1>4, Starting, Settling DEF Owners
<1> QED BY <1>2, <1>3, <1>4, <1>5 DEF Moves

LEMMA DeleteProjectStep ==
  ASSUME Base, NEW r \in Requests, NEW p \in ProjectIds, DeleteProject(r, p)
  PROVE  /\ Base' /\ Still
         /\ \E q \in Request : /\ Moves(r, q) /\ q.op = "dropProject"
                               /\ q.pc \in {"refused", "todos"}
                               /\ q.id = p /\ q.batch = InProject("note", p)
<1>1. PICK answer \in {None, TRUE, FALSE} :
        req' = [req EXCEPT ![r] =
                 [Idle EXCEPT !.op = "dropProject", !.id = p, !.deleteNotes = answer,
                    !.batch = InProject("note", p),
                    !.pc = IF answer = None /\ InProject("note", p) # {}
                           THEN "refused" ELSE "todos"]]
  BY DEF DeleteProject
<1>2. PICK pc \in {"refused", "todos"} :
        pc = IF answer = None /\ InProject("note", p) # {} THEN "refused" ELSE "todos"
  OBVIOUS
<1> DEFINE q == [Idle EXCEPT !.op = "dropProject", !.id = p, !.deleteNotes = answer,
                             !.batch = InProject("note", p), !.pc = pc]
<1>3. InProject("note", p) \subseteq ItemIds
  BY DEF InProject, OfKind, LiveItems
<1>4. /\ q \in Request /\ q.op = "dropProject" /\ q.pc = pc
      /\ q.id = p /\ q.batch = InProject("note", p)
  BY <1>3 DEF Idle, Request, Places
<1>5. req' = [req EXCEPT ![r] = q] /\ Unguarded(r) /\ Still
  BY <1>1, <1>2 DEF DeleteProject, Still
<1> HIDE DEF q
<1>6. HandsFull(q)
  BY <1>4 DEF HandsFull
<1>7. Base'
  BY <1>4, <1>5, <1>6, Starting, Settling DEF Owners
<1> QED BY <1>4, <1>5, <1>6, <1>7 DEF Moves

\* A request that ends leaves the tables as they are, or wrote before.
LEMMA ReturnStep ==
  ASSUME Base, NEW r \in Requests, Return(r), Still, started' = started
  PROVE  Base' /\ Moves(r, Idle)
BY Returning, IdleType, Settling DEF Moves, Base, Typed, TypeOK

LEMMA GoStep ==
  ASSUME Base, NEW r \in Requests, NEW q, Moves(r, q), q.op = req[r].op, holder' = holder, Still,
         started' = started
  PROVE  Base'
BY GoingOn, Settling DEF Moves, Base, Typed, TypeOK

\* What the resolution of a name or an id leaves in the hands of a request.
TakesContext(r, c, check) ==
  /\ req' = [req EXCEPT ![r].row.ctx = c, ![r].pc = "project", ![r].check = check]
  /\ holder' = holder
TakesProject(r, p, check) ==
  /\ req' = [req EXCEPT ![r].row.proj = p, ![r].pc = AfterProject(r), ![r].check = @ \cup check]
  /\ holder' = holder
TakesName(r, name, pc) ==
  /\ req' = [req EXCEPT ![r].name = name, ![r].pc = pc]
  /\ holder' = holder

\* The request goes on to pc with the same row, but for what was resolved.
GoesTo(r, pc) ==
  \E q \in Request : /\ Moves(r, q) /\ q.op = req[r].op /\ q.id = req[r].id
                     /\ q.row.kind = req[r].row.kind /\ q.pc = pc
GoesToNew(r, pc, name) ==
  \E q \in Request : /\ Moves(r, q) /\ q.op = req[r].op /\ q.id = req[r].id
                     /\ q.row.kind = req[r].row.kind /\ q.pc = pc /\ q.name = name

LEMMA ResolveContextStep ==
  ASSUME Base, NEW r \in Requests, ResolveContext(r)
  PROVE  /\ Base' /\ Still
         /\ \E q \in Request :
              /\ Moves(r, q)
              /\ \/ q = Idle
                 \/ /\ q.op = req[r].op /\ q.id = req[r].id /\ q.row.kind = req[r].row.kind
                    /\ \/ q.pc = "project"
                       \/ /\ q.pc = "newContext" /\ HasContextRoom
                          /\ Called(q.name, ContextIds) = {}
<1>1. Still /\ started' = started /\ req[r].pc = "context"
  BY DEF ResolveContext, Still, At
<1>2. req[r] \in Request /\ HandsFull(req[r]) /\ req \in [Requests -> Request]
  BY Requesting
<1>3. req[r].row \in Row /\ req[r].row.kind # "note" /\ req[r].op \in {"create", "update"}
  BY <1>1, <1>2 DEF HandsFull
<1>4. ASSUME NEW c \in ContextIds \cup {None}, NEW check \in SUBSET Places, TakesContext(r, c, check)
      PROVE  Base' /\ GoesTo(r, "project")
  <2> DEFINE row == [req[r].row EXCEPT !.ctx = c]
             q   == [req[r] EXCEPT !.row = row, !.pc = "project", !.check = check]
  <2>1. row \in Row /\ row.kind = req[r].row.kind
    BY <1>3 DEF Row, Item
  <2>2. req' = [req EXCEPT ![r] = q]
    BY <1>2, <1>4 DEF Request, TakesContext
  <2> HIDE DEF row
  <2>3. /\ q \in Request /\ q.op = req[r].op /\ q.id = req[r].id /\ q.row = row
        /\ q.pc = "project"
    BY <1>2, <2>1 DEF Request, Row
  <2> HIDE DEF q
  <2>4. HandsFull(q)
    BY <1>2, <1>3, <2>1, <2>3 DEF HandsFull
  <2>5. Moves(r, q)
    BY <2>2, <2>3, <2>4 DEF Moves
  <2> QED BY <1>1, <1>4, <2>1, <2>3, <2>5, GoStep DEF TakesContext, GoesTo
<1>5. ASSUME NEW name \in Names, TakesName(r, name, "newContext")
      PROVE  Base' /\ GoesToNew(r, "newContext", name)
  <2> DEFINE q == [req[r] EXCEPT !.name = name, !.pc = "newContext"]
  <2>1. /\ q \in Request /\ q.op = req[r].op /\ q.id = req[r].id /\ q.row = req[r].row
        /\ q.pc = "newContext" /\ q.name = name
    BY <1>2 DEF Request
  <2>2. req' = [req EXCEPT ![r] = q]
    BY <1>2, <1>5 DEF Request, TakesName
  <2> HIDE DEF q
  <2>3. HandsFull(q)
    BY <1>2, <1>3, <2>1 DEF HandsFull
  <2>4. Moves(r, q)
    BY <2>1, <2>2, <2>3 DEF Moves
  <2> QED BY <1>1, <1>5, <2>1, <2>4, GoStep DEF TakesName, GoesToNew
<1>6. CASE Return(r)
  BY <1>1, <1>6, ReturnStep, IdleType
<1>7. \/ Return(r)
      \/ TakesContext(r, req[r].row.ctx, {})
      \/ \E c \in ContextIds : TakesContext(r, c, {c})
      \/ \E name \in Names : /\ Called(name, ContextIds) = {} /\ HasContextRoom
                             /\ TakesName(r, name, "newContext")
  BY DEF ResolveContext, Called, TakesContext, TakesName
<1>8. req[r].row.ctx \in ContextIds \cup {None} /\ {} \in SUBSET Places
      /\ \A c \in ContextIds : {c} \in SUBSET Places
  BY <1>3 DEF Row, Item, Places
<1>9. CASE TakesContext(r, req[r].row.ctx, {}) \/ \E c \in ContextIds : TakesContext(r, c, {c})
  <2>1. Base' /\ GoesTo(r, "project")
    BY <1>4, <1>8, <1>9
  <2> QED BY <1>1, <2>1 DEF GoesTo
<1>10. CASE \E name \in Names : /\ Called(name, ContextIds) = {} /\ HasContextRoom
                                /\ TakesName(r, name, "newContext")
  <2> PICK name \in Names : /\ Called(name, ContextIds) = {} /\ HasContextRoom
                            /\ TakesName(r, name, "newContext")
    BY <1>10
  <2>1. Base' /\ GoesToNew(r, "newContext", name)
    BY <1>5
  <2> QED BY <1>1, <2>1 DEF GoesToNew
<1> QED BY <1>6, <1>7, <1>9, <1>10

LEMMA ResolveProjectStep ==
  ASSUME Base, NEW r \in Requests, ResolveProject(r)
  PROVE  /\ Base' /\ Still
         /\ \E q \in Request :
              /\ Moves(r, q)
              /\ \/ q = Idle
                 \/ /\ q.op = req[r].op /\ q.id = req[r].id /\ q.row.kind = req[r].row.kind
                    /\ \/ q.pc = AfterProject(r)
                       \/ /\ q.pc = "newProject" /\ HasProjectRoom
                          /\ Called(q.name, ProjectIds) = {}
<1>1. Still /\ started' = started /\ req[r].pc = "project"
  BY DEF ResolveProject, Still, At
<1>2. req[r] \in Request /\ HandsFull(req[r]) /\ req \in [Requests -> Request]
  BY Requesting
<1>3. req[r].row \in Row /\ req[r].op \in {"create", "update", "editNote"}
  BY <1>1, <1>2 DEF HandsFull
<1>4. AfterProject(r) \in {"write", "check"} /\ (AfterProject(r) = "write" <=> req[r].op = "editNote")
  BY DEF AfterProject
<1>5. ASSUME NEW p \in ProjectIds \cup {None}, NEW check \in SUBSET Places, TakesProject(r, p, check)
      PROVE  Base' /\ GoesTo(r, AfterProject(r))
  <2> DEFINE row == [req[r].row EXCEPT !.proj = p]
             q   == [req[r] EXCEPT !.row = row, !.pc = AfterProject(r), !.check = @ \cup check]
  <2>1. row \in Row /\ row.kind = req[r].row.kind
    BY <1>3 DEF Row, Item
  <2>2. req' = [req EXCEPT ![r] = q]
    BY <1>2, <1>5 DEF Request, TakesProject
  <2> HIDE DEF row
  <2>3. /\ q \in Request /\ q.op = req[r].op /\ q.id = req[r].id /\ q.row = row
        /\ q.pc = AfterProject(r)
    BY <1>2, <1>4, <2>1 DEF Request, Row
  <2> HIDE DEF q
  <2>4. HandsFull(q)
    BY <1>2, <1>3, <1>4, <2>1, <2>3 DEF HandsFull
  <2>5. Moves(r, q)
    BY <2>2, <2>3, <2>4 DEF Moves
  <2> QED BY <1>1, <1>5, <2>1, <2>3, <2>5, GoStep DEF TakesProject, GoesTo
<1>6. ASSUME NEW name \in Names, TakesName(r, name, "newProject")
      PROVE  Base' /\ GoesToNew(r, "newProject", name)
  <2> DEFINE q == [req[r] EXCEPT !.name = name, !.pc = "newProject"]
  <2>1. /\ q \in Request /\ q.op = req[r].op /\ q.id = req[r].id /\ q.row = req[r].row
        /\ q.pc = "newProject" /\ q.name = name
    BY <1>2 DEF Request
  <2>2. req' = [req EXCEPT ![r] = q]
    BY <1>2, <1>6 DEF Request, TakesName
  <2> HIDE DEF q
  <2>3. HandsFull(q)
    BY <1>2, <1>3, <2>1 DEF HandsFull
  <2>4. Moves(r, q)
    BY <2>1, <2>2, <2>3 DEF Moves
  <2> QED BY <1>1, <1>6, <2>1, <2>4, GoStep DEF TakesName, GoesToNew
<1>7. CASE Return(r)
  BY <1>1, <1>7, ReturnStep, IdleType
<1>8. \/ Return(r)
      \/ \E p \in {req[r].row.proj, None} : TakesProject(r, p, {})
      \/ \E p \in ProjectIds : TakesProject(r, p, {p}) \/ TakesProject(r, p, {})
      \/ \E name \in Names : /\ Called(name, ProjectIds) = {} /\ HasProjectRoom
                             /\ TakesName(r, name, "newProject")
  BY DEF ResolveProject, Called, TakesProject, TakesName
<1>9. req[r].row.proj \in ProjectIds \cup {None} /\ {} \in SUBSET Places
      /\ \A p \in ProjectIds : {p} \in SUBSET Places
  BY <1>3 DEF Row, Item, Places
<1>10. CASE \/ \E p \in {req[r].row.proj, None} : TakesProject(r, p, {})
            \/ \E p \in ProjectIds : TakesProject(r, p, {p}) \/ TakesProject(r, p, {})
  <2>1. Base' /\ GoesTo(r, AfterProject(r))
    BY <1>5, <1>9, <1>10
  <2> QED BY <1>1, <2>1 DEF GoesTo
<1>11. CASE \E name \in Names : /\ Called(name, ProjectIds) = {} /\ HasProjectRoom
                                /\ TakesName(r, name, "newProject")
  <2> PICK name \in Names : /\ Called(name, ProjectIds) = {} /\ HasProjectRoom
                            /\ TakesName(r, name, "newProject")
    BY <1>11
  <2>1. Base' /\ GoesToNew(r, "newProject", name)
    BY <1>6
  <2> QED BY <1>1, <2>1 DEF GoesToNew
<1> QED BY <1>7, <1>8, <1>10, <1>11

\* The row of a place, and of an item, was written.
LEMMA Filed ==
  ASSUME Base, UNCHANGED <<items, raced>>, started' \in Nat,
         place' \in [Places -> Names \cup {None, Gone}],
         named' \subseteq Places, byEdit' \subseteq ProjectIds, req' \in [Requests -> Request],
         holder' \in Requests \cup {None}, Ready', Held'
  PROVE  Base'
BY DEF Base, Typed, TypeOK

LEMMA Wrote ==
  ASSUME Base, UNCHANGED <<place, named, byEdit>>, started' \in Nat,
         items' \in [ItemIds -> Item \cup {None, Gone}],
         items' \in [ItemIds -> Row \cup {None, Gone}], raced' \subseteq ItemIds \X Places,
         req' \in [Requests -> Request], holder' \in Requests \cup {None}, Ready', Held'
  PROVE  Base'
BY DEF Base, Typed, TypeOK

\* A place got the name that a request had found nowhere, or was asked to give.
LEMMA NewContextStep ==
  ASSUME Base, NEW r \in Requests, NewContext(r)
  PROVE  /\ Base' /\ UNCHANGED <<items, byEdit, raced>>
         /\ req[r].pc = "newContext"
         /\ \E c \in ContextIds : /\ place[c] = None /\ place' = [place EXCEPT ![c] = req[r].name]
                                  /\ \/ req[r].op = "addPlace" /\ named' = named
                                     \/ /\ req[r].op \in {"create", "update"}
                                        /\ named' = named \cup {c}
         /\ Moves(r, Idle) \/ GoesTo(r, "project")
<1>1. PICK c \in ContextIds :
       /\ place[c] = None
       /\ place' = [place EXCEPT ![c] = req[r].name]
       /\ IF req[r].op = "addPlace" THEN Return(r) /\ UNCHANGED named
          ELSE /\ req' = [req EXCEPT ![r].row.ctx = c, ![r].check = {c},
                                     ![r].pc = "project", ![r].name = None]
               /\ named' = named \cup {c}
               /\ UNCHANGED holder
  BY DEF NewContext
<1>2. UNCHANGED <<items, started, byEdit, raced>> /\ req[r].pc = "newContext"
  BY DEF NewContext, At
<1>3. req[r] \in Request /\ HandsFull(req[r]) /\ req \in [Requests -> Request]
  BY Requesting
<1>4. req[r].op \in {"create", "update", "addPlace"} /\ req[r].name \in Names
  BY <1>2, <1>3 DEF HandsFull
<1>5. /\ place' \in [Places -> Names \cup {None, Gone}] /\ started' \in Nat /\ c \in Places
      /\ byEdit' \subseteq ProjectIds /\ named \subseteq Places
  BY <1>1, <1>2, <1>4 DEF Base, Typed, TypeOK, Places
<1>6. CASE req[r].op = "addPlace"
  <2>1. /\ req' \in [Requests -> Request] /\ holder' \in Requests \cup {None}
        /\ Ready' /\ Held' /\ Moves(r, Idle)
    BY <1>1, <1>6, Returning, IdleType DEF Moves
  <2>2. Base'
    BY <1>1, <1>2, <1>5, <1>6, <2>1, Filed
  <2> QED BY <1>1, <1>2, <1>6, <2>1, <2>2
<1>7. CASE req[r].op \in {"create", "update"}
  <2> DEFINE row == [req[r].row EXCEPT !.ctx = c]
             q   == [req[r] EXCEPT !.row = row, !.check = {c}, !.pc = "project", !.name = None]
  <2>1. req[r].row \in Row /\ req[r].row.kind # "note"
    BY <1>2, <1>3, <1>7 DEF HandsFull
  <2>2. row \in Row /\ row.kind = req[r].row.kind
    BY <2>1 DEF Row, Item
  <2>3. req' = [req EXCEPT ![r] = q] /\ named' = named \cup {c} /\ holder' = holder
    BY <1>1, <1>3, <1>7 DEF Request
  <2> HIDE DEF row
  <2>4. q \in Request /\ q.op = req[r].op /\ q.id = req[r].id /\ q.row = row /\ q.pc = "project"
    BY <1>3, <1>5, <2>2 DEF Request, Row
  <2> HIDE DEF q
  <2>5. HandsFull(q)
    BY <1>3, <1>7, <2>1, <2>2, <2>4 DEF HandsFull
  <2>6. Base'
    BY <1>2, <1>5, <2>3, <2>4, <2>5, GoingOn, Filed
  <2>7. GoesTo(r, "project")
    BY <2>2, <2>3, <2>4, <2>5 DEF GoesTo, Moves
  <2> QED BY <1>1, <1>2, <1>7, <2>3, <2>6, <2>7
<1> QED BY <1>4, <1>6, <1>7

LEMMA NewProjectStep ==
  ASSUME Base, NEW r \in Requests, NewProject(r)
  PROVE  /\ Base' /\ UNCHANGED <<items, raced>>
         /\ req[r].pc = "newProject"
         /\ \E p \in ProjectIds :
              /\ place[p] = None /\ place' = [place EXCEPT ![p] = req[r].name]
              /\ \/ req[r].op = "addPlace" /\ named' = named /\ byEdit' = byEdit
                 \/ /\ req[r].op = "editNote"
                    /\ named' = named /\ byEdit' = byEdit \cup {p}
                 \/ /\ req[r].op \in {"create", "update"}
                    /\ named' = named \cup {p} /\ byEdit' = byEdit
         /\ Moves(r, Idle) \/ GoesTo(r, AfterProject(r))
<1>1. PICK p \in ProjectIds :
       /\ place[p] = None
       /\ place' = [place EXCEPT ![p] = req[r].name]
       /\ IF req[r].op = "addPlace" THEN Return(r) /\ UNCHANGED <<named, byEdit>>
          ELSE /\ req' = [req EXCEPT ![r].row.proj = p, ![r].pc = AfterProject(r),
                                     ![r].check = @ \cup {p}, ![r].name = None]
               /\ named' = IF req[r].op = "editNote" THEN named ELSE named \cup {p}
               /\ byEdit' = IF req[r].op = "editNote" THEN byEdit \cup {p} ELSE byEdit
               /\ UNCHANGED holder
  BY DEF NewProject
<1>2. UNCHANGED <<items, started, raced>> /\ req[r].pc = "newProject"
  BY DEF NewProject, At
<1>3. req[r] \in Request /\ HandsFull(req[r]) /\ req \in [Requests -> Request]
  BY Requesting
<1>4. req[r].op \in {"create", "update", "editNote", "addPlace"} /\ req[r].name \in Names
  BY <1>2, <1>3 DEF HandsFull
<1>5. /\ place' \in [Places -> Names \cup {None, Gone}] /\ started' \in Nat /\ p \in Places
      /\ byEdit \subseteq ProjectIds /\ named \subseteq Places
  BY <1>1, <1>2, <1>4 DEF Base, Typed, TypeOK, Places
<1>6. CASE req[r].op = "addPlace"
  <2>1. /\ req' \in [Requests -> Request] /\ holder' \in Requests \cup {None}
        /\ Ready' /\ Held' /\ Moves(r, Idle)
    BY <1>1, <1>6, Returning, IdleType DEF Moves
  <2>2. Base'
    BY <1>1, <1>2, <1>5, <1>6, <2>1, Filed
  <2> QED BY <1>1, <1>2, <1>6, <2>1, <2>2
<1>7. CASE req[r].op \in {"create", "update", "editNote"}
  <2> DEFINE row == [req[r].row EXCEPT !.proj = p]
             q   == [req[r] EXCEPT !.row = row, !.pc = AfterProject(r), !.check = @ \cup {p},
                                   !.name = None]
  <2>1. req[r].row \in Row
    BY <1>2, <1>3, <1>7 DEF HandsFull
  <2>2. row \in Row /\ row.kind = req[r].row.kind
    BY <2>1 DEF Row, Item
  <2>3. req' = [req EXCEPT ![r] = q] /\ holder' = holder
    BY <1>1, <1>3, <1>7 DEF Request
  <2>4. /\ named' = IF req[r].op = "editNote" THEN named ELSE named \cup {p}
        /\ byEdit' = IF req[r].op = "editNote" THEN byEdit \cup {p} ELSE byEdit
    BY <1>1, <1>7
  <2>5. AfterProject(r) \in {"write", "check"} /\ (AfterProject(r) = "write" <=> req[r].op = "editNote")
    BY DEF AfterProject
  <2> HIDE DEF row
  <2>6. q \in Request /\ q.op = req[r].op /\ q.id = req[r].id /\ q.row = row /\ q.pc = AfterProject(r)
    BY <1>3, <1>5, <2>2, <2>5 DEF Request, Row
  <2> HIDE DEF q
  <2>7. HandsFull(q)
    BY <1>3, <1>7, <2>1, <2>2, <2>5, <2>6 DEF HandsFull
  <2>8. Base'
    BY <1>1, <1>2, <1>5, <2>3, <2>4, <2>6, <2>7, GoingOn, Filed
  <2>9. GoesTo(r, AfterProject(r))
    BY <2>2, <2>3, <2>6, <2>7 DEF GoesTo, Moves
  <2> QED BY <1>1, <1>2, <1>7, <2>4, <2>8, <2>9
<1> QED BY <1>4, <1>6, <1>7

LEMMA CheckRefsStep ==
  ASSUME Base, NEW r \in Requests, CheckRefs(r)
  PROVE  /\ Base' /\ Still
         /\ \/ Moves(r, Idle)
            \/ /\ req[r].row.kind = "note" => HasNoteRoom
               /\ GoesTo(r, "write")
<1>1. Still /\ started' = started /\ req[r].pc = "check"
  BY DEF CheckRefs, Still, At
<1>2. req[r] \in Request /\ HandsFull(req[r]) /\ req \in [Requests -> Request]
  BY Requesting
<1>3. CASE Return(r)
  BY <1>1, <1>3, ReturnStep
<1>4. CASE /\ req[r].row.kind = "note" => HasNoteRoom
           /\ Go(r, "write") /\ holder' = holder
  <2> DEFINE q == [req[r] EXCEPT !.pc = "write"]
  <2>1. q \in Request /\ q.op = req[r].op /\ q.id = req[r].id /\ q.row = req[r].row /\ q.pc = "write"
    BY <1>2 DEF Request
  <2>2. req' = [req EXCEPT ![r] = q]
    BY <1>2, <1>4 DEF Go
  <2> HIDE DEF q
  <2>3. HandsFull(q)
    BY <1>1, <1>2, <2>1 DEF HandsFull
  <2>4. Moves(r, q)
    BY <2>1, <2>2, <2>3 DEF Moves
  <2> QED BY <1>1, <1>4, <2>1, <2>4, GoStep DEF GoesTo
<1> QED BY <1>3, <1>4 DEF CheckRefs

LEMMA WriteItemStep ==
  ASSUME Base, NEW r \in Requests, WriteItem(r)
  PROVE  /\ Base' /\ UNCHANGED <<place, named, byEdit>>
         /\ req[r].pc = "write" /\ req[r].row \in Row
         /\ \/ req[r].op = "create" /\ \E i \in ItemIds : /\ items[i] = None /\ Put(i, req[r].row)
                                                          /\ \/ Moves(r, Idle)
                                                             \/ \E q \in Request :
                                                                  /\ Moves(r, q) /\ q.id = i
                                                                  /\ q.op = "create" /\ q.pc = "spawn"
                                                                  /\ q.row = req[r].row
            \/ req[r].op # "create" /\ req[r].id \in LiveItems /\ Put(req[r].id, req[r].row)
               /\ Moves(r, Idle)
            \/ UNCHANGED <<items, raced>> /\ Moves(r, Idle)
<1>1. UNCHANGED <<place, started, named, byEdit>> /\ req[r].pc = "write"
  BY DEF WriteItem, At
<1>2. req[r] \in Request /\ HandsFull(req[r]) /\ req \in [Requests -> Request]
  BY Requesting
<1>3. /\ req[r].row \in Row /\ started' \in Nat
      /\ req[r].op \in {"create", "update", "editNote", "touch"}
  BY <1>1, <1>2 DEF HandsFull, Base, Typed, TypeOK
<1>4. ASSUME Return(r)
      PROVE  /\ req' \in [Requests -> Request] /\ holder' \in Requests \cup {None}
             /\ Ready' /\ Held' /\ Moves(r, Idle)
  BY <1>4, Returning, IdleType DEF Moves
<1>5. CASE req[r].op = "create"
  <2>1. PICK i \in ItemIds :
             /\ items[i] = None /\ Put(i, req[r].row)
             /\ IF req[r].row.kind = "pattern"
                THEN /\ req' = [req EXCEPT ![r].pc = "spawn", ![r].id = i, ![r].check = {}]
                     /\ UNCHANGED holder
                ELSE Return(r)
    BY <1>5 DEF WriteItem
  <2>2. CASE Return(r)
    <3>1. Base'
      BY <1>1, <1>3, <1>4, <2>1, <2>2, PutTyped, Wrote
    <3> QED BY <1>1, <1>3, <1>4, <1>5, <2>1, <2>2, <3>1
  <2>3. CASE /\ req[r].row.kind = "pattern" /\ holder' = holder
             /\ req' = [req EXCEPT ![r].pc = "spawn", ![r].id = i, ![r].check = {}]
    <3> DEFINE q == [req[r] EXCEPT !.pc = "spawn", !.id = i, !.check = {}]
    <3>1. /\ q \in Request /\ q.op = "create" /\ q.id = i /\ q.row = req[r].row /\ q.pc = "spawn"
          /\ q.op = req[r].op
      BY <1>2, <1>5 DEF Request
    <3>2. req' = [req EXCEPT ![r] = q]
      BY <1>2, <2>3 DEF Request
    <3> HIDE DEF q
    <3>3. HandsFull(q)
      BY <1>3, <2>3, <3>1 DEF HandsFull
    <3>4. Moves(r, q)
      BY <3>1, <3>2, <3>3 DEF Moves
    <3>5. Base'
      BY <1>1, <1>3, <2>1, <2>3, <3>1, <3>2, <3>3, PutTyped, GoingOn, Wrote
    <3> QED BY <1>1, <1>3, <1>5, <2>1, <3>1, <3>4, <3>5
  <2> QED BY <2>1, <2>2, <2>3
<1>6. CASE req[r].op # "create"
  <2>1. /\ Return(r)
        /\ \/ req[r].id \in LiveItems /\ Put(req[r].id, req[r].row)
           \/ UNCHANGED <<items, raced>>
    BY <1>6 DEF WriteItem
  <2>2. CASE req[r].id \in LiveItems /\ Put(req[r].id, req[r].row)
    <3>1. req[r].id \in ItemIds
      BY <2>2 DEF LiveItems
    <3>2. Base'
      BY <1>1, <1>3, <1>4, <2>1, <2>2, <3>1, PutTyped, Wrote
    <3> QED BY <1>1, <1>3, <1>4, <1>6, <2>1, <2>2, <3>2
  <2>3. CASE UNCHANGED <<items, raced>>
    <3>1. Base'
      BY <1>1, <1>3, <1>4, <2>1, <2>3, Wrote DEF Base, Typed, TypeOK
    <3> QED BY <1>1, <1>3, <1>4, <2>1, <2>3, <3>1
  <2> QED BY <2>1, <2>2, <2>3
<1> QED BY <1>5, <1>6

LEMMA SpawnTodoStep ==
  ASSUME Base, NEW r \in Requests, SpawnTodo(r)
  PROVE  /\ Base' /\ UNCHANGED <<place, named, byEdit>>
         /\ req[r].pc = "spawn" /\ GoesTo(r, "save")
         /\ \/ UNCHANGED <<items, raced>>
            \/ \E i \in ItemIds, row \in Row : items[i] = None /\ row.kind = "todo" /\ Put(i, row)
<1>1. /\ UNCHANGED <<place, holder, started, named, byEdit>> /\ req[r].pc = "spawn"
      /\ Go(r, "save")
  BY DEF SpawnTodo, At
<1>2. req[r] \in Request /\ HandsFull(req[r]) /\ req \in [Requests -> Request]
  BY Requesting
<1>3. req[r].row \in Row /\ req[r].op \in {"create", "spawn"} /\ started' \in Nat
  BY <1>1, <1>2 DEF HandsFull, Base, Typed, TypeOK
<1>4. [req[r].row EXCEPT !.kind = "todo"] \in Row /\ [req[r].row EXCEPT !.kind = "todo"].kind = "todo"
  BY <1>3 DEF Row, Item
<1>5. \/ UNCHANGED <<items, raced>>
      \/ \E i \in ItemIds, row \in Row : items[i] = None /\ row.kind = "todo" /\ Put(i, row)
  BY <1>4 DEF SpawnTodo
<1>6. /\ items' \in [ItemIds -> Row \cup {None, Gone}] /\ raced' \subseteq ItemIds \X Places
      /\ items' \in [ItemIds -> Item \cup {None, Gone}]
  BY <1>5, PutTyped DEF Base, Typed, TypeOK
<1> DEFINE q == [req[r] EXCEPT !.pc = "save"]
<1>7. q \in Request /\ q.op = req[r].op /\ q.id = req[r].id /\ q.row = req[r].row /\ q.pc = "save"
  BY <1>2 DEF Request
<1>8. req' = [req EXCEPT ![r] = q]
  BY <1>1, <1>2 DEF Go
<1> HIDE DEF q
<1>9. HandsFull(q)
  BY <1>1, <1>2, <1>7 DEF HandsFull
<1>10. Base'
  BY <1>1, <1>3, <1>6, <1>7, <1>8, <1>9, GoingOn, Wrote
<1> QED BY <1>1, <1>5, <1>7, <1>8, <1>9, <1>10 DEF Moves, GoesTo

LEMMA SavePatternStep ==
  ASSUME Base, NEW r \in Requests, SavePattern(r)
  PROVE  /\ Base' /\ UNCHANGED <<place, named, byEdit>>
         /\ Moves(r, Idle) /\ req[r].pc = "save" /\ req[r].row \in Row
         /\ \/ UNCHANGED <<items, raced>>
            \/ req[r].id \in LiveItems /\ Put(req[r].id, req[r].row)
<1>1. UNCHANGED <<place, started, named, byEdit>> /\ req[r].pc = "save" /\ Return(r)
  BY DEF SavePattern, At
<1>2. req[r].row \in Row /\ started' \in Nat
  BY <1>1, Requesting DEF HandsFull, Base, Typed, TypeOK
<1>3. \/ UNCHANGED <<items, raced>>
      \/ req[r].id \in LiveItems /\ Put(req[r].id, req[r].row)
  BY DEF SavePattern
<1>4. /\ items' \in [ItemIds -> Row \cup {None, Gone}] /\ raced' \subseteq ItemIds \X Places
      /\ items' \in [ItemIds -> Item \cup {None, Gone}]
  BY <1>2, <1>3, PutTyped DEF Base, Typed, TypeOK, LiveItems
<1>5. /\ req' \in [Requests -> Request] /\ holder' \in Requests \cup {None}
      /\ Ready' /\ Held' /\ Moves(r, Idle)
  BY <1>1, Returning, IdleType DEF Moves
<1>6. Base'
  BY <1>1, <1>2, <1>4, <1>5, Wrote
<1> QED BY <1>1, <1>2, <1>3, <1>5, <1>6

LEMMA DeleteItemStep ==
  ASSUME Base, NEW i \in ItemIds, DeleteItem(i)
  PROVE  Base' /\ UNCHANGED <<place, req, named, byEdit>> /\ Removed({i})
<1>1. UNCHANGED <<place, holder, req, named, byEdit>> /\ Removed({i}) /\ started' \in Nat
  BY DEF DeleteItem, Base, Typed, TypeOK
<1>2. /\ items' \in [ItemIds -> Row \cup {None, Gone}] /\ raced' \subseteq ItemIds \X Places
      /\ items' \in [ItemIds -> Item \cup {None, Gone}]
  BY <1>1, RemovedTyped
<1>3. Ready' /\ Held' /\ req' \in [Requests -> Request] /\ holder' \in Requests \cup {None}
  BY <1>1 DEF Base, Ready, Held, Typed, TypeOK
<1> QED BY <1>1, <1>2, <1>3, Wrote

\* A delete of a place goes on to pc, with batch left to do.
GoesOn(r, pc, batch) ==
  \E q \in Request : /\ Moves(r, q) /\ q.op = req[r].op /\ q.id = req[r].id
                     /\ q.pc = pc /\ q.batch = batch

LEMMA Deleting1 ==
  ASSUME Base, NEW r \in Requests, NEW batch \in SUBSET ItemIds,
         NEW pc \in {"list", "purge", "drop", "refused", "patterns", "notes"},
         req[r].op \in {"dropContext", "dropProject"},
         pc \in {"list", "purge"} => req[r].op = "dropContext",
         pc \in {"patterns", "notes"} => req[r].op = "dropProject",
         holder' = holder,
         req' = [req EXCEPT ![r] = [req[r] EXCEPT !.pc = pc, !.batch = batch]]
  PROVE  /\ req' \in [Requests -> Request] /\ holder' \in Requests \cup {None}
         /\ Ready' /\ Held' /\ GoesOn(r, pc, batch)
<1> DEFINE q == [req[r] EXCEPT !.pc = pc, !.batch = batch]
<1>1. req[r] \in Request /\ HandsFull(req[r])
  BY Requesting
<1>2. q \in Request /\ q.op = req[r].op /\ q.id = req[r].id /\ q.pc = pc /\ q.batch = batch
  BY <1>1 DEF Request
<1>3. req' = [req EXCEPT ![r] = q]
  OBVIOUS
<1> HIDE DEF q
<1>4. HandsFull(q)
  BY <1>1, <1>2 DEF HandsFull
<1>5. /\ req' \in [Requests -> Request] /\ holder' \in Requests \cup {None}
      /\ Ready' /\ Held'
  BY <1>2, <1>3, <1>4, GoingOn
<1> QED BY <1>2, <1>3, <1>4, <1>5 DEF Moves, GoesOn

LEMMA DeletingGo ==
  ASSUME Base, NEW r \in Requests, NEW pc \in {"list", "drop", "refused", "patterns", "notes"},
         req[r].op \in {"dropContext", "dropProject"},
         pc \in {"list"} => req[r].op = "dropContext",
         pc \in {"patterns", "notes"} => req[r].op = "dropProject",
         holder' = holder, Go(r, pc)
  PROVE  /\ req' \in [Requests -> Request] /\ holder' \in Requests \cup {None}
         /\ Ready' /\ Held' /\ GoesOn(r, pc, req[r].batch)
<1>1. req[r] \in Request /\ req \in [Requests -> Request]
  BY Requesting
<1>2. req' = [req EXCEPT ![r] = [req[r] EXCEPT !.pc = pc, !.batch = req[r].batch]]
  BY <1>1 DEF Go, Request
<1>3. req[r].batch \in SUBSET ItemIds
  BY <1>1 DEF Request
<1> QED BY <1>2, <1>3, Deleting1

LEMMA WritePlaceStep ==
  ASSUME Base, NEW r \in Requests, WritePlace(r)
  PROVE  /\ Base' /\ UNCHANGED <<items, byEdit, raced>> /\ Moves(r, Idle)
         /\ \/ UNCHANGED <<place, named>>
            \/ \E name \in Names, x \in LivePlaces :
                 /\ place' = [place EXCEPT ![x] = name]
                 /\ named' = IF name = place[x] THEN named ELSE named \ {x}
<1>1. UNCHANGED <<items, started, byEdit, raced>> /\ Return(r)
  BY DEF WritePlace
<1>2. \/ UNCHANGED <<place, named>>
      \/ \E name \in Names, x \in LivePlaces :
           /\ place' = [place EXCEPT ![x] = name]
           /\ named' = IF name = place[x] THEN named ELSE named \ {x}
  BY DEF WritePlace
<1>3. /\ place' \in [Places -> Names \cup {None, Gone}] /\ named' \subseteq Places
      /\ byEdit' \subseteq ProjectIds /\ started' \in Nat
  BY <1>1, <1>2 DEF Base, Typed, TypeOK
<1>4. /\ req' \in [Requests -> Request] /\ holder' \in Requests \cup {None}
      /\ Ready' /\ Held' /\ Moves(r, Idle)
  BY <1>1, Returning, IdleType DEF Moves
<1>5. Base'
  BY <1>1, <1>3, <1>4, Filed
<1> QED BY <1>1, <1>2, <1>4, <1>5

LEMMA CountContextStep ==
  ASSUME Base, NEW r \in Requests, CountContext(r)
  PROVE  /\ Base' /\ Still /\ req[r].pc = "count" /\ req[r].op = "dropContext"
         /\ \/ GoesOn(r, "list", req[r].batch) \/ GoesOn(r, "refused", req[r].batch)
            \/ /\ req[r].batch = {} /\ InContext("pattern", req[r].id) = {}
               /\ GoesOn(r, "drop", req[r].batch)
<1>1. Still /\ started' = started /\ holder' = holder /\ req[r].pc = "count"
  BY DEF CountContext, Still, At
<1>2. req[r].op = "dropContext"
  BY <1>1, Requesting DEF HandsFull
<1>3. PICK pc \in {"list", "drop", "refused"} :
        /\ Go(r, pc)
        /\ pc = "drop" => req[r].batch = {} /\ InContext("pattern", req[r].id) = {}
  BY DEF CountContext
<1>4. /\ req' \in [Requests -> Request] /\ holder' \in Requests \cup {None}
      /\ Ready' /\ Held' /\ GoesOn(r, pc, req[r].batch)
  BY <1>1, <1>2, <1>3, DeletingGo
<1>5. Base'
  BY <1>1, <1>4, Settling DEF Base, Typed, TypeOK
<1> QED BY <1>1, <1>2, <1>3, <1>4, <1>5

LEMMA ListContextStep ==
  ASSUME Base, NEW r \in Requests, ListContext(r)
  PROVE  /\ Base' /\ Still /\ req[r].pc = "list" /\ req[r].op = "dropContext"
         /\ GoesOn(r, "purge", InContext("todo", req[r].id))
<1>1. Still /\ started' = started /\ holder' = holder /\ req[r].pc = "list"
  BY DEF ListContext, Still, At
<1>2. req[r].op = "dropContext" /\ req[r] \in Request /\ req \in [Requests -> Request]
  BY <1>1, Requesting DEF HandsFull
<1>3. InContext("todo", req[r].id) \in SUBSET ItemIds
  BY DEF InContext, OfKind, LiveItems
<1> DEFINE batch == InContext("todo", req[r].id)
<1>4. req' = [req EXCEPT ![r] = [req[r] EXCEPT !.pc = "purge", !.batch = batch]]
  BY <1>2 DEF ListContext, Request
<1> HIDE DEF batch
<1>5. /\ req' \in [Requests -> Request] /\ holder' \in Requests \cup {None}
      /\ Ready' /\ Held' /\ GoesOn(r, "purge", batch)
  BY <1>1, <1>2, <1>3, <1>4, Deleting1 DEF batch
<1>6. Base'
  BY <1>1, <1>5, Settling DEF Base, Typed, TypeOK
<1> QED BY <1>1, <1>2, <1>5, <1>6 DEF batch

LEMMA PurgeTodoStep ==
  ASSUME Base, NEW r \in Requests, PurgeTodo(r)
  PROVE  /\ Base' /\ UNCHANGED <<place, named, byEdit>>
         /\ req[r].pc = "purge" /\ req[r].op = "dropContext"
         /\ \/ UNCHANGED <<items, raced>> /\ Moves(r, Idle)
            \/ \E i \in req[r].batch : Removed({i}) /\ GoesOn(r, "purge", req[r].batch \ {i})
<1>1. UNCHANGED <<place, started, named, byEdit>> /\ req[r].pc = "purge" /\ started' \in Nat
  BY DEF PurgeTodo, At, Base, Typed, TypeOK
<1>2. req[r].op = "dropContext" /\ req[r] \in Request /\ req \in [Requests -> Request]
  BY <1>1, Requesting DEF HandsFull
<1>3. CASE Return(r) /\ UNCHANGED <<items, raced>>
  <2>1. /\ req' \in [Requests -> Request] /\ holder' \in Requests \cup {None}
        /\ Ready' /\ Held' /\ Moves(r, Idle)
    BY <1>3, Returning, IdleType DEF Moves
  <2>2. Base'
    BY <1>1, <1>3, <2>1, Wrote DEF Base, Typed, TypeOK
  <2> QED BY <1>1, <1>2, <1>3, <2>1, <2>2
<1>4. ASSUME NEW i \in req[r].batch, Removed({i}), holder' = holder,
             req' = [req EXCEPT ![r].batch = @ \ {i}]
      PROVE  Base' /\ GoesOn(r, "purge", req[r].batch \ {i})
  <2> DEFINE batch == req[r].batch \ {i}
  <2>1. req' = [req EXCEPT ![r] = [req[r] EXCEPT !.pc = "purge", !.batch = batch]]
    BY <1>1, <1>2, <1>4 DEF Request
  <2>2. batch \in SUBSET ItemIds
    BY <1>2 DEF Request
  <2> HIDE DEF batch
  <2>3. /\ req' \in [Requests -> Request] /\ holder' \in Requests \cup {None}
        /\ Ready' /\ Held' /\ GoesOn(r, "purge", batch)
    BY <1>2, <1>4, <2>1, <2>2, Deleting1
  <2>4. /\ items' \in [ItemIds -> Row \cup {None, Gone}] /\ raced' \subseteq ItemIds \X Places
        /\ items' \in [ItemIds -> Item \cup {None, Gone}]
    BY <1>4, RemovedTyped
  <2>5. Base'
    BY <1>1, <2>3, <2>4, Wrote
  <2> QED BY <2>3, <2>5 DEF batch
<1> QED BY <1>1, <1>2, <1>3, <1>4 DEF PurgeTodo

LEMMA PurgePatternsStep ==
  ASSUME Base, NEW r \in Requests, PurgePatterns(r)
  PROVE  /\ Base' /\ UNCHANGED <<place, named, byEdit>>
         /\ req[r].pc = "purge" /\ req[r].op = "dropContext" /\ req[r].batch = {}
         /\ Removed(InContext("pattern", req[r].id)) /\ GoesOn(r, "drop", {})
<1>1. /\ UNCHANGED <<place, started, named, byEdit>> /\ req[r].pc = "purge" /\ started' \in Nat
      /\ req[r].batch = {} /\ Removed(InContext("pattern", req[r].id)) /\ Go(r, "drop")
      /\ holder' = holder
  BY DEF PurgePatterns, At, Base, Typed, TypeOK
<1>2. req[r].op = "dropContext"
  BY <1>1, Requesting DEF HandsFull
<1>3. /\ req' \in [Requests -> Request] /\ holder' \in Requests \cup {None}
      /\ Ready' /\ Held' /\ GoesOn(r, "drop", {})
  BY <1>1, <1>2, DeletingGo
<1>4. /\ items' \in [ItemIds -> Row \cup {None, Gone}] /\ raced' \subseteq ItemIds \X Places
      /\ items' \in [ItemIds -> Item \cup {None, Gone}]
  BY <1>1, RemovedTyped
<1>5. Base'
  BY <1>1, <1>3, <1>4, Wrote
<1> QED BY <1>1, <1>2, <1>3, <1>5

\* The three statements that settle what a project holds.
LEMMA DetachStep ==
  ASSUME Base, NEW r \in Requests, DetachTodos(r) \/ DetachPatterns(r) \/ SettleNotes(r)
  PROVE  /\ Base' /\ UNCHANGED <<place, named, byEdit>> /\ req[r].op = "dropProject"
         /\ \/ /\ req[r].pc = "todos" /\ Detached("todo", req[r].id)
               /\ GoesOn(r, "patterns", req[r].batch)
            \/ /\ req[r].pc = "patterns" /\ Detached("pattern", req[r].id)
               /\ \/ req[r].batch = {} /\ GoesOn(r, "drop", req[r].batch)
                  \/ GoesOn(r, "notes", req[r].batch)
            \/ /\ req[r].pc = "notes" /\ GoesOn(r, "drop", req[r].batch)
               /\ \/ Removed(InProject("note", req[r].id)) \/ Detached("note", req[r].id)
<1>1. /\ UNCHANGED <<place, holder, started, named, byEdit>> /\ started' \in Nat
      /\ req[r].pc \in {"todos", "patterns", "notes"}
  BY DEF DetachTodos, DetachPatterns, SettleNotes, At, Base, Typed, TypeOK
<1>2. req[r].op = "dropProject"
  BY <1>1, Requesting DEF HandsFull
<1>3. PICK pc \in {"patterns", "notes", "drop"} :
        /\ Go(r, pc)
        /\ \/ /\ req[r].pc = "todos" /\ Detached("todo", req[r].id) /\ pc = "patterns"
           \/ /\ req[r].pc = "patterns" /\ Detached("pattern", req[r].id)
              /\ pc = IF req[r].batch = {} THEN "drop" ELSE "notes"
           \/ /\ req[r].pc = "notes" /\ pc = "drop"
              /\ \/ Removed(InProject("note", req[r].id)) \/ Detached("note", req[r].id)
  BY DEF DetachTodos, DetachPatterns, SettleNotes, At
<1>4. /\ req' \in [Requests -> Request] /\ holder' \in Requests \cup {None}
      /\ Ready' /\ Held' /\ GoesOn(r, pc, req[r].batch)
  BY <1>1, <1>2, <1>3, DeletingGo
<1>5. /\ items' \in [ItemIds -> Row \cup {None, Gone}] /\ raced' \subseteq ItemIds \X Places
      /\ items' \in [ItemIds -> Item \cup {None, Gone}]
  BY <1>3, RemovedTyped, DetachedTyped
<1>6. Base'
  BY <1>1, <1>4, <1>5, Wrote
<1> QED BY <1>1, <1>2, <1>3, <1>4, <1>6

LEMMA DropPlaceStep ==
  ASSUME Base, NEW r \in Requests, DropPlace(r)
  PROVE  /\ Base' /\ UNCHANGED <<items, raced>> /\ Moves(r, Idle)
         /\ req[r].pc = "drop" /\ req[r].op \in {"dropContext", "dropProject"}
         /\ req[r].id \in Places
         /\ place' = [place EXCEPT ![req[r].id] = Gone]
         /\ named' = named \ {req[r].id} /\ byEdit' = byEdit \ {req[r].id}
<1>1. /\ UNCHANGED <<items, started, raced>> /\ Return(r) /\ req[r].pc = "drop"
      /\ place' = [place EXCEPT ![req[r].id] = Gone]
      /\ named' = named \ {req[r].id} /\ byEdit' = byEdit \ {req[r].id}
  BY DEF DropPlace, At
<1>2. req[r].op \in {"dropContext", "dropProject"} /\ req[r].id \in Places
  BY <1>1, Requesting DEF HandsFull, Places
<1>3. /\ place' \in [Places -> Names \cup {None, Gone}] /\ named' \subseteq Places
      /\ byEdit' \subseteq ProjectIds /\ started' \in Nat
  BY <1>1, <1>2 DEF Base, Typed, TypeOK
<1>4. /\ req' \in [Requests -> Request] /\ holder' \in Requests \cup {None}
      /\ Ready' /\ Held' /\ Moves(r, Idle)
  BY <1>1, Returning, IdleType DEF Moves
<1>5. Base'
  BY <1>1, <1>3, <1>4, Filed
<1> QED BY <1>1, <1>2, <1>4, <1>5

LEMMA EndStep ==
  ASSUME Base, NEW r \in Requests, Refused(r) \/ Abort(r)
  PROVE  Base' /\ Still /\ Moves(r, Idle)
BY ReturnStep DEF Refused, Abort, Still

LEMMA BaseInit == Init => Base
<1> SUFFICES ASSUME Init PROVE Base
  OBVIOUS
<1>1. TypeOK /\ items \in [ItemIds -> Item \cup {None}]
  BY IdleType, Apart DEF Init, TypeOK
<1>2. \A i \in ItemIds : items[i] \in Item /\ items[i] \notin {None, Gone} => items[i] \in Row
  BY <1>1 DEF Init, LiveItems, Row
<1>3. items \in [ItemIds -> Row \cup {None, Gone}]
  BY <1>1, <1>2
<1>4. Ready /\ Held
  BY IdleType DEF Init, Ready, Held, Idle, Owners
<1> QED BY <1>1, <1>3, <1>4 DEF Base, Typed

LEMMA BaseStep == ASSUME Base, [Next]_vars PROVE Base'
<1>1. CASE UNCHANGED vars
  BY <1>1 DEF vars, ghosts, Base, Typed, TypeOK, Ready, Held
<1>2. ASSUME NEW i \in ItemIds, DeleteItem(i) PROVE Base'
  BY <1>2, DeleteItemStep
<1>3. ASSUME NEW r \in Requests, Step(r) PROVE Base'
  BY <1>3, CreateItemStep, ReadStep, AddPlaceStep, EditPlaceStep, DeleteContextStep,
     DeleteProjectStep, ResolveContextStep, ResolveProjectStep, NewContextStep, NewProjectStep,
     CheckRefsStep, WriteItemStep, SpawnTodoStep, SavePatternStep, WritePlaceStep,
     CountContextStep, ListContextStep, PurgeTodoStep, PurgePatternsStep, DetachStep,
     DropPlaceStep, EndStep
  DEF Step
<1> QED BY <1>1, <1>2, <1>3 DEF Next

\* Every variable keeps its type, whatever the requests are (the handlers' locals and
\* the columns of the rows).
THEOREM Typing == Spec => []TypeOK
<1>1. Spec => []Base
  BY BaseInit, BaseStep, PTL DEF Spec
<1> QED BY <1>1, PTL DEF Base, Typed

-----------------------------------------------------------------------------
(* The account guard *)

\* The guard of this account as AccountLock has it.
Guard == INSTANCE AccountLock WITH Accounts <- {"account"},
                                   holder <- [a \in {"account"} |-> holder]

\* A request that stays where it is neither gets the guard nor loses it.
OwnGuard == \A r \in Requests : req'[r] = req[r] => (holder' = r <=> holder = r)

\* One request moves: it has the guard, takes it when it is free, or gives it back.
Turns(r) ==
  /\ \A s \in Requests \ {r} : req'[s] = req[s]
  /\ \/ holder' = holder
     \/ holder = None /\ holder' = r /\ req'[r] # req[r]
     \/ holder = r /\ holder' = None /\ req'[r] # req[r]

LEMMA TurnsTo ==
  ASSUME Base, NEW r \in Requests, NEW q, req' = [req EXCEPT ![r] = q],
         \/ holder' = holder
         \/ q.pc # req[r].pc /\ holder = None /\ holder' = r
         \/ q.pc # req[r].pc /\ holder = r /\ holder' = None
  PROVE  Turns(r)
<1>1. req \in [Requests -> Request]
  BY DEF Base, Typed, TypeOK
<1>2. req'[r] = q /\ \A s \in Requests \ {r} : req'[s] = req[s]
  BY <1>1
<1> QED BY <1>2 DEF Turns

LEMMA ReturnTurns ==
  ASSUME Base, NEW r \in Requests, Return(r), req[r].pc # "idle"
  PROVE  Turns(r)
<1>1. Idle.pc # req[r].pc
  BY DEF Idle
<1> QED BY <1>1, TurnsTo DEF Return

\* A handler up to its first statement, with or without the guard.
LEMMA BeginTurns ==
  ASSUME Base, NEW r \in Requests, Guarded(r) \/ Unguarded(r),
         NEW q, req' = [req EXCEPT ![r] = q], q.pc # "idle"
  PROVE  Turns(r)
BY TurnsTo DEF Guarded, Unguarded, Begin, At

LEMMA StepTurns == ASSUME Base, NEW r \in Requests, Step(r) PROVE Turns(r)
<1>1. CASE \E kind \in {"todo", "pattern", "note"} : CreateItem(r, kind)
  <2>1. PICK kind \in {"todo", "pattern", "note"} : CreateItem(r, kind)
    BY <1>1
  <2> DEFINE q == [Idle EXCEPT !.op = "create",
                     !.pc = IF kind = "note" THEN "project" ELSE "context",
                     !.row = [kind |-> kind, ctx |-> None, proj |-> None]]
  <2>2. q.pc # "idle"
    BY DEF Idle
  <2>3. Guarded(r) /\ req' = [req EXCEPT ![r] = q]
    BY <2>1 DEF CreateItem
  <2> HIDE DEF q
  <2> QED BY <2>2, <2>3, BeginTurns
<1>2. ASSUME NEW i \in ItemIds, UpdateItem(r, i) \/ EditNote(r, i) \/ TouchTodo(r, i) \/ SpawnFor(r, i)
      PROVE  Turns(r)
  <2> DEFINE q(op, pc) == [Idle EXCEPT !.op = op, !.pc = pc, !.id = i, !.row = items[i]]
  <2>1. \A op, pc : q(op, pc).pc = pc
    BY DEF Idle
  <2>2. \/ req' = [req EXCEPT ![r] = q("update", "context")]
        \/ req' = [req EXCEPT ![r] = q("editNote", "project")]
        \/ req' = [req EXCEPT ![r] = q("touch", "write")]
        \/ req' = [req EXCEPT ![r] = q("spawn", "spawn")]
    BY <1>2 DEF UpdateItem, EditNote, TouchTodo, SpawnFor
  <2>3. Guarded(r) \/ Unguarded(r)
    BY <1>2 DEF UpdateItem, EditNote, TouchTodo, SpawnFor
  <2> HIDE DEF q
  <2> QED BY <2>1, <2>2, <2>3, BeginTurns
<1>3. ASSUME NEW x \in Places, EditPlace(r, x) \/ DeleteContext(r, x)
      PROVE  Turns(r)
  <2> DEFINE a == [Idle EXCEPT !.op = "editPlace", !.pc = "rename", !.id = x, !.name = place[x]]
             b == [Idle EXCEPT !.op = "dropContext", !.pc = "count", !.id = x,
                                !.batch = InContext("todo", x)]
  <2>1. a.pc # "idle" /\ b.pc # "idle"
    BY DEF Idle
  <2>2. Unguarded(r) /\ (req' = [req EXCEPT ![r] = a] \/ req' = [req EXCEPT ![r] = b])
    BY <1>3 DEF EditPlace, DeleteContext
  <2> HIDE DEF a, b
  <2> QED BY <2>1, <2>2, BeginTurns
<1>4. ASSUME NEW p \in ProjectIds, DeleteProject(r, p)
      PROVE  Turns(r)
  <2>1. PICK answer \in {None, TRUE, FALSE} :
          req' = [req EXCEPT ![r] =
                    [Idle EXCEPT !.op = "dropProject", !.id = p, !.deleteNotes = answer,
                       !.batch = InProject("note", p),
                       !.pc = IF answer = None /\ InProject("note", p) # {}
                              THEN "refused" ELSE "todos"]]
    BY <1>4 DEF DeleteProject
  <2> DEFINE q == [Idle EXCEPT !.op = "dropProject", !.id = p, !.deleteNotes = answer,
                       !.batch = InProject("note", p),
                       !.pc = IF answer = None /\ InProject("note", p) # {}
                              THEN "refused" ELSE "todos"]
  <2>2. q.pc # "idle"
    BY DEF Idle
  <2>3. Unguarded(r) /\ req' = [req EXCEPT ![r] = q]
    BY <1>4, <2>1 DEF DeleteProject
  <2> HIDE DEF q
  <2> QED BY <2>2, <2>3, BeginTurns
<1>12. CASE AddPlace(r)
  <2>1. PICK name \in Names, ids \in {ContextIds, ProjectIds} :
          req' = [req EXCEPT ![r] = [Idle EXCEPT !.op = "addPlace", !.name = name,
                    !.pc = IF ids = ContextIds THEN "newContext" ELSE "newProject"]]
    BY <1>12 DEF AddPlace
  <2> DEFINE q == [Idle EXCEPT !.op = "addPlace", !.name = name,
                    !.pc = IF ids = ContextIds THEN "newContext" ELSE "newProject"]
  <2>2. q.pc # "idle"
    BY DEF Idle
  <2>3. Guarded(r) /\ req' = [req EXCEPT ![r] = q]
    BY <1>12, <2>1 DEF AddPlace
  <2> HIDE DEF q
  <2> QED BY <2>2, <2>3, BeginTurns
<1>5. ASSUME req[r].pc # "idle", NEW q,
             Return(r) \/ (req' = [req EXCEPT ![r] = q] /\ holder' = holder)
      PROVE  Turns(r)
  BY <1>5, ReturnTurns, TurnsTo
<1>6. CASE ResolveContext(r) \/ ResolveProject(r)
  BY <1>5, <1>6 DEF ResolveContext, ResolveProject, At
<1>7. CASE NewContext(r) \/ NewProject(r)
  BY <1>5, <1>7 DEF NewContext, NewProject, At
<1>8. CASE CheckRefs(r) \/ WriteItem(r)
  BY <1>5, <1>8 DEF CheckRefs, WriteItem, At, Go
<1>9. CASE SpawnTodo(r) \/ SavePattern(r) \/ WritePlace(r) \/ CountContext(r) \/ ListContext(r)
  BY <1>5, <1>9 DEF SpawnTodo, SavePattern, WritePlace, CountContext, ListContext, At, Go
<1>10. CASE PurgeTodo(r) \/ PurgePatterns(r) \/ DetachTodos(r) \/ DetachPatterns(r) \/ SettleNotes(r)
  BY <1>5, <1>10 DEF PurgeTodo, PurgePatterns, DetachTodos, DetachPatterns, SettleNotes, At, Go
<1>11. CASE DropPlace(r) \/ Refused(r) \/ Abort(r)
  BY <1>5, <1>11 DEF DropPlace, Refused, Abort, At
<1> QED BY <1>1, <1>2, <1>3, <1>4, <1>6, <1>7, <1>8, <1>9, <1>10, <1>11,
           <1>12 DEF Step, Places

\* The steps of one account's requests use its guard as AccountLock lets them, and a
\* request gets it and loses it by steps of its own alone, wherever it stops (the
\* handlers of actions, patterns, notes, contexts and projects).
THEOREM GuardAsPromised == Spec => Guard!Spec /\ [][OwnGuard]_vars
<1> DEFINE lock == [a \in {"account"} |-> holder]
<1>1. Init => Guard!Init
  BY DEF Init, Guard!Init
<1>2. ASSUME Base, [Next]_vars
      PROVE  [Guard!Next]_lock /\ (OwnGuard \/ UNCHANGED vars)
  <2>1. ASSUME NEW r \in Requests, Turns(r)
        PROVE  [Guard!Next]_lock /\ OwnGuard
    <3>1. OwnGuard
      BY <2>1, Apart DEF OwnGuard, Turns
    <3>2. CASE holder' = holder
      BY <3>1, <3>2
    <3>3. CASE holder = None /\ holder' = r
      <4>1. Guard!Enter(r, "account")
        BY <3>3, Apart DEF Guard!Enter
      <4> QED BY <3>1, <4>1 DEF Guard!Next
    <3>4. CASE holder = r /\ holder' = None
      <4>1. Guard!Lose({"account"})
        BY <3>4, Apart DEF Guard!Lose
      <4> QED BY <3>1, <4>1 DEF Guard!Next
    <3> QED BY <2>1, <3>1, <3>2, <3>3, <3>4 DEF Turns
  <2>2. CASE holder' = holder /\ req' = req
    BY <2>2 DEF OwnGuard
  <2>3. (holder' = holder /\ req' = req) \/ \E r \in Requests : Step(r)
    BY <1>2 DEF Next, DeleteItem, vars
  <2> QED BY <1>2, <2>1, <2>2, <2>3, StepTurns
<1> QED BY <1>1, <1>2, BaseInit, BaseStep, PTL DEF Spec, Guard!Spec

-----------------------------------------------------------------------------
(* Allowances *)

\* Projects that count: those the edit of a note made are not counted.
Counted == (ProjectIds \cap LivePlaces) \ byEdit
Contexts == ContextIds \cap LivePlaces

\* Who is about to insert has found room for it.
Room(q) ==
  /\ q.pc = "newContext" => Cardinality(Contexts) < ContextLimit
  /\ q.pc = "newProject" /\ q.op # "editNote" => Cardinality(Counted) < ProjectLimit
  /\ q.pc = "write" /\ q.op = "create" /\ q.row.kind = "note"
       => Cardinality(OfKind("note")) < NoteLimit

\* A row that was read and is about to be written back is of the kind it was.
SameKind(q) ==
  q.op \in {"update", "editNote", "touch", "spawn"} \/ q.pc \in {"spawn", "save"} =>
    /\ items[q.id] # None
    /\ q.id \in LiveItems => items[q.id].kind = q.row.kind

Allowing == AllowancesHeld /\ \A r \in Requests : Room(req[r]) /\ SameKind(req[r])

\* No id is given out twice, and no row changes its kind.
KindsStay ==
  \A i \in ItemIds : items[i] # None =>
    /\ items'[i] # None
    /\ i \in LiveItems' => i \in LiveItems /\ items'[i].kind = items[i].kind

LEMMA Sizes ==
  /\ IsFiniteSet(Contexts) /\ IsFiniteSet(Counted) /\ \A kind : IsFiniteSet(OfKind(kind))
  /\ Cardinality(Contexts) \in Nat /\ Cardinality(Counted) \in Nat
  /\ \A kind : Cardinality(OfKind(kind)) \in Nat
<1>1. Contexts \subseteq Places /\ Counted \subseteq Places
  BY DEF Contexts, Counted, LivePlaces
<1>2. \A kind : OfKind(kind) \subseteq ItemIds
  BY DEF OfKind, LiveItems
<1>3. IsFiniteSet(Contexts) /\ IsFiniteSet(Counted) /\ \A kind : IsFiniteSet(OfKind(kind))
  BY <1>1, <1>2, Limits, FS_Subset
<1> QED BY <1>3, FS_CardinalityType

LEMMA SizesPrime ==
  /\ IsFiniteSet(Contexts') /\ IsFiniteSet(Counted') /\ \A kind : IsFiniteSet(OfKind(kind)')
  /\ Cardinality(Contexts') \in Nat /\ Cardinality(Counted') \in Nat
  /\ \A kind : Cardinality(OfKind(kind)') \in Nat
<1>1. Contexts' \subseteq Places /\ Counted' \subseteq Places
  BY DEF Contexts, Counted, LivePlaces
<1>2. \A kind : OfKind(kind)' \subseteq ItemIds
  BY DEF OfKind, LiveItems
<1>3. IsFiniteSet(Contexts') /\ IsFiniteSet(Counted') /\ \A kind : IsFiniteSet(OfKind(kind)')
  BY <1>1, <1>2, Limits, FS_Subset
<1> QED BY <1>3, FS_CardinalityType

LEMMA Fewer ==
  ASSUME NEW S, NEW T, IsFiniteSet(S), T \subseteq S
  PROVE  Cardinality(T) \in Nat /\ Cardinality(S) \in Nat /\ Cardinality(T) <= Cardinality(S)
BY FS_Subset, FS_CardinalityType

\* One more fits where there was room.
LEMMA OneMore ==
  ASSUME NEW S, NEW x, NEW T, IsFiniteSet(S), T \subseteq S \cup {x}, NEW limit \in Nat,
         Cardinality(S) < limit
  PROVE  Cardinality(T) <= limit
<1>1. IsFiniteSet(S \cup {x}) /\ Cardinality(S \cup {x}) <= Cardinality(S) + 1
      /\ Cardinality(S \cup {x}) \in Nat /\ Cardinality(S) \in Nat
  <2>1. Cardinality(S) \in Nat
    BY FS_CardinalityType
  <2>2. /\ IsFiniteSet(S \cup {x})
        /\ Cardinality(S \cup {x}) = IF x \in S THEN Cardinality(S) ELSE Cardinality(S) + 1
    BY FS_AddElement
  <2> QED BY <2>1, <2>2
<1>2. Cardinality(T) \in Nat /\ Cardinality(T) <= Cardinality(S \cup {x})
  BY <1>1, Fewer
<1> QED BY <1>1, <1>2

\* The other requests keep their room, or are not about to insert: r has the guard.
LEMMA OthersKeepRoom ==
  ASSUME Base, Allowing, NEW r \in Requests, NEW q, Moves(r, q),
         NEW s \in Requests, s # r, KindsStay,
         holder = r \/ (/\ Contexts' \subseteq Contexts /\ Counted' \subseteq Counted
                        /\ OfKind("note")' \subseteq OfKind("note"))
  PROVE  (Room(req[s]) /\ SameKind(req[s]))'
<1>1. req'[s] = req[s] /\ req[s] \in Request /\ HandsFull(req[s])
  BY Requesting DEF Moves
<1>2. SameKind(req[s])'
  <2>1. req[s].op \in {"update", "editNote", "touch", "spawn"} \/ req[s].pc \in {"spawn", "save"}
        => req[s].id \in ItemIds
    BY <1>1 DEF HandsFull
  <2>2. SameKind(req[s])
    BY DEF Allowing
  <2>3. ASSUME req[s].op \in {"update", "editNote", "touch", "spawn"}
                 \/ req[s].pc \in {"spawn", "save"}
        PROVE  /\ items'[req[s].id] # None
               /\ req[s].id \in LiveItems' => items'[req[s].id].kind = req[s].row.kind
    BY <2>1, <2>2, <2>3 DEF SameKind, KindsStay
  <2> QED BY <1>1, <2>3 DEF SameKind
<1>3. Room(req[s])'
  <2>1. CASE holder = r
    <3>1. req[s].op \notin Owners
      BY <2>1 DEF Base, Held
    <3> QED BY <1>1, <3>1 DEF Room, HandsFull, Owners
  <2>2. CASE /\ Contexts' \subseteq Contexts /\ Counted' \subseteq Counted
             /\ OfKind("note")' \subseteq OfKind("note")
    <3>1. /\ Cardinality(Contexts') <= Cardinality(Contexts)
          /\ Cardinality(Counted') <= Cardinality(Counted)
          /\ Cardinality(OfKind("note")') <= Cardinality(OfKind("note"))
      BY <2>2, Sizes, Fewer
    <3>2. Room(req[s])
      BY DEF Allowing
    <3> QED BY <1>1, <3>1, <3>2, Sizes, SizesPrime, Limits DEF Room
  <2> QED BY <2>1, <2>2
<1> QED BY <1>2, <1>3

LEMMA AllowingKept ==
  ASSUME Base, Allowing, NEW r \in Requests, NEW q, Moves(r, q), KindsStay,
         Contexts' \subseteq Contexts, Counted' \subseteq Counted,
         OfKind("note")' \subseteq OfKind("note"), (Room(q) /\ SameKind(q))'
  PROVE  Allowing'
<1>1. AllowancesHeld'
  <2>1. /\ Cardinality(Contexts') <= Cardinality(Contexts)
        /\ Cardinality(Counted') <= Cardinality(Counted)
        /\ Cardinality(OfKind("note")') <= Cardinality(OfKind("note"))
    BY Sizes, Fewer
  <2>2. /\ Cardinality(Contexts) <= ContextLimit /\ Cardinality(Counted) <= ProjectLimit
        /\ Cardinality(OfKind("note")) <= NoteLimit
    BY DEF Allowing, AllowancesHeld, Contexts, Counted
  <2>3. /\ Cardinality(Contexts') <= ContextLimit /\ Cardinality(Counted') <= ProjectLimit
        /\ Cardinality(OfKind("note")') <= NoteLimit
    BY <2>1, <2>2, Sizes, SizesPrime, Limits
  <2> QED BY <2>3 DEF AllowancesHeld, Contexts, Counted
<1>2. req'[r] = q
  BY Requesting DEF Moves
<1>3. \A s \in Requests : (Room(req[s]) /\ SameKind(req[s]))'
  <2> TAKE s \in Requests
  <2>1. CASE s = r
    BY <1>2, <2>1 DEF Room, SameKind
  <2>2. CASE s # r
    BY <2>2, OthersKeepRoom
  <2> QED BY <2>1, <2>2
<1> QED BY <1>1, <1>3 DEF Allowing

LEMMA IdleNeedsNothing == Room(Idle) /\ Room(Idle)' /\ SameKind(Idle) /\ SameKind(Idle)'
BY DEF Room, SameKind, Idle

LEMMA SameItems ==
  ASSUME items' = items
  PROVE  KindsStay /\ LiveItems' = LiveItems /\ OfKind("note")' = OfKind("note")
BY DEF KindsStay, LiveItems, OfKind

LEMMA SamePlaces ==
  ASSUME UNCHANGED <<place, byEdit>>
  PROVE  Contexts' = Contexts /\ Counted' = Counted
BY DEF Contexts, Counted, LivePlaces

LEMMA AllowingStill ==
  ASSUME Base, Allowing, NEW r \in Requests, NEW q, Moves(r, q), Still, Room(q), SameKind(q)
  PROVE  Allowing'
<1>1. UNCHANGED <<place, items, byEdit>>
  BY DEF Still, ghosts
<1>2. (Room(q) /\ SameKind(q))'
  BY <1>1, SameItems, SamePlaces DEF Room, SameKind
<1> QED BY <1>1, <1>2, SameItems, SamePlaces, AllowingKept

\* A request that goes on has the row it had, resolved or not.
LEMMA KindGoesOn ==
  ASSUME Base, Allowing, NEW r \in Requests, NEW q \in Request, HandsFull(q),
         q.op = req[r].op, q.id = req[r].id, q.row.kind = req[r].row.kind,
         q.pc \in {"spawn", "save"} => req[r].pc \in {"spawn", "save"}
  PROVE  SameKind(q)
BY DEF Allowing, SameKind

LEMMA PutKinds ==
  ASSUME Base, NEW i \in ItemIds, NEW row \in Row, Put(i, row),
         items[i] = None \/ (i \in LiveItems /\ items[i].kind = row.kind)
  PROVE  /\ KindsStay /\ OfKind("note")' \subseteq OfKind("note") \cup {i}
         /\ items[i] # None \/ row.kind # "note" => OfKind("note")' \subseteq OfKind("note")
         /\ items'[i] = row
<1>1. /\ items'[i] = row /\ row \notin {None, Gone}
      /\ \A j \in ItemIds : j # i => items'[j] = items[j]
  BY NotRows DEF Put, Base, Typed, Row
<1>2. \A j \in ItemIds : j # i => (j \in LiveItems' <=> j \in LiveItems)
  BY <1>1 DEF LiveItems
<1>3. KindsStay
  BY <1>1, <1>2 DEF KindsStay
<1>4. OfKind("note")' \subseteq OfKind("note") \cup {i}
  BY <1>1, <1>2 DEF OfKind, LiveItems
<1>5. items[i] # None \/ row.kind # "note" => OfKind("note")' \subseteq OfKind("note")
  BY <1>1, <1>2 DEF OfKind, LiveItems
<1> QED BY <1>1, <1>3, <1>4, <1>5

LEMMA RemovedKinds ==
  ASSUME Base, NEW set, Removed(set)
  PROVE  KindsStay /\ OfKind("note")' \subseteq OfKind("note")
<1>1. \A i \in ItemIds : items'[i] = Gone \/ items'[i] = items[i]
  BY DEF Removed
<1> QED BY <1>1, Apart DEF KindsStay, LiveItems, OfKind

LEMMA DetachedKinds ==
  ASSUME Base, NEW kind, NEW p, Detached(kind, p)
  PROVE  KindsStay /\ OfKind("note")' \subseteq OfKind("note")
<1>1. ASSUME NEW i \in ItemIds, i \in InProject(kind, p)
      PROVE  /\ i \in LiveItems /\ items'[i] \in Row /\ items'[i].kind = items[i].kind
             /\ items'[i] \notin {None, Gone}
  <2>1. i \in LiveItems /\ items[i] \in Row
    BY <1>1, LiveRow DEF InProject, OfKind
  <2>2. items'[i] = [items[i] EXCEPT !.proj = None]
    BY <1>1 DEF Detached
  <2>3. items'[i] \in Row /\ items'[i].kind = items[i].kind
    BY <2>1, <2>2 DEF Row, Item
  <2> QED BY <2>1, <2>3, NotRows DEF Row
<1>2. ASSUME NEW i \in ItemIds, i \notin InProject(kind, p) PROVE items'[i] = items[i]
  BY <1>2 DEF Detached
<1>3. \A i \in ItemIds : i \in LiveItems' => i \in LiveItems /\ items'[i].kind = items[i].kind
  BY <1>1, <1>2 DEF LiveItems
<1>4. \A i \in ItemIds : items[i] # None => items'[i] # None
  BY <1>1, <1>2
<1> QED BY <1>3, <1>4 DEF KindsStay, OfKind, LiveItems

\* Rows are written, removed or detached: none of these makes more notes.
LEMMA AllowingItems ==
  ASSUME Base, Allowing, NEW r \in Requests, NEW q, Moves(r, q),
         UNCHANGED <<place, byEdit>>, KindsStay, OfKind("note")' \subseteq OfKind("note"),
         q = Idle \/ (Room(q) /\ SameKind(q))'
  PROVE  Allowing'
BY SamePlaces, AllowingKept, IdleNeedsNothing

\* A name or an id was resolved.
LEMMA AllowingResolved ==
  ASSUME Base, Allowing, NEW r \in Requests, ResolveContext(r) \/ ResolveProject(r)
  PROVE  Allowing'
<1>1. PICK q \in Request :
        /\ Moves(r, q) /\ Still
        /\ \/ q = Idle
           \/ /\ q.op = req[r].op /\ q.id = req[r].id /\ q.row.kind = req[r].row.kind
              /\ \/ q.pc \in {"project", "check"}
                 \/ q.pc = "write" /\ q.op = "editNote"
                 \/ q.pc = "newContext" /\ HasContextRoom
                 \/ q.pc = "newProject" /\ HasProjectRoom
  <2>1. AfterProject(r) = "check" \/ (AfterProject(r) = "write" /\ req[r].op = "editNote")
    BY DEF AfterProject
  <2> QED BY <2>1, ResolveContextStep, ResolveProjectStep
<1>2. CASE q = Idle
  BY <1>1, <1>2, IdleNeedsNothing, AllowingStill
<1>3. CASE q # Idle
  <2>1. SameKind(q)
    BY <1>1, <1>3, KindGoesOn DEF Moves
  <2>2. HasContextRoom => Cardinality(Contexts) < ContextLimit
    BY DEF HasContextRoom, Contexts
  <2>3. HasProjectRoom => Cardinality(Counted) < ProjectLimit
    <3>1. Cardinality(ProjectIds \cap LivePlaces) \in Nat
          /\ Cardinality(Counted) <= Cardinality(ProjectIds \cap LivePlaces)
      <4>1. IsFiniteSet(ProjectIds \cap LivePlaces)
        BY Limits, FS_Subset DEF LivePlaces
      <4> QED BY <4>1, Fewer DEF Counted
    <3> QED BY <3>1, Sizes, Limits DEF HasProjectRoom
  <2>4. Room(q)
    BY <1>1, <1>3, <2>2, <2>3 DEF Room
  <2> QED BY <1>1, <2>1, <2>4, AllowingStill
<1> QED BY <1>2, <1>3

\* A new place: its request had found room for it, or it is the edit of a note.
LEMMA AllowingNewPlace ==
  ASSUME Base, Allowing, NEW r \in Requests, NewContext(r) \/ NewProject(r)
  PROVE  Allowing'
<1>1. KindsStay /\ OfKind("note")' = OfKind("note")
  BY SameItems, NewContextStep, NewProjectStep
<1>2. PICK q \in Request :
        /\ Moves(r, q)
        /\ \/ q = Idle
           \/ /\ q.op = req[r].op /\ q.id = req[r].id /\ q.row.kind = req[r].row.kind
              /\ \/ q.pc \in {"project", "check"}
                 \/ q.pc = "write" /\ q.op = "editNote"
  <2>1. AfterProject(r) = "check" \/ (AfterProject(r) = "write" /\ req[r].op = "editNote")
    BY DEF AfterProject
  <2> QED BY <2>1, NewContextStep, NewProjectStep, IdleType DEF GoesTo
<1>3. (Room(q) /\ SameKind(q))'
  <2>1. CASE q = Idle
    BY <2>1, IdleNeedsNothing
  <2>2. CASE q # Idle
    <3>1. SameKind(q)
      BY <1>2, <2>2, KindGoesOn DEF Moves
    <3>2. SameKind(q)'
      BY <3>1, SameItems, NewContextStep, NewProjectStep DEF SameKind
    <3>3. Room(q)'
      BY <1>2, <2>2 DEF Room
    <3> QED BY <3>2, <3>3
  <2> QED BY <2>1, <2>2
<1>4. req'[r] = q
  BY <1>2, Requesting DEF Moves
<1>5. HandsFull(req[r]) /\ Room(req[r]) /\ (req[r].op \in Owners => holder = r)
  BY Requesting DEF Allowing, Base, Held
<1>6. /\ Cardinality(Contexts) <= ContextLimit /\ Cardinality(Counted) <= ProjectLimit
      /\ Cardinality(OfKind("note")) <= NoteLimit
  BY DEF Allowing, AllowancesHeld, Contexts, Counted
<1>7. ASSUME holder = r, Cardinality(Contexts') <= ContextLimit,
             Cardinality(Counted') <= ProjectLimit
      PROVE  Allowing'
  <2>1. AllowancesHeld'
    BY <1>1, <1>6, <1>7 DEF AllowancesHeld, Contexts, Counted
  <2>2. \A s \in Requests : (Room(req[s]) /\ SameKind(req[s]))'
    <3> TAKE s \in Requests
    <3>1. CASE s = r
      BY <1>3, <1>4, <3>1 DEF Room, SameKind
    <3>2. CASE s # r
      BY <1>1, <1>2, <1>7, <3>2, OthersKeepRoom
    <3> QED BY <3>1, <3>2
  <2> QED BY <2>1, <2>2 DEF Allowing
<1>8. CASE NewContext(r)
  <2>1. PICK c \in ContextIds : place' = [place EXCEPT ![c] = req[r].name]
    BY <1>8, NewContextStep
  <2>2. holder = r /\ Cardinality(Contexts) < ContextLimit /\ UNCHANGED byEdit
    BY <1>5, <1>8, NewContextStep DEF Room, HandsFull, Owners
  <2>3. Contexts' \subseteq Contexts \cup {c} /\ Counted' \subseteq Counted
    BY <2>1, <2>2, Apart DEF Contexts, Counted, LivePlaces, Base, Typed, TypeOK
  <2>4. Cardinality(Contexts') <= ContextLimit
    BY <2>2, <2>3, Sizes, OneMore, Limits
  <2>5. Cardinality(Counted') <= ProjectLimit
    BY <1>6, <2>3, Sizes, SizesPrime, Fewer, Limits
  <2> QED BY <1>7, <2>2, <2>4, <2>5
<1>9. CASE NewProject(r)
  <2>1. PICK p \in ProjectIds :
          /\ place' = [place EXCEPT ![p] = req[r].name]
          /\ \/ req[r].op # "editNote" /\ byEdit' = byEdit
             \/ req[r].op = "editNote" /\ byEdit' = byEdit \cup {p}
    BY <1>9, NewProjectStep
  <2>2. Contexts' \subseteq Contexts /\ Counted' \subseteq Counted \cup {p}
    BY <2>1, Apart DEF Contexts, Counted, LivePlaces, Base, Typed, TypeOK
  <2>3. CASE req[r].op = "editNote"
    <3>1. Counted' \subseteq Counted
      BY <2>1, <2>3, Apart DEF Counted, LivePlaces, Base, Typed, TypeOK
    <3> QED BY <1>1, <1>2, <1>3, <2>2, <3>1, AllowingKept
  <2>4. CASE req[r].op # "editNote"
    <3>1. holder = r /\ Cardinality(Counted) < ProjectLimit
      BY <1>5, <1>9, <2>4, NewProjectStep DEF Room, HandsFull, Owners
    <3>2. Cardinality(Counted') <= ProjectLimit
      BY <2>2, <3>1, Sizes, OneMore, Limits
    <3>3. Cardinality(Contexts') <= ContextLimit
      BY <1>6, <2>2, Sizes, SizesPrime, Fewer, Limits
    <3> QED BY <1>7, <3>1, <3>2, <3>3
  <2> QED BY <2>3, <2>4
<1> QED BY <1>8, <1>9

\* The write of an item: a new note had room, any other row keeps its kind.
LEMMA AllowingWrite ==
  ASSUME Base, Allowing, NEW r \in Requests, WriteItem(r)
  PROVE  Allowing'
<1>1. UNCHANGED <<place, byEdit>> /\ req[r].pc = "write" /\ req[r].row \in Row
  BY WriteItemStep
<1>2. HandsFull(req[r]) /\ Room(req[r]) /\ SameKind(req[r]) /\ (req[r].op \in Owners => holder = r)
  BY Requesting DEF Allowing, Base, Held
<1>3. CASE UNCHANGED <<items, raced>> /\ Moves(r, Idle)
  BY <1>1, <1>3, SameItems, AllowingItems
<1>4. CASE /\ req[r].op # "create" /\ req[r].id \in LiveItems /\ Put(req[r].id, req[r].row)
           /\ Moves(r, Idle)
  <2>1. req[r].id \in ItemIds /\ items[req[r].id].kind = req[r].row.kind
        /\ items[req[r].id] # None
    BY <1>1, <1>2, <1>4 DEF HandsFull, SameKind, LiveItems
  <2>2. KindsStay /\ OfKind("note")' \subseteq OfKind("note")
    BY <1>1, <1>4, <2>1, PutKinds
  <2> QED BY <1>1, <1>4, <2>2, AllowingItems
<1>5. ASSUME req[r].op = "create", NEW i \in ItemIds, items[i] = None, Put(i, req[r].row),
             NEW q \in Request, Moves(r, q),
             \/ q = Idle
             \/ q.id = i /\ q.op = "create" /\ q.pc = "spawn" /\ q.row = req[r].row
      PROVE  Allowing'
  <2>1. /\ KindsStay /\ OfKind("note")' \subseteq OfKind("note") \cup {i}
        /\ req[r].row.kind # "note" => OfKind("note")' \subseteq OfKind("note")
        /\ items'[i] = req[r].row
    BY <1>1, <1>5, PutKinds
  <2>2. (Room(q) /\ SameKind(q))'
    <3>1. CASE q = Idle
      BY <3>1, IdleNeedsNothing
    <3>2. CASE q # Idle
      <4>1. req[r].row # None
        BY <1>1, NotRows DEF Row
      <4> QED BY <1>5, <2>1, <3>2, <4>1 DEF Room, SameKind
    <3> QED BY <3>1, <3>2
  <2>3. CASE req[r].row.kind # "note"
    BY <1>1, <1>5, <2>1, <2>2, <2>3, SamePlaces, AllowingKept
  <2>4. CASE req[r].row.kind = "note"
    <3>1. holder = r /\ Cardinality(OfKind("note")) < NoteLimit
      BY <1>1, <1>2, <1>5, <2>4 DEF Room, Owners
    <3>2. Cardinality(OfKind("note")') <= NoteLimit
      BY <2>1, <3>1, Sizes, OneMore, Limits
    <3>3. AllowancesHeld'
      BY <1>1, <3>2, SamePlaces DEF AllowancesHeld, Allowing, Contexts, Counted
    <3>4. req'[r] = q
      BY <1>5, Requesting DEF Moves
    <3>5. \A s \in Requests : (Room(req[s]) /\ SameKind(req[s]))'
      <4> TAKE s \in Requests
      <4>1. CASE s = r
        BY <2>2, <3>4, <4>1 DEF Room, SameKind
      <4>2. CASE s # r
        BY <1>5, <2>1, <3>1, <4>2, OthersKeepRoom
      <4> QED BY <4>1, <4>2
    <3> QED BY <3>3, <3>5 DEF Allowing
  <2> QED BY <2>3, <2>4
<1>6. CASE req[r].op = "create" /\ \E i \in ItemIds : /\ items[i] = None /\ Put(i, req[r].row)
                                                      /\ \/ Moves(r, Idle)
                                                         \/ \E q \in Request :
                                                              /\ Moves(r, q) /\ q.id = i
                                                              /\ q.op = "create" /\ q.pc = "spawn"
                                                              /\ q.row = req[r].row
  <2> PICK i \in ItemIds, q \in Request :
         /\ items[i] = None /\ Put(i, req[r].row) /\ Moves(r, q)
         /\ \/ q = Idle
            \/ q.id = i /\ q.op = "create" /\ q.pc = "spawn" /\ q.row = req[r].row
    BY <1>6, IdleType
  <2> QED BY <1>5, <1>6
<1> QED BY <1>3, <1>4, <1>6, WriteItemStep

LEMMA AllowingSpawn ==
  ASSUME Base, Allowing, NEW r \in Requests, SpawnTodo(r) \/ SavePattern(r)
  PROVE  Allowing'
<1>1. UNCHANGED <<place, byEdit>> /\ req[r].pc \in {"spawn", "save"}
  BY SpawnTodoStep, SavePatternStep
<1>2. HandsFull(req[r]) /\ SameKind(req[r]) /\ req[r].id \in ItemIds
  BY <1>1, Requesting DEF Allowing, HandsFull
<1>3. KindsStay /\ OfKind("note")' \subseteq OfKind("note")
  <2>1. CASE UNCHANGED <<items, raced>>
    BY <2>1, SameItems
  <2>2. CASE \E i \in ItemIds, row \in Row : items[i] = None /\ row.kind = "todo" /\ Put(i, row)
    BY <2>2, PutKinds
  <2>3. CASE req[r].id \in LiveItems /\ req[r].row \in Row /\ Put(req[r].id, req[r].row)
    <3>1. items[req[r].id].kind = req[r].row.kind /\ items[req[r].id] # None
      BY <1>1, <1>2, <2>3 DEF SameKind
    <3> QED BY <1>2, <2>3, <3>1, PutKinds
  <2> QED BY <2>1, <2>2, <2>3, SpawnTodoStep, SavePatternStep
<1>4. CASE Moves(r, Idle)
  BY <1>1, <1>3, <1>4, AllowingItems
<1>5. CASE GoesTo(r, "save")
  <2> PICK q \in Request : /\ Moves(r, q) /\ q.op = req[r].op /\ q.id = req[r].id
                           /\ q.row.kind = req[r].row.kind /\ q.pc = "save"
    BY <1>5 DEF GoesTo
  <2>1. SameKind(q)'
    BY <1>1, <1>2, <1>3 DEF SameKind, KindsStay
  <2>2. Room(q)'
    BY DEF Room
  <2> QED BY <1>1, <1>3, <2>1, <2>2, AllowingItems
<1> QED BY <1>4, <1>5, SpawnTodoStep, SavePatternStep

\* A request begins.
LEMMA AllowingBegins ==
  ASSUME Base, Allowing, NEW r \in Requests,
         \/ \E kind \in {"todo", "pattern", "note"} : CreateItem(r, kind)
         \/ \E i \in ItemIds : UpdateItem(r, i) \/ EditNote(r, i) \/ TouchTodo(r, i) \/ SpawnFor(r, i)
         \/ \E x \in Places : EditPlace(r, x)
         \/ \E c \in ContextIds : DeleteContext(r, c)
         \/ \E p \in ProjectIds : DeleteProject(r, p)
         \/ AddPlace(r)
  PROVE  Allowing'
<1>1. ASSUME NEW q \in Request, Moves(r, q), Still,
             q.op \in {"create", "addPlace", "editPlace", "dropContext", "dropProject"},
             q.pc \in {"context", "project", "rename", "count", "refused", "todos"}
             \/ (q.pc = "newContext" /\ HasContextRoom) \/ (q.pc = "newProject" /\ HasProjectRoom)
      PROVE  Allowing'
  <2>1. HasContextRoom => Cardinality(Contexts) < ContextLimit
    BY DEF HasContextRoom, Contexts
  <2>2. HasProjectRoom => Cardinality(Counted) < ProjectLimit
    <3>1. Cardinality(ProjectIds \cap LivePlaces) \in Nat
          /\ Cardinality(Counted) <= Cardinality(ProjectIds \cap LivePlaces)
      <4>1. IsFiniteSet(ProjectIds \cap LivePlaces)
        BY Limits, FS_Subset DEF LivePlaces
      <4> QED BY <4>1, Fewer DEF Counted
    <3> QED BY <3>1, Sizes, Limits DEF HasProjectRoom
  <2>3. Room(q) /\ SameKind(q)
    BY <1>1, <2>1, <2>2 DEF Room, SameKind
  <2> QED BY <1>1, <2>3, AllowingStill
<1>2. ASSUME NEW kind \in {"todo", "pattern", "note"}, CreateItem(r, kind) PROVE Allowing'
  BY <1>1, <1>2, CreateItemStep
<1>3. ASSUME NEW i \in ItemIds,
             UpdateItem(r, i) \/ EditNote(r, i) \/ TouchTodo(r, i) \/ SpawnFor(r, i)
      PROVE  Allowing'
  <2>1. PICK q \in Request :
              /\ Moves(r, q) /\ q.id = i /\ q.row = items[i] /\ Still
              /\ q.op \in {"update", "editNote", "touch", "spawn"}
              /\ q.pc \in {"context", "project", "write", "spawn"}
    BY <1>3, ReadStep
  <2>2. items[i] # None
    BY <1>3 DEF UpdateItem, EditNote, TouchTodo, SpawnFor, OfKind, LiveItems
  <2>3. Room(q) /\ SameKind(q)
    BY <2>1, <2>2 DEF Room, SameKind
  <2> QED BY <2>1, <2>3, AllowingStill
<1>4. ASSUME NEW x \in Places, EditPlace(r, x) PROVE Allowing'
  BY <1>1, <1>4, EditPlaceStep
<1>5. ASSUME NEW c \in ContextIds, DeleteContext(r, c) PROVE Allowing'
  BY <1>1, <1>5, DeleteContextStep
<1>6. ASSUME NEW p \in ProjectIds, DeleteProject(r, p) PROVE Allowing'
  BY <1>1, <1>6, DeleteProjectStep
<1>7. CASE AddPlace(r)
  BY <1>1, <1>7, AddPlaceStep
<1> QED BY <1>2, <1>3, <1>4, <1>5, <1>6, <1>7

\* The statements of a delete, and what ends a request.
LEMMA AllowingEnds ==
  ASSUME Base, Allowing, NEW r \in Requests,
         \/ CheckRefs(r) \/ WritePlace(r) \/ CountContext(r) \/ ListContext(r) \/ PurgeTodo(r)
         \/ PurgePatterns(r) \/ DetachTodos(r) \/ DetachPatterns(r) \/ SettleNotes(r)
         \/ DropPlace(r) \/ Refused(r) \/ Abort(r)
  PROVE  Allowing'
<1>1. CASE CheckRefs(r)
  <2>1. CASE Moves(r, Idle)
    BY <1>1, <2>1, CheckRefsStep, IdleNeedsNothing, AllowingStill
  <2>2. CASE (req[r].row.kind = "note" => HasNoteRoom) /\ GoesTo(r, "write")
    <3> PICK q \in Request : /\ Moves(r, q) /\ q.op = req[r].op /\ q.id = req[r].id
                             /\ q.row.kind = req[r].row.kind /\ q.pc = "write"
      BY <2>2 DEF GoesTo
    <3>1. SameKind(q)
      BY KindGoesOn DEF Moves
    <3>2. Room(q)
      BY <2>2 DEF Room, HasNoteRoom
    <3> QED BY <1>1, <3>1, <3>2, CheckRefsStep, AllowingStill
  <2> QED BY <1>1, <2>1, <2>2, CheckRefsStep
<1>2. ASSUME NEW pc \in {"list", "purge", "drop", "refused", "patterns", "notes"}, NEW batch,
             req[r].op \in {"dropContext", "dropProject"}, GoesOn(r, pc, batch)
      PROVE  \E q \in Request : Moves(r, q) /\ Room(q) /\ SameKind(q) /\ (Room(q) /\ SameKind(q))'
  <2> PICK q \in Request : /\ Moves(r, q) /\ q.op = req[r].op /\ q.id = req[r].id
                           /\ q.pc = pc /\ q.batch = batch
    BY <1>2 DEF GoesOn
  <2> QED BY <1>2 DEF Room, SameKind
<1>3. CASE CountContext(r) \/ ListContext(r)
  <2>1. Still /\ \E q \in Request : Moves(r, q) /\ Room(q) /\ SameKind(q)
    BY <1>2, <1>3, CountContextStep, ListContextStep
  <2> QED BY <2>1, AllowingStill
<1>4. CASE PurgeTodo(r) \/ PurgePatterns(r) \/ DetachTodos(r) \/ DetachPatterns(r) \/ SettleNotes(r)
  <2>1. UNCHANGED <<place, byEdit>>
    BY <1>4, PurgeTodoStep, PurgePatternsStep, DetachStep
  <2>2. KindsStay /\ OfKind("note")' \subseteq OfKind("note")
    BY <1>4, PurgeTodoStep, PurgePatternsStep, DetachStep, RemovedKinds, DetachedKinds, SameItems
  <2>3. Moves(r, Idle) \/ \E q \in Request : Moves(r, q) /\ (Room(q) /\ SameKind(q))'
    <3>1. /\ req[r].op \in {"dropContext", "dropProject"}
          /\ \/ Moves(r, Idle)
             \/ \E pc \in {"purge", "drop", "patterns", "notes"} : \E batch : GoesOn(r, pc, batch)
      <4>1. CASE PurgeTodo(r)
        BY <4>1, PurgeTodoStep
      <4>2. CASE PurgePatterns(r)
        BY <4>2, PurgePatternsStep
      <4>3. CASE DetachTodos(r) \/ DetachPatterns(r) \/ SettleNotes(r)
        BY <4>3, DetachStep
      <4> QED BY <1>4, <4>1, <4>2, <4>3
    <3> QED BY <1>2, <3>1
  <2>4. CASE Moves(r, Idle)
    BY <2>1, <2>2, <2>4, AllowingItems
  <2>5. CASE \E q \in Request : Moves(r, q) /\ (Room(q) /\ SameKind(q))'
    BY <2>1, <2>2, <2>5, AllowingItems
  <2> QED BY <2>3, <2>4, <2>5
<1>5. CASE WritePlace(r) \/ DropPlace(r)
  <2>1. Moves(r, Idle) /\ items' = items
    BY <1>5, WritePlaceStep, DropPlaceStep
  <2>2. Contexts' \subseteq Contexts /\ Counted' \subseteq Counted
    <3>1. CASE DropPlace(r)
      BY <3>1, DropPlaceStep DEF Contexts, Counted, LivePlaces, Base, Typed, TypeOK
    <3>2. CASE WritePlace(r)
      BY <3>2, WritePlaceStep DEF Contexts, Counted, LivePlaces, Base, Typed, TypeOK
    <3> QED BY <1>5, <3>1, <3>2
  <2> QED BY <2>1, <2>2, SameItems, IdleNeedsNothing, AllowingKept
<1>6. CASE Refused(r) \/ Abort(r)
  BY <1>6, EndStep, IdleNeedsNothing, AllowingStill
<1> QED BY <1>1, <1>3, <1>4, <1>5, <1>6

LEMMA AllowingStep == ASSUME Base, Allowing, [Next]_vars PROVE Allowing'
<1>1. CASE UNCHANGED vars
  BY <1>1 DEF vars, Allowing, AllowancesHeld, Room, SameKind, Contexts, Counted, OfKind,
              LivePlaces, LiveItems
<1>2. ASSUME NEW i \in ItemIds, DeleteItem(i) PROVE Allowing'
  <2>1. UNCHANGED <<place, req, byEdit>> /\ KindsStay /\ OfKind("note")' \subseteq OfKind("note")
    BY <1>2, DeleteItemStep, RemovedKinds
  <2>2. CASE Requests = {}
    <3>1. Cardinality(OfKind("note")') <= NoteLimit
      BY <2>1, Sizes, SizesPrime, Fewer, Limits DEF Allowing, AllowancesHeld
    <3> QED BY <2>1, <2>2, <3>1, SamePlaces DEF Allowing, AllowancesHeld, Contexts, Counted
  <2>3. CASE Requests # {}
    <3> PICK r \in Requests : TRUE
      BY <2>3
    <3>1. Moves(r, req[r])
      BY <2>1, Requesting DEF Moves
    <3>2. req[r].op \in {"update", "editNote", "touch", "spawn"} \/ req[r].pc \in {"spawn", "save"}
          => req[r].id \in ItemIds
      BY Requesting DEF HandsFull
    <3>3. Cardinality(OfKind("note")') <= Cardinality(OfKind("note"))
      BY <2>1, Sizes, Fewer
    <3>4. Room(req[r]) /\ SameKind(req[r])
      BY DEF Allowing
    <3> DEFINE q == req[r]
    <3>5. (Room(req[r]) /\ SameKind(req[r]))'
      <4>1. Room(req[r])'
        BY <2>1, <3>3, <3>4, Sizes, SizesPrime, SamePlaces, Limits DEF Room
      <4>2. SameKind(req[r])'
        BY <2>1, <3>2, <3>4 DEF SameKind, KindsStay
      <4> QED BY <4>1, <4>2
    <3>6. \A s \in Requests : (Room(req[s]) /\ SameKind(req[s]))'
      BY <2>1, <3>1, <3>5, SamePlaces, OthersKeepRoom
    <3>7. Cardinality(OfKind("note")') <= NoteLimit
      BY <3>3, Sizes, SizesPrime, Limits DEF Allowing, AllowancesHeld
    <3> QED BY <2>1, <3>6, <3>7, SamePlaces DEF Allowing, AllowancesHeld, Contexts, Counted
  <2> QED BY <2>2, <2>3
<1>3. ASSUME NEW r \in Requests, Step(r) PROVE Allowing'
  BY <1>3, AllowingBegins, AllowingResolved, AllowingNewPlace, AllowingWrite, AllowingSpawn,
     AllowingEnds
  DEF Step
<1> QED BY <1>1, <1>2, <1>3 DEF Next

LEMMA AllowingInit == Init => Allowing
<1> SUFFICES ASSUME Init PROVE Allowing
  OBVIOUS
<1>1. AllowancesHeld
  <2>1. (ProjectIds \cap LivePlaces) \ byEdit = ProjectIds \cap LivePlaces
    BY DEF Init
  <2> QED BY <2>1 DEF Init, AllowancesHeld
<1>2. \A r \in Requests : req[r] = Idle
  BY DEF Init
<1> QED BY <1>1, <1>2, IdleNeedsNothing DEF Allowing

\* The allowances of contexts, projects and notes hold (QuotaService.Guard around every
\* check and its insert), for any number of requests, names and rows, not counting the
\* projects that the edit of a note makes outside the guard.
THEOREM Allowances == Spec => []AllowancesHeld
<1>1. Init => Base /\ Allowing
  BY BaseInit, AllowingInit
<1>2. Base /\ Allowing /\ [Next]_vars => (Base /\ Allowing)'
  BY BaseStep, AllowingStep
<1> QED BY <1>1, <1>2, PTL DEF Spec, Allowing

-----------------------------------------------------------------------------
(* Names *)

\* Who is about to make a place for a name knows of no other that was made for it.
Unnamed(q) ==
  /\ q.pc = "newContext" /\ q.op \in {"create", "update"}
       => \A x \in named \cap ContextIds : place[x] # q.name
  /\ q.pc = "newProject" /\ q.op \in {"create", "update"}
       => \A x \in named \cap ProjectIds : place[x] # q.name

Naming == NamesResolveOnce /\ named \subseteq LivePlaces /\ \A r \in Requests : Unnamed(req[r])

LEMMA NamingKept ==
  ASSUME Base, Naming, NEW r \in Requests, NEW q, Moves(r, q), Unnamed(q)',
         named' \subseteq named, \A x \in named' : place'[x] = place[x]
  PROVE  Naming'
<1>1. NamesResolveOnce'
  BY DEF Naming, NamesResolveOnce
<1>2. named' \subseteq LivePlaces'
  BY DEF Naming, LivePlaces
<1>3. \A s \in Requests : Unnamed(req[s])'
  <2> TAKE s \in Requests
  <2>1. CASE s = r
    <3>1. req'[s] = q
      BY <2>1, Requesting DEF Moves
    <3> QED BY <3>1 DEF Unnamed
  <2>2. CASE s # r
    <3>1. req'[s] = req[s] /\ Unnamed(req[s])
      BY <2>2, Requesting DEF Moves, Naming
    <3> QED BY <3>1 DEF Unnamed
  <2> QED BY <2>1, <2>2
<1> QED BY <1>1, <1>2, <1>3 DEF Naming

\* Nothing is named by a step that makes no place.
LEMMA NamingStays ==
  ASSUME Base, Naming, NEW r \in Requests, NEW q, Moves(r, q), UNCHANGED <<place, named>>,
         q.pc \notin {"newContext", "newProject"} \/ q.op \notin {"create", "update"} \/ Unnamed(q)
  PROVE  Naming'
<1>1. Unnamed(q)'
  BY DEF Unnamed
<1> QED BY <1>1, NamingKept

LEMMA NamingResolved ==
  ASSUME Base, Naming, NEW r \in Requests, ResolveContext(r) \/ ResolveProject(r)
  PROVE  Naming'
<1>1. UNCHANGED <<place, named>>
  BY ResolveContextStep, ResolveProjectStep DEF Still, ghosts
<1>2. PICK q \in Request :
        /\ Moves(r, q)
        /\ \/ q.pc \notin {"newContext", "newProject"}
           \/ q.pc = "newContext" /\ Called(q.name, ContextIds) = {}
           \/ q.pc = "newProject" /\ Called(q.name, ProjectIds) = {}
  BY ResolveContextStep, ResolveProjectStep DEF AfterProject, Idle
<1>3. q.pc \notin {"newContext", "newProject"} \/ Unnamed(q)
  BY <1>2 DEF Unnamed, Naming, Called
<1> QED BY <1>1, <1>2, <1>3, NamingStays

\* The holder of the guard makes a place, for a name that no other was made for.
LEMMA NamingNewPlace ==
  ASSUME Base, Naming, NEW r \in Requests, NewContext(r) \/ NewProject(r)
  PROVE  Naming'
<1>1. HandsFull(req[r]) /\ Unnamed(req[r]) /\ (req[r].op \in Owners => holder = r)
      /\ req[r].name \in Names
  BY Requesting, NewContextStep, NewProjectStep DEF Naming, Base, Held, HandsFull
<1>2. PICK x \in Places :
        /\ place[x] = None /\ place' = [place EXCEPT ![x] = req[r].name]
        /\ \/ named' = named
           \/ /\ req[r].op \in {"create", "update"} /\ named' = named \cup {x}
              /\ \/ req[r].pc = "newContext" /\ x \in ContextIds
                 \/ req[r].pc = "newProject" /\ x \in ProjectIds
  BY NewContextStep, NewProjectStep DEF Places
<1>3. x \notin named /\ \A y \in named : place'[y] = place[y]
  BY <1>2 DEF Naming, LivePlaces, Base, Typed, TypeOK
<1>4. PICK q \in Request : Moves(r, q) /\ q.pc \notin {"newContext", "newProject"}
  <2>1. Idle.pc = "idle"
    BY DEF Idle
  <2> QED BY <2>1, NewContextStep, NewProjectStep, IdleType DEF GoesTo, AfterProject
<1>5. CASE named' = named
  <2>1. Unnamed(q)'
    BY <1>4 DEF Unnamed
  <2> QED BY <1>3, <1>4, <1>5, <2>1, NamingKept
<1>6. CASE /\ req[r].op \in {"create", "update"} /\ named' = named \cup {x}
           /\ \/ req[r].pc = "newContext" /\ x \in ContextIds
              \/ req[r].pc = "newProject" /\ x \in ProjectIds
  <2>1. place'[x] = req[r].name /\ x \in LivePlaces'
    BY <1>1, <1>2, Apart DEF Base, Typed, TypeOK, LivePlaces
  <2>2. \A y \in named : {x, y} \subseteq ContextIds \/ {x, y} \subseteq ProjectIds
                         => place'[y] # place'[x]
    BY <1>1, <1>3, <1>6, <2>1, Apart DEF Unnamed
  <2>3. NamesResolveOnce'
    <3> SUFFICES ASSUME NEW y \in named', NEW z \in named',
                        {y, z} \subseteq ContextIds \/ {y, z} \subseteq ProjectIds,
                        place'[y] = place'[z]
                 PROVE  y = z
      BY DEF NamesResolveOnce
    <3>1. CASE y \in named /\ z \in named
      BY <1>3, <3>1 DEF Naming, NamesResolveOnce
    <3>2. CASE y = x \/ z = x
      BY <1>6, <2>2, <3>2
    <3> QED BY <1>6, <3>1, <3>2
  <2>4. named' \subseteq LivePlaces'
    BY <1>3, <1>6, <2>1 DEF Naming, LivePlaces
  <2>5. \A s \in Requests : Unnamed(req[s])'
    <3> TAKE s \in Requests
    <3>1. CASE s = r
      <4>1. req'[s] = q
        BY <1>4, <3>1, Requesting DEF Moves
      <4> QED BY <1>4, <4>1 DEF Unnamed
    <3>2. CASE s # r
      <4>1. req'[s] = req[s] /\ req[s].op \notin {"create", "update"}
        BY <1>1, <1>4, <1>6, <3>2, Requesting DEF Moves, Base, Held, Owners
      <4> QED BY <4>1 DEF Unnamed
    <3> QED BY <3>1, <3>2
  <2> QED BY <2>3, <2>4, <2>5 DEF Naming
<1> QED BY <1>2, <1>5, <1>6

LEMMA NamingStep == ASSUME Base, Naming, [Next]_vars PROVE Naming'
<1>1. CASE UNCHANGED vars
  BY <1>1 DEF vars, Naming, NamesResolveOnce, Unnamed, LivePlaces
<1>2. ASSUME NEW i \in ItemIds, DeleteItem(i) PROVE Naming'
  BY <1>2, DeleteItemStep DEF Naming, NamesResolveOnce, Unnamed, LivePlaces
<1>3. ASSUME NEW r \in Requests,
             UNCHANGED <<place, named>>,
             \E q \in Request : Moves(r, q) /\ (q.pc \notin {"newContext", "newProject"}
                                               \/ q.op \notin {"create", "update"})
      PROVE  Naming'
  BY <1>3, NamingStays
<1>4. /\ Idle \in Request /\ Idle.pc \notin {"newContext", "newProject"}
      /\ Still => UNCHANGED <<place, named>>
  BY IdleType DEF Idle, Still, ghosts
<1>5. ASSUME NEW r \in Requests, NEW i \in ItemIds,
             UpdateItem(r, i) \/ EditNote(r, i) \/ TouchTodo(r, i) \/ SpawnFor(r, i)
      PROVE  Naming'
  BY <1>3, <1>4, <1>5, ReadStep
<1>6. ASSUME NEW r \in Requests, NEW kind \in {"todo", "pattern", "note"}, CreateItem(r, kind)
      PROVE  Naming'
  BY <1>3, <1>4, <1>6, CreateItemStep
<1>7. ASSUME NEW r \in Requests, NEW x \in Places, EditPlace(r, x) PROVE Naming'
  BY <1>3, <1>4, <1>7, EditPlaceStep
<1>8. ASSUME NEW r \in Requests, NEW c \in ContextIds, DeleteContext(r, c) PROVE Naming'
  BY <1>3, <1>4, <1>8, DeleteContextStep
<1>9. ASSUME NEW r \in Requests, NEW p \in ProjectIds, DeleteProject(r, p) PROVE Naming'
  BY <1>3, <1>4, <1>9, DeleteProjectStep
<1>10. ASSUME NEW r \in Requests, AddPlace(r) PROVE Naming'
  BY <1>3, <1>4, <1>10, AddPlaceStep
<1>11. ASSUME NEW r \in Requests, CheckRefs(r) PROVE Naming'
  BY <1>3, <1>4, <1>11, CheckRefsStep DEF GoesTo
<1>12. ASSUME NEW r \in Requests, WriteItem(r) \/ SpawnTodo(r) \/ SavePattern(r) PROVE Naming'
  <2>1. UNCHANGED <<place, named>>
    BY <1>12, WriteItemStep, SpawnTodoStep, SavePatternStep
  <2>2. \E q \in Request : Moves(r, q) /\ q.pc \notin {"newContext", "newProject"}
    BY <1>4, <1>12, WriteItemStep, SpawnTodoStep, SavePatternStep DEF GoesTo
  <2> QED BY <1>3, <2>1, <2>2
<1>13. ASSUME NEW r \in Requests,
              \/ CountContext(r) \/ ListContext(r) \/ PurgeTodo(r) \/ PurgePatterns(r)
              \/ DetachTodos(r) \/ DetachPatterns(r) \/ SettleNotes(r)
       PROVE  Naming'
  <2>1. UNCHANGED <<place, named>>
    BY <1>4, <1>13, CountContextStep, ListContextStep, PurgeTodoStep, PurgePatternsStep, DetachStep
  <2>2. \/ Moves(r, Idle)
        \/ \E pc \in {"list", "refused", "purge", "drop", "patterns", "notes"} :
             \E batch : GoesOn(r, pc, batch)
    <3>1. CASE CountContext(r) \/ ListContext(r)
      BY <3>1, CountContextStep, ListContextStep
    <3>2. CASE PurgeTodo(r) \/ PurgePatterns(r)
      BY <3>2, PurgeTodoStep, PurgePatternsStep
    <3>3. CASE DetachTodos(r) \/ DetachPatterns(r) \/ SettleNotes(r)
      BY <3>3, DetachStep
    <3> QED BY <1>13, <3>1, <3>2, <3>3
  <2>3. \E q \in Request : Moves(r, q) /\ q.pc \notin {"newContext", "newProject"}
    BY <1>4, <2>2 DEF GoesOn
  <2> QED BY <1>3, <2>1, <2>3
<1>14. ASSUME NEW r \in Requests, WritePlace(r) \/ DropPlace(r) PROVE Naming'
  <2>1. Moves(r, Idle)
    BY <1>14, WritePlaceStep, DropPlaceStep
  <2>2. named' \subseteq named /\ \A x \in named' : place'[x] = place[x]
    <3>1. CASE WritePlace(r)
      BY <3>1, WritePlaceStep DEF Base, Typed, TypeOK, LivePlaces
    <3>2. CASE DropPlace(r)
      BY <3>2, DropPlaceStep DEF Base, Typed, TypeOK
    <3> QED BY <1>14, <3>1, <3>2
  <2>3. Unnamed(Idle)'
    BY DEF Unnamed, Idle
  <2> QED BY <2>1, <2>2, <2>3, NamingKept
<1>15. ASSUME NEW r \in Requests, Refused(r) \/ Abort(r) PROVE Naming'
  BY <1>3, <1>4, <1>15, EndStep
<1>16. ASSUME NEW r \in Requests, Step(r) PROVE Naming'
  BY <1>5, <1>6, <1>7, <1>8, <1>9, <1>10, <1>11, <1>12, <1>13, <1>14, <1>15, <1>16,
     NamingResolved, NamingNewPlace
  DEF Step
<1> QED BY <1>1, <1>2, <1>16 DEF Next

LEMMA NamingInit == Init => Naming
BY DEF Init, Naming, NamesResolveOnce, Unnamed, Idle

\* Guarded requests that type the same new name file under one place (nameResolver in
\* resolve.go, called under the guard), however many they are.  Not covered, as in
\* NamesResolveOnce: a project made by the edit of a note, which takes no guard.
THEOREM OnePlacePerName == Spec => []NamesResolveOnce
<1>1. Init => Base /\ Naming
  BY BaseInit, NamingInit
<1>2. Base /\ Naming /\ [Next]_vars => (Base /\ Naming)'
  BY BaseStep, NamingStep
<1> QED BY <1>1, <1>2, PTL DEF Spec, Naming

-----------------------------------------------------------------------------
(* References *)

\* Rows that refer to x and were not last written while x was being deleted.
Loose(kind, x) == {i \in OfKind(kind) : x \in Refs(items[i]) /\ <<i, x>> \notin raced}

\* How far a delete has emptied its place.
Cleared(q) ==
  /\ q.op = "dropContext" =>
       /\ q.pc \in {"count", "purge"} => Loose("todo", q.id) \subseteq q.batch
       /\ q.pc = "drop" => Loose("todo", q.id) = {} /\ Loose("pattern", q.id) = {}
  /\ q.op = "dropProject" =>
       /\ q.pc \in {"todos", "patterns"} => Loose("note", q.id) \subseteq q.batch
       /\ q.pc \in {"patterns", "notes", "drop"} => Loose("todo", q.id) = {}
       /\ q.pc \in {"notes", "drop"} => Loose("pattern", q.id) = {}
       /\ q.pc = "drop" => Loose("note", q.id) = {}

Leading == ReferencesLead /\ \A r \in Requests : Cleared(req[r])

\* The rows that hold up the delete of x only become fewer.
Shrinks(x) == \A kind : Loose(kind, x)' \subseteq Loose(kind, x)

LEMMA RefsOf ==
  ASSUME NEW row \in Row
  PROVE  /\ Refs(row) \subseteq Places
         /\ \A c \in ContextIds : c \in Refs(row) <=> row.ctx = c
         /\ \A p \in ProjectIds : p \in Refs(row) <=> row.proj = p
<1>1. row.ctx \in ContextIds \cup {None} /\ row.proj \in ProjectIds \cup {None}
  BY DEF Row, Item
<1> QED BY <1>1, Apart DEF Refs, Places

LEMMA PutShrinks ==
  ASSUME Base, NEW i \in ItemIds, NEW row \in Row, Put(i, row), NEW x, Deleting(x)
  PROVE  Shrinks(x)
<1>1. SUFFICES ASSUME NEW kind, NEW j \in Loose(kind, x)' PROVE j \in Loose(kind, x)
  BY DEF Shrinks
<1>2. /\ j \in ItemIds /\ items'[j] \notin {None, Gone} /\ items'[j].kind = kind
      /\ x \in Refs(items'[j]) /\ <<j, x>> \notin raced'
  BY <1>1 DEF Loose, OfKind, LiveItems
<1>3. items' = [items EXCEPT ![i] = row] /\ items \in [ItemIds -> Row \cup {None, Gone}]
  BY DEF Put, Base, Typed
<1>4. CASE j = i
  <2>1. x \in Refs(row)
    BY <1>2, <1>3, <1>4
  <2>2. <<i, x>> \in Races(i, row)
    BY <2>1 DEF Races
  <2> QED BY <1>2, <1>4, <2>2 DEF Put
<1>5. CASE j # i
  <2>1. items'[j] = items[j]
    BY <1>2, <1>3, <1>5
  <2>2. <<j, x>> \notin raced
    BY <1>2, <1>5 DEF Put
  <2> QED BY <1>2, <2>1, <2>2 DEF Loose, OfKind, LiveItems
<1> QED BY <1>4, <1>5

LEMMA RemovedShrinks ==
  ASSUME Base, NEW set, Removed(set)
  PROVE  /\ \A x : Shrinks(x)
         /\ \A kind, x : Loose(kind, x)' \cap set = {}
<1>1. \A i \in ItemIds : items'[i] = IF i \in set THEN Gone ELSE items[i]
  BY DEF Removed
<1>2. \A i \in ItemIds : items'[i] \notin {None, Gone} => i \notin set /\ items'[i] = items[i]
  BY <1>1
<1>3. ASSUME NEW kind, NEW x, NEW j \in Loose(kind, x)'
      PROVE  j \in Loose(kind, x) /\ j \notin set
  <2>1. /\ j \in ItemIds /\ items'[j] \notin {None, Gone} /\ items'[j].kind = kind
        /\ x \in Refs(items'[j]) /\ <<j, x>> \notin raced'
    BY <1>3 DEF Loose, OfKind, LiveItems
  <2>2. j \notin set /\ items'[j] = items[j]
    BY <1>2, <2>1
  <2>3. <<j, x>> \notin raced
    BY <2>1, <2>2 DEF Removed
  <2> QED BY <2>1, <2>2, <2>3 DEF Loose, OfKind, LiveItems
<1> QED BY <1>3 DEF Shrinks

LEMMA DetachedRows ==
  ASSUME Base, NEW kind, NEW p \in ProjectIds, Detached(kind, p), NEW i \in ItemIds
  PROVE  \/ /\ i \in InProject(kind, p) /\ i \in LiveItems /\ items'[i] \in Row
            /\ items'[i].kind = items[i].kind
            /\ Refs(items'[i]) \subseteq Refs(items[i]) \ {p}
         \/ i \notin InProject(kind, p) /\ items'[i] = items[i]
<1>1. CASE i \in InProject(kind, p)
  <2>1. i \in LiveItems /\ items[i] \in Row
    BY <1>1, LiveRow DEF InProject, OfKind
  <2>2. items'[i] = [items[i] EXCEPT !.proj = None]
    BY <1>1 DEF Detached
  <2>3. /\ items'[i] \in Row /\ items'[i].kind = items[i].kind /\ items'[i].proj = None
        /\ items'[i].ctx = items[i].ctx
    BY <2>1, <2>2 DEF Row, Item
  <2>4. p \notin Refs(items'[i])
    BY <2>3, RefsOf, Apart DEF Places
  <2> QED BY <1>1, <2>1, <2>3, <2>4 DEF Refs
<1>2. CASE i \notin InProject(kind, p)
  BY <1>2 DEF Detached
<1> QED BY <1>1, <1>2

LEMMA DetachedShrinks ==
  ASSUME Base, NEW kind, NEW p \in ProjectIds, Detached(kind, p)
  PROVE  (\A x : Shrinks(x)) /\ Loose(kind, p)' = {}
<1>1. ASSUME NEW k, NEW x, NEW j \in Loose(k, x)'
      PROVE  j \in Loose(k, x) /\ ~(k = kind /\ x = p)
  <2>1. /\ j \in ItemIds /\ items'[j] \notin {None, Gone} /\ items'[j].kind = k
        /\ x \in Refs(items'[j]) /\ <<j, x>> \notin raced'
    BY <1>1 DEF Loose, OfKind, LiveItems
  <2>2. CASE j \in InProject(kind, p)
    <3>1. /\ j \in LiveItems /\ items'[j].kind = items[j].kind
          /\ x \in Refs(items[j]) /\ x # p
      BY <2>1, <2>2, DetachedRows
    <3>2. <<j, x>> \notin raced
      BY <2>1, <3>1 DEF Detached
    <3> QED BY <2>1, <3>1, <3>2 DEF Loose, OfKind
  <2>3. CASE j \notin InProject(kind, p)
    <3>1. items'[j] = items[j]
      BY <2>1, <2>3, DetachedRows
    <3>2. <<j, x>> \notin raced
      BY <2>1, <2>3 DEF Detached
    <3>3. j \in Loose(k, x) /\ j \in LiveItems /\ j \in OfKind(k)
      BY <2>1, <3>1, <3>2 DEF Loose, OfKind, LiveItems
    <3>4. ~(k = kind /\ x = p)
      BY <2>1, <2>3, <3>1, <3>3, LiveRow, RefsOf DEF InProject
    <3> QED BY <3>3, <3>4
  <2> QED BY <2>2, <2>3
<1> QED BY <1>1 DEF Shrinks

LEMMA ItemsStay ==
  ASSUME UNCHANGED <<items, raced>>
  PROVE  \A kind, x : Loose(kind, x)' = Loose(kind, x)
BY DEF Loose, OfKind, LiveItems

\* Every place that is being deleted by another request stays as empty as it was.
LEMMA OthersCleared ==
  ASSUME Base, Leading, NEW r \in Requests, NEW q, Moves(r, q), Cleared(q)',
         \A x : Deleting(x) => Shrinks(x)
  PROVE  \A s \in Requests : Cleared(req[s])'
<1> TAKE s \in Requests
<1>1. CASE s = r
  <2>1. req'[s] = q
    BY <1>1, Requesting DEF Moves
  <2> QED BY <2>1 DEF Cleared
<1>2. CASE s # r
  <2>1. req'[s] = req[s] /\ Cleared(req[s])
    BY <1>2, Requesting DEF Moves, Leading
  <2>2. CASE req[s].op \in {"dropContext", "dropProject"}
    <3>1. Shrinks(req[s].id)
      BY <2>2 DEF Deleting
    <3> QED BY <2>1, <3>1 DEF Cleared, Shrinks
  <2>3. CASE req[s].op \notin {"dropContext", "dropProject"}
    BY <2>1, <2>3 DEF Cleared
  <2> QED BY <2>2, <2>3
<1> QED BY <1>1, <1>2

\* What becomes of the references themselves.
LEMMA PutLeads ==
  ASSUME Base, ReferencesLead, NEW i \in ItemIds, NEW row \in Row, Put(i, row), place' = place
  PROVE  ReferencesLead'
<1> SUFFICES ASSUME NEW j \in LiveItems', NEW x \in Refs(items'[j])
             PROVE  x \in LivePlaces \/ <<j, x>> \in raced'
  BY DEF ReferencesLead, LivePlaces
<1>1. j \in ItemIds /\ items' = [items EXCEPT ![i] = row]
      /\ items \in [ItemIds -> Row \cup {None, Gone}]
  BY DEF LiveItems, Put, Base, Typed
<1>2. CASE j = i
  <2>1. x \in Refs(row)
    BY <1>1, <1>2
  <2> QED BY <1>2, <2>1 DEF Put, Races
<1>3. CASE j # i
  <2>1. items'[j] = items[j] /\ j \in LiveItems
    BY <1>1, <1>3 DEF LiveItems
  <2>2. x \in LivePlaces \/ <<j, x>> \in raced
    BY <2>1 DEF ReferencesLead
  <2> QED BY <1>3, <2>2 DEF Put
<1> QED BY <1>2, <1>3

LEMMA RemovedLeads ==
  ASSUME Base, ReferencesLead, NEW set, Removed(set), place' = place
  PROVE  ReferencesLead'
<1> SUFFICES ASSUME NEW j \in LiveItems', NEW x \in Refs(items'[j])
             PROVE  x \in LivePlaces \/ <<j, x>> \in raced'
  BY DEF ReferencesLead, LivePlaces
<1>1. j \in ItemIds /\ j \notin set /\ items'[j] = items[j] /\ j \in LiveItems
  BY DEF LiveItems, Removed
<1>2. x \in LivePlaces \/ <<j, x>> \in raced
  BY <1>1 DEF ReferencesLead
<1> QED BY <1>1, <1>2 DEF Removed

LEMMA DetachedLeads ==
  ASSUME Base, ReferencesLead, NEW kind, NEW p \in ProjectIds, Detached(kind, p), place' = place
  PROVE  ReferencesLead'
<1> SUFFICES ASSUME NEW j \in LiveItems', NEW x \in Refs(items'[j])
             PROVE  x \in LivePlaces \/ <<j, x>> \in raced'
  BY DEF ReferencesLead, LivePlaces
<1>1. /\ j \in ItemIds /\ j \in LiveItems /\ x \in Refs(items[j])
      /\ j \in InProject(kind, p) => x # p
  BY DetachedRows DEF LiveItems
<1>2. x \in LivePlaces \/ <<j, x>> \in raced
  BY <1>1 DEF ReferencesLead
<1> QED BY <1>1, <1>2 DEF Detached

LEMMA PlacesLead ==
  ASSUME ReferencesLead, UNCHANGED <<items, raced>>, LivePlaces \subseteq LivePlaces'
  PROVE  ReferencesLead'
BY DEF ReferencesLead, LiveItems

LEMMA LeadingStill ==
  ASSUME Base, Leading, NEW r \in Requests, NEW q, Moves(r, q), UNCHANGED <<items, raced>>,
         LivePlaces \subseteq LivePlaces', Cleared(q)
  PROVE  Leading'
<1>1. \A x : Shrinks(x)
  BY ItemsStay DEF Shrinks
<1>2. Cleared(q)'
  BY ItemsStay DEF Cleared
<1> QED BY <1>1, <1>2, OthersCleared, PlacesLead DEF Leading

LEMMA NothingToClear ==
  ASSUME NEW q, q.op \notin {"dropContext", "dropProject"}
  PROVE  Cleared(q) /\ Cleared(q)'
BY DEF Cleared

LEMMA IdleClears == Idle \in Request /\ Idle.op \notin {"dropContext", "dropProject"}
BY IdleType DEF Idle

LEMMA StillLive == Still => UNCHANGED <<place, items, raced>> /\ LivePlaces' = LivePlaces
BY DEF Still, ghosts, LivePlaces

\* A step of a request that deletes no place, and that writes one row or none.
LEMMA LeadingWrites ==
  ASSUME Base, Leading, NEW r \in Requests,
         \/ CreateItem(r, "todo") \/ CreateItem(r, "pattern") \/ CreateItem(r, "note")
         \/ \E i \in ItemIds : UpdateItem(r, i) \/ EditNote(r, i) \/ TouchTodo(r, i) \/ SpawnFor(r, i)
         \/ \E x \in Places : EditPlace(r, x)
         \/ AddPlace(r) \/ ResolveContext(r) \/ ResolveProject(r) \/ NewContext(r) \/ NewProject(r)
         \/ CheckRefs(r) \/ WriteItem(r) \/ SpawnTodo(r) \/ SavePattern(r) \/ WritePlace(r)
         \/ Refused(r) \/ Abort(r)
  PROVE  Leading'
<1>1. ASSUME NEW q \in Request, Moves(r, q), q.op \notin {"dropContext", "dropProject"},
             UNCHANGED <<items, raced>>, LivePlaces \subseteq LivePlaces'
      PROVE  Leading'
  BY <1>1, LeadingStill, NothingToClear
<1>2. CASE CreateItem(r, "todo") \/ CreateItem(r, "pattern") \/ CreateItem(r, "note")
  BY <1>1, <1>2, CreateItemStep, StillLive
<1>3. CASE \E i \in ItemIds : UpdateItem(r, i) \/ EditNote(r, i) \/ TouchTodo(r, i) \/ SpawnFor(r, i)
  BY <1>1, <1>3, ReadStep, StillLive
<1>4. CASE (\E x \in Places : EditPlace(r, x)) \/ AddPlace(r)
  BY <1>1, <1>4, EditPlaceStep, AddPlaceStep, StillLive
<1>5. CASE ResolveContext(r) \/ ResolveProject(r)
  <2>1. req[r].op \notin {"dropContext", "dropProject"}
    BY <1>5, Requesting DEF ResolveContext, ResolveProject, At, HandsFull
  <2>2. Still /\ \E q \in Request : Moves(r, q) /\ q.op \notin {"dropContext", "dropProject"}
    BY <1>5, <2>1, ResolveContextStep, ResolveProjectStep, IdleClears
  <2> QED BY <1>1, <2>2, StillLive
<1>6. CASE NewContext(r) \/ NewProject(r)
  <2>1. req[r].op \notin {"dropContext", "dropProject"} /\ req[r].name \in Names
    BY <1>6, Requesting, NewContextStep, NewProjectStep DEF HandsFull
  <2>2. \E q \in Request : Moves(r, q) /\ q.op \notin {"dropContext", "dropProject"}
    BY <1>6, <2>1, NewContextStep, NewProjectStep, IdleClears DEF GoesTo
  <2>3. PICK x \in Places : place' = [place EXCEPT ![x] = req[r].name]
    BY <1>6, NewContextStep, NewProjectStep DEF Places
  <2>4. LivePlaces \subseteq LivePlaces'
    BY <2>1, <2>3, Apart DEF LivePlaces, Base, Typed, TypeOK
  <2>5. UNCHANGED <<items, raced>>
    BY <1>6, NewContextStep, NewProjectStep
  <2> QED BY <1>1, <2>2, <2>4, <2>5
<1>7. CASE CheckRefs(r)
  <2>1. req[r].op \notin {"dropContext", "dropProject"}
    BY <1>7, Requesting DEF CheckRefs, At, HandsFull
  <2>2. \E q \in Request : Moves(r, q) /\ q.op \notin {"dropContext", "dropProject"}
    BY <1>7, <2>1, CheckRefsStep, IdleClears DEF GoesTo
  <2> QED BY <1>1, <1>7, <2>2, CheckRefsStep, StillLive
<1>8. CASE WriteItem(r) \/ SpawnTodo(r) \/ SavePattern(r)
  <2>1. place' = place
    BY <1>8, WriteItemStep, SpawnTodoStep, SavePatternStep
  <2>2. PICK q \in Request : Moves(r, q) /\ q.op \notin {"dropContext", "dropProject"}
    <3>1. CASE WriteItem(r)
      BY <3>1, WriteItemStep, IdleClears
    <3>2. CASE SpawnTodo(r)
      <4>1. req[r].op \notin {"dropContext", "dropProject"}
        BY <3>2, SpawnTodoStep, Requesting DEF HandsFull
      <4> QED BY <3>2, <4>1, SpawnTodoStep DEF GoesTo
    <3>3. CASE SavePattern(r)
      BY <3>3, SavePatternStep, IdleClears
    <3> QED BY <1>8, <3>1, <3>2, <3>3
  <2>3. \/ UNCHANGED <<items, raced>>
        \/ \E i \in ItemIds, row \in Row : Put(i, row)
    BY <1>8, WriteItemStep, SpawnTodoStep, SavePatternStep DEF LiveItems
  <2>4. CASE UNCHANGED <<items, raced>>
    <3>1. LivePlaces' = LivePlaces
      BY <2>1 DEF LivePlaces
    <3> QED BY <1>1, <2>2, <2>4, <3>1
  <2>5. CASE \E i \in ItemIds, row \in Row : Put(i, row)
    <3> PICK i \in ItemIds, row \in Row : Put(i, row)
      BY <2>5
    <3>1. \A x : Deleting(x) => Shrinks(x)
      BY PutShrinks
    <3>2. ReferencesLead'
      BY <2>1, PutLeads DEF Leading
    <3> QED BY <2>2, <3>1, <3>2, OthersCleared, NothingToClear DEF Leading
  <2> QED BY <2>3, <2>4, <2>5
<1>9. CASE WritePlace(r)
  <2>1. LivePlaces \subseteq LivePlaces'
    BY <1>9, WritePlaceStep, Apart DEF LivePlaces, Base, Typed, TypeOK
  <2> QED BY <1>1, <1>9, <2>1, WritePlaceStep, IdleClears
<1>10. CASE Refused(r) \/ Abort(r)
  BY <1>1, <1>10, EndStep, StillLive, IdleClears
<1> QED BY <1>2, <1>3, <1>4, <1>5, <1>6, <1>7, <1>8, <1>9, <1>10

\* The purge of a context, statement by statement.
LEMMA LeadingContext ==
  ASSUME Base, Leading, NEW r \in Requests,
         \/ \E c \in ContextIds : DeleteContext(r, c)
         \/ CountContext(r) \/ ListContext(r) \/ PurgeTodo(r) \/ PurgePatterns(r)
  PROVE  Leading'
<1>1. ASSUME NEW kind, NEW c \in ContextIds PROVE Loose(kind, c) \subseteq InContext(kind, c)
  BY LiveRow, RefsOf DEF Loose, InContext, OfKind
<1>2. ASSUME NEW c \in ContextIds, DeleteContext(r, c) PROVE Leading'
  <2> PICK q \in Request : /\ Moves(r, q) /\ q.op = "dropContext" /\ q.pc = "count"
                           /\ q.id = c /\ q.batch = InContext("todo", c)
    BY <1>2, DeleteContextStep
  <2>1. Cleared(q)
    BY <1>1 DEF Cleared
  <2> QED BY <1>2, <2>1, DeleteContextStep, StillLive, LeadingStill
<1>3. ASSUME req[r].op = "dropContext"
      PROVE  req[r].id \in ContextIds /\ Cleared(req[r])
  BY <1>3, Requesting DEF Leading, HandsFull
<1>4. CASE CountContext(r)
  <2>1. PICK pc \in {"list", "refused", "drop"} :
          /\ GoesOn(r, pc, req[r].batch) /\ Still
          /\ req[r].op = "dropContext" /\ req[r].pc = "count"
          /\ pc = "drop" => req[r].batch = {} /\ InContext("pattern", req[r].id) = {}
    BY <1>4, CountContextStep
  <2> PICK q \in Request : /\ Moves(r, q) /\ q.op = req[r].op /\ q.id = req[r].id
                           /\ q.pc = pc /\ q.batch = req[r].batch
    BY <2>1 DEF GoesOn
  <2>2. Loose("todo", q.id) \subseteq q.batch
    BY <1>3, <2>1 DEF Cleared
  <2>3. pc = "drop" => Loose("pattern", q.id) = {}
    BY <1>1, <1>3, <2>1
  <2>4. Cleared(q)
    BY <2>1, <2>2, <2>3 DEF Cleared
  <2> QED BY <2>1, <2>4, StillLive, LeadingStill
<1>5. CASE ListContext(r)
  <2>1. Still /\ req[r].op = "dropContext" /\ GoesOn(r, "purge", InContext("todo", req[r].id))
    BY <1>5, ListContextStep
  <2> PICK q \in Request : /\ Moves(r, q) /\ q.op = req[r].op /\ q.id = req[r].id
                           /\ q.pc = "purge" /\ q.batch = InContext("todo", req[r].id)
    BY <2>1 DEF GoesOn
  <2>2. Cleared(q)
    BY <1>1, <1>3, <2>1 DEF Cleared
  <2> QED BY <2>1, <2>2, StillLive, LeadingStill
<1>6. CASE PurgeTodo(r)
  <2>1. /\ place' = place /\ req[r].op = "dropContext" /\ req[r].pc = "purge"
    BY <1>6, PurgeTodoStep
  <2>2. CASE UNCHANGED <<items, raced>> /\ Moves(r, Idle)
    <3>1. LivePlaces' = LivePlaces
      BY <2>1 DEF LivePlaces
    <3> QED BY <2>2, <3>1, IdleClears, NothingToClear, LeadingStill
  <2>3. CASE \E i \in req[r].batch : Removed({i}) /\ GoesOn(r, "purge", req[r].batch \ {i})
    <3> PICK i \in req[r].batch : Removed({i}) /\ GoesOn(r, "purge", req[r].batch \ {i})
      BY <2>3
    <3> PICK q \in Request : /\ Moves(r, q) /\ q.op = req[r].op /\ q.id = req[r].id
                             /\ q.pc = "purge" /\ q.batch = req[r].batch \ {i}
      BY DEF GoesOn
    <3>1. (\A x : Shrinks(x)) /\ \A kind, x : Loose(kind, x)' \cap {i} = {}
      BY RemovedShrinks
    <3>2. Loose("todo", q.id)' \subseteq q.batch
      BY <1>3, <2>1, <3>1 DEF Cleared, Shrinks
    <3>3. Cleared(q)'
      BY <2>1, <3>2 DEF Cleared
    <3>4. ReferencesLead'
      BY <2>1, RemovedLeads DEF Leading
    <3> QED BY <3>1, <3>3, <3>4, OthersCleared DEF Leading
  <2> QED BY <1>6, <2>2, <2>3, PurgeTodoStep
<1>7. CASE PurgePatterns(r)
  <2>1. /\ place' = place /\ req[r].op = "dropContext" /\ req[r].pc = "purge" /\ req[r].batch = {}
        /\ Removed(InContext("pattern", req[r].id)) /\ GoesOn(r, "drop", {})
    BY <1>7, PurgePatternsStep
  <2> PICK q \in Request : /\ Moves(r, q) /\ q.op = req[r].op /\ q.id = req[r].id
                           /\ q.pc = "drop" /\ q.batch = {}
    BY <2>1 DEF GoesOn
  <2>2. /\ \A x : Shrinks(x)
        /\ \A kind, x : Loose(kind, x)' \cap InContext("pattern", req[r].id) = {}
    BY <2>1, RemovedShrinks
  <2>3. Loose("todo", q.id)' = {}
    BY <1>3, <2>1, <2>2 DEF Cleared, Shrinks
  <2>4. Loose("pattern", q.id)' = {}
    <3>1. Loose("pattern", q.id)' \subseteq InContext("pattern", req[r].id)
      BY <1>1, <1>3, <2>1, <2>2 DEF Shrinks
    <3> QED BY <2>2, <3>1
  <2>5. Cleared(q)'
    BY <2>1, <2>3, <2>4 DEF Cleared
  <2>6. ReferencesLead'
    BY <2>1, RemovedLeads DEF Leading
  <2> QED BY <2>2, <2>5, <2>6, OthersCleared DEF Leading
<1> QED BY <1>2, <1>4, <1>5, <1>6, <1>7

\* The items of a project, statement by statement.
LEMMA LeadingProject ==
  ASSUME Base, Leading, NEW r \in Requests,
         \/ \E p \in ProjectIds : DeleteProject(r, p)
         \/ DetachTodos(r) \/ DetachPatterns(r) \/ SettleNotes(r)
  PROVE  Leading'
<1>1. ASSUME NEW kind, NEW p \in ProjectIds PROVE Loose(kind, p) \subseteq InProject(kind, p)
  BY LiveRow, RefsOf DEF Loose, InProject, OfKind
<1>2. ASSUME NEW p \in ProjectIds, DeleteProject(r, p) PROVE Leading'
  <2> PICK q \in Request : /\ Moves(r, q) /\ q.op = "dropProject" /\ q.pc \in {"refused", "todos"}
                           /\ q.id = p /\ q.batch = InProject("note", p)
    BY <1>2, DeleteProjectStep
  <2>1. Cleared(q)
    BY <1>1 DEF Cleared
  <2> QED BY <1>2, <2>1, DeleteProjectStep, StillLive, LeadingStill
<1>3. CASE DetachTodos(r) \/ DetachPatterns(r) \/ SettleNotes(r)
  <2>1. place' = place /\ req[r].op = "dropProject"
    BY <1>3, DetachStep
  <2>2. PICK p \in ProjectIds : p = req[r].id /\ Cleared(req[r])
    BY <2>1, Requesting DEF Leading, HandsFull
  <2>3. \/ /\ req[r].pc = "todos" /\ Detached("todo", p) /\ GoesOn(r, "patterns", req[r].batch)
        \/ /\ req[r].pc = "patterns" /\ Detached("pattern", p)
           /\ \/ req[r].batch = {} /\ GoesOn(r, "drop", req[r].batch)
              \/ GoesOn(r, "notes", req[r].batch)
        \/ /\ req[r].pc = "notes" /\ GoesOn(r, "drop", req[r].batch)
           /\ \/ Removed(InProject("note", p)) \/ Detached("note", p)
    BY <1>3, <2>2, DetachStep
  <2>4. (\A x : Shrinks(x)) /\ ReferencesLead'
    BY <2>1, <2>2, <2>3, RemovedShrinks, DetachedShrinks, RemovedLeads, DetachedLeads DEF Leading
  <2>5. ASSUME NEW pc, NEW q, Moves(r, q), q.op = req[r].op, q.id = p, q.pc = pc,
               q.batch = req[r].batch, Cleared(q)'
        PROVE  Leading'
    BY <2>4, <2>5, OthersCleared DEF Leading
  <2>6. CASE req[r].pc = "todos" /\ Detached("todo", p) /\ GoesOn(r, "patterns", req[r].batch)
    <3> PICK q \in Request : /\ Moves(r, q) /\ q.op = req[r].op /\ q.id = p
                             /\ q.pc = "patterns" /\ q.batch = req[r].batch
      BY <2>2, <2>6 DEF GoesOn
    <3>1. Loose("todo", p)' = {}
      BY <2>2, <2>6, DetachedShrinks
    <3>2. Loose("note", p)' \subseteq q.batch
      BY <2>1, <2>2, <2>4, <2>6 DEF Cleared, Shrinks
    <3>3. Cleared(q)'
      BY <2>1, <3>1, <3>2 DEF Cleared
    <3> QED BY <2>5, <3>3
  <2>7. CASE /\ req[r].pc = "patterns" /\ Detached("pattern", p)
             /\ \/ req[r].batch = {} /\ GoesOn(r, "drop", req[r].batch)
                \/ GoesOn(r, "notes", req[r].batch)
    <3> PICK q \in Request : /\ Moves(r, q) /\ q.op = req[r].op /\ q.id = p
                             /\ q.pc = "notes" \/ (q.pc = "drop" /\ req[r].batch = {})
                             /\ q.batch = req[r].batch
      BY <2>2, <2>7 DEF GoesOn
    <3>1. Loose("pattern", p)' = {}
      BY <2>2, <2>7, DetachedShrinks
    <3>2. Loose("todo", p)' = {} /\ Loose("note", p)' \subseteq req[r].batch
      BY <2>1, <2>2, <2>4, <2>7 DEF Cleared, Shrinks
    <3>3. Cleared(q)'
      BY <2>1, <3>1, <3>2 DEF Cleared
    <3> QED BY <2>5, <3>3
  <2>8. CASE /\ req[r].pc = "notes" /\ GoesOn(r, "drop", req[r].batch)
             /\ \/ Removed(InProject("note", p)) \/ Detached("note", p)
    <3> PICK q \in Request : /\ Moves(r, q) /\ q.op = req[r].op /\ q.id = p
                             /\ q.pc = "drop" /\ q.batch = req[r].batch
      BY <2>2, <2>8 DEF GoesOn
    <3>1. Loose("note", p)' = {}
      <4>1. CASE Detached("note", p)
        BY <2>2, <4>1, DetachedShrinks
      <4>2. CASE Removed(InProject("note", p))
        <5>1. Loose("note", p)' \subseteq InProject("note", p)
              /\ Loose("note", p)' \cap InProject("note", p) = {}
          BY <1>1, <2>2, <2>4, <4>2, RemovedShrinks DEF Shrinks
        <5> QED BY <5>1
      <4> QED BY <2>8, <4>1, <4>2
    <3>2. Loose("todo", p)' = {} /\ Loose("pattern", p)' = {}
      BY <2>1, <2>2, <2>4, <2>8 DEF Cleared, Shrinks
    <3>3. Cleared(q)'
      BY <2>1, <3>1, <3>2 DEF Cleared
    <3> QED BY <2>5, <3>3
  <2> QED BY <2>3, <2>6, <2>7, <2>8
<1> QED BY <1>2, <1>3

\* The row of a place goes when no row is left that refers to it for no reason.
LEMMA LeadingDrop ==
  ASSUME Base, Leading, NEW r \in Requests, DropPlace(r)
  PROVE  Leading'
<1> DEFINE x == req[r].id
<1>1. /\ UNCHANGED <<items, raced>> /\ Moves(r, Idle) /\ req[r].pc = "drop"
      /\ req[r].op \in {"dropContext", "dropProject"}
      /\ x \in Places /\ place' = [place EXCEPT ![x] = Gone]
  BY DropPlaceStep
<1>2. HandsFull(req[r]) /\ Cleared(req[r])
  BY Requesting DEF Leading
<1> HIDE DEF x
<1>3. \A y \in LivePlaces : y # x => y \in LivePlaces'
  BY <1>1 DEF LivePlaces, Base, Typed, TypeOK
<1>4. \A kind \in {"todo", "pattern", "note"} : Loose(kind, x) = {}
  <2>1. CASE req[r].op = "dropProject"
    BY <1>1, <1>2, <2>1 DEF Cleared, x
  <2>2. CASE req[r].op = "dropContext"
    <3>1. Loose("todo", x) = {} /\ Loose("pattern", x) = {} /\ x \in ContextIds
      BY <1>1, <1>2, <2>2 DEF Cleared, HandsFull, x
    <3>2. Loose("note", x) = {}
      <4> SUFFICES ASSUME NEW i \in Loose("note", x) PROVE FALSE
        OBVIOUS
      <4>1. items[i] \in Row /\ items[i].kind = "note" /\ x \in Refs(items[i])
        BY LiveRow DEF Loose, OfKind
      <4>2. items[i].ctx = None
        BY <4>1 DEF Row
      <4> QED BY <3>1, <4>1, <4>2, RefsOf, Apart DEF Places
    <3> QED BY <3>1, <3>2
  <2> QED BY <1>1, <2>1, <2>2
<1>5. ReferencesLead'
  <2> SUFFICES ASSUME NEW j \in LiveItems', NEW y \in Refs(items'[j])
               PROVE  y \in LivePlaces' \/ <<j, y>> \in raced'
    BY DEF ReferencesLead
  <2>1. j \in LiveItems /\ items'[j] = items[j]
    BY <1>1 DEF LiveItems
  <2>2. y \in LivePlaces \/ <<j, y>> \in raced
    BY <2>1 DEF Leading, ReferencesLead
  <2>3. CASE y # x
    BY <1>1, <1>3, <2>2, <2>3
  <2>4. CASE y = x
    <3>1. items[j].kind \in {"todo", "pattern", "note"} /\ j \in OfKind(items[j].kind)
      BY <2>1, LiveRow DEF OfKind, Row, Item
    <3>2. j \notin Loose(items[j].kind, x)
      BY <1>4, <3>1
    <3> QED BY <1>1, <2>1, <2>4, <3>1, <3>2 DEF Loose
  <2> QED BY <2>3, <2>4
<1>6. \A y : Shrinks(y)
  BY <1>1, ItemsStay DEF Shrinks
<1> QED BY <1>1, <1>5, <1>6, IdleClears, NothingToClear, OthersCleared DEF Leading

LEMMA LeadingStep == ASSUME Base, Leading, [Next]_vars PROVE Leading'
<1>1. CASE UNCHANGED vars
  BY <1>1 DEF vars, Leading, ReferencesLead, Cleared, Loose, OfKind, LiveItems, LivePlaces
<1>2. ASSUME NEW i \in ItemIds, DeleteItem(i) PROVE Leading'
  <2>1. /\ ReferencesLead' /\ \A x : Shrinks(x)
    BY <1>2, DeleteItemStep, RemovedShrinks, RemovedLeads DEF Leading
  <2>2. ASSUME NEW s \in Requests PROVE Cleared(req[s])'
    <3>1. req' = req /\ Cleared(req[s])
      BY <1>2, DeleteItemStep DEF Leading
    <3> QED BY <2>1, <3>1 DEF Cleared, Shrinks
  <2> QED BY <2>1, <2>2 DEF Leading
<1>3. ASSUME NEW r \in Requests, Step(r) PROVE Leading'
  BY <1>3, LeadingWrites, LeadingContext, LeadingProject, LeadingDrop DEF Step
<1> QED BY <1>1, <1>2, <1>3 DEF Next

LEMMA LeadingInit == Init => Leading
<1> SUFFICES ASSUME Init PROVE Leading
  OBVIOUS
<1>1. \A r \in Requests : Cleared(req[r])
  BY DEF Init, Cleared, Idle
<1>2. ReferencesLead
  BY DEF Init, ReferencesLead, Refs, LiveItems
<1> QED BY <1>1, <1>2 DEF Leading

\* Every reference leads to a row, through deletes that stop anywhere and overlap with
\* any number of requests, unless the row that refers was last written while that place
\* was being deleted (context.go, project.go).
THEOREM ReferencesAreGood == Spec => []ReferencesLead
<1>1. Init => Base /\ Leading
  BY BaseInit, LeadingInit
<1>2. Base /\ Leading /\ [Next]_vars => (Base /\ Leading)'
  BY BaseStep, LeadingStep
<1> QED BY <1>1, <1>2, PTL DEF Spec, Leading
=============================================================================

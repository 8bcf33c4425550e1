-------------------------- MODULE BelongingsProofs --------------------------
(***************************************************************************)
(* Proofs about Belongings, for any number of requests, actions, files and *)
(* tags and for either database.                                           *)
(***************************************************************************)
EXTENDS Belongings, FiniteSetTheorems, WellFoundedInduction, TLAPS

Request ==
  [op : {"none", "upload", "delete", "deleteTodo", "complete", "tag"},
   pc : {"idle", "put", "size", "row", "undo", "deleteRow", "list", "deleteRows",
         "remove", "deleteTodo", "end", "write", "ensure"},
   todo : TodoIds \cup {None}, row : Row \cup {None}, names : SUBSET TagNames,
   batch : SUBSET Files]

\* What a request has in hand at each point.
HandsFull(q) ==
  /\ q.pc \in {"put", "size", "row", "undo", "deleteRow"} => q.row \in Row
  /\ q.pc \in {"list", "deleteRows", "write", "ensure"} => q.todo \in TodoIds
  /\ q.pc = "deleteTodo" => q.op = "deleteTodo"
  /\ q.op = "deleteTodo" => /\ q.pc \in {"list", "deleteRows", "remove", "deleteTodo"}
                            /\ q.todo \in TodoIds
  /\ q.pc \in {"list", "deleteRows"} => q.op \in {"deleteTodo", "complete"}
Ready == \A r \in Requests : HandsFull(req[r])

-----------------------------------------------------------------------------
(* Types *)

\* A request goes on with what it has in hand.
LEMMA Going ==
  ASSUME TypeOK, Ready, NEW r \in Requests, NEW q \in Request, HandsFull(q),
         req' = [req EXCEPT ![r] = q]
  PROVE  req' \in [Requests -> Request] /\ Ready'
BY DEF TypeOK, Request, Ready

LEMMA IdleType == Idle \in Request /\ HandsFull(Idle)
BY DEF Idle, Request, HandsFull

LEMMA Requesting ==
  ASSUME TypeOK, Ready, NEW r \in Requests
  PROVE  req[r] \in Request /\ HandsFull(req[r]) /\ req \in [Requests -> Request]
BY DEF TypeOK, Ready, Request

LEMMA Returning ==
  ASSUME TypeOK, Ready, NEW r \in Requests, Return(r)
  PROVE  /\ req' \in [Requests -> Request] /\ Ready'
         /\ holder' \in Requests \cup {None}
BY Going, IdleType DEF Return, Release, TypeOK

LEMMA Marking ==
  ASSUME TypeOK, NEW t, NEW new, new \subseteq Files \cup (TodoIds \X TagNames), Mark(t, new)
  PROVE  late' \subseteq Files \cup (TodoIds \X TagNames)
BY DEF TypeOK, Mark

LEMMA Removing ==
  ASSUME TypeOK, NEW f \in Files, RemoveObject(f)
  PROVE  objects' \subseteq Files /\ leaked' \subseteq Files
BY DEF TypeOK, RemoveObject

\* Handing over to the next point changes nothing else of a request.
LEMMA GoingOn ==
  ASSUME TypeOK, Ready, NEW r \in Requests,
         NEW pc \in {"idle", "put", "size", "row", "undo", "deleteRow", "list", "deleteRows",
                     "remove", "deleteTodo", "end", "write", "ensure"},
         HandsFull([req[r] EXCEPT !.pc = pc]), Go(r, pc)
  PROVE  req' \in [Requests -> Request] /\ Ready'
<1> DEFINE q == [req[r] EXCEPT !.pc = pc]
<1>1. q \in Request
  BY Requesting DEF Request
<1>2. req' = [req EXCEPT ![r] = q]
  BY Requesting DEF Go
<1> HIDE DEF q
<1> QED BY <1>1, <1>2, Going DEF q

Base == TypeOK /\ Ready

\* What the lemmas above leave of the types.
LEMMA TypeIs ==
  ASSUME Base
  PROVE  /\ todos \subseteq TodoIds /\ rows \subseteq Row
         /\ objects \subseteq Files /\ drawn \subseteq Files
         /\ leaked \subseteq Files /\ unsure \subseteq Files
         /\ tags \subseteq TagNames /\ links \subseteq TodoIds \X TagNames
         /\ late \subseteq Files \cup (TodoIds \X TagNames)
         /\ holder \in Requests \cup {None} /\ started \in Nat
BY DEF Base, TypeOK

LEMMA TypeStays ==
  ASSUME todos' \subseteq TodoIds, rows' \subseteq Row,
         objects' \subseteq Files, drawn' \subseteq Files,
         leaked' \subseteq Files, unsure' \subseteq Files,
         tags' \subseteq TagNames, links' \subseteq TodoIds \X TagNames,
         late' \subseteq Files \cup (TodoIds \X TagNames),
         holder' \in Requests \cup {None}, started' \in Nat,
         req' \in [Requests -> Request], Ready'
  PROVE  Base'
BY DEF Base, TypeOK, Request

LEMMA Beginning ==
  ASSUME Base, NEW r \in Requests, Begin(r)
  PROVE  started' \in Nat
BY DEF Base, TypeOK, Begin

LEMMA UploadSteps ==
  ASSUME Base, NEW r \in Requests,
         \/ \E t \in TodoIds : StartUpload(r, t)
         \/ PutObject(r) \/ CheckSize(r) \/ CreateRow(r) \/ UndoPut(r)
  PROVE  Base'
<1> USE DEF Base
<1> DEFINE q == req[r]
<1>0. q \in Request /\ HandsFull(q) /\ q \in {req[s] : s \in Requests}
  BY Requesting
<1>1. ASSUME NEW t \in TodoIds, StartUpload(r, t) PROVE Base'
  <2>1. PICK f \in Files \ drawn, size \in Sizes :
          /\ req' = [req EXCEPT ![r] = [Idle EXCEPT !.op = "upload", !.pc = "put", !.todo = t,
                       !.row = [file |-> f, todo |-> t, size |-> size]]]
          /\ drawn' = drawn \cup {f}
    BY <1>1 DEF StartUpload
  <2> DEFINE p == [Idle EXCEPT !.op = "upload", !.pc = "put", !.todo = t,
                     !.row = [file |-> f, todo |-> t, size |-> size]]
  <2>2. p \in Request /\ HandsFull(p)
    BY DEF Idle, Request, HandsFull, Row
  <2> HIDE DEF p
  <2>3. req' = [req EXCEPT ![r] = p]
    BY <2>1 DEF p
  <2>4. req' \in [Requests -> Request] /\ Ready'
    BY <2>2, <2>3, Going
  <2> QED BY <1>1, <2>1, <2>4, Beginning, TypeIs, TypeStays DEF StartUpload
<1>2. CASE PutObject(r)
  <2>1. q.row \in Row /\ q.row.file \in Files
    BY <1>0, <1>2 DEF PutObject, At, HandsFull, Row
  <2>2. CASE Go(r, "size") /\ UNCHANGED <<holder, leaked>>
    <3>1. HandsFull([req[r] EXCEPT !.pc = "size"])
      BY <1>0, <1>2, <2>1 DEF PutObject, At, HandsFull, Request
    <3> QED BY <1>2, <2>1, <2>2, <3>1, GoingOn, TypeIs, TypeStays DEF PutObject
  <2>3. CASE Return(r) /\ leaked' = leaked \cup {q.row.file}
    BY <1>2, <2>1, <2>3, Returning, TypeIs, TypeStays DEF PutObject
  <2> QED BY <1>2, <2>2, <2>3 DEF PutObject
<1>3. CASE CheckSize(r)
  <2>1. PICK pc \in {"row", "undo"} : Go(r, pc) /\ holder' \in {holder, r}
    BY <1>3 DEF CheckSize
  <2>2. HandsFull([req[r] EXCEPT !.pc = pc])
    BY <1>0, <1>3 DEF CheckSize, At, HandsFull, Request
  <2> QED BY <1>3, <2>1, <2>2, GoingOn, TypeIs, TypeStays DEF CheckSize
<1>4. CASE CreateRow(r)
  <2>1. q.row \in Row /\ q.row.file \in Files
    BY <1>0, <1>4 DEF CreateRow, At, HandsFull, Row
  <2>2. rows' \subseteq Row
    BY <1>4, <2>1, TypeIs, TypeStays DEF CreateRow
  <2>3. late' \subseteq Files \cup (TodoIds \X TagNames)
    <3>1. {q.row.file} \subseteq Files \cup (TodoIds \X TagNames)
      BY <2>1
    <3> QED BY <1>4, <3>1, Marking, TypeIs, TypeStays DEF CreateRow
  <2>4. unsure' \subseteq Files
    BY <1>4, <2>1, TypeIs, TypeStays DEF CreateRow
  <2>5. req' \in [Requests -> Request] /\ Ready' /\ holder' \in Requests \cup {None}
    <3>1. HandsFull([req[r] EXCEPT !.pc = "undo"])
      BY <1>0, <1>4, <2>1 DEF CreateRow, At, HandsFull, Request
    <3>2. Release(r) => holder' \in Requests \cup {None}
      BY TypeIs DEF Release
    <3> QED BY <1>4, <3>1, <3>2, GoingOn, Returning DEF CreateRow
  <2> QED BY <1>4, <2>2, <2>3, <2>4, <2>5, TypeIs, TypeStays DEF CreateRow
<1>5. CASE UndoPut(r)
  <2>1. q.row.file \in Files
    BY <1>0, <1>5 DEF UndoPut, At, HandsFull, Row
  <2> QED BY <1>5, <2>1, Removing, Returning, TypeIs, TypeStays DEF UndoPut
<1> QED BY <1>1, <1>2, <1>3, <1>4, <1>5

LEMMA DeletingSteps ==
  ASSUME Base, NEW r \in Requests,
         \/ \E a \in rows : StartDelete(r, a)
         \/ \E t \in TodoIds : StartDeleteTodo(r, t) \/ StartAutoDelete(r, t)
         \/ DeleteRow(r) \/ ListForTodo(r) \/ DeleteRows(r) \/ RemoveObjects(r)
         \/ DeleteTodo(r) \/ End(r)
  PROVE  Base'
<1> USE DEF Base
<1> DEFINE q == req[r]
<1>0. q \in Request /\ HandsFull(q) /\ req \in [Requests -> Request]
  BY Requesting
<1>1. ASSUME NEW a \in rows, StartDelete(r, a) PROVE Base'
  <2> DEFINE p == [Idle EXCEPT !.op = "delete", !.pc = "deleteRow", !.row = a]
  <2>1. p \in Request /\ HandsFull(p)
    BY TypeIs DEF Idle, Request, HandsFull
  <2> HIDE DEF p
  <2>2. req' = [req EXCEPT ![r] = p]
    BY <1>1 DEF p, StartDelete
  <2> QED BY <1>1, <2>1, <2>2, Going, Beginning, TypeIs, TypeStays DEF StartDelete
<1>2. ASSUME NEW t \in TodoIds, StartDeleteTodo(r, t) PROVE Base'
  <2> DEFINE p == [Idle EXCEPT !.op = "deleteTodo", !.pc = "list", !.todo = t]
  <2>1. p \in Request /\ HandsFull(p)
    BY DEF Idle, Request, HandsFull
  <2> HIDE DEF p
  <2>2. req' = [req EXCEPT ![r] = p]
    BY <1>2 DEF p, StartDeleteTodo
  <2> QED BY <1>2, <2>1, <2>2, Going, Beginning, TypeIs, TypeStays DEF StartDeleteTodo
<1>3. ASSUME NEW t \in TodoIds, StartAutoDelete(r, t) PROVE Base'
  <2> DEFINE p == [Idle EXCEPT !.op = "complete", !.pc = "list", !.todo = t]
  <2>1. p \in Request /\ HandsFull(p)
    BY DEF Idle, Request, HandsFull
  <2> HIDE DEF p
  <2>2. req' = [req EXCEPT ![r] = p]
    BY <1>3 DEF p, StartAutoDelete
  <2> QED BY <1>3, <2>1, <2>2, Going, Beginning, TypeIs, TypeStays DEF StartAutoDelete
<1>4. CASE DeleteRow(r)
  <2>1. q.row \in Row /\ q.row.file \in Files
    BY <1>0, <1>4 DEF DeleteRow, At, HandsFull, Row
  <2> DEFINE p == [q EXCEPT !.pc = "remove", !.batch = {q.row.file}]
  <2>2. CASE q.row \in rows
    <3>1. p \in Request
      BY <1>0, <2>1 DEF Request
    <3>2. q.op # "deleteTodo"
      BY <1>0, <1>4 DEF DeleteRow, At, HandsFull
    <3>3. HandsFull(p)
      BY <1>0, <3>2 DEF HandsFull, Request
    <3>4. req' = [req EXCEPT ![r] = p] /\ holder' = holder
      BY <1>0, <1>4, <2>2 DEF DeleteRow
    <3> HIDE DEF p
    <3> QED BY <1>4, <3>1, <3>3, <3>4, Going, TypeIs, TypeStays DEF DeleteRow
  <2>3. CASE q.row \notin rows
    BY <1>4, <2>3, Returning, TypeIs, TypeStays DEF DeleteRow
  <2> QED BY <2>2, <2>3
<1>5. CASE ListForTodo(r)
  <2> DEFINE pc == IF Of(q.todo) # {} THEN "deleteRows"
                   ELSE IF q.op = "complete" THEN "end" ELSE "deleteTodo"
             batch == {a.file : a \in Of(q.todo)}
             p == [q EXCEPT !.batch = batch, !.pc = pc]
  <2>1. batch \subseteq Files
    BY TypeIs DEF Of, Row
  <2>2. /\ pc \in {"deleteRows", "end", "deleteTodo"}
        /\ pc = "deleteTodo" => q.op # "complete"
        /\ pc = "end" => q.op = "complete"
    OBVIOUS
  <2>3. q.op \in {"deleteTodo", "complete"} /\ q.todo \in TodoIds
    BY <1>0, <1>5 DEF ListForTodo, At, HandsFull
  <2>4. req' = [req EXCEPT ![r] = p]
    BY <1>0, <1>5 DEF ListForTodo
  <2> HIDE DEF pc, batch
  <2>5. p \in Request /\ HandsFull(p)
    BY <1>0, <2>1, <2>2, <2>3 DEF Request, HandsFull
  <2> HIDE DEF p
  <2> QED BY <1>5, <2>4, <2>5, Going, TypeIs, TypeStays DEF ListForTodo
<1>6. CASE DeleteRows(r)
  <2>1. HandsFull([req[r] EXCEPT !.pc = "remove"])
    BY <1>0, <1>6 DEF DeleteRows, At, HandsFull, Request
  <2>2. rows' \subseteq Row /\ leaked' \subseteq Files
    BY <1>6, TypeIs, TypeStays DEF DeleteRows, Of, Row
  <2> QED BY <1>6, <2>1, <2>2, GoingOn, TypeIs, TypeStays DEF DeleteRows
<1>7. CASE RemoveObjects(r)
  <2>1. PICK f \in q.batch :
          /\ RemoveObject(f)
          /\ req' = [req EXCEPT ![r].batch = @ \ {f},
                       ![r].pc = IF req[r].batch # {f} THEN "remove"
                                 ELSE IF req[r].op = "deleteTodo" THEN "deleteTodo" ELSE "end"]
    BY <1>7 DEF RemoveObjects
  <2> DEFINE pc == IF q.batch # {f} THEN "remove"
                   ELSE IF q.op = "deleteTodo" THEN "deleteTodo" ELSE "end"
             p == [q EXCEPT !.batch = @ \ {f}, !.pc = pc]
  <2>2. req' = [req EXCEPT ![r] = p]
    BY <1>0, <2>1
  <2>3. /\ pc \in {"remove", "deleteTodo", "end"}
        /\ pc = "deleteTodo" => q.op = "deleteTodo"
        /\ pc = "end" => q.op # "deleteTodo"
    OBVIOUS
  <2> HIDE DEF pc
  <2>4. p \in Request
    BY <1>0, <2>3 DEF Request
  <2>5. q.op = "deleteTodo" => q.todo \in TodoIds
    BY <1>0, <1>7 DEF HandsFull, RemoveObjects, At
  <2>6. HandsFull(p)
    BY <1>0, <2>3, <2>5 DEF HandsFull, Request
  <2>7. objects' \subseteq Files /\ leaked' \subseteq Files
    BY <1>0, <2>1, Removing DEF Request
  <2> HIDE DEF p
  <2> QED BY <1>7, <2>2, <2>4, <2>6, <2>7, Going, TypeIs, TypeStays DEF RemoveObjects
<1>8. CASE DeleteTodo(r)
  BY <1>8, Returning, TypeIs, TypeStays DEF DeleteTodo
<1>9. CASE End(r)
  BY <1>9, Returning, TypeIs, TypeStays DEF End
<1> QED BY <1>1, <1>2, <1>3, <1>4, <1>5, <1>6, <1>7, <1>8, <1>9

LEMMA HeldType ==
  ASSUME Base, NEW r \in Requests
  PROVE  Held(r) \subseteq Files
<1>1. req[r] \in Request /\ HandsFull(req[r])
  BY Requesting DEF Base
<1>2. req[r].pc \in {"size", "row", "undo"} => req[r].row.file \in Files
  BY <1>1 DEF HandsFull, Row
<1> QED BY <1>1, <1>2 DEF Held, Request

LEMMA TagSteps ==
  ASSUME Base, NEW r \in Requests,
         \/ \E t \in TodoIds : StartTag(r, t)
         \/ WriteTodo(r) \/ EnsureTag(r) \/ InsertLinks(r) \/ Abort(r)
  PROVE  Base'
<1> USE DEF Base
<1> DEFINE q == req[r]
<1>0. q \in Request /\ HandsFull(q) /\ req \in [Requests -> Request]
  BY Requesting
<1>1. ASSUME NEW t \in TodoIds, StartTag(r, t) PROVE Base'
  <2>1. PICK names \in SUBSET TagNames :
          req' = [req EXCEPT ![r] = [Idle EXCEPT !.op = "tag", !.pc = "write", !.todo = t,
                                       !.names = names]]
    BY <1>1 DEF StartTag
  <2> DEFINE p == [Idle EXCEPT !.op = "tag", !.pc = "write", !.todo = t, !.names = names]
  <2>2. p \in Request /\ HandsFull(p)
    BY DEF Idle, Request, HandsFull
  <2> HIDE DEF p
  <2>3. req' = [req EXCEPT ![r] = p]
    BY <2>1 DEF p
  <2>4. req' \in [Requests -> Request] /\ Ready' /\ started' \in Nat
    BY <1>1, <2>2, <2>3, Going, Beginning DEF StartTag
  <2> QED BY <1>1, <2>4, TypeIs, TypeStays DEF StartTag
<1>2. CASE WriteTodo(r)
  <2>1. q.op # "deleteTodo"
    BY <1>0, <1>2 DEF WriteTodo, At, HandsFull
  <2>2. HandsFull([req[r] EXCEPT !.pc = "ensure"])
    BY <1>0, <1>2, <2>1 DEF WriteTodo, At, HandsFull, Request
  <2> QED BY <1>2, <2>2, GoingOn, Returning, TypeIs, TypeStays DEF WriteTodo
<1>3. CASE EnsureTag(r)
  <2>1. tags' \subseteq TagNames
    BY <1>0, <1>3, TypeIs DEF EnsureTag, Request
  <2>2. req' \in [Requests -> Request] /\ Ready'
    BY <1>0, <1>3 DEF EnsureTag, Ready
  <2> QED BY <1>3, <2>1, <2>2, TypeIs, TypeStays DEF EnsureTag
<1>4. CASE InsertLinks(r)
  <2> DEFINE new == {q.todo} \X q.names
  <2>1. new \subseteq TodoIds \X TagNames
    BY <1>0, <1>4 DEF InsertLinks, At, HandsFull, Request
  <2>2. links' = links \cup new /\ Mark(q.todo, new)
    BY <1>4 DEF InsertLinks
  <2> HIDE DEF new
  <2>3. late' \subseteq Files \cup (TodoIds \X TagNames) /\ links' \subseteq TodoIds \X TagNames
    BY <2>1, <2>2, Marking, TypeIs
  <2> QED BY <1>4, <2>3, Returning, TypeIs, TypeStays DEF InsertLinks
<1>5. CASE Abort(r)
  BY <1>5, HeldType, Returning, TypeIs, TypeStays DEF Abort
<1> QED BY <1>1, <1>2, <1>3, <1>4, <1>5

LEMMA BaseInit == Init => Base
<1> SUFFICES ASSUME Init PROVE Base
  OBVIOUS
<1>1. req \in [Requests -> Request] /\ Ready
  BY IdleType DEF Init, Ready
<1> QED BY <1>1 DEF Init, Base, TypeOK, Request

LEMMA BaseStep == Base /\ [Next]_vars => Base'
<1>1. ASSUME Base, Next PROVE Base'
  BY <1>1, UploadSteps, DeletingSteps, TagSteps DEF Next
<1>2. ASSUME Base, UNCHANGED vars PROVE Base'
  BY <1>2 DEF vars, Base, TypeOK, Ready
<1> QED BY <1>1, <1>2

\* Every variable keeps its type, and a request has in hand what its next step needs,
\* whatever the sizes, the limits and the number of requests.
THEOREM Typing == Spec => [](TypeOK /\ Ready)
<1> QED BY BaseInit, BaseStep, PTL DEF Spec, Base

-----------------------------------------------------------------------------
(* A step is one request's: the others hold what they held *)

OthersStay(r) == \A s \in Requests \ {r} : req'[s] = req[s]

LEMMA OneMoves ==
  ASSUME Base, NEW r \in Requests,
         \/ \E t \in TodoIds : \/ StartUpload(r, t) \/ StartDeleteTodo(r, t)
                               \/ StartAutoDelete(r, t) \/ StartTag(r, t)
         \/ \E a \in rows : StartDelete(r, a)
         \/ PutObject(r) \/ CheckSize(r) \/ CreateRow(r) \/ UndoPut(r)
         \/ DeleteRow(r) \/ ListForTodo(r) \/ DeleteRows(r) \/ RemoveObjects(r)
         \/ DeleteTodo(r) \/ End(r) \/ WriteTodo(r) \/ EnsureTag(r) \/ InsertLinks(r)
         \/ Abort(r)
  PROVE  OthersStay(r)
<1>0. req \in [Requests -> Request]
  BY DEF Base, TypeOK, Request
<1>1. Return(r) => OthersStay(r)
  BY <1>0 DEF Return, OthersStay
<1>2. \A pc : Go(r, pc) => OthersStay(r)
  BY <1>0 DEF Go, OthersStay
<1>3. ASSUME NEW t \in TodoIds, StartUpload(r, t) PROVE OthersStay(r)
  BY <1>0, <1>3 DEF StartUpload, OthersStay
<1>4. ASSUME NEW t \in TodoIds, \/ StartDeleteTodo(r, t) \/ StartAutoDelete(r, t)
                                \/ StartTag(r, t)
      PROVE  OthersStay(r)
  BY <1>0, <1>4 DEF StartDeleteTodo, StartAutoDelete, StartTag, OthersStay
<1>5. ASSUME NEW a \in rows, StartDelete(r, a) PROVE OthersStay(r)
  BY <1>0, <1>5 DEF StartDelete, OthersStay
<1>6. CASE PutObject(r) \/ CheckSize(r) \/ CreateRow(r) \/ UndoPut(r)
  BY <1>1, <1>2, <1>6 DEF PutObject, CheckSize, CreateRow, UndoPut
<1>7. CASE DeleteRow(r)
  BY <1>0, <1>1, <1>7 DEF DeleteRow, OthersStay
<1>8. CASE ListForTodo(r) \/ RemoveObjects(r)
  BY <1>0, <1>8 DEF ListForTodo, RemoveObjects, OthersStay
<1>9. CASE \/ DeleteRows(r) \/ DeleteTodo(r) \/ End(r) \/ WriteTodo(r) \/ EnsureTag(r)
           \/ InsertLinks(r) \/ Abort(r)
  BY <1>1, <1>2, <1>9
  DEF DeleteRows, DeleteTodo, End, WriteTodo, EnsureTag, InsertLinks, Abort, OthersStay
<1> QED BY <1>3, <1>4, <1>5, <1>6, <1>7, <1>8, <1>9

-----------------------------------------------------------------------------
(* The account guard *)

\* The guard of this account as AccountLock has it.
Guard == INSTANCE AccountLock WITH Accounts <- {"account"},
                                   holder <- [a \in {"account"} |-> holder]

\* A request that stays where it is neither gets the guard nor loses it.
OwnGuard == \A r \in Requests : req'[r] = req[r] => (holder' = r <=> holder = r)

\* One request moves: it has the guard, takes it when it is free, or gives it back.
Turns(r) ==
  /\ OthersStay(r)
  /\ \/ holder' = holder
     \/ holder = None /\ holder' = r /\ req'[r] # req[r]
     \/ holder = r /\ holder' = None /\ req'[r] # req[r]

LEMMA HolderTurns ==
  ASSUME Base, NEW r \in Requests, OthersStay(r), NEW q, req' = [req EXCEPT ![r] = q],
         \/ holder' = holder
         \/ holder = None /\ holder' = r /\ q.pc # req[r].pc
         \/ Release(r) /\ q.pc # req[r].pc
  PROVE  Turns(r)
<1>1. req'[r] = q
  BY DEF Base, TypeOK
<1> QED BY <1>1 DEF Turns, Release

LEMMA StepTurns ==
  ASSUME Base, NEW r \in Requests, OthersStay(r),
         \/ \E t \in TodoIds : \/ StartUpload(r, t) \/ StartDeleteTodo(r, t)
                               \/ StartAutoDelete(r, t) \/ StartTag(r, t)
         \/ \E a \in rows : StartDelete(r, a)
         \/ PutObject(r) \/ CheckSize(r) \/ CreateRow(r) \/ UndoPut(r)
         \/ DeleteRow(r) \/ ListForTodo(r) \/ DeleteRows(r) \/ RemoveObjects(r)
         \/ DeleteTodo(r) \/ End(r) \/ WriteTodo(r) \/ EnsureTag(r) \/ InsertLinks(r)
         \/ Abort(r)
  PROVE  Turns(r)
<1>1. holder' = holder => Turns(r)
  BY DEF Turns
<1>2. ASSUME Return(r), req[r].pc # "idle"
      PROVE  Turns(r)
  <2>1. Idle.pc # req[r].pc
    BY <1>2 DEF Idle
  <2> QED BY <1>2, <2>1, HolderTurns DEF Return
<1>3. ASSUME NEW pc, Go(r, pc), pc # req[r].pc, Release(r) \/ (holder = None /\ holder' = r)
      PROVE  Turns(r)
  <2> DEFINE q == [req[r] EXCEPT !.pc = pc]
  <2>1. q.pc = pc /\ req' = [req EXCEPT ![r] = q]
    BY <1>3, Requesting DEF Base, Go, Request
  <2> HIDE DEF q
  <2> QED BY <1>3, <2>1, HolderTurns
<1>4. ASSUME NEW t \in TodoIds, \/ StartUpload(r, t) \/ StartDeleteTodo(r, t)
                                \/ StartAutoDelete(r, t)
      PROVE  Turns(r)
  BY <1>1, <1>4 DEF StartUpload, StartDeleteTodo, StartAutoDelete
<1>5. ASSUME NEW t \in TodoIds, StartTag(r, t)
      PROVE  Turns(r)
  <2>1. PICK names \in SUBSET TagNames :
          req' = [req EXCEPT ![r] = [Idle EXCEPT !.op = "tag", !.pc = "write", !.todo = t,
                                       !.names = names]]
    BY <1>5 DEF StartTag
  <2> DEFINE q == [Idle EXCEPT !.op = "tag", !.pc = "write", !.todo = t, !.names = names]
  <2>2. q.pc # req[r].pc
    BY <1>5 DEF StartTag, Begin, At, Idle
  <2>3. req' = [req EXCEPT ![r] = q] /\ holder = None /\ holder' = r
    BY <1>5, <2>1 DEF StartTag
  <2> HIDE DEF q
  <2> QED BY <2>2, <2>3, HolderTurns
<1>6. CASE \E a \in rows : StartDelete(r, a)
  BY <1>1, <1>6 DEF StartDelete
<1>7. CASE PutObject(r) \/ CheckSize(r) \/ CreateRow(r) \/ UndoPut(r)
  BY <1>1, <1>2, <1>3, <1>7 DEF PutObject, CheckSize, CreateRow, UndoPut, At
<1>8. CASE DeleteRow(r) \/ ListForTodo(r) \/ DeleteRows(r) \/ RemoveObjects(r) \/ EnsureTag(r)
  BY <1>1, <1>2, <1>8 DEF DeleteRow, ListForTodo, DeleteRows, RemoveObjects, EnsureTag, At
<1>9. CASE DeleteTodo(r) \/ End(r) \/ WriteTodo(r) \/ InsertLinks(r) \/ Abort(r)
  BY <1>1, <1>2, <1>9 DEF DeleteTodo, End, WriteTodo, InsertLinks, Abort, At
<1> QED BY <1>4, <1>5, <1>6, <1>7, <1>8, <1>9

\* The steps of one account's requests use its guard as AccountLock lets them, and a
\* request gets it and loses it by steps of its own alone, whatever fails under it (the
\* size check of an upload, the writes of tags).
THEOREM GuardAsPromised == Spec => Guard!Spec /\ [][OwnGuard]_vars
<1> DEFINE lock == [a \in {"account"} |-> holder]
<1>1. Init => Guard!Init
  BY DEF Init, Guard!Init
<1>2. ASSUME Base, [Next]_vars
      PROVE  [Guard!Next]_lock /\ (OwnGuard \/ UNCHANGED vars)
  <2>1. ASSUME NEW r \in Requests, Turns(r)
        PROVE  [Guard!Next]_lock /\ OwnGuard
    <3>1. OwnGuard
      BY <2>1, NoneIsNone DEF OwnGuard, Turns, OthersStay
    <3>2. CASE holder' = holder
      BY <3>1, <3>2
    <3>3. CASE holder = None /\ holder' = r
      <4>1. Guard!Enter(r, "account")
        BY <3>3, NoneIsNone DEF Guard!Enter
      <4> QED BY <3>1, <4>1 DEF Guard!Next
    <3>4. CASE holder = r /\ holder' = None
      <4>1. Guard!Lose({"account"})
        BY <3>4, NoneIsNone DEF Guard!Lose
      <4> QED BY <3>1, <4>1 DEF Guard!Next
    <3> QED BY <2>1, <3>1, <3>2, <3>3, <3>4 DEF Turns
  <2>2. CASE UNCHANGED vars
    BY <2>2 DEF vars
  <2>3. ASSUME NEW r \in Requests, OthersStay(r) => Turns(r), OthersStay(r)
        PROVE  [Guard!Next]_lock /\ OwnGuard
    BY <2>1, <2>3
  <2> QED BY <1>2, <2>2, <2>3, OneMoves, StepTurns DEF Next
<1> QED BY <1>1, <1>2, BaseInit, BaseStep, PTL DEF Spec, Guard!Spec

-----------------------------------------------------------------------------
(* Objects without a row are accounted for *)

\* An object stays accounted for if what vouched for it hands it on.
LEMMA HandedOn ==
  ASSUME ObjectsAccounted, NEW r \in Requests, OthersStay(r),
         \A a \in rows \ rows' : a.file \in Held(r)' \cup leaked',
         \A f \in Held(r) \cap objects' :
           f \in Held(r)' \cup leaked' \/ \E a \in rows' : a.file = f,
         leaked \cap objects' \subseteq leaked',
         objects' \ objects \subseteq Held(r)' \cup leaked'
  PROVE  ObjectsAccounted'
<1> SUFFICES ASSUME NEW f \in objects'
             PROVE  \/ \E a \in rows' : a.file = f
                    \/ \E s \in Requests : f \in Held(s)'
                    \/ f \in leaked'
  BY DEF ObjectsAccounted
<1>1. CASE f \notin objects
  BY <1>1
<1>2. ASSUME NEW a \in rows, a.file = f PROVE \/ \E b \in rows' : b.file = f
                                              \/ f \in Held(r)' \cup leaked'
  BY <1>2
<1>3. ASSUME NEW s \in Requests \ {r}, f \in Held(s) PROVE f \in Held(s)'
  BY <1>3 DEF OthersStay, Held
<1> QED BY <1>1, <1>2, <1>3 DEF ObjectsAccounted

LEMMA AccountingUploads ==
  ASSUME Base, ObjectsAccounted, NEW r \in Requests,
         \/ \E t \in TodoIds : StartUpload(r, t)
         \/ PutObject(r) \/ CheckSize(r) \/ CreateRow(r) \/ UndoPut(r)
  PROVE  ObjectsAccounted'
<1> DEFINE q == req[r]
<1>0. q \in Request /\ req \in [Requests -> Request] /\ OthersStay(r)
  BY Requesting, OneMoves DEF Base
<1>1. ASSUME NEW t \in TodoIds, StartUpload(r, t) PROVE ObjectsAccounted'
  <2>1. Held(r) = {}
    BY <1>1 DEF StartUpload, Begin, At, Held
  <2> QED BY <1>0, <1>1, <2>1, HandedOn DEF StartUpload
<1>2. CASE PutObject(r)
  <2>1. Held(r) = {}
    BY <1>2 DEF PutObject, At, Held
  <2>2. Go(r, "size") => Held(r)' = {q.row.file}
    BY <1>0 DEF Go, Held, Request
  <2> QED BY <1>0, <1>2, <2>1, <2>2, HandedOn DEF PutObject
<1>3. CASE CheckSize(r)
  <2>1. Held(r) = {q.row.file}
    BY <1>3 DEF CheckSize, At, Held
  <2>2. Go(r, "row") \/ Go(r, "undo") => Held(r)' = {q.row.file}
    BY <1>0 DEF Go, Held, Request
  <2> QED BY <1>0, <1>3, <2>1, <2>2, HandedOn DEF CheckSize
<1>4. CASE CreateRow(r)
  <2>1. Held(r) = {q.row.file}
    BY <1>4 DEF CreateRow, At, Held
  <2>2. Go(r, "undo") => Held(r)' = {q.row.file}
    BY <1>0 DEF Go, Held, Request
  <2> QED BY <1>0, <1>4, <2>1, <2>2, HandedOn DEF CreateRow
<1>5. CASE UndoPut(r)
  <2>1. Held(r) = {q.row.file}
    BY <1>5 DEF UndoPut, At, Held
  <2> QED BY <1>0, <1>5, <2>1, HandedOn DEF UndoPut, RemoveObject
<1> QED BY <1>1, <1>2, <1>3, <1>4, <1>5

LEMMA AccountingDeletes ==
  ASSUME Base, ObjectsAccounted, NEW r \in Requests,
         \/ DeleteRow(r) \/ ListForTodo(r) \/ DeleteRows(r) \/ RemoveObjects(r)
  PROVE  ObjectsAccounted'
<1> DEFINE q == req[r]
<1>0. q \in Request /\ req \in [Requests -> Request] /\ OthersStay(r)
  BY Requesting, OneMoves DEF Base
<1>1. CASE DeleteRow(r)
  <2>1. Held(r) = {}
    BY <1>1 DEF DeleteRow, At, Held
  <2>2. q.row \in rows => Held(r)' = {q.row.file}
    BY <1>0, <1>1 DEF DeleteRow, Held, Request
  <2> QED BY <1>0, <1>1, <2>1, <2>2, HandedOn DEF DeleteRow
<1>2. CASE ListForTodo(r)
  <2>1. Held(r) = {}
    BY <1>2 DEF ListForTodo, At, Held
  <2> QED BY <1>0, <1>2, <2>1, HandedOn DEF ListForTodo
<1>3. CASE DeleteRows(r)
  <2>1. Held(r) = {}
    BY <1>3 DEF DeleteRows, At, Held
  <2>2. Held(r)' = q.batch
    BY <1>0, <1>3 DEF DeleteRows, Go, Held, Request
  <2> QED BY <1>0, <1>3, <2>1, <2>2, HandedOn DEF DeleteRows
<1>4. CASE RemoveObjects(r)
  <2>1. Held(r) = q.batch
    BY <1>4 DEF RemoveObjects, At, Held
  <2>2. PICK f \in q.batch :
          /\ RemoveObject(f)
          /\ req' = [req EXCEPT ![r].batch = @ \ {f},
                       ![r].pc = IF req[r].batch # {f} THEN "remove"
                                 ELSE IF req[r].op = "deleteTodo" THEN "deleteTodo" ELSE "end"]
    BY <1>4 DEF RemoveObjects
  <2>3. CASE q.batch # {f}
    <3>1. Held(r)' = q.batch \ {f}
      BY <1>0, <2>2, <2>3 DEF Held, Request
    <3> QED BY <1>0, <1>4, <2>1, <2>2, <3>1, HandedOn DEF RemoveObjects, RemoveObject
  <2>4. CASE q.batch = {f}
    BY <1>0, <1>4, <2>1, <2>2, <2>4, HandedOn DEF RemoveObjects, RemoveObject
  <2> QED BY <2>3, <2>4
<1> QED BY <1>1, <1>2, <1>3, <1>4

LEMMA AccountingStep == Base /\ ObjectsAccounted /\ [Next]_vars => ObjectsAccounted'
<1> SUFFICES ASSUME Base, ObjectsAccounted, [Next]_vars PROVE ObjectsAccounted'
  OBVIOUS
<1>1. ASSUME NEW r \in Requests, OthersStay(r), Held(r) = {},
             UNCHANGED <<rows, objects, leaked>>
      PROVE  ObjectsAccounted'
  BY <1>1, HandedOn
<1>2. ASSUME NEW r \in Requests,
             \/ \E t \in TodoIds : \/ StartDeleteTodo(r, t) \/ StartAutoDelete(r, t)
                                   \/ StartTag(r, t)
             \/ \E a \in rows : StartDelete(r, a)
             \/ DeleteTodo(r) \/ End(r) \/ WriteTodo(r) \/ EnsureTag(r) \/ InsertLinks(r)
      PROVE  ObjectsAccounted'
  <2>1. UNCHANGED <<rows, objects, leaked>>
    BY <1>2 DEF StartDeleteTodo, StartAutoDelete, StartTag, StartDelete, DeleteTodo, End,
                WriteTodo, EnsureTag, InsertLinks
  <2>2. Held(r) = {}
    BY <1>2 DEF StartDeleteTodo, StartAutoDelete, StartTag, StartDelete, DeleteTodo, End,
                WriteTodo, EnsureTag, InsertLinks, Begin, At, Held
  <2> QED BY <1>1, <1>2, <2>1, <2>2, OneMoves
<1>3. ASSUME NEW r \in Requests, Abort(r) PROVE ObjectsAccounted'
  BY <1>3, OneMoves, HandedOn DEF Abort
<1>4. CASE UNCHANGED vars
  BY <1>4 DEF vars, ObjectsAccounted, Held
<1> QED BY <1>2, <1>3, <1>4, AccountingUploads, AccountingDeletes DEF Next

\* However the steps of uploads, deletes and completions interleave and fail, an object
\* that no row names is one a request is about to record or remove, or one a failure or
\* an overlapping delete is known to have left: service/attachment.go forgets none.
THEOREM Accounting == Spec => []ObjectsAccounted
<1>1. Init => ObjectsAccounted
  BY DEF Init, ObjectsAccounted
<1> QED BY <1>1, BaseInit, BaseStep, AccountingStep, PTL DEF Spec

-----------------------------------------------------------------------------
(* Rows have objects.  A stored name belongs to one upload until its row is     *)
(* there, and to that row until the row is gone; only then is its object        *)
(* removed.                                                                     *)

Uploading(q) == q.pc \in {"put", "size", "row", "undo"}
Unrecorded(q) == q.pc \in {"put", "size", "row"}
Sweeping(q) == q.pc \in {"deleteRows", "remove"}

\* What a request may rely on about the files it has in hand.
Sound(q) ==
  /\ Uploading(q) => q.row.file \in drawn
  /\ Unrecorded(q) => \A a \in rows : a.file # q.row.file
  /\ q.pc = "undo" => \A a \in rows : a.file = q.row.file => a.file \in unsure
  /\ q.pc \in {"size", "row"} => q.row.file \in objects
  /\ Sweeping(q) => q.batch \subseteq drawn
  /\ q.pc = "deleteRows" => \A a \in rows : a.file \in q.batch => a.todo = q.todo
  /\ q.pc = "remove" => \A a \in rows : a.file \notin q.batch

\* The files of two requests.
Apart(p, q) ==
  /\ Uploading(p) /\ Uploading(q) => p.row.file # q.row.file
  /\ Sweeping(p) /\ Unrecorded(q) => q.row.file \notin p.batch

RowsSound ==
  /\ \A a \in rows : a.file \in drawn
  /\ \A a, b \in rows : a.file = b.file => a = b
  /\ RowsHaveObjects

FilesSound ==
  /\ \A r \in Requests : Sound(req[r])
  /\ \A r, s \in Requests : r # s => Apart(req[r], req[s])
  /\ RowsSound

\* A request that takes nothing in hand but files of rows, while rows only go.
LEMMA TakingNone ==
  ASSUME FilesSound, NEW r \in Requests, OthersStay(r), Sound(req[r])',
         rows' \subseteq rows, objects \subseteq objects', UNCHANGED <<drawn, unsure>>,
         Uploading(req'[r]) => Uploading(req[r]) /\ req'[r].row = req[r].row,
         Unrecorded(req'[r]) => Unrecorded(req[r]),
         Sweeping(req'[r]) =>
           \/ Sweeping(req[r]) /\ req'[r].batch \subseteq req[r].batch
           \/ req'[r].batch \subseteq {a.file : a \in rows}
  PROVE  FilesSound'
<1>1. ASSUME NEW s \in Requests \ {r} PROVE Sound(req[s])'
  BY <1>1 DEF OthersStay, FilesSound, Sound
<1>2. ASSUME NEW s \in Requests \ {r} PROVE Apart(req[r], req[s])' /\ Apart(req[s], req[r])'
  <2>1. req'[s] = req[s] /\ Sound(req[s]) /\ Apart(req[r], req[s]) /\ Apart(req[s], req[r])
    BY <1>2 DEF OthersStay, FilesSound
  <2>2. Unrecorded(req'[r]) => Uploading(req'[r])
    BY DEF Unrecorded, Uploading
  <2>3. Unrecorded(req[s]) => \A a \in rows : a.file # req[s].row.file
    BY <2>1 DEF Sound
  <2>4. Apart(req'[r], req'[s]) /\ Apart(req'[s], req'[r])
    BY <2>1, <2>2, <2>3 DEF Apart
  <2> QED BY <2>4 DEF Apart, Uploading, Unrecorded, Sweeping
<1>3. ASSUME NEW s \in Requests \ {r}, NEW u \in Requests \ {r}, s # u
      PROVE  Apart(req[s], req[u])'
  BY <1>3 DEF OthersStay, FilesSound, Apart, Uploading, Unrecorded, Sweeping
<1>4. RowsSound'
  BY DEF FilesSound, RowsSound, RowsHaveObjects
<1> QED BY <1>1, <1>2, <1>3, <1>4 DEF FilesSound

\* An object that no row and no upload needs may be removed.
LEMMA TakingBack ==
  ASSUME Base, FilesSound, NEW r \in Requests, OthersStay(r), NEW f, RemoveObject(f),
         \A a \in rows : a.file = f => f \in unsure,
         \A s \in Requests \ {r} : Unrecorded(req[s]) => req[s].row.file # f,
         UNCHANGED <<rows, drawn, unsure>>,
         \/ req'[r].pc \in {"idle", "end", "deleteTodo"}
         \/ /\ req'[r].pc = "remove" /\ req[r].pc = "remove"
            /\ req'[r].batch \subseteq req[r].batch
  PROVE  FilesSound'
<1>1. objects \ {f} \subseteq objects'
  BY DEF RemoveObject
<1>2. ASSUME NEW s \in Requests \ {r} PROVE Sound(req[s])'
  BY <1>1, <1>2 DEF OthersStay, FilesSound, Sound, Unrecorded, Uploading, Sweeping
<1>3. Sound(req[r])'
  BY DEF FilesSound, Sound, Uploading, Unrecorded, Sweeping
<1>4. ASSUME NEW s \in Requests \ {r} PROVE Apart(req[r], req[s])' /\ Apart(req[s], req[r])'
  <2>1. req'[s] = req[s] /\ Apart(req[r], req[s]) /\ Apart(req[s], req[r])
    BY <1>4 DEF OthersStay, FilesSound
  <2> QED BY <2>1 DEF Apart, Uploading, Unrecorded, Sweeping
<1>5. ASSUME NEW s \in Requests \ {r}, NEW u \in Requests \ {r}, s # u
      PROVE  Apart(req[s], req[u])'
  BY <1>5 DEF OthersStay, FilesSound, Apart, Uploading, Unrecorded, Sweeping
<1>6. RowsSound'
  BY <1>1 DEF FilesSound, RowsSound, RowsHaveObjects
<1> QED BY <1>2, <1>3, <1>4, <1>5, <1>6 DEF FilesSound

LEMMA FilesUploads ==
  ASSUME Base, FilesSound, NEW r \in Requests,
         \/ \E t \in TodoIds : StartUpload(r, t)
         \/ PutObject(r) \/ CheckSize(r) \/ CreateRow(r) \/ UndoPut(r)
  PROVE  FilesSound'
<1> DEFINE q == req[r]
<1>0. q \in Request /\ req \in [Requests -> Request] /\ OthersStay(r) /\ Sound(q)
  BY Requesting, OneMoves DEF Base, FilesSound
<1>1. ASSUME NEW t \in TodoIds, StartUpload(r, t) PROVE FilesSound'
  <2>1. PICK f \in Files \ drawn, size \in Sizes :
          /\ req' = [req EXCEPT ![r] = [Idle EXCEPT !.op = "upload", !.pc = "put", !.todo = t,
                       !.row = [file |-> f, todo |-> t, size |-> size]]]
          /\ drawn' = drawn \cup {f}
    BY <1>1 DEF StartUpload
  <2>2. req'[r].pc = "put" /\ req'[r].row.file = f
    BY <1>0, <2>1 DEF Idle
  <2>3. UNCHANGED <<rows, objects, unsure>>
    BY <1>1 DEF StartUpload
  <2>4. Sound(req[r])'
    BY <2>1, <2>2, <2>3 DEF Sound, Uploading, Unrecorded, Sweeping, FilesSound, RowsSound
  <2>5. ASSUME NEW s \in Requests \ {r}
        PROVE  Sound(req[s])' /\ Apart(req[r], req[s])' /\ Apart(req[s], req[r])'
    <3>1. req'[s] = req[s] /\ Sound(req[s])
      BY <1>0, <2>5 DEF OthersStay, FilesSound
    <3>2. Sound(req[s])'
      BY <2>1, <2>3, <3>1 DEF Sound, Uploading, Unrecorded, Sweeping
    <3>3. Apart(req[r], req[s])' /\ Apart(req[s], req[r])'
      BY <2>1, <2>2, <3>1 DEF Sound, Apart, Uploading, Unrecorded, Sweeping
    <3> QED BY <3>2, <3>3
  <2>6. ASSUME NEW s \in Requests \ {r}, NEW u \in Requests \ {r}, s # u
        PROVE  Apart(req[s], req[u])'
    BY <1>0, <2>6 DEF OthersStay, FilesSound, Apart, Uploading, Unrecorded, Sweeping
  <2>7. RowsSound'
    BY <2>1, <2>3 DEF FilesSound, RowsSound, RowsHaveObjects
  <2> QED BY <2>4, <2>5, <2>6, <2>7 DEF FilesSound
<1>2. CASE PutObject(r)
  <2>1. q.pc = "put" /\ objects' = objects \cup {q.row.file} /\ UNCHANGED <<rows, drawn, unsure>>
    BY <1>2 DEF PutObject, At
  <2>2. CASE Go(r, "size")
    <3>1. req'[r].pc = "size" /\ req'[r].row = q.row
      BY <1>0, <2>2 DEF Go, Request
    <3>2. Sound(req[r])'
      BY <1>0, <2>1, <3>1 DEF Sound, Uploading, Unrecorded, Sweeping
    <3> QED BY <1>0, <2>1, <3>1, <3>2, TakingNone DEF Uploading, Unrecorded, Sweeping
  <2>3. CASE Return(r)
    <3>1. req'[r].pc = "idle"
      BY <1>0, <2>3 DEF Return, Idle
    <3>2. Sound(req[r])'
      BY <3>1 DEF Sound, Uploading, Unrecorded, Sweeping
    <3> QED BY <1>0, <2>1, <3>1, <3>2, TakingNone DEF Uploading, Unrecorded, Sweeping
  <2> QED BY <1>2, <2>2, <2>3 DEF PutObject
<1>3. CASE CheckSize(r)
  <2>1. PICK pc \in {"row", "undo"} : q.pc = "size" /\ Go(r, pc)
    BY <1>3 DEF CheckSize, At
  <2>2. req'[r].pc = pc /\ req'[r].row = q.row /\ UNCHANGED <<rows, objects, drawn, unsure>>
    BY <1>0, <1>3, <2>1 DEF Go, Request, CheckSize
  <2>3. Sound(req[r])'
    BY <1>0, <2>1, <2>2 DEF Sound, Uploading, Unrecorded, Sweeping
  <2> QED BY <1>0, <2>1, <2>2, <2>3, TakingNone DEF Uploading, Unrecorded, Sweeping
<1>4. CASE CreateRow(r)
  <2> DEFINE f == q.row.file
  <2>1. q.pc = "row" /\ UNCHANGED <<objects, drawn>>
    BY <1>4 DEF CreateRow, At
  <2>2. CASE UNCHANGED <<rows, unsure>>
    <3>1. Go(r, "undo")
      BY <1>4, <2>1, <2>2, <1>0 DEF CreateRow, Sound, Unrecorded
    <3>2. req'[r].pc = "undo" /\ req'[r].row = q.row
      BY <1>0, <3>1 DEF Go, Request
    <3>3. Sound(req[r])'
      BY <1>0, <2>1, <2>2, <3>2 DEF Sound, Uploading, Unrecorded, Sweeping
    <3> QED BY <1>0, <2>1, <2>2, <3>2, <3>3, TakingNone DEF Uploading, Unrecorded, Sweeping
  <2>3. CASE /\ rows' = rows \cup {q.row}
             /\ \/ Return(r) /\ unsure' = unsure
                \/ Go(r, "undo") /\ unsure' = unsure \cup {f}
    <3>1. \/ req'[r].pc = "idle" /\ unsure' = unsure
          \/ req'[r].pc = "undo" /\ req'[r].row = q.row /\ unsure' = unsure \cup {f}
      BY <1>0, <2>3 DEF Return, Go, Idle, Request
    <3>2. f \in objects /\ f \in drawn /\ \A a \in rows : a.file # f
      BY <1>0, <2>1 DEF Sound, Uploading, Unrecorded
    <3>3. Sound(req[r])'
      BY <2>1, <2>3, <3>1, <3>2 DEF Sound, Uploading, Unrecorded, Sweeping
    <3>4. ASSUME NEW s \in Requests \ {r}
          PROVE  Sound(req[s])' /\ Apart(req[r], req[s])' /\ Apart(req[s], req[r])'
      <4>1. /\ req'[s] = req[s] /\ Sound(req[s])
            /\ Apart(req[r], req[s]) /\ Apart(req[s], req[r])
        BY <1>0, <3>4 DEF OthersStay, FilesSound
      <4>2. /\ Uploading(req[s]) => req[s].row.file # f
            /\ Sweeping(req[s]) => f \notin req[s].batch
        BY <2>1, <4>1 DEF Apart, Uploading, Unrecorded
      <4>3. Sound(req[s])'
        BY <2>1, <2>3, <3>1, <4>1, <4>2 DEF Sound, Uploading, Unrecorded, Sweeping
      <4>4. Apart(req[r], req[s])' /\ Apart(req[s], req[r])'
        BY <2>1, <3>1, <4>1, <4>2 DEF Apart, Uploading, Unrecorded, Sweeping
      <4> QED BY <4>3, <4>4
    <3>5. ASSUME NEW s \in Requests \ {r}, NEW u \in Requests \ {r}, s # u
          PROVE  Apart(req[s], req[u])'
      BY <1>0, <3>5 DEF OthersStay, FilesSound, Apart, Uploading, Unrecorded, Sweeping
    <3>6. RowsSound'
      BY <2>1, <2>3, <3>1, <3>2 DEF FilesSound, RowsSound, RowsHaveObjects
    <3> QED BY <3>3, <3>4, <3>5, <3>6 DEF FilesSound
  <2> QED BY <1>4, <2>2, <2>3 DEF CreateRow
<1>5. CASE UndoPut(r)
  <2>1. q.pc = "undo" /\ RemoveObject(q.row.file) /\ Return(r) /\ UNCHANGED <<rows, drawn, unsure>>
    BY <1>5 DEF UndoPut, At
  <2>2. \A a \in rows : a.file = q.row.file => a.file \in unsure
    BY <1>0, <2>1 DEF Sound
  <2>3. \A s \in Requests \ {r} : Unrecorded(req[s]) => req[s].row.file # q.row.file
    BY <2>1 DEF FilesSound, Apart, Uploading, Unrecorded
  <2>4. req'[r].pc = "idle"
    BY <1>0, <2>1 DEF Return, Idle
  <2> QED BY <1>0, <2>1, <2>2, <2>3, <2>4, TakingBack
<1> QED BY <1>1, <1>2, <1>3, <1>4, <1>5

LEMMA FilesDeletes ==
  ASSUME Base, FilesSound, NEW r \in Requests,
         \/ DeleteRow(r) \/ ListForTodo(r) \/ DeleteRows(r) \/ RemoveObjects(r)
  PROVE  FilesSound'
<1> DEFINE q == req[r]
<1>0. q \in Request /\ req \in [Requests -> Request] /\ OthersStay(r) /\ Sound(q)
  BY Requesting, OneMoves DEF Base, FilesSound
<1>1. CASE DeleteRow(r)
  <2>1. rows' = rows \ {q.row} /\ UNCHANGED <<objects, drawn, unsure>>
    BY <1>1 DEF DeleteRow
  <2>2. CASE q.row \in rows
    <3>1. req'[r].pc = "remove" /\ req'[r].batch = {q.row.file}
      BY <1>0, <1>1, <2>2 DEF DeleteRow, Request
    <3>2. Sound(req[r])'
      BY <2>1, <2>2, <3>1 DEF FilesSound, RowsSound, Sound, Uploading, Unrecorded, Sweeping
    <3> QED BY <1>0, <2>1, <2>2, <3>1, <3>2, TakingNone DEF Uploading, Unrecorded
  <2>3. CASE q.row \notin rows
    <3>1. req'[r].pc = "idle"
      BY <1>0, <1>1, <2>3 DEF DeleteRow, Return, Idle
    <3>2. Sound(req[r])'
      BY <3>1 DEF Sound, Uploading, Unrecorded, Sweeping
    <3> QED BY <1>0, <2>1, <3>1, <3>2, TakingNone DEF Uploading, Unrecorded, Sweeping
  <2> QED BY <2>2, <2>3
<1>2. CASE ListForTodo(r)
  <2>1. /\ req'[r].batch = {a.file : a \in Of(q.todo)} /\ req'[r].todo = q.todo
        /\ req'[r].pc \in {"deleteRows", "end", "deleteTodo"}
        /\ UNCHANGED <<rows, objects, drawn, unsure>>
    BY <1>0, <1>2 DEF ListForTodo, Request
  <2>2. Sound(req[r])'
    BY <2>1 DEF FilesSound, RowsSound, Sound, Uploading, Unrecorded, Sweeping, Of
  <2>3. req'[r].batch \subseteq {a.file : a \in rows}
    BY <2>1 DEF Of
  <2> QED BY <1>0, <2>1, <2>2, <2>3, TakingNone DEF Uploading, Unrecorded
<1>3. CASE DeleteRows(r)
  <2>1. /\ q.pc = "deleteRows" /\ rows' = rows \ Of(q.todo)
        /\ req'[r].pc = "remove" /\ req'[r].batch = q.batch
        /\ UNCHANGED <<objects, drawn, unsure>>
    BY <1>0, <1>3 DEF DeleteRows, At, Go, Request
  <2>2. Sound(req[r])'
    BY <1>0, <2>1 DEF Sound, Uploading, Unrecorded, Sweeping, Of
  <2> QED BY <1>0, <2>1, <2>2, TakingNone DEF Uploading, Unrecorded, Sweeping
<1>4. CASE RemoveObjects(r)
  <2>1. q.pc = "remove" /\ UNCHANGED <<rows, drawn, unsure>>
    BY <1>4 DEF RemoveObjects, At
  <2>2. PICK f \in q.batch :
          /\ RemoveObject(f)
          /\ req' = [req EXCEPT ![r].batch = @ \ {f},
                       ![r].pc = IF req[r].batch # {f} THEN "remove"
                                 ELSE IF req[r].op = "deleteTodo" THEN "deleteTodo" ELSE "end"]
    BY <1>4 DEF RemoveObjects
  <2>3. req'[r].pc \in {"remove", "end", "deleteTodo"} /\ req'[r].batch \subseteq q.batch
    BY <1>0, <2>2 DEF Request
  <2>4. \A a \in rows : a.file # f
    BY <1>0, <2>1, <2>2 DEF Sound
  <2>5. \A s \in Requests \ {r} : Unrecorded(req[s]) => req[s].row.file # f
    BY <2>1, <2>2 DEF FilesSound, Apart, Sweeping
  <2> QED BY <1>0, <2>1, <2>2, <2>3, <2>4, <2>5, TakingBack
<1> QED BY <1>1, <1>2, <1>3, <1>4

LEMMA FilesStep == Base /\ FilesSound /\ [Next]_vars => FilesSound'
<1> SUFFICES ASSUME Base, FilesSound, [Next]_vars PROVE FilesSound'
  OBVIOUS
<1>0. req \in [Requests -> Request]
  BY DEF Base, TypeOK, Request
<1>1. ASSUME NEW r \in Requests, OthersStay(r), UNCHANGED <<rows, objects, drawn, unsure>>,
             req'[r].pc \in {"idle", "deleteRow", "list", "write", "ensure"}
      PROVE  FilesSound'
  <2>1. Sound(req[r])'
    BY <1>1 DEF Sound, Uploading, Unrecorded, Sweeping
  <2> QED BY <1>1, <2>1, TakingNone DEF Uploading, Unrecorded, Sweeping
<1>2. ASSUME NEW r \in Requests,
             \/ \E t \in TodoIds : \/ StartDeleteTodo(r, t) \/ StartAutoDelete(r, t)
                                   \/ StartTag(r, t)
             \/ \E a \in rows : StartDelete(r, a)
      PROVE  FilesSound'
  <2>1. UNCHANGED <<rows, objects, drawn, unsure>>
    BY <1>2 DEF StartDeleteTodo, StartAutoDelete, StartTag, StartDelete
  <2>2. ASSUME NEW t \in TodoIds, StartDeleteTodo(r, t) \/ StartAutoDelete(r, t)
        PROVE  req'[r].pc = "list"
    BY <1>0, <2>2 DEF StartDeleteTodo, StartAutoDelete, Idle
  <2>3. ASSUME NEW t \in TodoIds, StartTag(r, t)
        PROVE  req'[r].pc = "write"
    BY <1>0, <2>3 DEF StartTag, Idle
  <2>4. ASSUME NEW a \in rows, StartDelete(r, a)
        PROVE  req'[r].pc = "deleteRow"
    BY <1>0, <2>4 DEF StartDelete, Idle
  <2>5. req'[r].pc \in {"deleteRow", "list", "write"}
    BY <1>2, <2>2, <2>3, <2>4
  <2> QED BY <1>1, <1>2, <2>1, <2>5, OneMoves
<1>3. ASSUME NEW r \in Requests,
             \/ DeleteTodo(r) \/ End(r) \/ WriteTodo(r) \/ InsertLinks(r) \/ Abort(r)
      PROVE  FilesSound'
  <2>1. UNCHANGED <<rows, objects, drawn, unsure>>
    BY <1>3 DEF DeleteTodo, End, WriteTodo, InsertLinks, Abort
  <2>2. Return(r) \/ Go(r, "ensure")
    BY <1>3 DEF DeleteTodo, End, WriteTodo, InsertLinks, Abort
  <2>3. req'[r].pc \in {"idle", "ensure"}
    BY <1>0, <2>2 DEF Return, Go, Idle, Request
  <2> QED BY <1>1, <1>3, <2>1, <2>3, OneMoves
<1>4. ASSUME UNCHANGED <<rows, objects, drawn, unsure, req>> PROVE FilesSound'
  BY <1>4 DEF FilesSound, RowsSound, RowsHaveObjects, Sound, Apart, Uploading, Unrecorded,
              Sweeping
<1>5. ASSUME NEW r \in Requests, EnsureTag(r) PROVE FilesSound'
  BY <1>4, <1>5 DEF EnsureTag
<1>6. CASE UNCHANGED vars
  BY <1>4, <1>6 DEF vars
<1> QED BY <1>2, <1>3, <1>5, <1>6, FilesUploads, FilesDeletes DEF Next

\* An attachment that is listed can be opened.  Of uploads, deletes, completions and
\* failures in any order, none removes the object of a row that is still there, but the
\* upload whose guarded insert was reported as failed after the row was stored.
THEOREM ListedCanBeOpened == Spec => []RowsHaveObjects
<1>1. Init => FilesSound
  BY DEF Init, FilesSound, RowsSound, RowsHaveObjects, Sound, Apart, Idle, Uploading,
         Unrecorded, Sweeping
<1>2. FilesSound => RowsHaveObjects
  BY DEF FilesSound, RowsSound
<1> QED BY <1>1, <1>2, BaseInit, BaseStep, FilesStep, PTL DEF Spec

-----------------------------------------------------------------------------
(* What belongs to an action goes with it *)

\* What is left of an action that is being deleted was added meanwhile: links from the
\* first statement on, rows once they were deleted.
Leaving(q) ==
  q.op = "deleteTodo" =>
    /\ \A l \in links : l[1] = q.todo => l \in late
    /\ q.pc \in {"remove", "deleteTodo"} => \A a \in rows : a.todo = q.todo => a.file \in late

Gone == (\A r \in Requests : Leaving(req[r])) /\ NothingOutlivesItsAction

LEMMA AddingNone ==
  ASSUME Gone, NEW r \in Requests, OthersStay(r), Leaving(req[r])',
         rows' \subseteq rows, links' \subseteq links, UNCHANGED <<todos, late>>
  PROVE  Gone'
<1>1. ASSUME NEW s \in Requests \ {r} PROVE Leaving(req[s])'
  BY <1>1 DEF OthersStay, Gone, Leaving
<1>2. NothingOutlivesItsAction'
  BY DEF Gone, NothingOutlivesItsAction
<1> QED BY <1>1, <1>2 DEF Gone

\* What is added to an action that somebody deletes is marked.
LEMMA AddingLate ==
  ASSUME Gone, NEW r \in Requests, OthersStay(r),
         req[r].op # "deleteTodo", req'[r].op # "deleteTodo",
         NEW t \in TodoIds, NEW new, Mark(t, new), UNCHANGED todos,
         \/ rows' = rows /\ links' \subseteq links \cup new /\ \A l \in links' \ links : l[1] = t
         \/ /\ links' = links /\ \A a \in rows' \ rows : a.todo = t /\ a.file \in new
  PROVE  Gone'
<1>1. late \subseteq late'
  BY DEF Mark
<1>2. t \in Doomed => new \subseteq late'
  BY DEF Mark
<1>3. ASSUME NEW s \in Requests \ {r} PROVE Leaving(req[s])'
  <2>1. req'[s] = req[s] /\ Leaving(req[s])
    BY <1>3 DEF OthersStay, Gone
  <2>2. req[s].op = "deleteTodo" /\ req[s].todo = t => new \subseteq late'
    BY <1>2, <1>3 DEF Doomed
  <2> QED BY <1>1, <2>1, <2>2 DEF Leaving
<1>4. Leaving(req[r])'
  BY DEF Leaving
<1>5. t \notin todos => new \subseteq late'
  BY <1>2 DEF Doomed
<1>6. NothingOutlivesItsAction'
  BY <1>1, <1>5 DEF Gone, NothingOutlivesItsAction
<1> QED BY <1>3, <1>4, <1>6 DEF Gone

LEMMA GoneStep == Base /\ Gone /\ [Next]_vars => Gone'
<1> SUFFICES ASSUME Base, Gone, [Next]_vars PROVE Gone'
  OBVIOUS
<1>0. ASSUME NEW r \in Requests
      PROVE  /\ req \in [Requests -> Request] /\ req[r] \in Request
             /\ HandsFull(req[r]) /\ Leaving(req[r])
  BY <1>0, Requesting DEF Base, Gone
<1>1. ASSUME NEW r \in Requests,
             \/ \E t \in TodoIds : \/ StartUpload(r, t) \/ StartAutoDelete(r, t)
                                   \/ StartTag(r, t)
             \/ \E a \in rows : StartDelete(r, a)
      PROVE  Gone'
  <2>1. req'[r].op # "deleteTodo"
    BY <1>0, <1>1 DEF StartUpload, StartAutoDelete, StartTag, StartDelete, Idle
  <2>2. UNCHANGED <<todos, rows, links, late>>
    BY <1>1 DEF StartUpload, StartAutoDelete, StartTag, StartDelete
  <2> QED BY <1>1, <2>1, <2>2, AddingNone, OneMoves DEF Leaving
<1>2. ASSUME NEW r \in Requests, NEW t \in TodoIds, StartDeleteTodo(r, t) PROVE Gone'
  <2>1. req'[r].todo = t /\ req'[r].pc = "list"
    BY <1>0, <1>2 DEF StartDeleteTodo, Idle
  <2>2. Leaving(req[r])'
    BY <1>2, <2>1 DEF StartDeleteTodo, Leaving
  <2>3. links' \subseteq links /\ UNCHANGED <<todos, rows, late>>
    BY <1>2 DEF StartDeleteTodo
  <2> QED BY <1>2, <2>2, <2>3, AddingNone, OneMoves
<1>3. ASSUME NEW r \in Requests,
             PutObject(r) \/ CheckSize(r) \/ UndoPut(r) \/ DeleteRow(r) \/ WriteTodo(r)
      PROVE  Gone'
  <2>1. req[r].op # "deleteTodo"
    BY <1>0, <1>3 DEF PutObject, CheckSize, UndoPut, DeleteRow, WriteTodo, At, HandsFull
  <2>2. req'[r].op \in {"none", req[r].op}
    BY <1>0, <1>3 DEF PutObject, CheckSize, UndoPut, DeleteRow, WriteTodo, Go, Return, Idle,
                      Request
  <2>3. rows' \subseteq rows /\ links' \subseteq links /\ UNCHANGED <<todos, late>>
    BY <1>3 DEF PutObject, CheckSize, UndoPut, DeleteRow, WriteTodo
  <2> QED BY <1>3, <2>1, <2>2, <2>3, AddingNone, OneMoves DEF Leaving
<1>4. ASSUME NEW r \in Requests, End(r) \/ Abort(r) PROVE Gone'
  <2>1. req'[r].op = "none" /\ UNCHANGED <<todos, rows, links, late>>
    BY <1>0, <1>4 DEF End, Abort, Return, Idle
  <2> QED BY <1>4, <2>1, AddingNone, OneMoves DEF Leaving
<1>5. ASSUME NEW r \in Requests, CreateRow(r) PROVE Gone'
  <2>1. req[r].row \in Row /\ req[r].row.todo \in TodoIds /\ req[r].op # "deleteTodo"
    BY <1>0, <1>5 DEF CreateRow, At, HandsFull, Row
  <2>2. req'[r].op \in {"none", req[r].op} /\ UNCHANGED <<todos, links>>
    BY <1>0, <1>5 DEF CreateRow, Go, Return, Idle, Request
  <2>3. CASE rows' = rows \cup {req[r].row} /\ Mark(req[r].row.todo, {req[r].row.file})
    BY <1>5, <2>1, <2>2, <2>3, AddingLate, OneMoves
  <2>4. CASE UNCHANGED <<rows, late>>
    BY <1>5, <2>1, <2>2, <2>4, AddingNone, OneMoves DEF Leaving
  <2> QED BY <1>5, <2>3, <2>4 DEF CreateRow
<1>6. ASSUME NEW r \in Requests, InsertLinks(r) PROVE Gone'
  <2> DEFINE new == {req[r].todo} \X req[r].names
  <2>1. req[r].todo \in TodoIds /\ req[r].op # "deleteTodo"
    BY <1>0, <1>6 DEF InsertLinks, At, HandsFull
  <2>2. req'[r].op = "none" /\ UNCHANGED <<todos, rows>>
    BY <1>0, <1>6 DEF InsertLinks, Return, Idle
  <2>3. links' = links \cup new /\ Mark(req[r].todo, new) /\ \A l \in new : l[1] = req[r].todo
    BY <1>6 DEF InsertLinks
  <2> HIDE DEF new
  <2> QED BY <1>6, <2>1, <2>2, <2>3, AddingLate, OneMoves
<1>7. ASSUME NEW r \in Requests, ListForTodo(r) PROVE Gone'
  <2>1. /\ req'[r].op = req[r].op /\ req'[r].todo = req[r].todo
        /\ req'[r].pc \in {"remove", "deleteTodo"} => Of(req[r].todo) = {}
        /\ UNCHANGED <<todos, rows, links, late>>
    BY <1>0, <1>7 DEF ListForTodo, Request
  <2>2. Leaving(req[r])'
    BY <1>0, <2>1 DEF Leaving, Of
  <2> QED BY <1>7, <2>1, <2>2, AddingNone, OneMoves
<1>8. ASSUME NEW r \in Requests, DeleteRows(r) PROVE Gone'
  <2>1. /\ req'[r].op = req[r].op /\ req'[r].todo = req[r].todo
        /\ rows' = rows \ Of(req[r].todo) /\ UNCHANGED <<todos, links, late>>
    BY <1>0, <1>8 DEF DeleteRows, Go, Request
  <2>2. Leaving(req[r])'
    BY <1>0, <2>1 DEF Leaving, Of
  <2> QED BY <1>8, <2>1, <2>2, AddingNone, OneMoves
<1>9. ASSUME NEW r \in Requests, RemoveObjects(r) PROVE Gone'
  <2>1. /\ req[r].pc = "remove" /\ req'[r].op = req[r].op /\ req'[r].todo = req[r].todo
        /\ UNCHANGED <<todos, rows, links, late>>
    BY <1>0, <1>9 DEF RemoveObjects, At, Request
  <2>2. Leaving(req[r])'
    BY <1>0, <2>1 DEF Leaving
  <2> QED BY <1>9, <2>1, <2>2, AddingNone, OneMoves
<1>10. ASSUME NEW r \in Requests, DeleteTodo(r) PROVE Gone'
  <2>1. /\ req[r].pc = "deleteTodo" /\ req[r].op = "deleteTodo"
        /\ todos' = todos \ {req[r].todo} /\ UNCHANGED <<rows, links, late>>
        /\ req'[r].op = "none"
    BY <1>0, <1>10 DEF DeleteTodo, At, HandsFull, Return, Idle
  <2>2. NothingOutlivesItsAction'
    BY <1>0, <2>1 DEF Gone, NothingOutlivesItsAction, Leaving
  <2>3. ASSUME NEW s \in Requests PROVE Leaving(req[s])'
    BY <1>10, <2>1, <2>3, OneMoves DEF OthersStay, Gone, Leaving
  <2> QED BY <2>2, <2>3 DEF Gone
<1>11. ASSUME UNCHANGED <<todos, rows, links, late, req>> PROVE Gone'
  BY <1>11 DEF Gone, NothingOutlivesItsAction, Leaving
<1>12. ASSUME NEW r \in Requests, EnsureTag(r) PROVE Gone'
  BY <1>11, <1>12 DEF EnsureTag
<1>13. CASE UNCHANGED vars
  BY <1>11, <1>13 DEF vars
<1> QED BY <1>1, <1>2, <1>3, <1>4, <1>5, <1>6, <1>7, <1>8, <1>9, <1>10, <1>12, <1>13 DEF Next

\* Deleting an action takes its links and its attachments with it: the only ones that
\* may stay behind were added by a request that overlapped the delete.
THEOREM NothingLeftBehind == Spec => []NothingOutlivesItsAction
<1>1. Init => Gone
  BY DEF Init, Gone, NothingOutlivesItsAction, Leaving, Idle
<1>2. Gone => NothingOutlivesItsAction
  BY DEF Gone
<1> QED BY <1>1, <1>2, BaseInit, BaseStep, GoneStep, PTL DEF Spec
-----------------------------------------------------------------------------
(* Sums over sets: the fold of the library, by induction over the subsets   *)

\* What the rows of S use, as Used counts it.
Size(S) == MapThenSumSet(LAMBDA a : a.size, S)
Sized(S) == \A a \in S : a.size \in Nat

\* The element the fold takes next, and the equation of the fold.
Pick(s) == CHOOSE a \in s : TRUE
Sums(h, S) == h = [s \in SUBSET S |-> IF s = {} THEN 0 ELSE Pick(s).size + h[s \ {Pick(s)}]]
TheSum(S) == CHOOSE h : Sums(h, S)

LEMMA SizeIs == \A S : Size(S) = TheSum(S)[S]
BY DEF Size, TheSum, Sums, Pick, MapThenSumSet, MapThenFoldSet

\* What is not so of every subset of a finite set is not so of a smallest one.
LEMMA Smallest ==
  ASSUME NEW S, IsFiniteSet(S), NEW B, B \subseteq SUBSET S, B # {}
  PROVE  \E s \in B : \A t \in SUBSET s : t # s => t \notin B
<1>1. IsWellFoundedOn(StrictSubsetOrdering(S), SUBSET S)
  BY FS_StrictSubsetOrderingWellFounded, FS_FiniteSubsetsOfFinite
<1>2. PICK s \in B : \A t \in B : ~(<<t, s>> \in StrictSubsetOrdering(S))
  BY <1>1, WFMin
<1> QED BY <1>2 DEF StrictSubsetOrdering

LEMMA Picks == \A s : s # {} => Pick(s) \in s
BY DEF Pick

\* The equation has one solution at most, and its values do not depend on the whole set.
LEMMA SumsAgree ==
  ASSUME NEW S, NEW T, IsFiniteSet(S), NEW g, NEW h, Sums(g, S), Sums(h, T),
         NEW u \in SUBSET (S \cap T)
  PROVE  g[u] = h[u]
<1> DEFINE B == {s \in SUBSET (S \cap T) : g[s] # h[s]}
<1>1. SUFFICES ASSUME B # {} PROVE FALSE
  OBVIOUS
<1>2. B \subseteq SUBSET S
  OBVIOUS
<1> HIDE DEF B
<1>3. PICK s \in B : \A t \in SUBSET s : t # s => t \notin B
  BY <1>1, <1>2, Smallest
<1> USE DEF B
<1>4. \A t \in SUBSET s : t # s => g[t] = h[t]
  BY <1>3
<1>5. s \in SUBSET S /\ s \in SUBSET T /\ g[s] # h[s]
  BY <1>3
<1>6. CASE s = {}
  BY <1>5, <1>6 DEF Sums
<1>7. CASE s # {}
  <2>1. g[s \ {Pick(s)}] = h[s \ {Pick(s)}]
    BY <1>4, <1>7, Picks
  <2>2. g[s] = Pick(s).size + g[s \ {Pick(s)}]
    BY <1>5, <1>7 DEF Sums
  <2>3. h[s] = Pick(s).size + h[s \ {Pick(s)}]
    BY <1>5, <1>7 DEF Sums
  <2> QED BY <1>5, <2>1, <2>2, <2>3
<1> QED BY <1>6, <1>7

LEMMA SumUnfolds ==
  ASSUME NEW S, IsFiniteSet(S), Sums(TheSum(S), S),
         \A s \in SUBSET S : s # S => Sums(TheSum(s), s)
  PROVE  Size(S) = IF S = {} THEN 0 ELSE Pick(S).size + Size(S \ {Pick(S)})
<1>1. CASE S = {}
  BY <1>1, SizeIs DEF Sums
<1>2. CASE S # {}
  <2> DEFINE t == S \ {Pick(S)}
  <2>1. t \in SUBSET S /\ t # S
    BY <1>2, Picks
  <2>2. Size(S) = Pick(S).size + TheSum(S)[t]
    BY <1>2, SizeIs DEF Sums
  <2>3. Sums(TheSum(t), t) /\ t \in SUBSET (S \cap t)
    BY <2>1
  <2> HIDE DEF t
  <2>4. TheSum(S)[t] = TheSum(t)[t]
    BY <2>3, SumsAgree
  <2> USE DEF t
  <2> QED BY <1>2, <2>2, <2>4, SizeIs
<1> QED BY <1>1, <1>2

LEMMA SumExists ==
  ASSUME NEW S, IsFiniteSet(S)
  PROVE  Sums(TheSum(S), S)
<1> DEFINE B == {s \in SUBSET S : ~Sums(TheSum(s), s)}
<1>1. SUFFICES ASSUME B # {} PROVE FALSE
  OBVIOUS
<1>0. B \subseteq SUBSET S
  OBVIOUS
<1> HIDE DEF B
<1>2. PICK s \in B : \A t \in SUBSET s : t # s => t \notin B
  BY <1>0, <1>1, Smallest
<1> USE DEF B
<1>3. s \in SUBSET S /\ ~Sums(TheSum(s), s)
  BY <1>2
<1>4. \A t \in SUBSET s : t # s => Sums(TheSum(t), t)
  BY <1>2, <1>3
<1>5. \A t \in SUBSET s : IsFiniteSet(t)
  BY <1>3, FS_Subset
<1> DEFINE H(u) == IF u = {} THEN 0 ELSE Pick(u).size + Size(u \ {Pick(u)})
           h == [u \in SUBSET s |-> H(u)]
<1>6. \A u \in SUBSET s : u # s => h[u] = Size(u)
  <2> SUFFICES ASSUME NEW u \in SUBSET s, u # s PROVE H(u) = Size(u)
    OBVIOUS
  <2>1. \A t \in SUBSET u : Sums(TheSum(t), t)
    BY <1>4
  <2> QED BY <1>5, <2>1, SumUnfolds
<1>7. \A u \in SUBSET s : u # {} => h[u \ {Pick(u)}] = Size(u \ {Pick(u)})
  <2> SUFFICES ASSUME NEW u \in SUBSET s, u # {}
               PROVE  u \ {Pick(u)} \in SUBSET s /\ u \ {Pick(u)} # s
    BY <1>6
  <2> QED BY Picks
<1>8. h = [u \in SUBSET s |-> IF u = {} THEN 0 ELSE Pick(u).size + h[u \ {Pick(u)}]]
  BY <1>7
<1> HIDE DEF h
<1>9. Sums(h, s)
  BY <1>8 DEF Sums
<1>10. Sums(TheSum(s), s)
  BY <1>9 DEF TheSum
<1> QED BY <1>3, <1>10

LEMMA SizeStep ==
  ASSUME NEW S, IsFiniteSet(S)
  PROVE  Size(S) = IF S = {} THEN 0 ELSE Pick(S).size + Size(S \ {Pick(S)})
BY FS_Subset, SumExists, SumUnfolds

LEMMA SizeEmpty == Size({}) = 0
BY SizeStep, FS_EmptySet

LEMMA SizeNat ==
  ASSUME NEW S, IsFiniteSet(S), Sized(S)
  PROVE  Size(S) \in Nat
<1> DEFINE B == {s \in SUBSET S : Size(s) \notin Nat}
<1>1. SUFFICES ASSUME B # {} PROVE FALSE
  OBVIOUS
<1>0. B \subseteq SUBSET S
  OBVIOUS
<1> HIDE DEF B
<1>2. PICK s \in B : \A t \in SUBSET s : t # s => t \notin B
  BY <1>0, <1>1, Smallest
<1> USE DEF B
<1>3. s \in SUBSET S /\ Size(s) \notin Nat /\ IsFiniteSet(s)
  BY <1>2, FS_Subset
<1>4. s # {}
  BY <1>3, SizeEmpty
<1>5. Pick(s) \in s /\ Pick(s).size \in Nat
  BY <1>3, <1>4, Picks DEF Sized
<1>6. Size(s \ {Pick(s)}) \in Nat
  BY <1>2, <1>3, <1>5
<1>7. Size(s) = Pick(s).size + Size(s \ {Pick(s)})
  BY <1>3, <1>4, SizeStep
<1> QED BY <1>3, <1>5, <1>6, <1>7

\* Whichever element is taken out, the rest makes up the sum.
LEMMA SizeWithout ==
  ASSUME NEW S, IsFiniteSet(S), Sized(S), NEW x \in S
  PROVE  Size(S) = x.size + Size(S \ {x})
<1> DEFINE B == {s \in SUBSET S : \E y \in s : Size(s) # y.size + Size(s \ {y})}
<1>1. SUFFICES ASSUME B # {} PROVE FALSE
  <2>1. S \in SUBSET S
    OBVIOUS
  <2> QED BY <2>1
<1>0. B \subseteq SUBSET S
  OBVIOUS
<1> HIDE DEF B
<1>2. PICK s \in B : \A t \in SUBSET s : t # s => t \notin B
  BY <1>0, <1>1, Smallest
<1> USE DEF B
<1>3. PICK y \in s : Size(s) # y.size + Size(s \ {y})
  BY <1>2
<1>4. /\ s \in SUBSET S /\ s # {} /\ IsFiniteSet(s) /\ IsFiniteSet(s \ {y})
      /\ IsFiniteSet(s \ {Pick(s)}) /\ IsFiniteSet((s \ {y}) \ {Pick(s)})
  BY <1>2, <1>3, FS_Subset
<1> DEFINE p == Pick(s)
<1>5. p \in s /\ Size(s) = p.size + Size(s \ {p})
  BY <1>4, Picks, SizeStep
<1>6. p # y
  BY <1>3, <1>5
<1>7. Size(s \ {y}) = p.size + Size((s \ {y}) \ {p})
  <2>1. s \ {y} \in SUBSET s /\ s \ {y} # s /\ p \in s \ {y}
    BY <1>3, <1>5, <1>6
  <2>2. s \ {y} \notin B /\ s \ {y} \in SUBSET S
    BY <1>2, <1>4, <2>1
  <2> HIDE DEF p
  <2> QED BY <2>1, <2>2
<1>8. Size(s \ {p}) = y.size + Size((s \ {p}) \ {y})
  <2>1. s \ {p} \in SUBSET s /\ s \ {p} # s /\ y \in s \ {p}
    BY <1>3, <1>5, <1>6
  <2>2. s \ {p} \notin B /\ s \ {p} \in SUBSET S
    BY <1>2, <1>4, <2>1
  <2> HIDE DEF p
  <2> QED BY <2>1, <2>2
<1>9. (s \ {p}) \ {y} = (s \ {y}) \ {p}
  OBVIOUS
<1>10. p.size \in Nat /\ y.size \in Nat /\ Size((s \ {y}) \ {p}) \in Nat
  BY <1>3, <1>4, <1>5, SizeNat DEF Sized
<1>11. Size(s) # y.size + Size(s \ {y})
  BY <1>3
<1> DEFINE k == Size((s \ {y}) \ {p})
<1>12. Size(s) = p.size + (y.size + k) /\ Size(s \ {y}) = p.size + k
  BY <1>5, <1>7, <1>8, <1>9
<1>13. p.size + (y.size + k) = y.size + (p.size + k)
  BY <1>10
<1> QED BY <1>11, <1>12, <1>13

LEMMA SizeWith ==
  ASSUME NEW S, IsFiniteSet(S), Sized(S), NEW x, x.size \in Nat
  PROVE  /\ IsFiniteSet(S \cup {x})
         /\ Size(S \cup {x}) <= Size(S) + x.size
<1>1. IsFiniteSet(S \cup {x}) /\ Sized(S \cup {x})
  BY FS_AddElement DEF Sized
<1>2. CASE x \in S
  <2>1. S \cup {x} = S
    BY <1>2
  <2>2. Size(S) \in Nat
    BY SizeNat
  <2> QED BY <1>1, <2>1, <2>2
<1>3. CASE x \notin S
  <2>1. (S \cup {x}) \ {x} = S
    BY <1>3
  <2> QED BY <1>1, <2>1, SizeWithout, SizeNat
<1> QED BY <1>2, <1>3

LEMMA SizeOfLess ==
  ASSUME NEW S, IsFiniteSet(S), Sized(S), NEW T \in SUBSET S
  PROVE  Size(T) <= Size(S)
<1> DEFINE B == {s \in SUBSET S : T \subseteq s /\ ~(Size(T) <= Size(s))}
<1>1. SUFFICES ASSUME B # {} PROVE FALSE
  <2>1. S \in SUBSET S
    OBVIOUS
  <2> QED BY <2>1
<1>0. B \subseteq SUBSET S
  OBVIOUS
<1> HIDE DEF B
<1>2. PICK s \in B : \A t \in SUBSET s : t # s => t \notin B
  BY <1>0, <1>1, Smallest
<1> USE DEF B
<1>3. /\ s \in SUBSET S /\ T \subseteq s /\ ~(Size(T) <= Size(s))
      /\ IsFiniteSet(s) /\ IsFiniteSet(T) /\ Sized(s) /\ Sized(T)
  BY <1>2, FS_Subset DEF Sized
<1>4. s # T
  BY <1>3, SizeNat
<1>5. PICK x \in s : x \notin T
  BY <1>3, <1>4
<1>6. s \ {x} \in SUBSET s /\ s \ {x} # s /\ T \subseteq s \ {x}
  BY <1>3, <1>5
<1>7. Size(T) <= Size(s \ {x})
  BY <1>2, <1>3, <1>6
<1>8. IsFiniteSet(s \ {x}) /\ Sized(s \ {x})
  BY <1>3, <1>6, FS_Subset DEF Sized
<1>9. Size(s) = x.size + Size(s \ {x}) /\ x.size \in Nat
  BY <1>3, SizeWithout DEF Sized
<1> QED BY <1>3, <1>7, <1>8, <1>9, SizeNat

-----------------------------------------------------------------------------
(* The allowances, checked under the guard before the write *)

\* Points at which a request holds the guard, and what its check has found there.
Guarded(r) == req[r].pc \in {"row", "write", "ensure"}
Cleared(r) == /\ req[r].pc = "row" => Fits(req[r].row.size)
              /\ req[r].pc \in {"write", "ensure"} => TagsFit(req[r].names)
Checked ==
  /\ IsFiniteSet(rows)
  /\ \A r \in Requests : Guarded(r) => holder = r /\ Cleared(r)
Allowed == Checked /\ WithinAllowance

LEMMA UsedNow == Used = Size(rows)
BY DEF Used, Size

LEMMA UsedIs == Used = Size(rows) /\ Used' = Size(rows')
<1>1. (Used = Size(rows))'
  BY UsedNow, PTL
<1> QED BY <1>1, UsedNow

LEMMA RowsSized == ASSUME Base PROVE Sized(rows)
BY Bounds DEF Base, TypeOK, Sized, Row

\* Fewer rows use no more.
LEMMA UsesNoMore ==
  ASSUME Base, IsFiniteSet(rows), rows' \subseteq rows
  PROVE  IsFiniteSet(rows') /\ Used \in Nat /\ Used' \in Nat /\ Used' <= Used
<1>1. IsFiniteSet(rows') /\ Sized(rows')
  BY FS_Subset, RowsSized DEF Sized
<1>2. Size(rows) \in Nat /\ Size(rows') \in Nat /\ Size(rows') <= Size(rows)
  BY <1>1, RowsSized, SizeNat, SizeOfLess
<1> QED BY <1>1, <1>2, UsedIs

\* A step that adds neither a row nor a tag, and holds the guard no further than before.
LEMMA AllowedKept ==
  ASSUME Base, Allowed, NEW r \in Requests, OthersStay(r),
         rows' \subseteq rows, tags' = tags, holder # r => holder' = holder,
         Guarded(r)' => holder' = r /\ Cleared(r)'
  PROVE  Allowed'
<1>1. IsFiniteSet(rows') /\ Used \in Nat /\ Used' \in Nat /\ Used' <= Used
  BY UsesNoMore DEF Allowed, Checked
<1>2. WithinAllowance'
  BY <1>1, Bounds DEF Allowed, WithinAllowance
<1>3. ASSUME NEW s \in Requests \ {r}, Guarded(s)' PROVE holder' = s /\ Cleared(s)'
  <2>1. req'[s] = req[s] /\ Guarded(s)
    BY <1>3 DEF OthersStay, Guarded
  <2>2. holder = s /\ Cleared(s) /\ holder' = holder
    BY <2>1 DEF Allowed, Checked
  <2>3. ASSUME req[s].pc = "row" PROVE Fits(req[s].row.size)'
    <3>1. req[s].row.size \in Nat /\ Used + req[s].row.size <= StorageLimit
      <4>1. req[s].row \in Row
        BY <2>3 DEF Base, Ready, HandsFull
      <4> QED BY <2>2, <2>3, <4>1, Bounds DEF Row, Cleared, Fits
    <3>2. Used' + req[s].row.size <= StorageLimit
      BY <1>1, <3>1, Bounds
    <3> QED BY <2>1, <3>2 DEF Fits
  <2> QED BY <2>1, <2>2, <2>3 DEF Cleared, TagsFit
<1> QED BY <1>1, <1>2, <1>3 DEF Allowed, Checked
\* The steps that neither add a row or a tag nor take the guard.
LEMMA AllowedCalm ==
  ASSUME Base, Allowed, NEW r \in Requests,
         \/ \E t \in TodoIds : \/ StartUpload(r, t) \/ StartDeleteTodo(r, t)
                               \/ StartAutoDelete(r, t)
         \/ \E a \in rows : StartDelete(r, a)
         \/ PutObject(r) \/ UndoPut(r)
         \/ DeleteRow(r) \/ ListForTodo(r) \/ DeleteRows(r) \/ RemoveObjects(r)
         \/ DeleteTodo(r) \/ End(r) \/ InsertLinks(r) \/ Abort(r)
  PROVE  Allowed'
<1>0. req \in [Requests -> Request] /\ OthersStay(r)
  BY OneMoves, Requesting DEF Base
<1>1. Return(r) => ~Guarded(r)' /\ (holder # r => holder' = holder)
  BY <1>0 DEF Return, Release, Guarded, Idle
<1>2. \A pc : Go(r, pc) => req'[r].pc = pc
  BY <1>0 DEF Go, Request
<1>3. ASSUME NEW t \in TodoIds, \/ StartUpload(r, t) \/ StartDeleteTodo(r, t)
                                \/ StartAutoDelete(r, t)
      PROVE  rows' = rows /\ tags' = tags /\ holder' = holder /\ ~Guarded(r)'
  BY <1>0, <1>3 DEF StartUpload, StartDeleteTodo, StartAutoDelete, Guarded, Idle
<1>4. ASSUME NEW a \in rows, StartDelete(r, a)
      PROVE  rows' = rows /\ tags' = tags /\ holder' = holder /\ ~Guarded(r)'
  BY <1>0, <1>4 DEF StartDelete, Guarded, Idle
<1>5. ASSUME \/ PutObject(r) \/ UndoPut(r) \/ DeleteTodo(r) \/ End(r) \/ InsertLinks(r)
             \/ Abort(r)
      PROVE  rows' = rows /\ tags' = tags /\ ~Guarded(r)' /\ (holder # r => holder' = holder)
  BY <1>1, <1>2, <1>5 DEF PutObject, UndoPut, DeleteTodo, End, InsertLinks, Abort, Guarded
<1>6. ASSUME DeleteRow(r) \/ DeleteRows(r)
      PROVE  rows' \subseteq rows /\ tags' = tags /\ ~Guarded(r)' /\ (holder # r => holder' = holder)
  BY <1>0, <1>1, <1>2, <1>6 DEF DeleteRow, DeleteRows, Guarded, Request
<1>7. ASSUME ListForTodo(r) \/ RemoveObjects(r)
      PROVE  rows' = rows /\ tags' = tags /\ holder' = holder /\ ~Guarded(r)'
  <2>1. rows' = rows /\ tags' = tags /\ holder' = holder
    BY <1>7 DEF ListForTodo, RemoveObjects
  <2>2. CASE ListForTodo(r)
    <3>1. req'[r].pc \in {"deleteRows", "end", "deleteTodo"}
      BY <1>0, <2>2 DEF ListForTodo, Request
    <3> QED BY <2>1, <3>1 DEF Guarded
  <2>3. CASE RemoveObjects(r)
    <3>1. PICK f \in req[r].batch :
            req' = [req EXCEPT ![r].batch = @ \ {f},
                      ![r].pc = IF req[r].batch # {f} THEN "remove"
                                ELSE IF req[r].op = "deleteTodo" THEN "deleteTodo" ELSE "end"]
      BY <2>3 DEF RemoveObjects
    <3>2. req'[r].pc \in {"remove", "end", "deleteTodo"}
      BY <1>0, <3>1 DEF Request
    <3> QED BY <2>1, <3>2 DEF Guarded
  <2> QED BY <1>7, <2>2, <2>3
<1> QED BY <1>0, <1>3, <1>4, <1>5, <1>6, <1>7, AllowedKept

LEMMA AllowedGuarded ==
  ASSUME Base, Allowed, NEW r \in Requests,
         \/ \E t \in TodoIds : StartTag(r, t)
         \/ CheckSize(r) \/ CreateRow(r) \/ WriteTodo(r) \/ EnsureTag(r)
  PROVE  Allowed'
<1>0. req \in [Requests -> Request] /\ OthersStay(r) /\ req[r] \in Request /\ HandsFull(req[r])
  BY OneMoves, Requesting DEF Base
<1>1. Return(r) => ~Guarded(r)' /\ (holder # r => holder' = holder)
  BY <1>0 DEF Return, Release, Guarded, Idle
<1>2. \A pc : Go(r, pc) => req'[r].pc = pc /\ req'[r].row = req[r].row /\ req'[r].names = req[r].names
  BY <1>0 DEF Go, Request
\* Nobody else is past a check.
<1>3. ASSUME holder \in {None, r} PROVE \A s \in Requests \ {r} : ~Guarded(s)'
  <2>1. \A s \in Requests \ {r} : Guarded(s) => holder = s
    BY DEF Allowed, Checked
  <2> QED BY <1>0, <1>3, <2>1, NoneIsNone DEF OthersStay, Guarded
<1>4. ASSUME NEW t \in TodoIds, StartTag(r, t) PROVE Allowed'
  <2>1. PICK names \in SUBSET TagNames :
          /\ TagsFit(names)
          /\ req' = [req EXCEPT ![r] = [Idle EXCEPT !.op = "tag", !.pc = "write", !.todo = t,
                                          !.names = names]]
    BY <1>4 DEF StartTag
  <2>2. req'[r].pc = "write" /\ req'[r].names = names
    BY <1>0, <2>1 DEF Idle
  <2>3. rows' = rows /\ tags' = tags /\ holder = None /\ holder' = r
    BY <1>4 DEF StartTag
  <2>4. Guarded(r)' => holder' = r /\ Cleared(r)'
    BY <2>1, <2>2, <2>3 DEF Cleared, TagsFit
  <2>5. WithinAllowance'
    BY <2>3, UsedIs DEF Allowed, WithinAllowance
  <2> QED BY <1>3, <2>3, <2>4, <2>5 DEF Allowed, Checked
<1>5. CASE CheckSize(r)
  <2>1. rows' = rows /\ tags' = tags /\ holder = None
    BY <1>5 DEF CheckSize
  <2>2. CASE Fits(req[r].row.size)
    <3>1. Go(r, "row") /\ holder' = r
      BY <1>5, <2>2 DEF CheckSize
    <3>2. Cleared(r)'
      BY <1>2, <2>1, <2>2, <3>1, UsedIs DEF Cleared, Fits
    <3>3. WithinAllowance'
      BY <2>1, UsedIs DEF Allowed, WithinAllowance
    <3> QED BY <1>3, <2>1, <3>1, <3>2, <3>3 DEF Allowed, Checked
  <2>3. CASE ~Fits(req[r].row.size)
    <3>1. ~Guarded(r)' /\ holder' = holder
      BY <1>2, <1>5, <2>3 DEF CheckSize, Guarded
    <3> QED BY <1>0, <2>1, <3>1, AllowedKept
  <2> QED BY <2>2, <2>3
<1>6. CASE CreateRow(r)
  <2>1. /\ Guarded(r) /\ holder = r /\ Fits(req[r].row.size)
        /\ req[r].row \in Row /\ req[r].row.size \in Nat
    BY <1>0, <1>6, Bounds DEF CreateRow, At, Guarded, Allowed, Checked, Cleared, HandsFull, Row
  <2>2. ~Guarded(r)' /\ tags' = tags /\ (rows' = rows \/ rows' = rows \cup {req[r].row})
    BY <1>1, <1>2, <1>6 DEF CreateRow, Guarded
  <2>3. CASE rows' = rows
    <3>1. WithinAllowance'
      BY <2>2, <2>3, UsedIs DEF Allowed, WithinAllowance
    <3> QED BY <1>3, <2>1, <2>2, <2>3, <3>1 DEF Allowed, Checked
  <2>4. CASE rows' = rows \cup {req[r].row}
    <3>1. IsFiniteSet(rows') /\ Size(rows') <= Size(rows) + req[r].row.size
      BY <2>1, <2>4, RowsSized, SizeWith DEF Allowed, Checked
    <3>2. Size(rows) \in Nat /\ Size(rows') \in Nat
      <4>1. Sized(rows')
        BY <2>1, <2>4, RowsSized DEF Sized
      <4> QED BY <3>1, <4>1, RowsSized, SizeNat DEF Allowed, Checked
    <3>3. Size(rows) + req[r].row.size <= StorageLimit
      BY <2>1, UsedIs DEF Fits
    <3>4. Used' <= StorageLimit
      BY <2>1, <3>1, <3>2, <3>3, UsedIs, Bounds
    <3>5. WithinAllowance'
      BY <2>2, <3>4 DEF Allowed, WithinAllowance
    <3> QED BY <1>3, <2>1, <2>2, <3>1, <3>5 DEF Allowed, Checked
  <2> QED BY <2>2, <2>3, <2>4
<1>7. CASE WriteTodo(r)
  <2>1. Guarded(r) /\ holder = r /\ TagsFit(req[r].names) /\ rows' = rows /\ tags' = tags
    BY <1>7 DEF WriteTodo, At, Guarded, Allowed, Checked, Cleared
  <2>2. CASE req[r].todo \in todos
    <3>1. Go(r, "ensure") /\ holder' = holder
      BY <1>7, <2>2 DEF WriteTodo
    <3>2. req'[r].pc = "ensure" /\ req'[r].names = req[r].names
      BY <1>2, <3>1
    <3>3. Cleared(r)'
      BY <2>1, <3>2 DEF Cleared, TagsFit
    <3> QED BY <1>0, <2>1, <3>1, <3>3, AllowedKept
  <2>3. CASE req[r].todo \notin todos
    <3>1. Return(r)
      BY <1>7, <2>3 DEF WriteTodo
    <3> QED BY <1>0, <1>1, <2>1, <3>1, AllowedKept
  <2> QED BY <2>2, <2>3
<1>8. CASE EnsureTag(r)
  <2>1. PICK n \in req[r].names \ tags : tags' = tags \cup {n}
    BY <1>8 DEF EnsureTag
  <2>2. /\ Guarded(r) /\ holder = r /\ TagsFit(req[r].names)
        /\ UNCHANGED <<rows, holder, req>> /\ req[r].names \subseteq TagNames
    BY <1>0, <1>8 DEF EnsureTag, At, Guarded, Allowed, Checked, Cleared, Request
  <2>3. tags' \cup req[r].names = tags \cup req[r].names
    BY <2>1
  <2>4. Cleared(r)'
    BY <1>8, <2>2, <2>3 DEF EnsureTag, At, Cleared, TagsFit
  <2>5. Cardinality(tags') <= TagLimit
    <3>1. IsFiniteSet(tags \cup req[r].names)
      BY <2>2, NamesAssumption, FS_Subset DEF Base, TypeOK
    <3>2. IsFiniteSet(tags') /\ Cardinality(tags') <= Cardinality(tags \cup req[r].names)
      BY <2>1, <3>1, FS_Subset
    <3>3. Cardinality(tags') \in Nat /\ Cardinality(tags \cup req[r].names) \in Nat
      BY <3>1, <3>2, FS_CardinalityType
    <3> QED BY <2>2, <3>2, <3>3, Bounds DEF TagsFit
  <2>6. WithinAllowance'
    BY <2>2, <2>5, UsedIs DEF Allowed, WithinAllowance
  <2> QED BY <1>3, <2>2, <2>4, <2>6 DEF Allowed, Checked
<1> QED BY <1>4, <1>5, <1>6, <1>7, <1>8

LEMMA AllowedStep == Base /\ Allowed /\ [Next]_vars => Allowed'
<1>1. ASSUME Base, Allowed, UNCHANGED vars PROVE Allowed'
  <2>1. WithinAllowance'
    BY <1>1, UsedIs DEF vars, Allowed, WithinAllowance
  <2>2. Checked'
    BY <1>1, UsedIs DEF vars, Allowed, Checked, Guarded, Cleared, Fits, TagsFit
  <2> QED BY <2>1, <2>2 DEF Allowed
<1> QED BY <1>1, AllowedCalm, AllowedGuarded DEF Next

LEMMA AllowedInit == Init => Allowed
<1> SUFFICES ASSUME Init PROVE Allowed
  OBVIOUS
<1>1. rows = {} /\ tags = {} /\ \A r \in Requests : req[r].pc = "idle"
  BY DEF Init, Idle
<1>2. Used = 0 /\ Cardinality(tags) = 0 /\ IsFiniteSet(rows)
  BY <1>1, UsedIs, SizeEmpty, FS_EmptySet
<1> QED BY <1>1, <1>2, Bounds DEF Allowed, WithinAllowance, Checked, Guarded

\* The second check of Save, and the check of a tag list, are made under the guard that
\* the write is made under: uploads whose bytes were all on the way at once, of whatever
\* sizes, leave no more in the account than its storage, and tag lists sent at once no
\* more tags than it may have.
THEOREM Allowances == Spec => []WithinAllowance
<1>1. Allowed => WithinAllowance
  BY DEF Allowed
<1> QED BY <1>1, BaseInit, BaseStep, AllowedInit, AllowedStep, PTL DEF Spec

=============================================================================

------------------------------ MODULE DeskProofs ------------------------------
(***************************************************************************)
(* Proofs about Desk, for any queries that are followed, any pages that    *)
(* are opened and any number of changes.                                   *)
(***************************************************************************)
EXTENDS Desk, FiniteSetTheorems, TLAPS

-----------------------------------------------------------------------------
(* The table of changes *)

\* What a change alters of a query is either asked for anew or known to be left stale:
\* the lists of the hooks (hooks/), against what the server does.
LEMMA Covered ==
  ASSUME NEW k \in Keys, NEW o \in Writes, NEW force \in BOOLEAN,
         Shows(k) \cap Effects(o, force) # {}, k \notin LeftStale(o)
  PROVE  k \in Invalidates(o)
<1>1. CASE o \in {"createTodo", "convertNote"}
  BY <1>1 DEF Keys, Lists, Shows, Effects, LeftStale, Invalidates, NewTodo, Named, TodoMutation
<1>2. CASE o = "updateTodo"
  BY <1>2 DEF Keys, Lists, Shows, Effects, LeftStale, Invalidates, ChangedTodo, Named, TodoMutation
<1>3. CASE o = "completeTodo"
  BY <1>3 DEF Keys, Lists, Shows, Effects, LeftStale, Invalidates, CompletedTodo, TodoMutation, Attachments
<1>4. CASE o = "reactivateTodo"
  BY <1>4 DEF Keys, Lists, Shows, Effects, LeftStale, Invalidates, ReopenedTodo, TodoMutation
<1>5. CASE o = "deleteTodo"
  BY <1>5 DEF Keys, Lists, Shows, Effects, LeftStale, Invalidates, RemovedTodo, TodoMutation
<1>6. CASE o = "reorderTodos"
  BY <1>6 DEF Keys, Lists, Shows, Effects, LeftStale, Invalidates
<1>7. CASE o \in {"uploadFile", "deleteFile", "deleteFiles"}
  BY <1>7 DEF Keys, Lists, Shows, Effects, LeftStale, Invalidates, Attachments
<1>8. CASE o \in {"createContext", "updateContext"}
  BY <1>8 DEF Keys, Lists, Shows, Effects, LeftStale, Invalidates, ContextMutation
<1>9. CASE o = "deleteContext"
  BY <1>9 DEF Keys, Lists, Shows, Effects, LeftStale, Invalidates, RemovedContext, RemovedTodo,
              ContextRemoval
<1>10. CASE o \in {"createProject", "updateProject", "reviewProject"}
  BY <1>10 DEF Keys, Lists, Shows, Effects, LeftStale, Invalidates, ProjectMutation
<1>11. CASE o = "deleteProject"
  BY <1>11 DEF Keys, Lists, Shows, Effects, LeftStale, Invalidates, RemovedProject, ProjectMutation
<1>12. CASE o \in {"createNote", "updateNote"}
  BY <1>12 DEF Keys, Lists, Shows, Effects, LeftStale, Invalidates, ChangedNote, NoteMutation
<1>13. CASE o = "deleteNote"
  BY <1>13 DEF Keys, Lists, Shows, Effects, LeftStale, Invalidates
<1>14. CASE o \in {"createPattern", "updatePattern", "deletePattern"}
  BY <1>14 DEF Keys, Lists, Shows, Effects, LeftStale, Invalidates, ChangedPattern, Named,
               RecurringMutation
<1> QED
  BY <1>1, <1>2, <1>3, <1>4, <1>5, <1>6, <1>7, <1>8, <1>9, <1>10, <1>11, <1>12, <1>13, <1>14
  DEF Writes

\* Nothing is excused that a hook asks for.
LEMMA NeverAsked ==
  ASSUME NEW o \in Writes
  PROVE  LeftStale(o) \cap Invalidates(o) = {}
<1>1. CASE o \in {"createTodo", "convertNote", "updateTodo", "completeTodo", "reactivateTodo", "deleteTodo"}
  BY <1>1 DEF Lists, LeftStale, Invalidates, TodoMutation, Attachments
<1>2. CASE o \in {"deleteContext", "deleteProject", "createNote", "updateNote"}
  BY <1>2 DEF Lists, LeftStale, Invalidates, ContextRemoval, ProjectMutation, NoteMutation
<1>3. CASE o \in {"createPattern", "updatePattern"}
  BY <1>3 DEF Lists, LeftStale, Invalidates, RecurringMutation
<1>4. CASE o \in {"reorderTodos", "uploadFile", "deleteFile", "deleteFiles", "createContext",
                  "updateContext", "createProject", "updateProject", "reviewProject", "deleteNote",
                  "deletePattern"}
  BY <1>4 DEF Lists, LeftStale, Invalidates, Attachments, ContextMutation, ProjectMutation,
              RecurringMutation
<1> QED BY <1>1, <1>2, <1>3, <1>4 DEF Writes

-----------------------------------------------------------------------------
(* Types, and the one operation that is pending *)

\* Only the removal of a context or a project is refused to be forced.
Sound == {w \in Write : w.pc = "in use" => w.op \in Refusable}

Typed ==
  /\ watched \in Keys /\ writing \subseteq Sound
  /\ dialog # None => dialog \in Refusable
  /\ plan \in [0..MaxChanges -> Plan]
  /\ pending \in 0..MaxChanges
  /\ \A s \in 0..MaxChanges : plan[s].pc # "none" => plan[s].op \in Deferred

\* Only the timer of the pending operation runs.
Single ==
  /\ timers \subseteq {pending} \cap Scheduled
  /\ pending # 0 => plan[pending].pc = "pending"

Shape == Typed /\ Single

LEMMA ShapeInit == Init => Shape
BY FollowedAssumption, MaxAssumption
DEF Init, Shape, Typed, Single, Scheduled, Plan

LEMMA Sends ==
  ASSUME NEW o \in Writes, NEW s \in 0..MaxChanges, NEW force \in BOOLEAN
  PROVE  W(o, s, force) \in Sound
BY DEF W, Write, Sound

\* What is committed is the operation that was scheduled.
LEMMA Commits ==
  ASSUME Typed, NEW s \in 0..MaxChanges, plan[s].pc # "none"
  PROVE  /\ SentBy(s) \subseteq Sound
         /\ Committed(s) \subseteq {"asking", "leaving", "sent"}
<1>1. plan[s].op \in Writes
  BY DEF Typed, Deferred, Writes
<1>2. Sending(plan[s].op, s) \subseteq Sound
  BY <1>1, Sends DEF Sending
<1> QED BY <1>2 DEF SentBy, Committed

LEMMA ShapeStep == ASSUME Shape, [Next]_vars PROVE Shape'
<1> USE MaxAssumption DEF Shape
<1>1. ASSUME UNCHANGED <<watched, writing, dialog, plan, pending, timers>> PROVE Shape'
  BY <1>1 DEF Typed, Single
<1>2. CASE Serve \/ Arrive \/ Lose \/ Forget
  BY <1>1, <1>2 DEF Serve, Arrive, Lose, Forget, Fetched, undo
<1>3. ASSUME UNCHANGED <<watched, plan, pending, timers>>, writing' \subseteq Sound,
             dialog' = None \/ dialog' = dialog \/ dialog' \in Refusable
      PROVE  Shape'
  BY <1>3 DEF Typed, Single
<1>4. CASE (\E p \in Visited : Open(p)) \/ Close \/ Dismiss \/ Keep \/ RowGoes
  BY <1>3, <1>4 DEF Open, Close, Dismiss, Keep, RowGoes, undo, shown, Typed
<1>5. ASSUME NEW o \in Writes, NEW force \in BOOLEAN, Begin(o, force),
             dialog' = None \/ dialog' = dialog
      PROVE  Shape'
  BY <1>3, <1>5, Sends DEF Begin, undo, shown, Typed
<1>6. CASE (\E o \in Writes : Change(o)) \/ DeleteFiles \/ Enforce
  <2>1. "deleteFiles" \in Writes /\ (dialog # None => dialog \in Writes)
    BY DEF Typed, Refusable, Writes
  <2>2. ASSUME NEW o \in Writes, Change(o) PROVE Shape'
    BY <1>5, <2>2 DEF Change
  <2>3. CASE DeleteFiles
    BY <1>5, <2>1, <2>3 DEF DeleteFiles
  <2>4. CASE Enforce
    BY <1>5, <2>1, <2>4 DEF Enforce
  <2> QED BY <1>6, <2>2, <2>3, <2>4
<1>7. ASSUME NEW w \in writing, NEW pc \in {"ok", "refused", "in use"}, NEW done \in BOOLEAN,
             Carry(w, pc, done)
      PROVE  Shape'
  <2>1. [w EXCEPT !.pc = pc] \in Sound
    BY <1>7 DEF Typed, Write, Sound, Carry
  <2> QED BY <1>3, <1>7, <2>1 DEF Carry, undo, Typed
<1>8. ASSUME NEW w \in writing, Finish(w) PROVE Shape'
  <2>1. [w EXCEPT !.pc = "refreshing"] \in Sound
    BY <1>8 DEF Typed, Write, Sound
  <2>2. dialog' = dialog \/ dialog' \in Refusable
    BY <1>8 DEF Finish, Typed, Sound
  <2> QED BY <1>3, <1>8, <2>1, <2>2 DEF Finish, undo, Typed
<1>9. ASSUME NEW w \in writing, Over(w) PROVE Shape'
  <2>1. 0 \in 0..MaxChanges /\ "deleteNote" \in Writes
    BY DEF Writes
  <2>2. W("deleteNote", 0, FALSE) \in Sound
    BY <2>1, Sends
  <2> QED BY <1>3, <1>9, <2>2 DEF Over, undo, shown, Typed
<1>10. ASSUME NEW o \in Deferred, Schedule(o) PROVE Shape'
  <2> PICK s \in Scheduled :
        /\ \E pc \in IF pending = 0 THEN {"none"} ELSE Committed(pending) :
             plan' = [plan EXCEPT ![pending].pc = pc, ![s] = [op |-> o, pc |-> "pending"]]
        /\ writing' = writing \cup (IF pending = 0 THEN {} ELSE SentBy(pending))
        /\ pending' = s /\ timers' = {s} /\ plan[s].pc = "none"
    BY <1>10 DEF Schedule
  <2> PICK pc \in IF pending = 0 THEN {"none"} ELSE Committed(pending) :
        plan' = [plan EXCEPT ![pending].pc = pc, ![s] = [op |-> o, pc |-> "pending"]]
    OBVIOUS
  <2>1. pending # 0 => SentBy(pending) \subseteq Sound /\ plan[pending].pc # "none"
    BY Commits DEF Typed, Single
  <2>2. pc \in {"none", "asking", "leaving", "sent"}
    BY DEF Committed
  <2>3. UNCHANGED <<watched, dialog>> /\ writing' \subseteq Sound
    BY <1>10, <2>1 DEF Schedule, Deferring, shown, Typed
  <2>4. plan' \in [0..MaxChanges -> Plan]
    BY <2>2 DEF Typed, Scheduled, Plan
  <2>5. ASSUME NEW r \in 0..MaxChanges, plan'[r].pc # "none" PROVE plan'[r].op \in Deferred
    <3>1. CASE r = s
      BY <3>1, <1>10 DEF Typed
    <3>2. CASE r = pending /\ r # s
      <4>1. plan'[r] = [plan[r] EXCEPT !.pc = pc] /\ plan[r] \in Plan
        BY <3>2 DEF Typed
      <4>2. plan'[r].pc = pc /\ plan'[r].op = plan[r].op
        BY <4>1 DEF Plan
      <4>3. pending # 0
        BY <2>5, <4>2
      <4> QED BY <2>1, <3>2, <4>2, <4>3 DEF Typed
    <3>3. CASE r # pending /\ r # s
      BY <3>3, <2>5 DEF Typed
    <3> QED BY <3>1, <3>2, <3>3
  <2> QED BY <2>3, <2>4, <2>5 DEF Typed, Single, Scheduled
<1>11. CASE Cancel
  BY <1>11 DEF Cancel, Deferring, shown, Typed, Single, Scheduled, Plan
<1>12. ASSUME NEW s \in Scheduled, Timeout(s) PROVE Shape'
  <2>1. s = pending /\ plan[s].pc = "pending" /\ s \in 0..MaxChanges
    BY <1>12 DEF Timeout, Single, Scheduled, Typed
  <2> PICK pc \in Committed(s) : plan' = [plan EXCEPT ![s].pc = pc]
    BY <1>12, <2>1 DEF Timeout, Scheduled
  <2>2. /\ pending' = 0 /\ timers' = {} /\ writing' = writing \cup SentBy(s)
        /\ UNCHANGED <<watched, dialog>>
    BY <1>12, <2>1 DEF Timeout, Single, Scheduled, Deferring, shown
  <2>3. SentBy(s) \subseteq Sound /\ pc \in {"asking", "leaving", "sent"}
    BY <2>1, Commits
  <2>4. plan' \in [0..MaxChanges -> Plan]
    BY <2>1, <2>3 DEF Typed, Plan
  <2>5. \A r \in 0..MaxChanges : plan'[r].pc # "none" => plan'[r].op \in Deferred
    BY <2>1, <2>3 DEF Typed
  <2> QED BY <2>2, <2>3, <2>4, <2>5 DEF Typed, Single, Scheduled
<1>13. ASSUME NEW s \in Scheduled, AskFiles(s) PROVE Shape'
  BY <1>13 DEF AskFiles, Deferring, shown, Typed, Single, Scheduled, Plan
<1>14. ASSUME NEW s \in Scheduled, Leave(s) PROVE Shape'
  <2>1. s \in 0..MaxChanges /\ "completeTodo" \in Writes
    BY DEF Scheduled, Writes
  <2>2. Sending("completeTodo", s) \subseteq Sound
    BY <2>1, Sends DEF Sending
  <2>3. /\ plan[s].pc = "leaving" /\ plan' = [plan EXCEPT ![s].pc = "sent"]
        /\ UNCHANGED <<watched, dialog, pending, timers>> /\ writing' \subseteq Sound
    BY <1>14, <2>2 DEF Leave, Deferring, shown, Typed
  <2>4. plan' \in [0..MaxChanges -> Plan]
    BY <2>1, <2>3 DEF Typed, Plan
  <2>5. \A r \in 0..MaxChanges : plan'[r].pc # "none" => plan'[r].op \in Deferred
    BY <2>1, <2>3 DEF Typed
  <2>6. pending # 0 => plan'[pending].pc = "pending"
    BY <2>1, <2>3 DEF Typed, Single
  <2> QED BY <2>3, <2>4, <2>5, <2>6 DEF Typed, Single
<1>15. CASE UNCHANGED vars
  BY <1>1, <1>15 DEF vars, shown, undo
<1> QED
  BY <1>2, <1>4, <1>6, <1>7, <1>8, <1>9, <1>10, <1>11, <1>12, <1>13, <1>14, <1>15 DEF Next

-----------------------------------------------------------------------------
(* What was undone *)

\* The operation that is pending is the only one that is sent by a timer or by the next
\* one that is scheduled, so one that was taken back stays where it is.
LEMMA UndoneStep ==
  ASSUME Shape, [Next]_vars, NEW s \in Scheduled, plan[s].pc = "undone"
  PROVE  plan'[s].pc = "undone"
<1> USE DEF Shape
<1>0. s \in 0..MaxChanges /\ s # pending /\ (plan[pending].pc # "undone" \/ pending = 0)
  BY MaxAssumption DEF Scheduled, Single
<1>1. CASE UNCHANGED plan
  BY <1>1
<1>2. ASSUME NEW o \in Deferred, Schedule(o) PROVE plan'[s].pc = "undone"
  <2> PICK n \in Scheduled :
        /\ \E pc \in IF pending = 0 THEN {"none"} ELSE Committed(pending) :
             plan' = [plan EXCEPT ![pending].pc = pc, ![n] = [op |-> o, pc |-> "pending"]]
        /\ plan[n].pc = "none"
    BY <1>2 DEF Schedule
  <2> QED BY <1>0 DEF Typed
<1>3. CASE Cancel
  BY <1>0, <1>3 DEF Cancel, Typed
<1>4. ASSUME NEW n \in Scheduled, Timeout(n) PROVE plan'[s].pc = "undone"
  BY <1>0, <1>4 DEF Timeout, Single, Typed
<1>5. ASSUME NEW n \in Scheduled, AskFiles(n) \/ Leave(n) PROVE plan'[s].pc = "undone"
  BY <1>0, <1>5 DEF AskFiles, Leave, Typed
<1>6. CASE (\E w \in writing : \/ \E pc \in {"ok", "refused", "in use"}, done \in BOOLEAN : Carry(w, pc, done)
                               \/ Finish(w) \/ Over(w))
  BY <1>1, <1>6 DEF Carry, Finish, Over, undo
<1>7. CASE Serve \/ Arrive \/ Lose \/ Forget \/ (\E p \in Visited : Open(p)) \/ Close
  BY <1>1, <1>7 DEF Serve, Arrive, Lose, Forget, Fetched, Open, Close, undo
<1>8. CASE (\E o \in Writes : Change(o)) \/ Enforce \/ Dismiss \/ DeleteFiles \/ Keep \/ RowGoes
  BY <1>1, <1>8 DEF Change, Enforce, Dismiss, DeleteFiles, Keep, RowGoes, Begin, undo
<1> QED BY <1>1, <1>2, <1>3, <1>4, <1>5, <1>6, <1>7, <1>8 DEF Next, vars, undo

\* What was undone is not sent (lib/undoable.tsx), for any number of operations.
THEOREM UndoneForGood == Spec => UndoneStays
<1>1. Spec => []Shape
  BY ShapeInit, ShapeStep, PTL DEF Spec
<1>2. Shape /\ [Next]_vars => [\A s \in Scheduled : plan[s].pc = "undone" => plan'[s].pc = "undone"]_vars
  BY UndoneStep
<1> QED BY <1>1, <1>2, PTL DEF Spec, UndoneStays

-----------------------------------------------------------------------------
(* What is shown *)

\* A change was answered, and the query is about to be asked for anew for it.
Owed(w) == /\ watched \in Invalidates(w.op)
           /\ w.pc = "ok" \/ (w.pc = "refused" /\ w.op = "deleteFiles")
Excused == missed \/ joined \/ \E w \in writing : Owed(w)

\* An answer on its way, and one that a page shows, has every change of this tab.
Fresh ==
  /\ q \in Queries(Nat) /\ own \in Nat
  /\ q.pc = "read" => q.got = own \/ Excused
  /\ Mounted /\ Settled(q) => q.data = own \/ Excused

LEMMA FreshInit == Init => Fresh
<1> SUFFICES ASSUME Init PROVE Fresh
  OBVIOUS
<1>1. NoQuery \in Queries(Nat) /\ ~Settled(NoQuery) /\ NoQuery.pc = "idle"
  BY DEF NoQuery, Queries, Settled
<1>2. q = NoQuery \/ q = Sent(NoQuery)
  BY DEF Init
<1>3. Sent(NoQuery) \in Queries(Nat) /\ ~Settled(Sent(NoQuery)) /\ Sent(NoQuery).pc = "sent"
  BY <1>1 DEF Sent, Queries, Settled
<1> QED BY <1>1, <1>2, <1>3 DEF Init, Fresh

LEMMA StillOwed ==
  ASSUME UNCHANGED <<watched, missed, joined>>,
         \A w \in writing : Owed(w) => w \in writing'
  PROVE  Excused => Excused'
BY DEF Excused, Owed

\* Nothing but the requests changes.
LEMMA FreshKept ==
  ASSUME Fresh, UNCHANGED <<watched, q, own, missed, joined>>, page' = page \/ ~Mounted',
         \A w \in writing : Owed(w) => w \in writing'
  PROVE  Fresh'
BY StillOwed DEF Fresh, Mounted, Settled

\* A request for the query is sent, or joined.
LEMMA SentNeeds ==
  ASSUME q \in Queries(Nat), q' = Sent(q) PROVE q' \in Queries(Nat) /\ q'.pc = "sent" /\ ~Settled(q')
BY DEF Queries, Sent, Settled

LEMMA Counted == \A n \in Nat : n + 1 \in Nat
OBVIOUS

LEMMA FreshCarried ==
  ASSUME Shape, Fresh, NEW w \in writing, NEW pc \in {"ok", "refused", "in use"},
         NEW done \in BOOLEAN, Carry(w, pc, done)
  PROVE  Fresh'
<1> DEFINE touched == done /\ Shows(watched) \cap Effects(w.op, w.force) # {}
<1>1. /\ w.pc = "sent" /\ (pc = "ok" => done) /\ (pc = "in use" => ~done)
      /\ writing' = (writing \ {w}) \cup {[w EXCEPT !.pc = pc]}
      /\ own' = IF touched THEN own + 1 ELSE own
      /\ missed' = (missed \/ (touched /\ (watched \in LeftStale(w.op)
                                           \/ (pc = "refused" /\ w.op # "deleteFiles"))))
      /\ UNCHANGED <<page, watched, q, joined>>
  BY DEF Carry
<1>2. w \in Write /\ watched \in Keys
  BY DEF Shape, Typed, Sound
<1>3. Excused => Excused'
  BY <1>1 DEF Excused, Owed
<1>4. ASSUME touched PROVE Excused'
  <2>1. CASE missed'
    BY <2>1 DEF Excused
  <2>2. CASE ~missed'
    <3>1. watched \in Invalidates(w.op)
      BY <1>1, <1>2, <1>4, <2>2, Covered DEF Write
    <3>2. Owed([w EXCEPT !.pc = pc])'
      BY <1>1, <1>2, <1>4, <2>2, <3>1 DEF Owed, Write
    <3> QED BY <1>1, <3>2 DEF Excused
  <2> QED BY <2>1, <2>2
<1>5. CASE touched
  <2>0. own' = own + 1
    BY <1>1, <1>5
  <2>1. own \in Nat
    BY DEF Fresh
  <2>2. own' \in Nat
    BY <2>0, <2>1, Counted
  <2> QED BY <1>1, <1>4, <1>5, <2>2 DEF Fresh
<1>6. CASE ~touched
  <2>1. own' = own /\ UNCHANGED <<page, watched, q>>
    BY <1>1, <1>6
  <2> QED BY <2>1, <1>3 DEF Fresh, Mounted
<1> QED BY <1>5, <1>6

LEMMA FreshFinished ==
  ASSUME Shape, Fresh, NEW w \in writing, Finish(w) PROVE Fresh'
<1>1. /\ UNCHANGED <<page, watched, own>>
      /\ IF w.pc = "ok" \/ w.op = "deleteFiles" THEN Refresh(w.op) ELSE UNCHANGED <<q, missed, joined>>
      /\ writing \ {w} \subseteq writing'
  BY DEF Finish
<1>2. CASE ~Owed(w)
  <2>1. UNCHANGED <<q, missed, joined>>
    <3>1. w.op = "deleteFiles" => w.pc # "in use"
      BY DEF Shape, Typed, Sound, Refusable
    <3> QED BY <1>1, <1>2, <3>1 DEF Owed, Refresh, Finish
  <2> QED BY <1>1, <1>2, <2>1, FreshKept
<1>3. CASE Owed(w) /\ q' = q
  <2>1. q.pc = "read" => joined'
    BY <1>1, <1>3 DEF Refresh, Owed
  <2>2. ~(Mounted /\ Settled(q))
    BY <1>1, <1>3 DEF Refresh, Owed, Refetch, Settled, UnderWay, Sent, Queries, Fresh
  <2> QED BY <1>1, <1>3, <2>1, <2>2 DEF Fresh, Mounted, Excused
<1>4. CASE Owed(w) /\ q' # q
  <2>1. q' = Sent(q)
    BY <1>1, <1>4 DEF Refresh, Owed, Refetch
  <2> QED BY <1>1, <2>1, SentNeeds DEF Fresh
<1> QED BY <1>2, <1>3, <1>4

LEMMA FreshStep == ASSUME Shape, Fresh, [Next]_vars PROVE Fresh'
<1>1. CASE Serve
  BY <1>1 DEF Serve, Fetched, Read, Fresh, Queries, Settled
<1>2. CASE Arrive
  <2>1. q' \in Queries(Nat) /\ q'.pc = "idle" /\ q'.data = q.got /\ q.pc = "read"
    BY <1>2 DEF Arrive, Land, Fresh, Queries
  <2> QED BY <1>2, <2>1, StillOwed DEF Arrive, Fetched, Fresh
<1>3. CASE Lose
  BY <1>3 DEF Lose, Fetched, Fail, Fresh, Queries, Settled
<1>4. CASE Forget
  BY <1>4 DEF Forget, Fetched, NoQuery, Fresh, Queries, Settled
<1>5. ASSUME NEW p \in Visited, Open(p) PROVE Fresh'
  <2>1. CASE watched \notin Content(p).asks
    BY <1>5, <2>1, FreshKept DEF Open, Mounted
  <2>2. CASE q' = q
    <3>1. UNCHANGED <<watched, own, missed, joined, writing>> 
      BY <1>5, <2>2 DEF Open, Refreshed
    <3>2. Settled(q) => watched \notin Content(p).asks
      BY <1>5, <2>2 DEF Open, Refreshed, Ask, Settled, UnderWay, Sent, Fresh, Queries
    <3> QED BY <1>5, <2>2, <3>1, <3>2, StillOwed DEF Fresh, Mounted, Open
  <2>3. CASE q' # q
    <3>1. q' = Sent(q) /\ UNCHANGED own
      BY <1>5, <2>3 DEF Open, Refreshed, Ask
    <3> QED BY <3>1, SentNeeds DEF Fresh
  <2> QED BY <2>1, <2>2, <2>3
<1>6. CASE Close
  BY <1>6, FreshKept DEF Close, Mounted, Content, Blank, P
<1>7. ASSUME UNCHANGED shown, UNCHANGED own, \A w \in writing : Owed(w) => w \in writing'
      PROVE  Fresh'
  BY <1>7, FreshKept DEF shown
<1>8. CASE (\E o \in Writes : Change(o)) \/ Enforce \/ DeleteFiles
  BY <1>7, <1>8 DEF Change, Enforce, DeleteFiles, Begin
<1>9. CASE Dismiss \/ Keep \/ RowGoes \/ Cancel
  BY <1>7, <1>9 DEF Dismiss, Keep, RowGoes, Cancel, Deferring
<1>10. ASSUME NEW w \in writing, Over(w) PROVE Fresh'
  BY <1>7, <1>10 DEF Over, Owed
<1>11. ASSUME NEW o \in Deferred, Schedule(o) PROVE Fresh'
  BY <1>7, <1>11 DEF Schedule, Deferring
<1>12. ASSUME NEW s \in Scheduled, Timeout(s) \/ AskFiles(s) \/ Leave(s) PROVE Fresh'
  BY <1>7, <1>12 DEF Timeout, AskFiles, Leave, Deferring
<1>13. CASE UNCHANGED vars
  BY <1>7, <1>13 DEF vars
<1> QED
  BY <1>1, <1>2, <1>3, <1>4, <1>5, <1>6, <1>8, <1>9, <1>10, <1>11, <1>12, <1>13,
     FreshCarried, FreshFinished
  DEF Next

\* Every page shows the changes made in its tab once nothing is under way, whatever query
\* is followed, with the three exceptions of SettledIsCurrent.  What the hooks leave stale
\* is in the table LeftStale and nowhere else (Covered), and
\* nothing is excused there that a hook asks for (NeverAsked).
THEOREM ShownIsCurrent == Spec => []SettledIsCurrent
<1>1. Init => Shape /\ Fresh
  BY ShapeInit, FreshInit
<1>2. Shape /\ Fresh /\ [Next]_vars => (Shape /\ Fresh)'
  BY ShapeStep, FreshStep
<1>3. Fresh => SettledIsCurrent
  BY DEF Fresh, SettledIsCurrent, Excused
<1> QED BY <1>1, <1>2, <1>3, PTL DEF Spec

-----------------------------------------------------------------------------
(* Types: a change is answered at most once, and a note that becomes an action makes *)
(* one change more, so the answers counted never pass twice the changes made.        *)

\* The changes that may yet be answered: those sent, the removal of a note that follows
\* its conversion, and the operations that may yet be sent.
Unsent    == {w \in writing : w.pc = "sent"}
Noted     == {w \in writing : w.op = "convertNote" /\ w.pc \in {"sent", "ok", "refreshing"}}
Undecided == {s \in Scheduled : plan[s].pc \in {"pending", "asking", "leaving"}}
Used      == {s \in Scheduled : plan[s].pc # "none"}

Balance ==
  /\ IsFiniteSet(writing) /\ own \in Nat /\ begun \in Nat
  /\ own + Cardinality(Unsent) + Cardinality(Noted) + Cardinality(Undecided)
       <= 2 * (begun + Cardinality(Used))
  /\ begun + Cardinality(Used) <= MaxChanges

LEMMA Sizes ==
  ASSUME NEW A, NEW B, IsFiniteSet(B), NEW x
  PROVE  /\ A \subseteq B => Cardinality(A) \in Nat /\ Cardinality(B) \in Nat
                             /\ Cardinality(A) <= Cardinality(B)
         /\ A \subseteq B \cup {x} => Cardinality(A) \in Nat /\ Cardinality(B) \in Nat
                                      /\ Cardinality(A) <= Cardinality(B) + 1
         /\ x \in B /\ A \subseteq B \ {x} => Cardinality(A) \in Nat /\ Cardinality(B) \in Nat
                                              /\ Cardinality(A) + 1 <= Cardinality(B)
         /\ x \notin B /\ A = B \cup {x} => Cardinality(A) \in Nat /\ Cardinality(B) \in Nat
                                            /\ Cardinality(A) = Cardinality(B) + 1
<1>1. Cardinality(B) \in Nat
  BY FS_CardinalityType
<1>2. IsFiniteSet(B \cup {x}) /\ Cardinality(B \cup {x}) \in Nat
      /\ Cardinality(B \cup {x}) = IF x \in B THEN Cardinality(B) ELSE Cardinality(B) + 1
  BY FS_AddElement, FS_CardinalityType
<1>3. ASSUME A \subseteq B PROVE Cardinality(A) \in Nat /\ Cardinality(A) <= Cardinality(B)
  BY <1>3, FS_Subset, FS_CardinalityType
<1>4. ASSUME A \subseteq B \cup {x} PROVE Cardinality(A) \in Nat /\ Cardinality(A) <= Cardinality(B) + 1
  <2>1. Cardinality(A) \in Nat /\ Cardinality(A) <= Cardinality(B \cup {x})
    BY <1>2, <1>4, FS_Subset, FS_CardinalityType
  <2> QED BY <1>1, <1>2, <2>1
<1>5. ASSUME x \in B, A \subseteq B \ {x} PROVE Cardinality(A) \in Nat /\ Cardinality(A) + 1 <= Cardinality(B)
  <2>1. IsFiniteSet(B \ {x}) /\ Cardinality(B \ {x}) = Cardinality(B) - 1
    BY <1>5, FS_RemoveElement
  <2>2. Cardinality(A) \in Nat /\ Cardinality(A) <= Cardinality(B \ {x})
    BY <1>5, <2>1, FS_Subset, FS_CardinalityType
  <2> QED BY <1>1, <2>1, <2>2
<1>6. ASSUME x \notin B, A = B \cup {x} PROVE Cardinality(A) \in Nat /\ Cardinality(A) = Cardinality(B) + 1
  BY <1>2, <1>6
<1> QED BY <1>1, <1>3, <1>4, <1>5, <1>6

LEMMA Tallied ==
  ASSUME Balance
  PROVE  /\ IsFiniteSet(Unsent) /\ Cardinality(Unsent) \in Nat
         /\ IsFiniteSet(Noted) /\ Cardinality(Noted) \in Nat
         /\ IsFiniteSet(Undecided) /\ Cardinality(Undecided) \in Nat
         /\ IsFiniteSet(Used) /\ Cardinality(Used) \in Nat
<1>1. Unsent \subseteq writing /\ Noted \subseteq writing
  BY DEF Unsent, Noted
<1>2. Undecided \subseteq Scheduled /\ Used \subseteq Scheduled
  BY DEF Undecided, Used
<1>3. IsFiniteSet(Scheduled)
  BY FS_Interval, MaxAssumption DEF Scheduled
<1> QED BY <1>1, <1>2, <1>3, FS_Subset, FS_CardinalityType DEF Balance

\* A change is sent in the place of an operation that was undecided, or none is.
LEMMA BalanceSent ==
  ASSUME Balance, UNCHANGED <<own, begun>>, NEW s, NEW v,
         writing' \subseteq writing \cup {v}, v.op # "convertNote", Used' = Used,
         \/ writing' \subseteq writing /\ Undecided' \subseteq Undecided
         \/ s \in Undecided /\ Undecided' \subseteq Undecided \ {s}
  PROVE  Balance'
<1>1. IsFiniteSet(writing \cup {v}) /\ IsFiniteSet(writing')
  BY FS_AddElement, FS_Subset DEF Balance
<1>2. Noted' \subseteq Noted
  BY DEF Noted
<1>3. Cardinality(Noted') \in Nat /\ Cardinality(Noted') <= Cardinality(Noted)
  BY <1>2, Tallied, Sizes
<1>4. CASE writing' \subseteq writing /\ Undecided' \subseteq Undecided
  <2>1. Unsent' \subseteq Unsent
    BY <1>4 DEF Unsent
  <2>2. /\ Cardinality(Unsent') \in Nat /\ Cardinality(Unsent') <= Cardinality(Unsent)
        /\ Cardinality(Undecided') \in Nat /\ Cardinality(Undecided') <= Cardinality(Undecided)
    BY <1>4, <2>1, Tallied, Sizes
  <2> QED BY <1>1, <1>3, <2>2, Tallied DEF Balance
<1>5. CASE s \in Undecided /\ Undecided' \subseteq Undecided \ {s}
  <2>1. Unsent' \subseteq Unsent \cup {v}
    BY DEF Unsent
  <2>2. /\ Cardinality(Unsent') \in Nat /\ Cardinality(Unsent') <= Cardinality(Unsent) + 1
        /\ Cardinality(Undecided') \in Nat /\ Cardinality(Undecided') + 1 <= Cardinality(Undecided)
    BY <1>5, <2>1, Tallied, Sizes
  <2> QED BY <1>1, <1>3, <2>2, Tallied, MaxAssumption DEF Balance
<1> QED BY <1>4, <1>5

LEMMA BalanceKept == ASSUME Balance, UNCHANGED <<own, begun, writing, plan>> PROVE Balance'
BY DEF Balance, Unsent, Noted, Undecided, Used

\* The numbers used are the changes that the guard counts.
LEMMA UsedUp ==
  ASSUME Shape, Balance, MayChange PROVE begun + Cardinality(Used) + 1 <= MaxChanges
<1> DEFINE planned == {s \in Scheduled : plan[s].op # None}
<1>1. Used \subseteq planned
  BY NoneAssumption DEF Used, Shape, Typed, Scheduled
<1>2. begun + Cardinality(planned) < MaxChanges
  BY DEF MayChange
<1>3. IsFiniteSet(planned)
  <2>1. planned \subseteq Scheduled
    OBVIOUS
  <2>2. IsFiniteSet(Scheduled)
    BY FS_Interval, MaxAssumption DEF Scheduled
  <2> QED BY <2>1, <2>2, FS_Subset
<1> HIDE DEF planned
<1>4. Cardinality(Used) \in Nat /\ Cardinality(planned) \in Nat /\ Cardinality(Used) <= Cardinality(planned)
  BY <1>1, <1>3, Sizes
<1> QED BY <1>2, <1>4, MaxAssumption DEF Balance

LEMMA BalanceBegin ==
  ASSUME Shape, Balance, NEW o \in Writes, NEW force \in BOOLEAN, Begin(o, force) PROVE Balance'
<1> DEFINE v == W(o, 0, force)
<1>1. /\ begun' = begun + 1 /\ writing' = writing \cup {v} /\ UNCHANGED <<own, plan>>
      /\ begun + Cardinality(Used) + 1 <= MaxChanges
  BY UsedUp DEF Begin, undo
<1> HIDE DEF v
<1>2. /\ Unsent' \subseteq Unsent \cup {v} /\ Noted' \subseteq Noted \cup {v}
      /\ Undecided' = Undecided /\ Used' = Used
  BY <1>1 DEF Unsent, Noted, Undecided, Used
<1>3. /\ Cardinality(Unsent') \in Nat /\ Cardinality(Unsent') <= Cardinality(Unsent) + 1
      /\ Cardinality(Noted') \in Nat /\ Cardinality(Noted') <= Cardinality(Noted) + 1
  BY <1>2, Tallied, Sizes
<1>4. IsFiniteSet(writing')
  BY <1>1, FS_AddElement DEF Balance
<1> QED BY <1>1, <1>2, <1>3, <1>4, Tallied, MaxAssumption DEF Balance

\* What is answered has been sent, and is answered once.
LEMMA BalanceAnswered ==
  ASSUME Balance, NEW w \in writing, NEW v, w.pc = "sent", v.pc # "sent", v.op = w.op,
         writing' = (writing \ {w}) \cup {v}, own' \in {own, own + 1}, UNCHANGED <<begun, plan>>
  PROVE  Balance'
<1>1. /\ w \in Unsent /\ Unsent' \subseteq Unsent \ {w}
      /\ Undecided' = Undecided /\ Used' = Used
  BY DEF Unsent, Undecided, Used
<1>2. Cardinality(Unsent') \in Nat /\ Cardinality(Unsent') + 1 <= Cardinality(Unsent)
  BY <1>1, Tallied, Sizes
<1>3. Cardinality(Noted') \in Nat /\ Cardinality(Noted') <= Cardinality(Noted)
  <2>1. CASE w.op = "convertNote"
    <3> DEFINE rest == Noted \ {w}
    <3>1. w \in Noted /\ Noted' \subseteq rest \cup {v}
      BY <2>1 DEF Noted
    <3>2. /\ IsFiniteSet(rest) /\ Cardinality(rest) \in Nat /\ Cardinality(Noted) \in Nat
          /\ Cardinality(rest) + 1 <= Cardinality(Noted)
      BY <3>1, Tallied, Sizes, FS_RemoveElement
    <3> HIDE DEF rest
    <3>3. Cardinality(Noted') \in Nat /\ Cardinality(Noted') <= Cardinality(rest) + 1
      BY <3>1, <3>2, Sizes
    <3> QED BY <3>2, <3>3
  <2>2. CASE w.op # "convertNote"
    <3>1. Noted' \subseteq Noted
      BY <2>2 DEF Noted
    <3> QED BY <3>1, Tallied, Sizes
  <2> QED BY <2>1, <2>2
<1>4. IsFiniteSet(writing')
  <2>1. IsFiniteSet(writing \cup {v}) /\ writing' \subseteq writing \cup {v}
    BY FS_AddElement DEF Balance
  <2> QED BY <2>1, FS_Subset
<1>5. own' \in Nat /\ own' <= own + 1 /\ begun' = begun
  BY DEF Balance
<1> QED BY <1>1, <1>2, <1>3, <1>4, <1>5, Tallied, MaxAssumption DEF Balance

LEMMA BalanceCarry ==
  ASSUME Shape, Balance, NEW w \in writing, NEW pc \in {"ok", "refused", "in use"},
         NEW done \in BOOLEAN, Carry(w, pc, done)
  PROVE  Balance'
<1> DEFINE v == [w EXCEPT !.pc = pc]
<1>1. /\ w.pc = "sent" /\ writing' = (writing \ {w}) \cup {v}
      /\ own' \in {own, own + 1} /\ UNCHANGED <<begun, plan>>
  BY DEF Carry, undo
<1>2. v.pc # "sent" /\ v.op = w.op
  BY DEF Shape, Typed, Sound, Write
<1> HIDE DEF v
<1> QED BY <1>1, <1>2, BalanceAnswered

LEMMA BalanceFinish == ASSUME Shape, Balance, NEW w \in writing, Finish(w) PROVE Balance'
<1> DEFINE v == [w EXCEPT !.pc = "refreshing"]
<1>1. /\ w.pc \in {"ok", "refused", "in use"} /\ UNCHANGED <<own, begun, plan>>
      /\ writing' = (writing \ {w}) \cup (IF w.pc = "ok" /\ w.op \in Awaited THEN {v} ELSE {})
  BY DEF Finish, undo
<1>2. v.pc = "refreshing" /\ v.op = w.op
  BY DEF Shape, Typed, Sound, Write
<1> HIDE DEF v
<1>3. Unsent' \subseteq Unsent /\ Undecided' = Undecided /\ Used' = Used
  BY <1>1, <1>2 DEF Unsent, Undecided, Used
<1>4. Cardinality(Unsent') \in Nat /\ Cardinality(Unsent') <= Cardinality(Unsent)
  BY <1>3, Tallied, Sizes
<1>5. Cardinality(Noted') \in Nat /\ Cardinality(Noted') <= Cardinality(Noted)
  <2>1. CASE w \in Noted
    <3> DEFINE rest == Noted \ {w}
    <3>1. Noted' \subseteq rest \cup {v}
      BY <1>1 DEF Noted
    <3>2. /\ IsFiniteSet(rest) /\ Cardinality(rest) \in Nat /\ Cardinality(Noted) \in Nat
          /\ Cardinality(rest) + 1 <= Cardinality(Noted)
      BY <2>1, Tallied, Sizes, FS_RemoveElement
    <3> HIDE DEF rest
    <3>3. Cardinality(Noted') \in Nat /\ Cardinality(Noted') <= Cardinality(rest) + 1
      BY <3>1, <3>2, Sizes
    <3> QED BY <3>2, <3>3
  <2>2. CASE w \notin Noted
    <3>1. Noted' \subseteq Noted
      BY <1>1, <1>2, <2>2 DEF Noted
    <3> QED BY <3>1, Tallied, Sizes
  <2> QED BY <2>1, <2>2
<1>6. IsFiniteSet(writing')
  <2>1. IsFiniteSet(writing \cup {v}) /\ writing' \subseteq writing \cup {v}
    BY <1>1, FS_AddElement DEF Balance
  <2> QED BY <2>1, FS_Subset
<1>7. own' = own /\ begun' = begun
  BY <1>1
<1> QED BY <1>3, <1>4, <1>5, <1>6, <1>7, Tallied, MaxAssumption DEF Balance

\* The removal of the note is sent in the place of its conversion.
LEMMA BalanceOver == ASSUME Shape, Balance, NEW w \in writing, Over(w) PROVE Balance'
<1> DEFINE v == W("deleteNote", 0, FALSE)
<1>1. /\ w.pc = "refreshing" /\ UNCHANGED <<own, begun, plan>>
      /\ writing' = (writing \ {w})
           \cup (IF w.op = "convertNote" /\ page = "notes" THEN {v} ELSE {})
  BY DEF Over, undo
<1>2. v.op = "deleteNote"
  BY DEF W
<1> HIDE DEF v
<1>3. Undecided' = Undecided /\ Used' = Used
  BY <1>1 DEF Undecided, Used
<1>4. IsFiniteSet(writing')
  <2>1. IsFiniteSet(writing \cup {v}) /\ writing' \subseteq writing \cup {v}
    BY <1>1, FS_AddElement DEF Balance
  <2> QED BY <2>1, FS_Subset
<1>5. CASE w.op = "convertNote"
  <2>1. w \in Noted /\ Noted' \subseteq Noted \ {w} /\ Unsent' \subseteq Unsent \cup {v}
    BY <1>1, <1>2, <1>5 DEF Noted, Unsent
  <2>2. /\ Cardinality(Noted') \in Nat /\ Cardinality(Noted') + 1 <= Cardinality(Noted)
        /\ Cardinality(Unsent') \in Nat /\ Cardinality(Unsent') <= Cardinality(Unsent) + 1
    BY <2>1, Tallied, Sizes
  <2> QED BY <1>1, <1>3, <1>4, <2>2, Tallied, MaxAssumption DEF Balance
<1>6. CASE w.op # "convertNote"
  <2>1. Noted' \subseteq Noted /\ Unsent' \subseteq Unsent
    BY <1>1, <1>6 DEF Noted, Unsent
  <2>2. /\ Cardinality(Noted') \in Nat /\ Cardinality(Noted') <= Cardinality(Noted)
        /\ Cardinality(Unsent') \in Nat /\ Cardinality(Unsent') <= Cardinality(Unsent)
    BY <2>1, Tallied, Sizes
  <2> QED BY <1>1, <1>3, <1>4, <2>2, Tallied, MaxAssumption DEF Balance
<1> QED BY <1>5, <1>6

\* A committed operation is sent at once, or is still to be.
LEMMA Commitment ==
  ASSUME Shape, NEW s \in Scheduled, plan[s].pc = "pending", NEW pc \in Committed(s)
  PROVE  \E v : /\ v.op # "convertNote" /\ writing \cup SentBy(s) \subseteq writing \cup {v}
                /\ pc \in {"asking", "leaving"} => SentBy(s) = {}
<1> DEFINE v == W(plan[s].op, s, FALSE)
<1>1. plan[s].op \in Deferred
  BY DEF Shape, Typed, Scheduled
<1>2. v.op # "convertNote"
  BY <1>1 DEF W, Deferred
<1>3. SentBy(s) \subseteq {v} /\ (pc \in {"asking", "leaving"} => SentBy(s) = {})
  BY DEF SentBy, Sending, Committed
<1> HIDE DEF v
<1> QED BY <1>2, <1>3

LEMMA BalanceTimeout == ASSUME Shape, Balance, NEW s \in Scheduled, Timeout(s) PROVE Balance'
<1>1. s = pending /\ plan[s].pc = "pending"
  BY DEF Timeout, Shape, Single, Scheduled
<1>2. PICK pc \in Committed(s) : plan' = [plan EXCEPT ![s].pc = pc]
  BY <1>1, MaxAssumption DEF Timeout, Scheduled
<1>3. writing' = writing \cup SentBy(s) /\ UNCHANGED <<own, begun>>
  BY <1>1, MaxAssumption DEF Timeout, Scheduled, Deferring
<1>4. PICK v : /\ v.op # "convertNote" /\ writing \cup SentBy(s) \subseteq writing \cup {v}
               /\ pc \in {"asking", "leaving"} => SentBy(s) = {}
  BY <1>1, <1>2, Commitment
<1>5. pc \in {"asking", "leaving", "sent"}
  BY <1>2 DEF Committed
<1>6. \A r \in Scheduled : plan'[r].pc = IF r = s THEN pc ELSE plan[r].pc
  BY <1>2 DEF Shape, Typed, Plan, Scheduled
<1>7. Used' = Used
  BY <1>1, <1>5, <1>6 DEF Used
<1>8. CASE pc = "sent"
  <2>1. s \in Undecided /\ Undecided' \subseteq Undecided \ {s}
    BY <1>1, <1>6, <1>8 DEF Undecided
  <2> QED BY <1>3, <1>4, <1>7, <2>1, BalanceSent
<1>9. CASE pc # "sent"
  <2>1. Undecided' \subseteq Undecided /\ writing' \subseteq writing
    BY <1>1, <1>3, <1>4, <1>5, <1>6, <1>9 DEF Undecided
  <2> QED BY <1>3, <1>4, <1>7, <2>1, BalanceSent
<1> QED BY <1>8, <1>9

LEMMA BalanceDecided ==
  ASSUME Shape, Balance, Cancel \/ \E s \in Scheduled : AskFiles(s) \/ Leave(s) PROVE Balance'
<1>1. CASE Cancel
  <2>1. pending \in Scheduled /\ plan[pending].pc = "pending"
    BY <1>1 DEF Cancel, Shape, Typed, Single, Scheduled
  <2>2. \A r \in Scheduled : plan'[r].pc = IF r = pending THEN "undone" ELSE plan[r].pc
    BY <1>1 DEF Cancel, Shape, Typed, Plan, Scheduled
  <2>3. Undecided' \subseteq Undecided /\ Used' = Used /\ UNCHANGED <<writing, own, begun>>
    BY <1>1, <2>1, <2>2 DEF Undecided, Used, Cancel, Deferring
  <2>4. W("deleteNote", 0, FALSE).op # "convertNote"
    BY DEF W
  <2> QED BY <2>3, <2>4, BalanceSent
<1>2. ASSUME NEW s \in Scheduled, AskFiles(s) PROVE Balance'
  <2>1. \A r \in Scheduled : plan'[r].pc = IF r = s THEN "leaving" ELSE plan[r].pc
    BY <1>2 DEF AskFiles, Shape, Typed, Plan, Scheduled
  <2>2. Undecided' \subseteq Undecided /\ Used' = Used /\ UNCHANGED <<writing, own, begun>>
    BY <1>2, <2>1 DEF Undecided, Used, AskFiles, Deferring
  <2>3. W("deleteNote", 0, FALSE).op # "convertNote"
    BY DEF W
  <2> QED BY <2>2, <2>3, BalanceSent
<1>3. ASSUME NEW s \in Scheduled, Leave(s) PROVE Balance'
  <2> DEFINE v == W("completeTodo", s, FALSE)
  <2>1. \A r \in Scheduled : plan'[r].pc = IF r = s THEN "sent" ELSE plan[r].pc
    BY <1>3 DEF Leave, Shape, Typed, Plan, Scheduled
  <2>2. s \in Undecided /\ Undecided' \subseteq Undecided \ {s} /\ Used' = Used
    BY <1>3, <2>1 DEF Undecided, Used, Leave
  <2>3. v.op # "convertNote" /\ writing' \subseteq writing \cup {v} /\ UNCHANGED <<own, begun>>
    BY <1>3 DEF W, Leave, Sending, Deferring
  <2> HIDE DEF v
  <2> QED BY <2>2, <2>3, BalanceSent
<1> QED BY <1>1, <1>2, <1>3

\* The operation that was pending makes room for the new one.
LEMMA BalanceSchedule == ASSUME Shape, Balance, NEW o \in Deferred, Schedule(o) PROVE Balance'
<1>1. PICK s \in Scheduled :
        /\ \E pc \in IF pending = 0 THEN {"none"} ELSE Committed(pending) :
             plan' = [plan EXCEPT ![pending].pc = pc, ![s] = [op |-> o, pc |-> "pending"]]
        /\ writing' = writing \cup (IF pending = 0 THEN {} ELSE SentBy(pending))
        /\ plan[s].pc = "none"
  BY DEF Schedule
<1>2. PICK pc \in IF pending = 0 THEN {"none"} ELSE Committed(pending) :
        plan' = [plan EXCEPT ![pending].pc = pc, ![s] = [op |-> o, pc |-> "pending"]]
  BY <1>1
<1>3. begun + Cardinality(Used) + 1 <= MaxChanges /\ UNCHANGED <<own, begun>>
  BY UsedUp DEF Schedule, Ready, Deferring
<1>4. \A r \in Scheduled : plan'[r].pc = IF r = s THEN "pending" ELSE IF r = pending THEN pc ELSE plan[r].pc
  BY <1>2 DEF Shape, Typed, Plan, Scheduled
<1>5. pending # 0 => pending \in Scheduled /\ plan[pending].pc = "pending"
  BY DEF Shape, Typed, Single, Scheduled
<1>6. pending \in Scheduled => pending # 0
  BY MaxAssumption DEF Scheduled
<1>7. pending # 0 => pc \in {"asking", "leaving", "sent"}
  BY <1>2 DEF Committed
<1>8. s \notin Used /\ Used' = Used \cup {s}
  BY <1>1, <1>4, <1>5, <1>6, <1>7 DEF Used
<1>9. Cardinality(Used') \in Nat /\ Cardinality(Used') = Cardinality(Used) + 1
  BY <1>8, Tallied, Sizes
<1>10. CASE pending = 0 \/ pc # "sent"
  <2>1. writing' = writing
    BY <1>1, <1>2, <1>5, <1>7, <1>10, Commitment
  <2>2. Unsent' = Unsent /\ Noted' = Noted
    BY <2>1 DEF Unsent, Noted
  <2>3. Undecided' \subseteq Undecided \cup {s}
    BY <1>4, <1>5, <1>6 DEF Undecided
  <2>4. Cardinality(Undecided') \in Nat /\ Cardinality(Undecided') <= Cardinality(Undecided) + 1
    BY <2>3, Tallied, Sizes
  <2> QED BY <1>3, <1>9, <2>1, <2>2, <2>4, Tallied, MaxAssumption DEF Balance
<1>11. CASE pending # 0 /\ pc = "sent"
  <2>1. PICK v : v.op # "convertNote" /\ writing' \subseteq writing \cup {v}
    BY <1>1, <1>2, <1>5, <1>11, Commitment
  <2>2. Unsent' \subseteq Unsent \cup {v} /\ Noted' \subseteq Noted
    BY <2>1 DEF Unsent, Noted
  <2> DEFINE rest == Undecided \ {pending}
  <2>3. pending \in Undecided /\ Undecided' \subseteq rest \cup {s}
    BY <1>4, <1>5, <1>11 DEF Undecided
  <2>4. IsFiniteSet(rest) /\ Cardinality(rest) \in Nat /\ Cardinality(rest) + 1 <= Cardinality(Undecided)
    BY <2>3, Tallied, Sizes, FS_RemoveElement
  <2> HIDE DEF rest
  <2>5. /\ Cardinality(Undecided') \in Nat /\ Cardinality(Undecided') <= Cardinality(rest) + 1
        /\ Cardinality(Unsent') \in Nat /\ Cardinality(Unsent') <= Cardinality(Unsent) + 1
        /\ Cardinality(Noted') \in Nat /\ Cardinality(Noted') <= Cardinality(Noted)
    BY <2>2, <2>3, <2>4, Tallied, Sizes
  <2>6. IsFiniteSet(writing')
    BY <2>1, FS_AddElement, FS_Subset DEF Balance
  <2> QED BY <1>3, <1>9, <2>4, <2>5, <2>6, Tallied, MaxAssumption DEF Balance
<1> QED BY <1>10, <1>11

LEMMA BalanceInit == Init => Balance
<1> SUFFICES ASSUME Init PROVE Balance
  OBVIOUS
<1>1. writing = {} /\ own = 0 /\ begun = 0 /\ Unsent = {} /\ Noted = {}
  BY DEF Init, Unsent, Noted
<1>2. Undecided = {} /\ Used = {}
  BY DEF Init, Undecided, Used, Scheduled
<1> QED BY <1>1, <1>2, FS_EmptySet, MaxAssumption DEF Balance

LEMMA BalanceStep == Shape /\ Balance /\ [Next]_vars => Balance'
<1> SUFFICES ASSUME Shape, Balance, [Next]_vars PROVE Balance'
  OBVIOUS
<1>1. CASE \/ Serve \/ Arrive \/ Lose \/ Forget \/ (\E p \in Visited : Open(p)) \/ Close
           \/ Dismiss \/ Keep \/ RowGoes \/ UNCHANGED vars
  BY <1>1, BalanceKept
  DEF Serve, Arrive, Lose, Forget, Fetched, Open, Close, Dismiss, Keep, RowGoes, vars, undo
<1>2. ASSUME NEW o \in Writes, Change(o) PROVE Balance'
  BY <1>2, BalanceBegin DEF Change
<1>3. CASE Enforce
  <2>1. dialog \in Writes
    BY <1>3 DEF Enforce, Shape, Typed, Refusable, Writes
  <2> QED BY <1>3, <2>1, BalanceBegin DEF Enforce
<1>4. CASE DeleteFiles
  <2>1. "deleteFiles" \in Writes
    BY DEF Writes
  <2> QED BY <1>4, <2>1, BalanceBegin DEF DeleteFiles
<1> QED
  BY <1>1, <1>2, <1>3, <1>4, BalanceCarry, BalanceFinish, BalanceOver, BalanceSchedule,
     BalanceTimeout, BalanceDecided
  DEF Next

\* What is open, and the answer that is held.
Looks ==
  /\ page \in Visited \cup {"closed"} /\ watched \in Followed
  /\ q \in Queries(0..own)
  /\ prompt \in BOOLEAN /\ missed \in BOOLEAN /\ joined \in BOOLEAN

\* A request that is sent, answered, shown or lost has no answer but one that was read.
LEMMA Answers ==
  ASSUME NEW n \in Nat, NEW r \in Queries(0..n)
  PROVE  /\ r \in Queries(0..(n + 1)) /\ NoQuery \in Queries(0..n)
         /\ Sent(r) \in Queries(0..n) /\ Ask(r) \in Queries(0..n) /\ Refetch(r) \in Queries(0..n)
         /\ Land(r) \in Queries(0..n) /\ Fail(r) \in Queries(0..n)
         /\ Read(r, n) \in Queries(0..n)
<1>1. 0..n \subseteq 0..(n + 1) /\ n \in 0..n
  OBVIOUS
<1>2. Sent(r) \in Queries(0..n)
  BY DEF Queries, Sent
<1> HIDE DEF Queries
<1>3. Ask(r) \in Queries(0..n) /\ Refetch(r) \in Queries(0..n)
  BY <1>2 DEF Ask, Refetch
<1>4. r \in Queries(0..(n + 1)) /\ NoQuery \in Queries(0..n)
  BY <1>1 DEF Queries, NoQuery
<1>5. Land(r) \in Queries(0..n) /\ Fail(r) \in Queries(0..n)
  BY DEF Queries, Land, Fail
<1>6. Read(r, n) \in Queries(0..n)
  BY <1>1 DEF Queries, Read
<1> QED BY <1>2, <1>3, <1>4, <1>5, <1>6

LEMMA LooksStep == Balance /\ Looks /\ [Next]_vars => Looks'
<1> SUFFICES ASSUME Balance, Looks, [Next]_vars PROVE Looks'
  OBVIOUS
<1>1. own \in Nat /\ q \in Queries(0..own)
  BY DEF Balance, Looks
<1>2. ASSUME UNCHANGED <<page, watched, own, prompt, missed, joined>>, q' \in Queries(0..own)
      PROVE  Looks'
  BY <1>2 DEF Looks
<1>3. CASE Serve \/ Arrive \/ Lose \/ Forget
  BY <1>1, <1>2, <1>3, Answers DEF Serve, Arrive, Lose, Forget, Fetched
<1>4. ASSUME NEW p \in Visited, Open(p) PROVE Looks'
  <2>1. q' \in Queries(0..own) /\ UNCHANGED <<watched, own>> /\ page' = p /\ prompt' = FALSE
    BY <1>1, <1>4, Answers DEF Open, Refreshed
  <2>2. missed' \in BOOLEAN /\ joined' \in BOOLEAN
    BY <1>4 DEF Open, Refreshed, Looks
  <2> QED BY <2>1, <2>2 DEF Looks
<1>5. ASSUME UNCHANGED <<watched, q, own, missed, joined>>, page' \in {page, "closed"},
             prompt' \in BOOLEAN
      PROVE  Looks'
  BY <1>5 DEF Looks
<1>6. CASE \/ Close \/ Dismiss \/ Keep \/ RowGoes \/ Cancel \/ UNCHANGED vars
           \/ \E s \in Scheduled : Timeout(s) \/ AskFiles(s) \/ Leave(s)
  BY <1>5, <1>6 DEF Close, Dismiss, Keep, RowGoes, Cancel, Timeout, AskFiles, Leave, Deferring,
                    shown, vars, Looks
<1>7. CASE (\E o \in Writes : Change(o)) \/ Enforce \/ DeleteFiles \/ (\E w \in writing : Over(w))
           \/ \E o \in Deferred : Schedule(o)
  BY <1>5, <1>7 DEF Change, Enforce, DeleteFiles, Begin, Over, Schedule, Deferring, shown, Looks
<1>8. ASSUME NEW w \in writing, NEW pc \in {"ok", "refused", "in use"}, NEW done \in BOOLEAN,
             Carry(w, pc, done)
      PROVE  Looks'
  <2>1. own' \in {own, own + 1} /\ missed' \in BOOLEAN /\ UNCHANGED <<page, watched, q, joined, prompt>>
    BY <1>8 DEF Carry
  <2>2. q \in Queries(0..own')
    BY <1>1, <2>1, Answers
  <2> QED BY <2>1, <2>2 DEF Looks
<1>9. ASSUME NEW w \in writing, Finish(w) PROVE Looks'
  <2>1. UNCHANGED <<page, watched, own>> /\ prompt' \in BOOLEAN
    BY <1>9 DEF Finish
  <2>2. q' \in Queries(0..own)
    BY <1>1, <1>9, Answers DEF Finish, Refresh
  <2>3. missed' \in BOOLEAN /\ joined' \in BOOLEAN
    BY <1>9 DEF Finish, Refresh, Looks
  <2> QED BY <2>1, <2>2, <2>3 DEF Looks
<1> QED BY <1>3, <1>4, <1>6, <1>7, <1>8, <1>9 DEF Next

\* The values of every variable, for any queries, pages and number of changes: no change
\* is answered twice, and none that was not made.
THEOREM Typing == Spec => []TypeOK
<1>1. Init => Shape /\ Balance /\ Looks
  <2> SUFFICES ASSUME Init PROVE Looks
    BY ShapeInit, BalanceInit
  <2>1. NoQuery \in Queries(0..0) /\ Sent(NoQuery) \in Queries(0..0)
    BY DEF NoQuery, Sent, Queries
  <2> QED BY <2>1 DEF Init, Looks
<1>2. Shape /\ Balance /\ Looks /\ [Next]_vars => (Shape /\ Balance /\ Looks)'
  BY ShapeStep, BalanceStep, LooksStep
<1>3. Shape /\ Balance /\ Looks => TypeOK
  <2> SUFFICES ASSUME Shape, Balance, Looks PROVE TypeOK
    OBVIOUS
  <2>1. own \in 0..MaxOwn /\ begun \in 0..MaxChanges
    BY Tallied, MaxAssumption DEF Balance, MaxOwn
  <2>2. q \in Queries(0..MaxOwn)
    <3>1. 0..own \subseteq 0..MaxOwn
      BY <2>1, MaxAssumption DEF MaxOwn
    <3> QED BY <3>1 DEF Looks, Queries
  <2>3. writing \subseteq Write /\ dialog \in Refusable \cup {None}
    BY DEF Shape, Typed, Sound
  <2>4. /\ plan \in [0..MaxChanges -> Plan] /\ pending \in 0..MaxChanges
        /\ timers \subseteq Scheduled
    BY DEF Shape, Typed, Single
  <2> QED BY <2>1, <2>2, <2>3, <2>4 DEF TypeOK, Looks
<1> QED BY <1>1, <1>2, <1>3, PTL DEF Spec
=============================================================================

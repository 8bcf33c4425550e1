--------------------------------- MODULE Desk ---------------------------------
(* The content screens of the web client: what each page asks the server for    *)
(* and lets its user do (pages/), what each change makes stale (hooks/), and the  *)
(* operations that can be taken back for five seconds (lib/undoable.tsx) and may  *)
(* be sent when their page is long gone.  One query of the cache is followed at a  *)
(* time, since queries do not touch each other.                                   *)
EXTENDS Query, Naturals, FiniteSets

CONSTANTS
  Followed,      \* the queries that are followed
  Visited,       \* the pages that are opened
  MaxChanges     \* bound: changes the user makes

ASSUME MaxAssumption == MaxChanges \in Nat

-----------------------------------------------------------------------------
(* Queries, by what their answers show.  "held": an action as its files name it. *)

Facets == {"actions", "held", "order", "contexts", "projects", "tags", "notes", "patterns",
           "files"}
Lists == {"open", "completed", "listed", "filed"}   \* the filters of useTodos
Keys  == Lists \cup {"contexts", "projects", "project", "notes", "recurring", "tags", "stats",
                     "attachments", "files"}
ASSUME FollowedAssumption == Followed \subseteq Keys

Shows(k) ==
  CASE k \in Lists         -> {"actions", "order"}
    [] k = "projects"      -> {"projects", "actions"}
    [] k = "project"       -> {"projects"}
    [] k = "recurring"     -> {"patterns"}
    [] k = "attachments"   -> {"files", "held"}
    [] k = "stats"         -> {"actions", "contexts", "projects"}
    [] OTHER               -> {k}

-----------------------------------------------------------------------------
(* Changes: what the server changes for each, and what the client asks for anew. *)

Writes == {"createTodo", "updateTodo", "completeTodo", "reactivateTodo", "deleteTodo",
           "reorderTodos", "convertNote", "uploadFile", "deleteFile", "deleteFiles",
           "createContext", "updateContext", "deleteContext",
           "createProject", "updateProject", "deleteProject", "reviewProject",
           "createNote", "updateNote", "deleteNote",
           "createPattern", "updatePattern", "deletePattern"}

\* Names given with an action, a pattern or a note are created with it.  A removal that
\* was refused first and forced then takes what was in the way along.
Named                 == {"contexts", "projects", "tags"}
NewTodo               == {"actions"} \cup Named
ChangedTodo           == {"actions", "held"} \cup Named
CompletedTodo         == {"actions", "held", "files", "patterns"}
ReopenedTodo          == {"actions", "held"}
RemovedTodo           == {"actions", "files"}
RemovedContext(force) == {"contexts"} \cup (IF force THEN RemovedTodo \cup {"patterns"} ELSE {})
RemovedProject(force) == {"projects", "actions", "patterns"} \cup (IF force THEN {"notes"} ELSE {})
ChangedNote           == {"notes", "projects"}
ChangedPattern        == {"patterns"} \cup Named

Effects(o, force) ==
  CASE o \in {"createTodo", "convertNote"}                  -> NewTodo
    [] o = "updateTodo"                                     -> ChangedTodo
    [] o = "completeTodo"                                   -> CompletedTodo
    [] o = "reactivateTodo"                                 -> ReopenedTodo
    [] o = "deleteTodo"                                     -> RemovedTodo
    [] o = "reorderTodos"                                   -> {"order"}
    [] o \in {"uploadFile", "deleteFile", "deleteFiles"}    -> {"files"}
    [] o \in {"createContext", "updateContext"}             -> {"contexts"}
    [] o = "deleteContext"                                  -> RemovedContext(force)
    [] o \in {"createProject", "updateProject", "reviewProject"} -> {"projects"}
    [] o = "deleteProject"                                  -> RemovedProject(force)
    [] o \in {"createNote", "updateNote"}                   -> ChangedNote
    [] o = "deleteNote"                                     -> {"notes"}
    [] o \in {"createPattern", "updatePattern"}             -> ChangedPattern
    [] o = "deletePattern"                                  -> {"patterns"}

TodoMutation      == Lists \cup {"contexts", "projects", "tags"}
RecurringMutation == Lists \cup {"recurring"}
ProjectMutation   == {"projects", "project"}
NoteMutation      == {"notes", "projects"}
ContextMutation   == {"contexts"}
ContextRemoval    == Lists \cup {"contexts", "recurring", "stats"}
Attachments       == {"attachments", "files"}

\* Fault: only the lists are refreshed.
ListsOnly(o) ==
  CASE o = "completeTodo" -> TodoMutation \cup Attachments
    [] o \in {"createTodo", "convertNote", "updateTodo", "reactivateTodo", "deleteTodo"} -> Lists
    [] OTHER -> {}

Invalidates(o) ==
  CASE o \in {"createTodo", "convertNote", "updateTodo", "reactivateTodo", "deleteTodo"}
                             -> TodoMutation
    [] o = "completeTodo"    -> TodoMutation \cup Attachments
    [] o = "reorderTodos"    -> Lists
    [] o \in {"uploadFile", "deleteFile", "deleteFiles"} -> Attachments
    [] o \in {"createContext", "updateContext"} -> ContextMutation
    [] o = "deleteContext"   -> ContextRemoval
    [] o \in {"createProject", "updateProject", "deleteProject", "reviewProject"}
                             -> ProjectMutation
    [] o \in {"createNote", "updateNote"} -> NoteMutation
    [] o = "deleteNote"      -> {"notes"}
    [] o \in {"createPattern", "updatePattern", "deletePattern"} -> RecurringMutation

\* Queries that show something of a change and that no hook asks for anew after it, the
\* exception of SettledIsCurrent.  It is stated beside Invalidates, not as what Invalidates
\* leaves out, so that a hook that forgets a query is not excused for it.
LeftStale(o) ==
  CASE o \in {"createTodo", "convertNote", "createNote", "updateNote"} -> {"project", "stats"}
    [] o = "updateTodo"     -> {"project", "stats", "attachments"}
    [] o = "completeTodo"   -> {"recurring", "stats"}
    [] o = "reactivateTodo" -> {"stats", "attachments"}
    [] o = "deleteTodo"     -> {"files", "stats", "attachments"}
    [] o = "deleteContext"  -> {"projects", "files", "attachments"}
    [] o = "deleteProject"  -> Lists \cup {"recurring", "notes", "stats"}
    [] o \in {"createPattern", "updatePattern"}
                            -> {"contexts", "projects", "project", "tags", "stats"}
    [] OTHER                -> {"stats"}

Awaited   == {"createTodo", "convertNote", "updateTodo", "completeTodo", "reactivateTodo",
              "deleteTodo"}
Deferred  == {"completeTodo", "deleteTodo", "deleteNote", "deletePattern"}
Refusable == {"deleteContext", "deleteProject"}      \* without force
ASSUME NoneAssumption == None \notin Deferred
\* Their control is off until the answer is there, and, for actions, refetched.
Alone     == {"createTodo", "convertNote", "uploadFile", "deleteFiles", "createContext",
              "createProject", "createNote", "createPattern", "updatePattern"}

-----------------------------------------------------------------------------
(* Pages.  A panel's queries count as its page's (an over-approximation). *)

P(asks, offers) == [asks |-> asks, offers |-> offers]
Joined(p1, p2)  == P(p1.asks \cup p2.asks, p1.offers \cup p2.offers)

AttachmentPanel == P({"files"}, {"uploadFile", "deleteFile"})
ActionForm      == P({"contexts", "projects", "tags"}, {"createTodo", "updateTodo"})
DeferPanel      == P({}, {"updateTodo"})
RowActions      == P({}, {"completeTodo", "updateTodo", "deleteTodo"})
TodoItem        == Joined(Joined(Joined(AttachmentPanel, ActionForm), Joined(RowActions, DeferPanel)),
                          P({"contexts", "projects", "attachments"}, {"reactivateTodo"}))
SortableTodoList == Joined(TodoItem, P({}, {"reorderTodos"}))

HomePage        == Joined(SortableTodoList, P({"contexts", "open", "completed"}, {}))
TodoList        == Joined(TodoItem, P({"listed", "contexts", "attachments"}, {}))
DonePage        == Joined(TodoItem, P({"completed", "contexts", "attachments"}, {}))
TagsPage        == Joined(TodoItem, P({"tags", "listed", "contexts"}, {}))
ContextAddForm  == P({}, {"createContext"})
ContextsPage    == Joined(ContextAddForm, P({"contexts"}, {"updateContext", "deleteContext"}))
ProjectAddForm  == P({}, {"createProject"})
ProjectsPage    == Joined(ProjectAddForm, P({"projects"}, {"updateProject", "deleteProject"}))
ProjectDetailPage ==
  Joined(TodoItem, P({"project", "filed", "notes", "attachments"},
                     {"createNote", "deleteNote", "reviewProject", "updateProject"}))
NoteAddForm     == P({}, {"createNote"})
NoteEditors     == P({}, {"updateNote"})
ConvertDialog   == P({}, {"convertNote"})
NotesPage       == Joined(Joined(NoteAddForm, NoteEditors),
                          Joined(ConvertDialog, P({"notes", "projects", "contexts"}, {"deleteNote"})))
RecurringForm   == P({"tags"}, {"createPattern", "updatePattern"})
PatternRow      == Joined(RecurringForm, P({}, {"deletePattern"}))
RecurringPage   == Joined(PatternRow, P({"recurring", "contexts", "projects"}, {}))
AttachmentsPage == P({"attachments"}, {"deleteFile", "deleteFiles"})
StatsPage       == P({"stats"}, {})
Blank           == P({}, {})                          \* the sign-in screen, or no tab

Content(p) ==
  CASE p = "home"        -> HomePage
    [] p = "list"        -> TodoList
    [] p = "done"        -> DonePage
    [] p = "tags"        -> TagsPage
    [] p = "contexts"    -> ContextsPage
    [] p = "projects"    -> ProjectsPage
    [] p = "project"     -> ProjectDetailPage
    [] p = "notes"       -> NotesPage
    [] p = "recurring"   -> RecurringPage
    [] p = "attachments" -> AttachmentsPage
    [] p = "stats"       -> StatsPage
    [] OTHER             -> Blank
Pages == {"home", "list", "done", "tags", "contexts", "projects", "project", "notes",
          "recurring", "attachments", "stats", "signin"}
ASSUME VisitedAssumption == Visited \subseteq Pages

-----------------------------------------------------------------------------
VARIABLES
  page,       \* the page that is open, or "closed"
  watched, q, \* the query that is followed
  own,        \* how many changes of this tab its answer depends on
  writing,    \* changes that were sent, with their answers
  begun,      \* bound: changes made without an undo
  dialog,     \* the removal that was refused, to be forced or left
  prompt,     \* whether the files of an action just completed are to go
  plan,       \* plan[s]: the change scheduled as number s, and what became of it
  pending,    \* pendingRef: the number of the one that can be taken back, or 0
  timers,     \* numbers whose five seconds are running
  \* History, read by the properties only.
  missed,     \* a change was not followed by a refresh of the query, or was and failed
  joined      \* a refresh was joined onto a request whose answer was read before

shown == <<page, watched, q, missed, joined>>
undo  == <<plan, pending, timers>>
vars  == <<shown, own, writing, begun, dialog, prompt, undo>>

Scheduled == 1..MaxChanges
MaxOwn    == 2 * MaxChanges
Write == [op : Writes, by : 0..MaxChanges, force : BOOLEAN,
          pc : {"sent", "ok", "refused", "in use", "refreshing"}]
Plan  == [op : Deferred \cup {None},
          pc : {"none", "pending", "asking", "leaving", "sent", "undone"}]

TypeOK ==
  /\ page \in Visited \cup {"closed"} /\ watched \in Followed
  /\ q \in Queries(0..MaxOwn) /\ own \in 0..MaxOwn
  /\ writing \subseteq Write /\ begun \in 0..MaxChanges
  /\ dialog \in Refusable \cup {None} /\ prompt \in BOOLEAN
  /\ plan \in [0..MaxChanges -> Plan]
  /\ pending \in 0..MaxChanges /\ timers \subseteq Scheduled
  /\ missed \in BOOLEAN /\ joined \in BOOLEAN

Mounted == watched \in Content(page).asks

Init ==
  /\ page \in Visited /\ watched \in Followed
  /\ q = IF Mounted THEN Sent(NoQuery) ELSE NoQuery
  /\ own = 0 /\ writing = {} /\ begun = 0 /\ dialog = None /\ prompt = FALSE
  /\ plan = [s \in 0..MaxChanges |-> [op |-> None, pc |-> "none"]]
  /\ pending = 0 /\ timers = {} /\ missed = FALSE /\ joined = FALSE

-----------------------------------------------------------------------------
(* The followed query *)

\* A refresh that is sent shows every change before it.
Refreshed(r) ==
  /\ q' = r
  /\ IF r = q \/ ~UnderWay(r) THEN UNCHANGED <<missed, joined>>
     ELSE missed' = FALSE /\ joined' = FALSE

Fetched == UNCHANGED <<page, watched, own, writing, begun, dialog, prompt, missed, joined>>
           /\ UNCHANGED undo

Serve  == q.pc = "sent" /\ page # "closed" /\ q' = Read(q, own) /\ Fetched
Arrive == q.pc = "read" /\ page # "closed" /\ q' = Land(q) /\ Fetched
Lose   == q.pc = "sent" /\ page # "closed" /\ q' = Fail(q) /\ Fetched

\* An answer no page uses is dropped in the end.
Forget == /\ ~Mounted /\ Settled(q) /\ page # "closed"
          /\ q' = NoQuery /\ Fetched

-----------------------------------------------------------------------------
(* Pages *)

\* A page asks for what it shows, and joins a request that is under way.
Open(p) ==
  /\ page # "closed" /\ p # page
  /\ page' = p /\ dialog' = None /\ prompt' = FALSE
  /\ IF watched \in Content(p).asks THEN Refreshed(Ask(q)) ELSE UNCHANGED <<q, missed, joined>>
  /\ UNCHANGED <<watched, own, writing, begun>> /\ UNCHANGED undo

\* The tab is closed: what was not sent never is.
Close ==
  /\ page # "closed" /\ page' = "closed"
  /\ dialog' = None /\ prompt' = FALSE
  /\ UNCHANGED <<watched, q, missed, joined, own, writing, begun>> /\ UNCHANGED undo

-----------------------------------------------------------------------------
(* Changes that are sent at once *)

W(o, s, force) == [op |-> o, by |-> s, force |-> force, pc |-> "sent"]
Busy(o)        == o \in Alone /\ \E w \in writing : w.op = o
Concerns(o)    == watched \in Invalidates(o) \/ Shows(watched) \cap Effects(o, TRUE) # {}

MayChange == begun + Cardinality({s \in Scheduled : plan[s].op # None}) < MaxChanges

\* (bound: those the followed query has nothing to do with are left out)
Begin(o, force) ==
  /\ MayChange /\ begun' = begun + 1
  /\ writing' = writing \cup {W(o, 0, force)}
  /\ UNCHANGED shown /\ UNCHANGED <<own>> /\ UNCHANGED undo

Change(o) ==
  /\ o \in Content(page).offers \ Deferred /\ ~Busy(o) /\ Concerns(o) /\ ~prompt /\ dialog = None
  /\ Begin(o, FALSE) /\ UNCHANGED <<dialog, prompt>>

\* The dialog that names what a removal takes along.
Enforce == dialog # None /\ Begin(dialog, TRUE) /\ dialog' = None /\ UNCHANGED prompt
Dismiss == /\ dialog # None /\ dialog' = None
           /\ UNCHANGED shown /\ UNCHANGED <<own, writing, begun, prompt>> /\ UNCHANGED undo

\* The files of the action that was completed: deleted or kept.
DeleteFiles == prompt /\ ~Busy("deleteFiles") /\ Begin("deleteFiles", FALSE)
               /\ UNCHANGED <<dialog, prompt>>
Keep        == /\ prompt /\ prompt' = FALSE
               /\ UNCHANGED shown /\ UNCHANGED <<own, writing, begun, dialog>> /\ UNCHANGED undo

\* The server's answer.  A refused request may have been carried out all the same: its
\* answer was lost, or some of its parts were refused.
Carry(w, pc, done) ==
  /\ w \in writing /\ w.pc = "sent"
  /\ pc = "ok" => done
  /\ pc = "in use" => ~done /\ w.op \in Refusable /\ ~w.force
  /\ writing' = (writing \ {w}) \cup {[w EXCEPT !.pc = pc]}
  /\ LET touched == done /\ Shows(watched) \cap Effects(w.op, w.force) # {}
     IN  /\ own' = IF touched THEN own + 1 ELSE own
         /\ missed' = (missed \/ (touched /\ (watched \in LeftStale(w.op)
                                    \/ (pc = "refused" /\ w.op # "deleteFiles"))))
  /\ UNCHANGED <<page, watched, q, joined, begun, dialog, prompt>> /\ UNCHANGED undo

\* What a change made stale is asked for anew if the page shows it; an answer that was
\* read before and is still to come is not.
Refresh(o) ==
  IF watched \notin Invalidates(o) THEN UNCHANGED <<q, missed, joined>>
  ELSE LET r == IF Mounted THEN Refetch(q) ELSE q IN
       /\ q' = r
       /\ missed' = (missed /\ r = q)
       /\ joined' = (r = q /\ (joined \/ q.pc = "read"))

\* Fault: whatever was refused is offered to be forced.
FinishOffering(w) ==
  /\ w \in writing /\ w.pc \in {"ok", "refused", "in use"} /\ page # "closed"
  /\ IF w.pc = "ok" \/ w.op = "deleteFiles" THEN Refresh(w.op) ELSE UNCHANGED <<q, missed, joined>>
  /\ writing' = (writing \ {w})
       \cup (IF w.pc = "ok" /\ w.op \in Awaited THEN {[w EXCEPT !.pc = "refreshing"]} ELSE {})
  /\ dialog' = IF w.pc # "ok" /\ w.op \in Content(page).offers THEN w.op ELSE dialog
  /\ prompt' = (prompt /\ ~(w.op = "deleteFiles" /\ w.pc = "ok"))
  /\ UNCHANGED <<page, watched, own, begun>> /\ UNCHANGED undo

Finish(w) ==
  /\ w \in writing /\ w.pc \in {"ok", "refused", "in use"} /\ page # "closed"
  /\ IF w.pc = "ok" \/ w.op = "deleteFiles" THEN Refresh(w.op) ELSE UNCHANGED <<q, missed, joined>>
  /\ writing' = (writing \ {w})
       \cup (IF w.pc = "ok" /\ w.op \in Awaited THEN {[w EXCEPT !.pc = "refreshing"]} ELSE {})
  /\ dialog' = IF w.pc = "in use" /\ w.op \in Content(page).offers THEN w.op ELSE dialog
  /\ prompt' = (prompt /\ ~(w.op = "deleteFiles" /\ w.pc = "ok"))
  /\ UNCHANGED <<page, watched, own, begun>> /\ UNCHANGED undo

\* A change of actions is over once the refresh has landed.  Then, and only if its page
\* is still there, the note that became an action goes.
Over(w) ==
  /\ w \in writing /\ w.pc = "refreshing" /\ page # "closed"
  /\ watched \in TodoMutation /\ Mounted => ~UnderWay(q)
  /\ writing' = (writing \ {w})
       \cup (IF w.op = "convertNote" /\ page = "notes" THEN {W("deleteNote", 0, FALSE)} ELSE {})
  /\ UNCHANGED shown /\ UNCHANGED <<own, begun, dialog, prompt>> /\ UNCHANGED undo

-----------------------------------------------------------------------------
(* Changes that can be taken back *)

\* (bound: as above)
Sending(o, s) == IF Concerns(o) THEN {W(o, s, FALSE)} ELSE {}

\* What becomes of number s when it is committed.  A completion first asks for the
\* files of its action, unless they are deleted with it, and shows the row leaving.
Committed(s) == IF plan[s].op = "completeTodo" THEN {"asking", "leaving"} ELSE {"sent"}
SentBy(s)    == IF plan[s].op = "completeTodo" THEN {} ELSE Sending(plan[s].op, s)

Deferring == UNCHANGED shown /\ UNCHANGED <<own, begun, dialog>>

\* The row is there: not removed, nor hidden by a removal that is pending.
Ready(o) ==
  /\ MayChange /\ o \in Content(page).offers \cap Deferred /\ ~prompt /\ dialog = None
  /\ \A s \in Scheduled : plan[s].op = o /\ plan[s].pc = "sent" =>
       o = "completeTodo" /\ \E w \in writing : w.by = s
  /\ plan[pending].op # o
  /\ o = "completeTodo" =>
       \A s \in Scheduled : plan[s].op = "deleteTodo" => plan[s].pc \in {"none", "undone"}

\* Fault: the operation that is replaced is not committed.
Displace(o) ==
  /\ Ready(o)
  /\ \E s \in Scheduled :
       /\ plan[s].pc = "none" /\ \A r \in Scheduled : r < s => plan[r].pc # "none"
       /\ plan' = [plan EXCEPT ![s] = [op |-> o, pc |-> "pending"]]
       /\ pending' = s /\ timers' = {s}
  /\ UNCHANGED writing /\ Deferring /\ UNCHANGED prompt

\* schedule: what was pending is committed at once, and its timer stopped.
Schedule(o) ==
  /\ Ready(o)
  /\ \E s \in Scheduled :
       /\ plan[s].pc = "none" /\ \A r \in Scheduled : r < s => plan[r].pc # "none"
       /\ \E pc \in IF pending = 0 THEN {"none"} ELSE Committed(pending) :
            plan' = [plan EXCEPT ![pending].pc = pc, ![s] = [op |-> o, pc |-> "pending"]]
       /\ writing' = writing \cup (IF pending = 0 THEN {} ELSE SentBy(pending))
       /\ pending' = s /\ timers' = {s}
  /\ Deferring /\ UNCHANGED prompt

\* Fault: the toast goes, and the operation stays pending.
Unmark ==
  /\ pending # 0 /\ page # "closed"
  /\ plan' = [plan EXCEPT ![pending].pc = "undone"]
  /\ timers' = {}
  /\ UNCHANGED <<pending, writing>> /\ Deferring /\ UNCHANGED prompt

\* Undo, on the toast or by unticking the box.
Cancel ==
  /\ pending # 0 /\ page # "closed"
  /\ plan' = [plan EXCEPT ![pending].pc = "undone"]
  /\ pending' = 0 /\ timers' = {}
  /\ UNCHANGED writing /\ Deferring /\ UNCHANGED prompt

\* The five seconds of number s are over; the page it was made on may be gone.
Timeout(s) ==
  /\ s \in timers /\ page # "closed"
  /\ timers' = timers \ {s}
  /\ IF pending # 0 /\ plan[pending].op = plan[s].op
     THEN /\ pending' = 0
          /\ \E pc \in Committed(s) : plan' = [plan EXCEPT ![s].pc = pc]
          /\ writing' = writing \cup SentBy(s)
     ELSE UNCHANGED <<plan, pending, writing>>
  /\ Deferring /\ UNCHANGED prompt

\* commitComplete: the files of the action are there or not, the row leaves, and the
\* completion is sent; files that were found are asked about if the row still stands.
AskFiles(s) ==
  /\ plan[s].pc = "asking" /\ page # "closed"
  /\ plan' = [plan EXCEPT ![s].pc = "leaving"]
  /\ UNCHANGED <<pending, timers, writing>> /\ Deferring /\ UNCHANGED prompt

Leave(s) ==
  /\ plan[s].pc = "leaving" /\ page # "closed"
  /\ plan' = [plan EXCEPT ![s].pc = "sent"]
  /\ writing' = writing \cup Sending("completeTodo", s)
  /\ \/ UNCHANGED prompt
     \/ "completeTodo" \in Content(page).offers /\ prompt' = TRUE
  /\ UNCHANGED <<pending, timers>> /\ Deferring

\* The row of the completed action leaves the list with its refresh, and the prompt
\* with the row.
RowGoes ==
  /\ prompt /\ prompt' = FALSE
  /\ \E s \in Scheduled : plan[s].op = "completeTodo" /\ plan[s].pc = "sent"
  /\ UNCHANGED shown /\ UNCHANGED <<own, writing, begun, dialog>> /\ UNCHANGED undo

-----------------------------------------------------------------------------
Next ==
  \/ Serve \/ Arrive \/ Lose \/ Forget
  \/ \E p \in Visited : Open(p)
  \/ Close
  \/ \E o \in Writes : Change(o)
  \/ Enforce \/ Dismiss \/ DeleteFiles \/ Keep \/ RowGoes
  \/ \E w \in writing : \/ \E pc \in {"ok", "refused", "in use"}, done \in BOOLEAN : Carry(w, pc, done)
                        \/ Finish(w) \/ Over(w)
  \/ \E o \in Deferred : Schedule(o)
  \/ Cancel
  \/ \E s \in Scheduled : Timeout(s) \/ AskFiles(s) \/ Leave(s)

\* The timers of a tab that is open fire, and what a commit waits for comes to an end.
Spec == /\ Init /\ [][Next]_vars
        /\ \A s \in Scheduled : WF_vars(Timeout(s)) /\ WF_vars(AskFiles(s)) /\ WF_vars(Leave(s))

-----------------------------------------------------------------------------
(* Properties *)

\* Once nothing is under way, a page shows every change made in its tab that its hooks
\* know to make the query stale.  Three exceptions: the pairs of LeftStale, which the hooks
\* leave as they were until something else asks (the files of an action that is changed,
\* reopened or deleted, the statistics after almost anything, lists and notes after a
\* project is deleted); a change that was carried out and answered as failed, after which
\* nothing is refreshed (both are missed); and a first answer that was read before the
\* change and joined by its refresh.
SettledIsCurrent ==
  Mounted /\ Settled(q) /\ writing = {} => q.data = own \/ missed \/ joined

\* hooks/useTodos.ts:31-38: every mutation of actions refreshes "everything a todo can
\* change" and is pending until that has landed; so once a deletion is over, the page of
\* files, where it may well be sent from five seconds later, no longer lists the files that
\* went with the action.
DeletionShown ==
  [][\A w \in writing :
       Over(w) /\ w.op = "deleteTodo" /\ page = "attachments" /\ Settled(q) /\ writing = {w}
         => q.data = own \/ joined]_vars

\* What was undone is not sent.
UndoneStays ==
  [][\A s \in Scheduled : plan[s].pc = "undone" => plan'[s].pc = "undone"]_vars

\* What was scheduled is sent or undone, whatever page is open, unless the tab is closed.
ScheduledLeaves ==
  \A s \in Scheduled :
    plan[s].pc \in {"pending", "asking", "leaving"}
      ~> plan[s].pc \in {"sent", "undone"} \/ page = "closed"
=============================================================================

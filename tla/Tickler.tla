------------------------------ MODULE Tickler ------------------------------
(***************************************************************************)
(* The actions (todos) and recurrence patterns of ONE account, as the      *)
(* concurrent requests of that account read and write them:                *)
(* service/todo.go, service/recurring.go and the daily part of             *)
(* service/recurrence.go over repo/bun_gtd.go and repo/bun_recurring.go.   *)
(*                                                                         *)
(* A step is one database statement with the computation around it.  A     *)
(* handler that runs under the account guard takes it with its first       *)
(* statement and gives it back with its last: taking a lock moves right    *)
(* and releasing it moves left past the steps of other requests, so        *)
(* nothing is lost.  Two reads in a row of a handler are one step when no  *)
(* write of another request between them could be told from one before or  *)
(* after both.  What an input asks for is chosen by the step that first    *)
(* uses it.  Contexts and projects are in module Filing, tags and files   *)
(* in module Belongings.                                                  *)
(*                                                                         *)
(* Time is counted in instants, PerDay of them to a day: the code compares *)
(* some dates by day and some by instant.  Every time is in one time zone. *)
(***************************************************************************)
EXTENDS Calendar, FiniteSets

CONSTANTS
  Requests,        \* request handlers that may run at once
  TodoIds,         \* row ids of actions, never reused
  PatternIds,      \* row ids of recurrence patterns, never reused
  Gone,            \* the row of this id has been deleted
  Keep,            \* an input field that is absent: leave unchanged
  TodoLimit,       \* --quota.todos
  RecurringLimit,  \* --quota.recurring
  ShowFromDays,    \* the preference of the same name
  PerDay,          \* instants in a day
  Dates,           \* due and show-from instants a request may carry
  Everys, Leads,   \* every_n and show_from_days a request may carry
  Days,            \* start_from and end_date days a request may carry
  MaxClock,        \* bound on time
  MaxRequests      \* bound on the requests of a behaviour

ASSUME Quotas == TodoLimit \in Nat \ {0} /\ RecurringLimit \in Nat \ {0}
ASSUME TimesAssumption ==
  /\ PerDay \in Nat \ {0} /\ ShowFromDays \in Nat
  /\ Dates \subseteq Int /\ Days \subseteq Int
  /\ Everys \subseteq Nat \ {0} /\ Leads \subseteq Int
ASSUME Markers ==
  /\ Keep \notin Int /\ Gone # None /\ Keep # None
  /\ None \notin Requests
  /\ None \notin TodoIds /\ None \notin PatternIds

VARIABLES
  clock,     \* the current instant
  todos,     \* TodoIds -> row, None or Gone
  patterns,  \* PatternIds -> row, None or Gone
  holder,    \* the request inside the account guard
  req,       \* what each request holds in its local variables
  started,   \* requests begun so far
  produced,  \* ghost: the newest due date each pattern has produced
  torn,      \* ghost: patterns whose spawn stopped before LastSpawnedAt was saved
  reopened,  \* ghost: actions a write took from completed back to open
  late       \* ghost: actions written from a row or a clock that was out of date

vars == <<clock, todos, patterns, holder, req, started, produced, torn, reopened, late>>
ghosts == <<produced, torn, reopened, late>>

-----------------------------------------------------------------------------
(* Rows *)

States == {"active", "deferred", "completed"}

Todo == [state : States, due : Int \cup {None}, showFrom : Int \cup {None},
         pattern : PatternIds \cup {None}]

Pattern == [state : {"active", "completed"}, every : Nat \ {0}, lead : Int,
            created : Int, start : Int \cup {None}, end : Int \cup {None},
            last : Int \cup {None}]

ASSUME NotRows == {None, Gone} \cap (Todo \cup Pattern) = {}

Live == {t \in TodoIds : todos[t] \notin {None, Gone}}
LivePatterns == {p \in PatternIds : patterns[p] \notin {None, Gone}}
IsOpen(t) == t \in Live /\ todos[t].state # "completed"

\* The repository's HasOpenInstance.
HasOpenInstance(p) == \E t \in Live : IsOpen(t) /\ todos[t].pattern = p

\* Fault: the allowance is compared one too late.
HasRoomTooLate == Cardinality(Live) <= TodoLimit

\* checkCount of quota.go, for CheckTodo and CheckRecurring.
HasRoom == Cardinality(Live) < TodoLimit
HasPatternRoom == Cardinality(LivePatterns) < RecurringLimit

-----------------------------------------------------------------------------
(* Dates *)

Day(t) == t \div PerDay

\* Fault: the clamp is skipped.
ClampShowFromIdle(due, showFrom) == showFrom

\* clampShowFrom.
ClampShowFrom(due, showFrom) ==
  IF None \in {due, showFrom} \/ showFrom <= due THEN showFrom ELSE due

\* A due date without a show-from gets one from the preference; then the clamp.
ShowFromFor(due, showFrom) ==
  ClampShowFrom(due, IF showFrom = None /\ due # None
                     THEN due - ShowFromDays * PerDay ELSE showFrom)

\* Deferred until the day of show-from, compared by day.
StateOn(now, showFrom) ==
  IF showFrom # None /\ Day(now) < Day(showFrom) THEN "deferred" ELSE "active"

\* NextOccurrence for a daily pattern, whose anchor is StartFrom or CreatedAt: the first
\* day after day `after', or None.
NextDate(rec, after) ==
  LET next == EveryNth(IF rec.start = None THEN rec.created ELSE rec.start, rec.every, after)
  IN  IF rec.end # None /\ next > rec.end THEN None ELSE next

NextDue(rec, now) ==
  NextDate(rec, IF rec.last = None THEN Day(now) - 1 ELSE rec.last)

-----------------------------------------------------------------------------
(* Inputs and the rows they make *)

TodoInputs == [due : Dates \cup {None}, showFrom : Dates \cup {None}]
TodoEdits  == [due : Dates \cup {None, Keep}, showFrom : Dates \cup {None, Keep}]
PatternInputs == [every : Everys, lead : Leads, start : Days \cup {None},
                  end : Days \cup {None}]
PatternEdits == [state : {"active", "completed", Keep}, every : Everys \cup {Keep},
                 lead : Leads \cup {Keep}, start : Days \cup {None, Keep},
                 end : Days \cup {None, Keep}]

Merge(field, stored) == IF field = Keep THEN stored ELSE field

NewTodo(in, now) ==
  LET showFrom == ShowFromFor(in.due, in.showFrom)
  IN  [state |-> StateOn(now, showFrom), due |-> in.due,
       showFrom |-> showFrom, pattern |-> None]

\* The body of update: merge, clear, fill in, clamp, then the state of the day.
Updated(row, in, now) ==
  LET due      == Merge(in.due, row.due)
      cleared  == in.showFrom = None \/ (in.due = None /\ row.showFrom # None)
      showFrom == ShowFromFor(due, IF cleared THEN None
                                   ELSE Merge(in.showFrom, row.showFrom))
      woken    == IF cleared /\ row.state = "deferred" THEN "active" ELSE row.state
  IN  [row EXCEPT !.due = due, !.showFrom = showFrom,
         !.state = IF showFrom # None /\ woken # "completed"
                   THEN StateOn(now, showFrom) ELSE woken]

\* Reactivate compares the two instants, not their days.
Reactivated(row, now) ==
  [row EXCEPT !.state = IF row.showFrom # None /\ row.showFrom > now
                        THEN "deferred" ELSE "active"]

\* A new pattern ignores a lead that is not positive.
NewPattern(in, now) ==
  [state |-> "active", every |-> in.every, lead |-> IF in.lead > 0 THEN in.lead ELSE 0,
   created |-> Day(now), start |-> in.start, end |-> in.end, last |-> None]

\* Fault: every_n is assigned even when the field is absent.
UpdatedPatternUnset(rec, in) ==
  [rec EXCEPT !.state = Merge(in.state, rec.state), !.every = in.every]

\* The merge of update.
UpdatedPattern(rec, in) ==
  [rec EXCEPT !.state = Merge(in.state, rec.state), !.every = Merge(in.every, rec.every),
     !.lead = Merge(in.lead, rec.lead), !.start = Merge(in.start, rec.start),
     !.end = Merge(in.end, rec.end)]

EndsBeforeStart(rec) == rec.start # None /\ rec.end # None /\ rec.end < rec.start

\* The action spawnIfDue inserts: show-from is stored only while it is ahead.
Instance(p, rec, now) ==
  LET due      == NextDue(rec, now) * PerDay
      showFrom == due - rec.lead * PerDay
      state    == StateOn(now, showFrom)
  IN  [state |-> state, due |-> due, pattern |-> p,
       showFrom |-> IF state = "deferred" THEN showFrom ELSE None]

-----------------------------------------------------------------------------
(* Requests.  pc "start" waits for the account guard; recs are the pattern  *)
(* rows a request has read and still has to treat.                          *)

NoRecs == [p \in PatternIds |-> None]
Idle == [op |-> "none", pc |-> "idle", now |-> 0, id |-> None, row |-> None,
         pid |-> None, recs |-> NoRecs]

Init ==
  /\ clock = 0 /\ started = 0
  /\ todos = [t \in TodoIds |-> None]
  /\ patterns = [p \in PatternIds |-> None]
  /\ holder = None
  /\ req = [r \in Requests |-> Idle]
  /\ produced = [p \in PatternIds |-> None]
  /\ torn = {} /\ reopened = {} /\ late = {}

At(r, op, pc) == req[r].op = op /\ req[r].pc = pc
Waits(r, op) == At(r, op, "start") /\ holder = None

\* Return to the client, giving the guard back if it is held.
Return(r) ==
  /\ req' = [req EXCEPT ![r] = Idle]
  /\ holder' = IF holder = r THEN None ELSE holder

Begin(r) ==
  /\ req[r].pc = "idle" /\ started < MaxRequests
  /\ started' = started + 1

\* A guarded handler up to its first statement; List has captured the time.
Ask(r, op) ==
  /\ Begin(r)
  /\ req' = [req EXCEPT ![r] = [Idle EXCEPT !.op = op, !.pc = "start",
                                  !.now = IF op = "list" THEN clock ELSE 0]]
  /\ UNCHANGED <<clock, todos, patterns, holder, ghosts>>

\* Complete, Reactivate and Reorder read the whole row, without the guard.
\* Complete refuses a recurring action that is still in the tickler.
ErrNotDue(row) ==
  /\ row.pattern # None /\ row.state = "deferred"
  /\ row.showFrom # None /\ row.showFrom > clock

ReadRow(r, op, t) ==
  /\ Begin(r) /\ t \in Live
  /\ op = "complete" => ~ErrNotDue(todos[t])
  /\ req' = [req EXCEPT ![r] = [Idle EXCEPT !.op = op, !.pc = "write", !.now = clock,
                                  !.id = t, !.row = todos[t]]]
  /\ UNCHANGED <<clock, todos, patterns, holder, ghosts>>

\* Update reads its row under the guard; an unknown id is ErrNotFound.
ReadForUpdate(r) ==
  /\ Waits(r, "update")
  /\ \/ \E t \in Live :
          /\ req' = [req EXCEPT ![r].pc = "write", ![r].id = t, ![r].row = todos[t]]
          /\ holder' = r
     \/ Return(r)
  /\ UNCHANGED <<clock, todos, patterns, started, ghosts>>

\* The whole-row write that ends Update, Complete, Reactivate and Reorder.  It
\* writes the row that was read, changed: what others wrote meanwhile is undone.
RowToWrite(r, in) ==
  LET q == req[r] IN
  CASE q.op = "update"     -> Updated(q.row, in, clock)
    [] q.op = "complete"   -> [q.row EXCEPT !.state = "completed"]
    [] q.op = "reactivate" -> Reactivated(q.row, q.now)
    [] OTHER               -> q.row

\* Where a request goes after its write: only a completed instance goes on.
AfterWrite(r) ==
  IF req[r].op = "complete" /\ req[r].row.pattern # None
  THEN req' = [req EXCEPT ![r].pc = "start"] /\ UNCHANGED holder
  ELSE Return(r)

WriteRow(r) ==
  /\ req[r].pc = "write"
  /\ LET t == req[r].id IN
     \/ /\ t \in Live
        /\ \E in \in (IF req[r].op = "update" THEN TodoEdits ELSE {None}) :
             todos' = [todos EXCEPT ![t] = RowToWrite(r, in)]
        /\ reopened' = IF todos[t].state = "completed" /\ todos'[t].state # "completed"
                       THEN reopened \cup {t} ELSE reopened
        /\ late' = IF \/ todos[t] # req[r].row
                      \/ req[r].op = "reactivate" /\ req[r].now # clock
                   THEN late \cup {t} ELSE late
        /\ AfterWrite(r)
     \/ t \notin Live /\ Return(r) /\ UNCHANGED <<todos, reopened, late>>
  /\ UNCHANGED <<clock, patterns, started, produced, torn>>

\* Create: CheckTodo, then the insert.
CheckForCreate(r) ==
  /\ Waits(r, "create")
  /\ \/ HasRoom /\ req' = [req EXCEPT ![r].pc = "insert"] /\ holder' = r
     \/ ~HasRoom /\ Return(r)
  /\ UNCHANGED <<clock, todos, patterns, started, ghosts>>

InsertTodo(r) ==
  /\ At(r, "create", "insert")
  /\ \E t \in TodoIds, in \in TodoInputs :
       /\ todos[t] = None
       /\ todos' = [todos EXCEPT ![t] = NewTodo(in, clock)]
  /\ Return(r)
  /\ UNCHANGED <<clock, patterns, started, ghosts>>

\* Delete of the row (the delete of its taggings and files comes before it).
DeleteTodo(t) ==
  /\ t \in Live /\ started < MaxRequests
  /\ started' = started + 1
  /\ todos' = [todos EXCEPT ![t] = Gone]
  /\ reopened' = reopened \ {t} /\ late' = late \ {t}
  /\ UNCHANGED <<clock, patterns, holder, req, produced, torn>>

-----------------------------------------------------------------------------
(* Recurrence patterns *)

\* Both allowances are checked: a pattern that spawns at once needs an action.
CheckForPattern(r) ==
  /\ Waits(r, "recCreate")
  /\ \E p \in PatternIds, in \in PatternInputs :
       LET rec == NewPattern(in, clock) IN
       /\ patterns[p] = None
       /\ IF HasPatternRoom /\ ~EndsBeforeStart(rec)
             /\ (HasRoom \/ NextDue(rec, clock) = None)
          THEN /\ req' = [req EXCEPT ![r].pc = "recInsert", ![r].now = clock,
                            ![r].recs = [NoRecs EXCEPT ![p] = rec]]
               /\ holder' = r
          ELSE Return(r)
  /\ UNCHANGED <<clock, todos, patterns, started, ghosts>>

InsertPattern(r) ==
  /\ At(r, "recCreate", "recInsert")
  /\ patterns' = [p \in PatternIds |->
                    IF req[r].recs[p] # None THEN req[r].recs[p] ELSE patterns[p]]
  /\ req' = [req EXCEPT ![r].pc = "open"]
  /\ UNCHANGED <<clock, todos, holder, started, ghosts>>

ReadPattern(r) ==
  /\ Waits(r, "recUpdate")
  /\ \/ \E p \in LivePatterns :
          /\ req' = [req EXCEPT ![r].pc = "recWrite", ![r].pid = p,
                       ![r].recs = [NoRecs EXCEPT ![p] = patterns[p]]]
          /\ holder' = r
     \/ Return(r)
  /\ UNCHANGED <<clock, todos, patterns, started, ghosts>>

\* The window is checked on the merged row; a pattern deleted meanwhile is
\* ErrNotFound.
WritePattern(r) ==
  /\ At(r, "recUpdate", "recWrite")
  /\ \E in \in PatternEdits :
       LET p   == req[r].pid
           rec == UpdatedPattern(req[r].recs[p], in)
       IN  patterns' = IF p \in LivePatterns /\ ~EndsBeforeStart(rec)
                       THEN [patterns EXCEPT ![p] = rec] ELSE patterns
  /\ Return(r)
  /\ UNCHANGED <<clock, todos, started, ghosts>>

\* Delete: the instances already spawned are left alone.
DeletePattern(p) ==
  /\ p \in LivePatterns /\ started < MaxRequests
  /\ started' = started + 1
  /\ patterns' = [patterns EXCEPT ![p] = Gone]
  /\ UNCHANGED <<clock, todos, holder, req, ghosts>>

-----------------------------------------------------------------------------
(* Spawning *)

Active(p) == p \in LivePatterns /\ patterns[p].state = "active"

\* Fault: Sweep without the guard.
SweepUnguarded(r) ==
  /\ At(r, "list", "start")
  /\ LET recs == [p \in PatternIds |-> IF Active(p) THEN patterns[p] ELSE None] IN
     req' = [req EXCEPT ![r].pc = IF recs = NoRecs THEN "activate" ELSE "open",
                        ![r].recs = recs]
  /\ UNCHANGED <<clock, todos, patterns, holder, started, ghosts>>

\* Sweep: every active pattern, under the guard.
Sweep(r) ==
  /\ Waits(r, "list")
  /\ LET recs == [p \in PatternIds |-> IF Active(p) THEN patterns[p] ELSE None] IN
     IF recs = NoRecs
     THEN req' = [req EXCEPT ![r].pc = "activate"] /\ UNCHANGED holder
     ELSE req' = [req EXCEPT ![r].pc = "open", ![r].recs = recs] /\ holder' = r
  /\ UNCHANGED <<clock, todos, patterns, started, ghosts>>

\* SpawnNext: the pattern of the completed instance, under the guard.  A pattern
\* that is gone is an error, after the completion has been stored.
SpawnNext(r) ==
  /\ Waits(r, "complete")
  /\ LET p == req[r].row.pattern IN
     IF Active(p)
     THEN /\ req' = [req EXCEPT ![r].pc = "open",
                       ![r].recs = [NoRecs EXCEPT ![p] = patterns[p]]]
          /\ holder' = r
     ELSE Return(r)
  /\ UNCHANGED <<clock, todos, patterns, started, ghosts>>

\* The next pattern, or the end of the guarded section: List goes on to
\* ActivateDue, the others return.
NextRec(r, p) ==
  LET recs == [req[r].recs EXCEPT ![p] = None] IN
  IF recs # NoRecs
  THEN req' = [req EXCEPT ![r].pc = "open", ![r].pid = None, ![r].recs = recs]
       /\ UNCHANGED holder
  ELSE IF req[r].op = "list"
  THEN req' = [req EXCEPT ![r].pc = "activate", ![r].pid = None, ![r].recs = recs]
       /\ holder' = None
  ELSE Return(r)

\* spawnIfDue up to the insert: an open instance, an exhausted pattern, or a
\* full account end it here.
HasOne(r, p) ==
  /\ HasOpenInstance(p) /\ NextRec(r, p) /\ UNCHANGED patterns

Exhaust(r, p) ==
  LET rec == req[r].recs[p] IN
  /\ ~HasOpenInstance(p) /\ NextDue(rec, req[r].now) = None
  /\ IF p \in LivePatterns
     THEN /\ patterns' = [patterns EXCEPT ![p] = [rec EXCEPT !.state = "completed"]]
          /\ NextRec(r, p)
     ELSE UNCHANGED patterns /\ Return(r)

Refuse(r, p) ==
  /\ ~HasOpenInstance(p) /\ NextDue(req[r].recs[p], req[r].now) # None /\ ~HasRoom
  /\ Return(r) /\ UNCHANGED patterns

Admit(r, p) ==
  /\ ~HasOpenInstance(p) /\ NextDue(req[r].recs[p], req[r].now) # None /\ HasRoom
  /\ req' = [req EXCEPT ![r].pc = "spawn", ![r].pid = p]
  /\ UNCHANGED <<patterns, holder>>

SpawnIfDue(r) ==
  /\ req[r].pc = "open"
  /\ \E p \in PatternIds :
       /\ req[r].recs[p] # None
       /\ HasOne(r, p) \/ Exhaust(r, p) \/ Refuse(r, p) \/ Admit(r, p)
  /\ UNCHANGED <<clock, todos, started, ghosts>>

Spawn(r) ==
  /\ req[r].pc = "spawn"
  /\ LET p   == req[r].pid
         row == Instance(p, req[r].recs[p], req[r].now)
     IN  \E t \in TodoIds :
           /\ todos[t] = None
           /\ todos' = [todos EXCEPT ![t] = row]
           /\ produced' = [produced EXCEPT ![p] = row.due]
           /\ late' = IF Day(req[r].now) # Day(clock) THEN late \cup {t} ELSE late
  /\ req' = [req EXCEPT ![r].pc = "save"]
  /\ UNCHANGED <<clock, patterns, holder, started, torn, reopened>>

\* Fault: LastSpawnedAt is not saved.
SaveNothing(r) ==
  /\ req[r].pc = "save"
  /\ NextRec(r, req[r].pid)
  /\ UNCHANGED <<clock, todos, patterns, started, ghosts>>

\* LastSpawnedAt, in a whole-row write of the pattern.
SaveSpawned(r) ==
  LET p   == req[r].pid
      rec == req[r].recs[p]
  IN  /\ req[r].pc = "save"
      /\ IF p \in LivePatterns
         THEN /\ patterns' = [patterns EXCEPT
                   ![p] = [rec EXCEPT !.last = NextDue(rec, req[r].now)]]
              /\ NextRec(r, p)
         ELSE UNCHANGED patterns /\ Return(r)
      /\ UNCHANGED <<clock, todos, started, ghosts>>

-----------------------------------------------------------------------------
(* The rest of List, time and failure *)

\* Overdue in the tickler at instant now.
Overdue(t, now) ==
  /\ t \in Live /\ todos[t].state = "deferred"
  /\ todos[t].showFrom = None \/ todos[t].showFrom <= now
OverdueBefore(t, now) ==
  /\ t \in Live /\ todos[t].state = "deferred"
  /\ todos[t].showFrom = None \/ todos[t].showFrom < now

\* Fault: show_from < now instead of <=.
ActivateDueBefore(r) ==
  /\ At(r, "list", "activate")
  /\ todos' = [t \in TodoIds |-> IF OverdueBefore(t, req[r].now)
                                 THEN [todos[t] EXCEPT !.state = "active"] ELSE todos[t]]
  /\ req' = [req EXCEPT ![r].pc = "read"]
  /\ UNCHANGED <<clock, patterns, holder, started, ghosts>>

\* ActivateDue: one statement, with the instant List captured at its start.
ActivateDue(r) ==
  /\ At(r, "list", "activate")
  /\ todos' = [t \in TodoIds |-> IF Overdue(t, req[r].now)
                                 THEN [todos[t] EXCEPT !.state = "active"] ELSE todos[t]]
  /\ req' = [req EXCEPT ![r].pc = "read"]
  /\ UNCHANGED <<clock, patterns, holder, started, ghosts>>

ReadList(r) ==
  /\ At(r, "list", "read") /\ Return(r)
  /\ UNCHANGED <<clock, todos, patterns, started, ghosts>>

Tick ==
  /\ clock < MaxClock /\ clock' = clock + 1
  /\ UNCHANGED <<todos, patterns, holder, req, started, ghosts>>

\* Any statement may fail, and the client or the process may go away, between
\* two statements: nothing already written is taken back.
Abort(r) ==
  /\ req[r].pc # "idle" /\ Return(r)
  /\ torn' = IF req[r].pc = "save" THEN torn \cup {req[r].pid} ELSE torn
  /\ UNCHANGED <<clock, todos, patterns, started, produced, reopened, late>>

Step(r) ==
  \/ \E op \in {"create", "update", "list", "recCreate", "recUpdate"} : Ask(r, op)
  \/ \E op \in {"complete", "reactivate", "reorder"}, t \in TodoIds : ReadRow(r, op, t)
  \/ ReadForUpdate(r) \/ WriteRow(r)
  \/ CheckForCreate(r) \/ InsertTodo(r)
  \/ CheckForPattern(r) \/ InsertPattern(r) \/ ReadPattern(r) \/ WritePattern(r)
  \/ Sweep(r) \/ SpawnNext(r) \/ SpawnIfDue(r) \/ Spawn(r) \/ SaveSpawned(r)
  \/ ActivateDue(r) \/ ReadList(r) \/ Abort(r)

Next ==
  \/ \E r \in Requests : Step(r)
  \/ \E t \in TodoIds : DeleteTodo(t)
  \/ \E p \in PatternIds : DeletePattern(p)
  \/ Tick

Spec == Init /\ [][Next]_vars

-----------------------------------------------------------------------------
(* Properties *)

Request == [op : {"none", "create", "update", "list", "recCreate", "recUpdate",
                  "complete", "reactivate", "reorder"},
            pc : {"idle", "start", "write", "insert", "recInsert", "recWrite", "open",
                  "spawn", "save", "activate", "read"},
            now : Nat, id : TodoIds \cup {None}, row : Todo \cup {None},
            pid : PatternIds \cup {None}, recs : [PatternIds -> Pattern \cup {None}]]

TypeOK ==
  /\ clock \in Nat /\ started \in Nat
  /\ todos \in [TodoIds -> Todo \cup {None, Gone}]
  /\ patterns \in [PatternIds -> Pattern \cup {None, Gone}]
  /\ holder \in Requests \cup {None}
  /\ req \in [Requests -> Request]
  /\ produced \in [PatternIds -> Int \cup {None}]
  /\ torn \subseteq PatternIds /\ reopened \subseteq TodoIds /\ late \subseteq TodoIds

\* However its requests interleave and fail, an account never has more actions
\* or patterns than its allowance: every check and its insert are one decision,
\* those that Sweep and SpawnNext make on the account's behalf included.
QuotaHeld ==
  /\ Cardinality(Live) <= TodoLimit
  /\ Cardinality(LivePatterns) <= RecurringLimit

\* Two sweeps, or a sweep and a completion, never both spawn: of the open
\* instances of a pattern at most one was not taken back from completed by a
\* later write (Reactivate, or a stale whole-row write).
OneOpenInstance ==
  \A t, u \in TodoIds \ reopened :
    IsOpen(t) /\ IsOpen(u) /\ todos[t].pattern # None /\ todos[t].pattern = todos[u].pattern
      => t = u

NewInstance(t, p) ==
  /\ todos[t] = None /\ todos'[t] # None /\ todos'[t].pattern = p

\* The dates a pattern produces only ever move forward, through edits, lists that
\* waited with an old clock and completions, unless a spawn stopped between its
\* insert and the write of LastSpawnedAt.
DatesAdvance ==
  [][\A t \in TodoIds, p \in PatternIds \ torn :
       NewInstance(t, p) /\ produced[p] # None => todos'[t].due > produced[p]]_vars

\* The claim without its exception: a pattern never repeats a date it already
\* produced (comment in spawnIfDue).
NeverRepeats ==
  [][\A t \in TodoIds, p \in PatternIds : NewInstance(t, p) => todos'[t].due # produced[p]]_vars

\* Whatever edits, completions and promotions a row goes through, in any overlap: a
\* deferred action has the date it waits for, no action hides past its due date, and
\* one that was entered by hand and has a due date has a show-from.
DatesAgree ==
  \A t \in Live : LET row == todos[t] IN
    /\ row.state = "deferred" => row.showFrom # None
    /\ row.due # None /\ row.showFrom # None => row.showFrom <= row.due
    /\ row.due # None /\ row.pattern = None => row.showFrom # None

\* What a list is about to read holds no overdue deferred action, unless that row
\* was written from a stale copy or with a clock read before it waited.
ListFresh ==
  \A r \in Requests : At(r, "list", "read") =>
    \A t \in TodoIds \ late : ~Overdue(t, req[r].now)
=============================================================================

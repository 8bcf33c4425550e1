---------------------------- MODULE TicklerProofs ----------------------------
(***************************************************************************)
(* Proofs about Tickler, for any number of requests, rows and limits.      *)
(***************************************************************************)
EXTENDS Tickler, Recurrence, FiniteSetTheorems, WellFoundedInduction, TLAPS

\* What a request has in hand at each point.
HandsFull(q) ==
  /\ q.pc = "write" => q.id \in TodoIds /\ q.row \in Todo
  /\ q.pc \in {"recWrite", "spawn", "save"} =>
       q.pid \in PatternIds /\ q.recs[q.pid] \in Pattern
  /\ q.pc \in {"spawn", "save"} => NextDue(q.recs[q.pid], q.now) # None
Ready == \A r \in Requests : HandsFull(req[r])

\* The points that only the holder of the account guard can be at.
Guarded(q) == q.pc \in {"insert", "recInsert", "recWrite", "open", "spawn", "save"}
Held == \A r \in Requests : Guarded(req[r]) => holder = r

-----------------------------------------------------------------------------
(* What the operators return *)

LEMMA DayType ==
  ASSUME NEW t \in Int
  PROVE  Day(t) \in Int
BY TimesAssumption DEF Day

LEMMA NextDueType ==
  ASSUME NEW rec \in Pattern, NEW now \in Nat
  PROVE  NextDue(rec, now) \in Int \cup {None}
<1> DEFINE after == IF rec.last = None THEN Day(now) - 1 ELSE rec.last
           anchor == IF rec.start = None THEN rec.created ELSE rec.start
<1>1. after \in Int /\ anchor \in Int /\ rec.every \in Nat \ {0}
  BY DayType DEF Pattern
<1>2. NextDue(rec, now) = NextDate(rec, after)
  BY DEF NextDue
<1> HIDE DEF after
<1>3. after - anchor \in Int
  BY <1>1
<1>4. (after - anchor) \div rec.every \in Int
  BY <1>1, <1>3
<1>5. anchor + ((after - anchor) \div rec.every + 1) * rec.every \in Int
  BY <1>1, <1>4
<1> QED BY <1>1, <1>2, <1>5 DEF NextDate, EveryNth

LEMMA ShowFromType ==
  ASSUME NEW due \in Int \cup {None}, NEW showFrom \in Int \cup {None}
  PROVE  ShowFromFor(due, showFrom) \in Int \cup {None}
BY TimesAssumption, Markers, NoneIsNoDate DEF ShowFromFor, ClampShowFrom

LEMMA StateOnType ==
  ASSUME NEW now, NEW showFrom
  PROVE  StateOn(now, showFrom) \in {"active", "deferred"}
BY DEF StateOn

LEMMA NewTodoType ==
  ASSUME NEW in \in TodoInputs, NEW now \in Nat
  PROVE  NewTodo(in, now) \in Todo
<1>1. in.due \in Int \cup {None} /\ in.showFrom \in Int \cup {None}
  BY TimesAssumption DEF TodoInputs
<1> QED BY <1>1, ShowFromType, StateOnType DEF NewTodo, Todo, States

LEMMA UpdatedType ==
  ASSUME NEW row \in Todo, NEW in \in TodoEdits, NEW now \in Nat
  PROVE  Updated(row, in, now) \in Todo
<1> DEFINE due == Merge(in.due, row.due)
           cleared == in.showFrom = None \/ (in.due = None /\ row.showFrom # None)
           given == IF cleared THEN None ELSE Merge(in.showFrom, row.showFrom)
           woken == IF cleared /\ row.state = "deferred" THEN "active" ELSE row.state
           showFrom == ShowFromFor(due, given)
           state == IF showFrom # None /\ woken # "completed"
                    THEN StateOn(now, showFrom) ELSE woken
<1>1. due \in Int \cup {None}
  BY TimesAssumption DEF TodoEdits, Todo, Merge
<1>2. given \in Int \cup {None}
  BY TimesAssumption DEF TodoEdits, Todo, Merge
<1>3. showFrom \in Int \cup {None}
  BY <1>1, <1>2, ShowFromType
<1>4. woken \in States
  BY DEF Todo, States
<1>5. Updated(row, in, now) = [row EXCEPT !.due = due, !.showFrom = showFrom, !.state = state]
  BY DEF Updated
<1> HIDE DEF due, showFrom, woken
<1>6. state \in States
  BY <1>4, StateOnType DEF States
<1> QED BY <1>1, <1>3, <1>5, <1>6 DEF Todo

LEMMA RowToWriteType ==
  ASSUME TypeOK, NEW r \in Requests, req[r].row \in Todo,
         NEW in \in (IF req[r].op = "update" THEN TodoEdits ELSE {None})
  PROVE  RowToWrite(r, in) \in Todo
<1>1. CASE req[r].op = "update"
  BY <1>1, UpdatedType DEF RowToWrite, TypeOK
<1>2. CASE req[r].op # "update"
  BY <1>2 DEF RowToWrite, Reactivated, Todo, States
<1> QED BY <1>1, <1>2

LEMMA NewPatternType ==
  ASSUME NEW in \in PatternInputs, NEW now \in Nat
  PROVE  NewPattern(in, now) \in Pattern
<1>1. Day(now) \in Int
  BY DayType
<1>2. /\ in.every \in Nat \ {0} /\ in.lead \in Int
      /\ in.start \in Int \cup {None} /\ in.end \in Int \cup {None}
  BY TimesAssumption DEF PatternInputs
<1> QED BY <1>1, <1>2 DEF NewPattern, Pattern

LEMMA UpdatedPatternType ==
  ASSUME NEW rec \in Pattern, NEW in \in PatternEdits
  PROVE  UpdatedPattern(rec, in) \in Pattern
<1>1. /\ in.state \in {"active", "completed", Keep} /\ in.every \in (Nat \ {0}) \cup {Keep}
      /\ in.lead \in Int \cup {Keep} /\ in.start \in Int \cup {None, Keep}
      /\ in.end \in Int \cup {None, Keep}
  BY TimesAssumption DEF PatternEdits
<1>2. /\ Merge(in.state, rec.state) \in {"active", "completed"}
      /\ Merge(in.every, rec.every) \in Nat \ {0}
      /\ Merge(in.lead, rec.lead) \in Int
      /\ Merge(in.start, rec.start) \in Int \cup {None}
      /\ Merge(in.end, rec.end) \in Int \cup {None}
  BY <1>1 DEF Merge, Pattern
<1> QED BY <1>2 DEF UpdatedPattern, Pattern

LEMMA InstanceType ==
  ASSUME NEW p \in PatternIds, NEW rec \in Pattern, NEW now \in Nat,
         NextDue(rec, now) # None
  PROVE  Instance(p, rec, now) \in Todo /\ Instance(p, rec, now).due \in Int
<1>1. NextDue(rec, now) \in Int
  BY NextDueType
<1>2. NextDue(rec, now) * PerDay \in Int
  BY <1>1, TimesAssumption
<1>3. rec.lead * PerDay \in Int
  BY TimesAssumption DEF Pattern
<1> QED BY <1>2, <1>3, StateOnType DEF Instance, Todo, States

-----------------------------------------------------------------------------
(* Types, what requests have in hand, and the guard *)

Base == TypeOK /\ Ready /\ Held

\* The part of Base that is about requests.
Requesting ==
  /\ req \in [Requests -> Request] /\ holder \in Requests \cup {None}
  /\ Ready /\ Held

\* One request goes from one point to another, keeping, taking or giving back the
\* account guard.
LEMMA Move ==
  ASSUME Base, NEW r \in Requests, NEW q \in Request, HandsFull(q),
         req' = [req EXCEPT ![r] = q],
         \/ holder' = holder /\ (Guarded(q) => holder = r)
         \/ holder = None /\ holder' = r
         \/ holder = r /\ holder' = None /\ ~Guarded(q)
  PROVE  Requesting'
<1> USE DEF Base
<1>1. req' \in [Requests -> Request] /\ holder' \in Requests \cup {None}
  BY DEF TypeOK
<1>2. \A s \in Requests : req'[s] = IF s = r THEN q ELSE req[s]
  BY DEF TypeOK
<1>3. Ready'
  BY <1>2 DEF Ready
<1>4. Held'
  BY <1>2, Markers DEF Held
<1> QED BY <1>1, <1>3, <1>4 DEF Requesting

LEMMA IdleType == Idle \in Request /\ HandsFull(Idle) /\ ~Guarded(Idle)
BY DEF Idle, NoRecs, Request, HandsFull, Guarded

LEMMA Returning ==
  ASSUME Base, NEW r \in Requests, Return(r)
  PROVE  Requesting'
BY Move, IdleType DEF Return

LEMMA NextRecs ==
  ASSUME Base, NEW r \in Requests, NEW p \in PatternIds, NextRec(r, p),
         Guarded(req[r])
  PROVE  Requesting'
<1> DEFINE recs == [req[r].recs EXCEPT ![p] = None]
           q(pc) == [req[r] EXCEPT !.pc = pc, !.pid = None, !.recs = recs]
<1>1. req[r] \in Request /\ req \in [Requests -> Request] /\ holder = r
  BY DEF Base, TypeOK, Held
<1>2. recs \in [PatternIds -> Pattern \cup {None}]
  BY <1>1 DEF Request
<1>3. \A pc \in {"open", "activate"} :
        q(pc) \in Request /\ HandsFull(q(pc)) /\ q(pc).pc = pc
  BY <1>1, <1>2 DEF Request, HandsFull
<1>4. CASE req' = [req EXCEPT ![r] = q("open")] /\ holder' = holder
  BY <1>1, <1>3, <1>4, Move
<1>5. CASE req' = [req EXCEPT ![r] = q("activate")] /\ holder' = None
  BY <1>1, <1>3, <1>5, Move DEF Guarded
<1>6. CASE Return(r)
  BY <1>6, Returning
<1> QED BY <1>1, <1>4, <1>5, <1>6 DEF NextRec

LEMMA ReadingType ==
  ASSUME NEW op \in {"complete", "reactivate", "reorder"}, NEW now \in Nat,
         NEW t \in TodoIds, NEW row \in Todo
  PROVE  LET q == [Idle EXCEPT !.op = op, !.pc = "write", !.now = now, !.id = t, !.row = row]
         IN  q \in Request /\ HandsFull(q) /\ ~Guarded(q)
<1>1. Idle \in Request
  BY IdleType
<1> QED BY <1>1 DEF Request, HandsFull, Guarded

LEMMA Starting ==
  ASSUME Base, NEW r \in Requests,
         \/ \E op \in {"create", "update", "list", "recCreate", "recUpdate"} : Ask(r, op)
         \/ \E op \in {"complete", "reactivate", "reorder"}, t \in TodoIds : ReadRow(r, op, t)
  PROVE  Base'
<1> USE DEF Base
<1>1. ASSUME NEW op \in {"create", "update", "list", "recCreate", "recUpdate"}, Ask(r, op)
      PROVE  Base'
  <2> DEFINE q == [Idle EXCEPT !.op = op, !.pc = "start",
                     !.now = IF op = "list" THEN clock ELSE 0]
  <2>1. q \in Request /\ HandsFull(q) /\ ~Guarded(q)
    BY IdleType DEF Request, HandsFull, Guarded, TypeOK, Idle
  <2>2. req' = [req EXCEPT ![r] = q] /\ holder' = holder
    BY <1>1 DEF Ask
  <2>3. Requesting'
    BY <2>1, <2>2, Move
  <2> QED BY <1>1, <2>3 DEF Ask, Begin, ghosts, TypeOK, Requesting
<1>2. ASSUME NEW op \in {"complete", "reactivate", "reorder"}, NEW t \in TodoIds,
             ReadRow(r, op, t)
      PROVE  Base'
  <2> DEFINE q == [Idle EXCEPT !.op = op, !.pc = "write", !.now = clock,
                     !.id = t, !.row = todos[t]]
  <2>1. todos[t] \in Todo
    BY <1>2 DEF ReadRow, Live, TypeOK
  <2>2. clock \in Nat /\ NoRecs \in [PatternIds -> Pattern \cup {None}]
    BY DEF TypeOK, NoRecs
  <2>3. q \in Request /\ HandsFull(q) /\ ~Guarded(q)
    BY <2>1, <2>2, ReadingType
  <2>4. req' = [req EXCEPT ![r] = q] /\ holder' = holder
    BY <1>2 DEF ReadRow
  <2>5. Requesting'
    BY <2>3, <2>4, Move
  <2>6. started' = started + 1 /\ UNCHANGED <<clock, todos, patterns, holder, ghosts>>
    BY <1>2 DEF ReadRow, Begin
  <2> QED BY <2>5, <2>6 DEF ghosts, TypeOK, Requesting
<1> QED BY <1>1, <1>2

\* The handlers of one action.
LEMMA TodoSteps ==
  ASSUME Base, NEW r \in Requests,
         \/ ReadForUpdate(r) \/ WriteRow(r) \/ CheckForCreate(r) \/ InsertTodo(r)
         \/ ActivateDue(r) \/ ReadList(r)
  PROVE  Base'
<1> USE DEF Base
<1>0. req[r] \in Request /\ req \in [Requests -> Request]
  BY DEF TypeOK
<1>1. CASE ReadForUpdate(r)
  <2>1. Requesting'
    <3>1. ASSUME NEW t \in Live, holder = None, holder' = r,
                 req' = [req EXCEPT ![r].pc = "write", ![r].id = t, ![r].row = todos[t]]
          PROVE  Requesting'
      <4> DEFINE q == [req[r] EXCEPT !.pc = "write", !.id = t, !.row = todos[t]]
      <4>1. todos[t] \in Todo /\ t \in TodoIds
        BY DEF Live, TypeOK
      <4>2. q \in Request /\ HandsFull(q)
        BY <1>0, <4>1 DEF Request, HandsFull
      <4> QED BY <1>0, <3>1, <4>2, Move
    <3> QED BY <1>1, <3>1, Returning DEF ReadForUpdate, Waits
  <2> QED BY <1>1, <2>1 DEF ReadForUpdate, ghosts, TypeOK, Requesting
<1>2. CASE WriteRow(r)
  <2>1. AfterWrite(r) => Requesting'
    <3>1. ASSUME req' = [req EXCEPT ![r].pc = "start"], holder' = holder
          PROVE  Requesting'
      <4> DEFINE q == [req[r] EXCEPT !.pc = "start"]
      <4>1. q \in Request /\ HandsFull(q) /\ ~Guarded(q)
        BY <1>0 DEF Request, HandsFull, Guarded
      <4> QED BY <1>0, <3>1, <4>1, Move
    <3> QED BY <3>1, Returning DEF AfterWrite
  <2>2. Requesting'
    BY <1>2, <2>1, Returning DEF WriteRow
  <2>3. req[r].id \in TodoIds /\ req[r].row \in Todo
    BY <1>2 DEF WriteRow, Ready, HandsFull
  <2>4. todos' \in [TodoIds -> Todo \cup {None, Gone}]
    BY <1>2, <2>3, RowToWriteType DEF WriteRow, TypeOK
  <2>5. reopened' \subseteq TodoIds /\ late' \subseteq TodoIds
    BY <1>2, <2>3 DEF WriteRow, TypeOK
  <2> QED BY <1>2, <2>2, <2>4, <2>5 DEF WriteRow, TypeOK, Requesting
<1>3. CASE CheckForCreate(r)
  <2>1. Requesting'
    <3>1. ASSUME holder = None, holder' = r, req' = [req EXCEPT ![r].pc = "insert"]
          PROVE  Requesting'
      <4> DEFINE q == [req[r] EXCEPT !.pc = "insert"]
      <4>1. q \in Request /\ HandsFull(q)
        BY <1>0 DEF Request, HandsFull
      <4> QED BY <1>0, <3>1, <4>1, Move
    <3> QED BY <1>3, <3>1, Returning DEF CheckForCreate, Waits
  <2> QED BY <1>3, <2>1 DEF CheckForCreate, ghosts, TypeOK, Requesting
<1>4. CASE InsertTodo(r)
  <2>1. Requesting'
    BY <1>4, Returning DEF InsertTodo
  <2>2. todos' \in [TodoIds -> Todo \cup {None, Gone}]
    BY <1>4, NewTodoType DEF InsertTodo, TypeOK
  <2> QED BY <1>4, <2>1, <2>2 DEF InsertTodo, ghosts, TypeOK, Requesting
<1>5. CASE ActivateDue(r)
  <2> DEFINE q == [req[r] EXCEPT !.pc = "read"]
  <2>1. q \in Request /\ HandsFull(q) /\ ~Guarded(q)
    BY <1>0 DEF Request, HandsFull, Guarded
  <2>2. req' = [req EXCEPT ![r] = q] /\ holder' = holder
    BY <1>0, <1>5 DEF ActivateDue
  <2>3. Requesting'
    BY <2>1, <2>2, Move
  <2>4. ASSUME NEW t \in TodoIds
        PROVE  (IF Overdue(t, req[r].now) THEN [todos[t] EXCEPT !.state = "active"]
                ELSE todos[t]) \in Todo \cup {None, Gone}
    BY DEF Overdue, Live, TypeOK, Todo, States
  <2>5. todos' \in [TodoIds -> Todo \cup {None, Gone}]
    BY <1>5, <2>4 DEF ActivateDue
  <2> QED BY <1>5, <2>3, <2>5 DEF ActivateDue, ghosts, TypeOK, Requesting
<1>6. CASE ReadList(r)
  <2>1. Requesting'
    BY <1>6, Returning DEF ReadList
  <2> QED BY <1>6, <2>1 DEF ReadList, ghosts, TypeOK, Requesting
<1> QED BY <1>1, <1>2, <1>3, <1>4, <1>5, <1>6

\* The handlers of one pattern, up to the spawning.
LEMMA PatternSteps ==
  ASSUME Base, NEW r \in Requests,
         CheckForPattern(r) \/ InsertPattern(r) \/ ReadPattern(r) \/ WritePattern(r)
  PROVE  Base'
<1> USE DEF Base
<1>0. req[r] \in Request /\ req \in [Requests -> Request] /\ clock \in Nat
      /\ NoRecs \in [PatternIds -> Pattern \cup {None}]
  BY DEF TypeOK, NoRecs
<1>1. CASE CheckForPattern(r)
  <2>1. Requesting'
    <3>1. ASSUME NEW p \in PatternIds, NEW in \in PatternInputs, holder = None, holder' = r,
                 req' = [req EXCEPT ![r].pc = "recInsert", ![r].now = clock,
                           ![r].recs = [NoRecs EXCEPT ![p] = NewPattern(in, clock)]]
          PROVE  Requesting'
      <4> DEFINE recs == [NoRecs EXCEPT ![p] = NewPattern(in, clock)]
                 q == [req[r] EXCEPT !.pc = "recInsert", !.now = clock, !.recs = recs]
      <4>1. recs \in [PatternIds -> Pattern \cup {None}]
        BY <1>0, NewPatternType
      <4> HIDE DEF recs
      <4>2. q \in Request /\ HandsFull(q)
        BY <1>0, <4>1 DEF Request, HandsFull
      <4>3. req' = [req EXCEPT ![r] = q]
        BY <1>0, <3>1 DEF recs
      <4> QED BY <3>1, <4>2, <4>3, Move
    <3>2. holder = None /\ (Return(r) => Requesting')
      BY <1>1, Returning DEF CheckForPattern, Waits
    <3> QED BY <1>1, <3>1, <3>2 DEF CheckForPattern
  <2> QED BY <1>1, <2>1 DEF CheckForPattern, ghosts, TypeOK, Requesting
<1>2. CASE InsertPattern(r)
  <2> DEFINE q == [req[r] EXCEPT !.pc = "open"]
  <2>1. q \in Request /\ HandsFull(q)
    BY <1>0 DEF Request, HandsFull
  <2>2. req' = [req EXCEPT ![r] = q] /\ holder' = holder /\ holder = r
    BY <1>0, <1>2 DEF InsertPattern, At, Held, Guarded
  <2>3. Requesting'
    BY <2>1, <2>2, Move
  <2>4. patterns' \in [PatternIds -> Pattern \cup {None, Gone}]
    BY <1>0, <1>2 DEF InsertPattern, TypeOK, Request
  <2> QED BY <1>2, <2>3, <2>4 DEF InsertPattern, ghosts, TypeOK, Requesting
<1>3. CASE ReadPattern(r)
  <2>1. Requesting'
    <3>1. ASSUME NEW p \in LivePatterns, holder = None, holder' = r,
                 req' = [req EXCEPT ![r].pc = "recWrite", ![r].pid = p,
                           ![r].recs = [NoRecs EXCEPT ![p] = patterns[p]]]
          PROVE  Requesting'
      <4> DEFINE recs == [NoRecs EXCEPT ![p] = patterns[p]]
                 q == [req[r] EXCEPT !.pc = "recWrite", !.pid = p, !.recs = recs]
      <4>1. p \in PatternIds /\ patterns[p] \in Pattern
        BY DEF LivePatterns, TypeOK
      <4>2. recs \in [PatternIds -> Pattern \cup {None}] /\ recs[p] \in Pattern
        BY <1>0, <4>1
      <4> HIDE DEF recs
      <4>3. q \in Request /\ HandsFull(q)
        BY <1>0, <4>1, <4>2 DEF Request, HandsFull
      <4>4. req' = [req EXCEPT ![r] = q]
        BY <1>0, <3>1 DEF recs
      <4> QED BY <3>1, <4>3, <4>4, Move
    <3> QED BY <1>3, <3>1, Returning DEF ReadPattern, Waits
  <2> QED BY <1>3, <2>1 DEF ReadPattern, ghosts, TypeOK, Requesting
<1>4. CASE WritePattern(r)
  <2>1. Requesting'
    BY <1>4, Returning DEF WritePattern
  <2>2. req[r].recs[req[r].pid] \in Pattern
    BY <1>4 DEF WritePattern, At, Ready, HandsFull
  <2>3. PICK in \in PatternEdits :
          LET p == req[r].pid
              rec == UpdatedPattern(req[r].recs[p], in)
          IN  patterns' = IF p \in LivePatterns /\ ~EndsBeforeStart(rec)
                          THEN [patterns EXCEPT ![p] = rec] ELSE patterns
    BY <1>4 DEF WritePattern
  <2> DEFINE p == req[r].pid
             rec == UpdatedPattern(req[r].recs[p], in)
  <2>4. rec \in Pattern
    BY <2>2, UpdatedPatternType
  <2>5. patterns' \in {patterns, [patterns EXCEPT ![p] = rec]}
    BY <2>3
  <2>6. patterns' \in [PatternIds -> Pattern \cup {None, Gone}]
    <3> HIDE DEF rec
    <3>1. patterns \in [PatternIds -> Pattern \cup {None, Gone}]
      BY DEF TypeOK
    <3> QED BY <2>4, <2>5, <3>1
  <2> QED BY <1>4, <2>1, <2>6 DEF WritePattern, ghosts, TypeOK, Requesting
<1> QED BY <1>1, <1>2, <1>3, <1>4

\* Sweep, SpawnNext and spawnIfDue.
LEMMA SpawnSteps ==
  ASSUME Base, NEW r \in Requests,
         Sweep(r) \/ SpawnNext(r) \/ SpawnIfDue(r) \/ Spawn(r) \/ SaveSpawned(r)
  PROVE  Base'
<1> USE DEF Base
<1>0. /\ req[r] \in Request /\ req \in [Requests -> Request]
      /\ NoRecs \in [PatternIds -> Pattern \cup {None}]
      /\ \A p \in LivePatterns : p \in PatternIds /\ patterns[p] \in Pattern
  BY DEF TypeOK, NoRecs, LivePatterns
<1>1. CASE Sweep(r)
  <2> DEFINE recs == [p \in PatternIds |-> IF Active(p) THEN patterns[p] ELSE None]
             a == [req[r] EXCEPT !.pc = "activate"]
             b == [req[r] EXCEPT !.pc = "open", !.recs = recs]
  <2>1. recs \in [PatternIds -> Pattern \cup {None}]
    BY <1>0 DEF Active
  <2>2. \/ req' = [req EXCEPT ![r] = a] /\ holder' = holder
        \/ req' = [req EXCEPT ![r] = b] /\ holder = None /\ holder' = r
    BY <1>0, <1>1 DEF Sweep, Waits
  <2> HIDE DEF recs
  <2>3. a \in Request /\ HandsFull(a) /\ ~Guarded(a)
    BY <1>0 DEF Request, HandsFull, Guarded
  <2>5. b \in Request /\ HandsFull(b)
    BY <1>0, <2>1 DEF Request, HandsFull
  <2>4. Requesting'
    BY <2>2, <2>3, <2>5, Move
  <2> QED BY <1>1, <2>4 DEF Sweep, ghosts, TypeOK, Requesting
<1>2. CASE SpawnNext(r)
  <2> DEFINE p == req[r].row.pattern
             recs == [NoRecs EXCEPT ![p] = patterns[p]]
             q == [req[r] EXCEPT !.pc = "open", !.recs = recs]
  <2>1. ASSUME Active(p), req' = [req EXCEPT ![r] = q], holder' = r
        PROVE  Requesting'
    <3>1. recs \in [PatternIds -> Pattern \cup {None}]
      BY <1>0, <2>1 DEF Active
    <3>2. holder = None
      BY <1>2 DEF SpawnNext, Waits
    <3> HIDE DEF recs
    <3>3. q \in Request /\ HandsFull(q)
      BY <1>0, <3>1 DEF Request, HandsFull
    <3> QED BY <2>1, <3>2, <3>3, Move
  <2>2. Requesting'
    BY <1>0, <1>2, <2>1, Returning DEF SpawnNext
  <2> QED BY <1>2, <2>2 DEF SpawnNext, ghosts, TypeOK, Requesting
<1>3. CASE SpawnIfDue(r)
  <2> PICK p \in PatternIds :
        /\ req[r].recs[p] # None
        /\ HasOne(r, p) \/ Exhaust(r, p) \/ Refuse(r, p) \/ Admit(r, p)
    BY <1>3 DEF SpawnIfDue
  <2>1. Guarded(req[r]) /\ holder = r /\ req[r].recs[p] \in Pattern
    BY <1>0, <1>3 DEF SpawnIfDue, Guarded, Held, Request
  <2>2. ASSUME Admit(r, p)
        PROVE  Requesting'
    <3> DEFINE q == [req[r] EXCEPT !.pc = "spawn", !.pid = p]
    <3>1. q \in Request
      BY <1>0 DEF Request
    <3>2. q.pc = "spawn" /\ q.pid = p /\ q.recs = req[r].recs /\ q.now = req[r].now
      BY <1>0 DEF Request
    <3>3. HandsFull(q)
      BY <2>1, <2>2, <3>2 DEF HandsFull, Admit
    <3>4. req' = [req EXCEPT ![r] = q] /\ holder' = holder
      BY <1>0, <2>2 DEF Admit
    <3> QED BY <2>1, <3>1, <3>3, <3>4, Move
  <2>3. Requesting'
    BY <2>1, <2>2, Returning, NextRecs DEF HasOne, Exhaust, Refuse
  <2>4. [req[r].recs[p] EXCEPT !.state = "completed"] \in Pattern
    BY <2>1 DEF Pattern
  <2>5. patterns' \in [PatternIds -> Pattern \cup {None, Gone}]
    BY <2>4 DEF HasOne, Exhaust, Refuse, Admit, TypeOK
  <2> QED BY <1>3, <2>3, <2>5 DEF SpawnIfDue, ghosts, TypeOK, Requesting
<1>4. CASE Spawn(r)
  <2> DEFINE p == req[r].pid
             row == Instance(p, req[r].recs[p], req[r].now)
             q == [req[r] EXCEPT !.pc = "save"]
  <2>1. p \in PatternIds /\ row \in Todo /\ row.due \in Int
    BY <1>0, <1>4, InstanceType DEF Spawn, Ready, HandsFull, Request
  <2>2. q \in Request
    BY <1>0 DEF Request
  <2>3. q.pc = "save" /\ q.pid = p /\ q.recs = req[r].recs /\ q.now = req[r].now
    BY <1>0 DEF Request
  <2>4. HandsFull(q)
    BY <1>4, <2>3 DEF Spawn, Ready, HandsFull
  <2>5. req' = [req EXCEPT ![r] = q] /\ holder' = holder /\ holder = r
    BY <1>0, <1>4 DEF Spawn, Held, Guarded
  <2>6. Requesting'
    BY <2>2, <2>4, <2>5, Move
  <2> HIDE DEF row, p
  <2>7. /\ todos' \in [TodoIds -> Todo \cup {None, Gone}]
        /\ produced' \in [PatternIds -> Int \cup {None}] /\ late' \subseteq TodoIds
    BY <1>4, <2>1 DEF Spawn, TypeOK, row, p
  <2> QED BY <1>4, <2>6, <2>7 DEF Spawn, TypeOK, Requesting
<1>5. CASE SaveSpawned(r)
  <2> DEFINE p == req[r].pid
             rec == req[r].recs[p]
             new == [rec EXCEPT !.last = NextDue(rec, req[r].now)]
  <2>1. p \in PatternIds /\ rec \in Pattern /\ Guarded(req[r]) /\ req[r].now \in Nat
    BY <1>0, <1>5 DEF SaveSpawned, Ready, HandsFull, Guarded, Request
  <2>2. new \in Pattern
    BY <2>1, NextDueType DEF Pattern
  <2>3. Requesting'
    BY <1>5, <2>1, NextRecs, Returning DEF SaveSpawned
  <2> HIDE DEF new
  <2>4. patterns' \in [PatternIds -> Pattern \cup {None, Gone}]
    BY <1>5, <2>2 DEF SaveSpawned, TypeOK, new
  <2> QED BY <1>5, <2>3, <2>4 DEF SaveSpawned, ghosts, TypeOK, Requesting
<1> QED BY <1>1, <1>2, <1>3, <1>4, <1>5

LEMMA Aborting ==
  ASSUME Base, NEW r \in Requests, Abort(r)
  PROVE  Base'
<1>1. Requesting'
  BY Returning DEF Abort
<1>2. torn' \subseteq PatternIds
  BY DEF Abort, Base, TypeOK, Ready, HandsFull
<1> QED BY <1>1, <1>2 DEF Abort, Base, TypeOK, Requesting

\* The steps that belong to no request in hand.
LEMMA OtherSteps ==
  ASSUME Base,
         \/ \E t \in TodoIds : DeleteTodo(t)
         \/ \E p \in PatternIds : DeletePattern(p)
         \/ Tick
         \/ UNCHANGED vars
  PROVE  Base'
<1> USE DEF Base, Ready, Held
<1>1. ASSUME NEW t \in TodoIds, DeleteTodo(t)
      PROVE  Base'
  BY <1>1 DEF DeleteTodo, TypeOK
<1>2. ASSUME NEW p \in PatternIds, DeletePattern(p)
      PROVE  Base'
  BY <1>2 DEF DeletePattern, ghosts, TypeOK
<1>3. CASE Tick
  BY <1>3 DEF Tick, ghosts, TypeOK
<1>4. CASE UNCHANGED vars
  BY <1>4 DEF vars, TypeOK
<1> QED BY <1>1, <1>2, <1>3, <1>4

LEMMA BaseInit == Init => Base
<1> SUFFICES ASSUME Init
             PROVE  Base
  OBVIOUS
<1>1. \A r \in Requests : req[r] = Idle
  BY DEF Init
<1>2. req \in [Requests -> Request]
  BY IdleType DEF Init
<1>3. TypeOK
  BY <1>2 DEF Init, TypeOK
<1> QED BY <1>1, <1>3, IdleType DEF Base, Ready, Held

LEMMA BaseStep == Base /\ [Next]_vars => Base'
BY Starting, TodoSteps, PatternSteps, SpawnSteps, Aborting, OtherSteps DEF Next, Step

\* TypeOK in every reachable state, with what each request has in hand and the
\* rule that only the holder of the account guard is at a guarded statement.
THEOREM Typing == Spec => [](TypeOK /\ Ready /\ Held)
BY BaseInit, BaseStep, PTL DEF Spec, Base

-----------------------------------------------------------------------------
(* The account guard *)

\* The guard of this account as AccountLock has it.
Guard == INSTANCE AccountLock WITH Accounts <- {"account"},
                                   holder <- [a \in {"account"} |-> holder]

\* A request that stays where it is neither gets the guard nor loses it.
OwnGuard == \A r \in Requests : req'[r] = req[r] => (holder' = r <=> holder = r)

\* One request moves: it has the guard, takes it when it is free, or gives it back.
Turns(r) ==
  /\ \A s \in Requests \ {r} : req'[s] = req[s]
  /\ \/ holder' = holder
     \/ holder = None /\ holder' = r /\ req'[r] # req[r]
     \/ holder = r /\ holder' = None /\ req'[r] # req[r]

LEMMA TurnsTo ==
  ASSUME Base, NEW r \in Requests, NEW q, req' = [req EXCEPT ![r] = q],
         \/ holder' = holder
         \/ q.pc # req[r].pc /\ holder = None /\ holder' = r
         \/ q.pc # req[r].pc /\ holder = r /\ holder' = None
  PROVE  Turns(r)
<1>1. req \in [Requests -> Request]
  BY DEF Base, TypeOK
<1>2. req'[r] = q /\ \A s \in Requests \ {r} : req'[s] = req[s]
  BY <1>1
<1> QED BY <1>2 DEF Turns

LEMMA ReturnTurns ==
  ASSUME Base, NEW r \in Requests, Return(r), req[r].pc # "idle"
  PROVE  Turns(r)
<1>1. Idle.pc # req[r].pc
  BY DEF Idle
<1> QED BY <1>1, TurnsTo DEF Return

LEMMA NextRecTurns ==
  ASSUME Base, NEW r \in Requests, NEW p \in PatternIds, NextRec(r, p), Guarded(req[r])
  PROVE  Turns(r)
<1> DEFINE recs == [req[r].recs EXCEPT ![p] = None]
           q(pc) == [req[r] EXCEPT !.pc = pc, !.pid = None, !.recs = recs]
<1>1. req[r] \in Request /\ holder = r
  BY DEF Base, TypeOK, Held
<1>2. req[r].pc # "idle" /\ req[r].pc # "activate" /\ q("activate").pc = "activate"
  BY <1>1 DEF Guarded, Request
<1>3. Return(r) => Turns(r)
  BY <1>2, ReturnTurns
<1>4. req' = [req EXCEPT ![r] = q("open")] /\ holder' = holder => Turns(r)
  BY TurnsTo
<1>5. req' = [req EXCEPT ![r] = q("activate")] /\ holder' = None => Turns(r)
  <2> DEFINE done == q("activate")
  <2>1. done.pc # req[r].pc
    BY <1>2
  <2> HIDE DEF done
  <2>2. req' = [req EXCEPT ![r] = done] /\ holder' = None => Turns(r)
    BY <1>1, <2>1, TurnsTo
  <2> QED BY <2>2 DEF done
<1> QED BY <1>3, <1>4, <1>5 DEF NextRec

LEMMA StepTurns == ASSUME Base, NEW r \in Requests, Step(r) PROVE Turns(r)
<1>1. req[r] \in Request
  BY DEF Base, TypeOK
<1>2. ASSUME NEW pc
      PROVE  [req[r] EXCEPT !.pc = pc].pc = pc
  BY <1>1 DEF Request
<1>3. CASE \E op \in {"create", "update", "list", "recCreate", "recUpdate"} : Ask(r, op)
  BY <1>3, TurnsTo DEF Ask
<1>4. CASE \E op \in {"complete", "reactivate", "reorder"}, t \in TodoIds : ReadRow(r, op, t)
  BY <1>4, TurnsTo DEF ReadRow
<1>5. CASE ReadForUpdate(r)
  <2>1. req[r].pc = "start" /\ holder = None
    BY <1>5 DEF ReadForUpdate, Waits, At
  <2>2. CASE Return(r)
    BY <2>1, <2>2, ReturnTurns
  <2>3. ASSUME NEW t \in Live, holder' = r,
               req' = [req EXCEPT ![r].pc = "write", ![r].id = t, ![r].row = todos[t]]
        PROVE  Turns(r)
    <3> DEFINE q == [req[r] EXCEPT !.pc = "write", !.id = t, !.row = todos[t]]
    <3>1. q.pc = "write" /\ req' = [req EXCEPT ![r] = q]
      BY <1>1, <2>3 DEF Request, Base, TypeOK
    <3> HIDE DEF q
    <3> QED BY <2>1, <2>3, <3>1, TurnsTo
  <2> QED BY <1>5, <2>2, <2>3 DEF ReadForUpdate
<1>6. CASE WriteRow(r)
  <2>1. req[r].pc = "write" /\ (AfterWrite(r) \/ Return(r))
    BY <1>6 DEF WriteRow
  <2>2. Return(r) => Turns(r)
    BY <2>1, ReturnTurns
  <2> QED BY <2>1, <2>2, TurnsTo DEF AfterWrite
<1>7. CASE CheckForCreate(r)
  <2>1. req[r].pc = "start" /\ holder = None
    BY <1>7 DEF CheckForCreate, Waits, At
  <2>2. Return(r) => Turns(r)
    BY <2>1, ReturnTurns
  <2> QED BY <1>2, <1>7, <2>1, <2>2, TurnsTo DEF CheckForCreate
<1>8. CASE InsertTodo(r) \/ ReadList(r) \/ WritePattern(r)
  BY <1>8, ReturnTurns DEF InsertTodo, ReadList, WritePattern, At
<1>9. CASE CheckForPattern(r)
  <2>1. req[r].pc = "start" /\ holder = None
    BY <1>9 DEF CheckForPattern, Waits, At
  <2>2. CASE Return(r)
    BY <2>1, <2>2, ReturnTurns
  <2>3. ASSUME NEW recs, holder' = r,
               req' = [req EXCEPT ![r].pc = "recInsert", ![r].now = clock, ![r].recs = recs]
        PROVE  Turns(r)
    <3> DEFINE q == [req[r] EXCEPT !.pc = "recInsert", !.now = clock, !.recs = recs]
    <3>1. q.pc = "recInsert" /\ req' = [req EXCEPT ![r] = q]
      BY <1>1, <2>3 DEF Request, Base, TypeOK
    <3> HIDE DEF q
    <3> QED BY <2>1, <2>3, <3>1, TurnsTo
  <2> QED BY <1>9, <2>2, <2>3 DEF CheckForPattern
<1>10. CASE InsertPattern(r) \/ ActivateDue(r) \/ Spawn(r)
  BY <1>10, TurnsTo DEF InsertPattern, ActivateDue, Spawn
<1>11. CASE ReadPattern(r)
  <2>1. req[r].pc = "start" /\ holder = None
    BY <1>11 DEF ReadPattern, Waits, At
  <2>2. CASE Return(r)
    BY <2>1, <2>2, ReturnTurns
  <2>3. ASSUME NEW p, NEW recs, holder' = r,
               req' = [req EXCEPT ![r].pc = "recWrite", ![r].pid = p, ![r].recs = recs]
        PROVE  Turns(r)
    <3> DEFINE q == [req[r] EXCEPT !.pc = "recWrite", !.pid = p, !.recs = recs]
    <3>1. q.pc = "recWrite" /\ req' = [req EXCEPT ![r] = q]
      BY <1>1, <2>3 DEF Request, Base, TypeOK
    <3> HIDE DEF q
    <3> QED BY <2>1, <2>3, <3>1, TurnsTo
  <2> QED BY <1>11, <2>2, <2>3 DEF ReadPattern
<1>12. CASE Sweep(r) \/ SpawnNext(r)
  <2>1. req[r].pc = "start" /\ holder = None
    BY <1>12 DEF Sweep, SpawnNext, Waits, At
  <2>2. Return(r) => Turns(r)
    BY <2>1, ReturnTurns
  <2>3. ASSUME NEW recs, holder' = r, req' = [req EXCEPT ![r].pc = "open", ![r].recs = recs]
        PROVE  Turns(r)
    <3> DEFINE q == [req[r] EXCEPT !.pc = "open", !.recs = recs]
    <3>1. q.pc = "open" /\ req' = [req EXCEPT ![r] = q]
      BY <1>1, <2>3 DEF Request, Base, TypeOK
    <3> HIDE DEF q
    <3> QED BY <2>1, <2>3, <3>1, TurnsTo
  <2>4. holder' = holder /\ req' = [req EXCEPT ![r].pc = "activate"] => Turns(r)
    BY TurnsTo
  <2> QED BY <1>12, <2>2, <2>3, <2>4 DEF Sweep, SpawnNext
<1>13. CASE SpawnIfDue(r)
  <2>1. Guarded(req[r]) /\ req[r].pc # "idle"
    BY <1>13 DEF SpawnIfDue, Guarded
  <2>2. PICK p \in PatternIds : HasOne(r, p) \/ Exhaust(r, p) \/ Refuse(r, p) \/ Admit(r, p)
    BY <1>13 DEF SpawnIfDue
  <2>3. NextRec(r, p) \/ Return(r) => Turns(r)
    BY <2>1, NextRecTurns, ReturnTurns
  <2>4. CASE Admit(r, p)
    BY <2>4, TurnsTo DEF Admit
  <2> QED BY <2>2, <2>3, <2>4 DEF HasOne, Exhaust, Refuse
<1>14. CASE SaveSpawned(r)
  <2>1. Guarded(req[r]) /\ req[r].pc # "idle" /\ req[r].pid \in PatternIds
    BY <1>14 DEF SaveSpawned, Guarded, Base, Ready, HandsFull
  <2>2. NextRec(r, req[r].pid) \/ Return(r) => Turns(r)
    BY <2>1, NextRecTurns, ReturnTurns
  <2> QED BY <1>14, <2>2 DEF SaveSpawned
<1>15. CASE Abort(r)
  BY <1>15, ReturnTurns DEF Abort
<1> QED BY <1>3, <1>4, <1>5, <1>6, <1>7, <1>8, <1>9, <1>10, <1>11, <1>12, <1>13,
           <1>14, <1>15 DEF Step

\* The steps of one account's requests use its guard as AccountLock lets them, and a
\* request gets it and loses it by steps of its own alone: NextRec gives back what its
\* own request holds, never another's.
THEOREM GuardAsPromised == Spec => Guard!Spec /\ [][OwnGuard]_vars
<1> DEFINE lock == [a \in {"account"} |-> holder]
<1>1. Init => Guard!Init
  BY DEF Init, Guard!Init
<1>2. ASSUME Base, [Next]_vars
      PROVE  [Guard!Next]_lock /\ (OwnGuard \/ UNCHANGED vars)
  <2>1. ASSUME NEW r \in Requests, Turns(r)
        PROVE  [Guard!Next]_lock /\ OwnGuard
    <3>1. OwnGuard
      BY <2>1, Markers DEF OwnGuard, Turns
    <3>2. CASE holder' = holder
      BY <3>1, <3>2
    <3>3. CASE holder = None /\ holder' = r
      <4>1. Guard!Enter(r, "account")
        BY <3>3, Markers DEF Guard!Enter
      <4> QED BY <3>1, <4>1 DEF Guard!Next
    <3>4. CASE holder = r /\ holder' = None
      <4>1. Guard!Lose({"account"})
        BY <3>4, Markers DEF Guard!Lose
      <4> QED BY <3>1, <4>1 DEF Guard!Next
    <3> QED BY <2>1, <3>1, <3>2, <3>3, <3>4 DEF Turns
  <2>2. CASE holder' = holder /\ req' = req
    BY <2>2 DEF OwnGuard
  <2>3. (holder' = holder /\ req' = req) \/ \E r \in Requests : Step(r)
    BY <1>2 DEF Next, DeleteTodo, DeletePattern, Tick, vars
  <2> QED BY <1>2, <2>1, <2>2, <2>3, StepTurns
<1> QED BY <1>1, <1>2, Typing, PTL DEF Spec, Guard!Spec, Base

-----------------------------------------------------------------------------
(* The allowances *)

\* A request about to insert has found room, and nobody else has used it since.
Room ==
  \A r \in Requests :
    /\ req[r].pc \in {"insert", "spawn"} => Cardinality(Live) < TodoLimit
    /\ req[r].pc = "recInsert" => Cardinality(LivePatterns) < RecurringLimit

\* A pattern about to be inserted is the only one its request holds.
OneRec ==
  \A r \in Requests, p, q \in PatternIds :
    req[r].pc = "recInsert" /\ req[r].recs[p] # None /\ req[r].recs[q] # None => p = q

Finite == IsFiniteSet(Live) /\ IsFiniteSet(LivePatterns)

Counting == Finite /\ QuotaHeld /\ Room /\ OneRec

\* Rows that do not come to life do not count.
LEMMA Fewer ==
  ASSUME NEW S, NEW T, IsFiniteSet(S), T \subseteq S
  PROVE  IsFiniteSet(T) /\ Cardinality(T) <= Cardinality(S)
         /\ Cardinality(T) \in Nat /\ Cardinality(S) \in Nat
BY FS_Subset, FS_CardinalityType

LEMMA OneMore ==
  ASSUME NEW S, NEW T, NEW x, IsFiniteSet(S), T \subseteq S \cup {x}
  PROVE  IsFiniteSet(T) /\ Cardinality(T) <= Cardinality(S) + 1 /\ Cardinality(T) \in Nat
<1>0. Cardinality(S) \in Nat
  BY FS_CardinalityType
<1>1. /\ IsFiniteSet(S \cup {x})
      /\ Cardinality(S \cup {x}) = IF x \in S THEN Cardinality(S) ELSE Cardinality(S) + 1
  BY FS_AddElement
<1>2. IsFiniteSet(T) /\ Cardinality(T) <= Cardinality(S \cup {x})
      /\ Cardinality(T) \in Nat /\ Cardinality(S \cup {x}) \in Nat
  BY <1>1, Fewer
<1> QED BY <1>0, <1>1, <1>2

\* The three ways a step treats the rows that are there: none comes to life, one
\* action does, one pattern does.  Only a request that found room inserts, and it
\* holds the guard, so that no other request has found the same room.
LEMMA Uncounted ==
  ASSUME Base, Base', Counting, Live' \subseteq Live, LivePatterns' \subseteq LivePatterns,
         \A r \in Requests : req'[r].pc \in {"insert", "spawn"} =>
             req[r].pc \in {"insert", "spawn"} \/ HasRoom,
         \A r \in Requests : req'[r].pc = "recInsert" =>
             \/ req[r] = req'[r]
             \/ /\ HasPatternRoom
                /\ \A p, q \in PatternIds :
                     req'[r].recs[p] # None /\ req'[r].recs[q] # None => p = q
  PROVE  Counting'
<1>1. /\ IsFiniteSet(Live') /\ Cardinality(Live') <= Cardinality(Live)
      /\ Cardinality(Live') \in Nat /\ Cardinality(Live) \in Nat
  BY Fewer DEF Counting, Finite
<1>2. /\ IsFiniteSet(LivePatterns') /\ Cardinality(LivePatterns') <= Cardinality(LivePatterns)
      /\ Cardinality(LivePatterns') \in Nat /\ Cardinality(LivePatterns) \in Nat
  BY Fewer DEF Counting, Finite
<1>3. Finite' /\ QuotaHeld'
  BY <1>1, <1>2, Quotas DEF Counting, Finite, QuotaHeld
<1>4. Room'
  BY <1>1, <1>2, Quotas DEF Counting, Room, HasRoom, HasPatternRoom
<1>5. OneRec'
  BY DEF Counting, OneRec
<1> QED BY <1>3, <1>4, <1>5 DEF Counting

\* Everybody but the holder is at an unguarded statement.
LEMMA Alone ==
  ASSUME Held, NEW r \in Requests, holder = r, NEW s \in Requests, s # r
  PROVE  req[s].pc \notin {"insert", "spawn", "recInsert"}
BY DEF Held, Guarded

LEMMA InsertingTodo ==
  ASSUME Base, Counting, NEW r \in Requests, req[r].pc \in {"insert", "spawn"},
         NEW t \in TodoIds, Live' \subseteq Live \cup {t}, LivePatterns' = LivePatterns,
         req'[r].pc \notin {"insert", "spawn", "recInsert"},
         \A s \in Requests : s # r => req'[s] = req[s]
  PROVE  Counting'
<1>1. Cardinality(Live) < TodoLimit /\ Cardinality(Live) \in Nat
  BY FS_CardinalityType DEF Counting, Finite, Room
<1>2. IsFiniteSet(Live') /\ Cardinality(Live') <= Cardinality(Live) + 1
      /\ Cardinality(Live') \in Nat
  BY OneMore DEF Counting, Finite
<1>3. Cardinality(Live') <= TodoLimit
  BY <1>1, <1>2, Quotas
<1>4. holder = r
  BY DEF Base, Held, Guarded
<1>5. \A s \in Requests : req'[s].pc \notin {"insert", "spawn", "recInsert"}
  BY <1>4, Alone DEF Base
<1> QED BY <1>2, <1>3, <1>5 DEF Counting, Finite, QuotaHeld, Room, OneRec

LEMMA InsertingPattern ==
  ASSUME Base, Counting, NEW r \in Requests, InsertPattern(r)
  PROVE  Counting'
<1>1. At(r, "recCreate", "recInsert") /\ holder = r
  BY DEF InsertPattern, At, Base, Held, Guarded
<1>2. Cardinality(LivePatterns) < RecurringLimit /\ Cardinality(LivePatterns) \in Nat
  BY <1>1, FS_CardinalityType DEF Counting, Finite, Room, At
<1>3. \E p : LivePatterns' \subseteq LivePatterns \cup {p}
  BY <1>1 DEF InsertPattern, LivePatterns, Counting, OneRec, At
<1>4. IsFiniteSet(LivePatterns') /\ Cardinality(LivePatterns') <= Cardinality(LivePatterns) + 1
      /\ Cardinality(LivePatterns') \in Nat
  BY <1>3, OneMore DEF Counting, Finite
<1>5. Cardinality(LivePatterns') <= RecurringLimit
  BY <1>2, <1>4, Quotas
<1>6. \A s \in Requests : req'[s] = [req EXCEPT ![r].pc = "open"][s]
  BY DEF InsertPattern
<1>7. \A s \in Requests : req'[s].pc \notin {"insert", "spawn", "recInsert"}
  BY <1>1, <1>6, Alone DEF Base, TypeOK, Request
<1>8. Live' = Live
  BY DEF InsertPattern, Live
<1> QED BY <1>4, <1>5, <1>7, <1>8 DEF Counting, Finite, QuotaHeld, Room, OneRec

\* Where a request is after a step of its own.
LEMMA Moved ==
  ASSUME Base, NEW r \in Requests, NEW q, req' = [req EXCEPT ![r] = q]
  PROVE  /\ req'[r] = q
         /\ \A s \in Requests : s # r => req'[s] = req[s]
BY DEF Base, TypeOK

LEMMA Returned ==
  ASSUME Base, NEW r \in Requests, Return(r)
  PROVE  /\ req'[r].pc = "idle"
         /\ \A s \in Requests : s # r => req'[s] = req[s]
BY DEF Return, Base, TypeOK, Idle

LEMMA NextRecMoves ==
  ASSUME Base, NEW r \in Requests, NEW p \in PatternIds, NextRec(r, p)
  PROVE  /\ req'[r].pc \in {"open", "activate", "idle"}
         /\ \A s \in Requests : s # r => req'[s] = req[s]
<1> DEFINE recs == [req[r].recs EXCEPT ![p] = None]
           q(pc) == [req[r] EXCEPT !.pc = pc, !.pid = None, !.recs = recs]
<1>1. req[r] \in Request
  BY DEF Base, TypeOK
<1>2. \A pc \in {"open", "activate"} : q(pc).pc = pc
  BY <1>1 DEF Request
<1>3. CASE req' = [req EXCEPT ![r] = q("open")]
  BY <1>2, <1>3, Moved
<1>4. CASE req' = [req EXCEPT ![r] = q("activate")]
  BY <1>2, <1>4, Moved
<1>5. CASE Return(r)
  BY <1>5, Returned
<1> QED BY <1>3, <1>4, <1>5 DEF NextRec

\* Where each action leaves the request that takes it; the others stay.
Lands(r, pcs) == req'[r].pc \in pcs /\ \A s \in Requests : s # r => req'[s] = req[s]

LEMMA Landing ==
  ASSUME Base, NEW r \in Requests
  PROVE  /\ \A op : Ask(r, op) => Lands(r, {"start"})
         /\ \A op : \A t \in TodoIds : ReadRow(r, op, t) => Lands(r, {"write"})
         /\ ReadForUpdate(r) => Lands(r, {"write", "idle"})
         /\ WriteRow(r) => Lands(r, {"start", "idle"})
         /\ InsertTodo(r) \/ WritePattern(r) \/ ReadList(r) \/ Abort(r) => Lands(r, {"idle"})
         /\ InsertPattern(r) => Lands(r, {"open"})
         /\ ReadPattern(r) => Lands(r, {"recWrite", "idle"})
         /\ Sweep(r) => Lands(r, {"activate", "open"})
         /\ SpawnNext(r) => Lands(r, {"open", "idle"})
         /\ Spawn(r) => Lands(r, {"save"})
         /\ SaveSpawned(r) => Lands(r, {"open", "activate", "idle"})
         /\ ActivateDue(r) => Lands(r, {"read"})
<1> USE DEF Lands
<1>0. req[r] \in Request /\ req \in [Requests -> Request]
  BY DEF Base, TypeOK
<1>1. ASSUME NEW op, Ask(r, op)
      PROVE  Lands(r, {"start"})
  BY <1>0, <1>1, Moved DEF Ask, Idle
<1>2. ASSUME NEW op, NEW t \in TodoIds, ReadRow(r, op, t)
      PROVE  Lands(r, {"write"})
  BY <1>0, <1>2, Moved DEF ReadRow, Idle
<1>3. ASSUME ReadForUpdate(r)
      PROVE  Lands(r, {"write", "idle"})
  <2>1. ASSUME NEW t, req' = [req EXCEPT ![r].pc = "write", ![r].id = t, ![r].row = todos[t]]
        PROVE  Lands(r, {"write"})
    BY <1>0, <2>1 DEF Request
  <2> QED BY <1>3, <2>1, Returned DEF ReadForUpdate
<1>4. ASSUME WriteRow(r)
      PROVE  Lands(r, {"start", "idle"})
  BY <1>0, <1>4, Returned DEF WriteRow, AfterWrite, Request
<1>5. ASSUME InsertTodo(r) \/ WritePattern(r) \/ ReadList(r) \/ Abort(r)
      PROVE  Lands(r, {"idle"})
  BY <1>5, Returned DEF InsertTodo, WritePattern, ReadList, Abort
<1>6. ASSUME InsertPattern(r)
      PROVE  Lands(r, {"open"})
  BY <1>0, <1>6 DEF InsertPattern, Request
<1>7. ASSUME ReadPattern(r)
      PROVE  Lands(r, {"recWrite", "idle"})
  <2>1. ASSUME NEW p, req' = [req EXCEPT ![r].pc = "recWrite", ![r].pid = p,
                                ![r].recs = [NoRecs EXCEPT ![p] = patterns[p]]]
        PROVE  Lands(r, {"recWrite"})
    BY <1>0, <2>1 DEF Request
  <2> QED BY <1>7, <2>1, Returned DEF ReadPattern
<1>8. ASSUME Sweep(r)
      PROVE  Lands(r, {"activate", "open"})
  BY <1>0, <1>8 DEF Sweep, Request
<1>9. ASSUME SpawnNext(r)
      PROVE  Lands(r, {"open", "idle"})
  BY <1>0, <1>9, Returned DEF SpawnNext, Request
<1>10. ASSUME Spawn(r)
       PROVE  Lands(r, {"save"})
  BY <1>0, <1>10 DEF Spawn, Request
<1>11. ASSUME SaveSpawned(r)
       PROVE  Lands(r, {"open", "activate", "idle"})
  <2>1. req[r].pid \in PatternIds /\ (NextRec(r, req[r].pid) \/ Return(r))
    BY <1>11 DEF SaveSpawned, Base, Ready, HandsFull
  <2> QED BY <2>1, NextRecMoves, Returned
<1>12. ASSUME ActivateDue(r)
       PROVE  Lands(r, {"read"})
  BY <1>0, <1>12 DEF ActivateDue, Request
<1> QED BY <1>1, <1>2, <1>3, <1>4, <1>5, <1>6, <1>7, <1>8, <1>9, <1>10, <1>11, <1>12

LEMMA CountingStep == Base /\ Counting /\ [Next]_vars => Counting'
<1> SUFFICES ASSUME Base, Counting, [Next]_vars
             PROVE  Counting'
  OBVIOUS
<1>0. Base'
  BY BaseStep
<1>22. \A r \in Requests : req[r] \in Request /\ req \in [Requests -> Request]
  BY DEF Base, TypeOK
<1> DEFINE Quiet(r) ==
      /\ Live' \subseteq Live /\ LivePatterns' \subseteq LivePatterns
      /\ Lands(r, {"start", "write", "idle", "open", "recWrite", "activate", "save", "read"})
<1>1. ASSUME NEW r \in Requests, Quiet(r)
      PROVE  Counting'
  BY <1>0, <1>1, Uncounted DEF Lands
<1> HIDE DEF Quiet
<1>2. ASSUME NEW r \in Requests, NEW op, Ask(r, op)
      PROVE  Counting'
  <2>1. Lands(r, {"start"})
    BY <1>2, Landing
  <2>2. Live' = Live /\ LivePatterns' = LivePatterns
    BY <1>2 DEF Ask, Live, LivePatterns
  <2> QED BY <1>1, <2>1, <2>2 DEF Quiet, Lands
<1>3. ASSUME NEW r \in Requests, NEW op, NEW t \in TodoIds, ReadRow(r, op, t)
      PROVE  Counting'
  <2>1. Lands(r, {"write"})
    BY <1>3, Landing
  <2>2. Live' = Live /\ LivePatterns' = LivePatterns
    BY <1>3 DEF ReadRow, Live, LivePatterns
  <2> QED BY <1>1, <2>1, <2>2 DEF Quiet, Lands
<1>4. ASSUME NEW r \in Requests, ReadForUpdate(r)
      PROVE  Counting'
  <2>1. Lands(r, {"write", "idle"})
    BY <1>4, Landing
  <2>2. Live' = Live /\ LivePatterns' = LivePatterns
    BY <1>4 DEF ReadForUpdate, Live, LivePatterns
  <2> QED BY <1>1, <2>1, <2>2 DEF Quiet, Lands
<1>5. ASSUME NEW r \in Requests, WriteRow(r)
      PROVE  Counting'
  <2>1. Lands(r, {"start", "idle"})
    BY <1>5, Landing
  <2>2. Live' \subseteq Live /\ LivePatterns' = LivePatterns
    BY <1>5 DEF WriteRow, Live, LivePatterns, Base, TypeOK
  <2> QED BY <1>1, <2>1, <2>2 DEF Quiet, Lands
<1>6. ASSUME NEW r \in Requests, CheckForCreate(r)
      PROVE  Counting'
  <2>1. Live' = Live /\ LivePatterns' = LivePatterns
    BY <1>6 DEF CheckForCreate, Live, LivePatterns
  <2>2. CASE Return(r)
    BY <1>1, <2>1, <2>2, Returned DEF Quiet, Lands
  <2>3. CASE HasRoom /\ req' = [req EXCEPT ![r].pc = "insert"]
    <3>1. req'[r].pc = "insert" /\ \A s \in Requests : s # r => req'[s] = req[s]
      BY <1>22, <2>3 DEF Request
    <3> QED BY <1>0, <2>1, <2>3, <3>1, Uncounted
  <2> QED BY <1>6, <2>2, <2>3 DEF CheckForCreate
<1>7. ASSUME NEW r \in Requests, InsertTodo(r)
      PROVE  Counting'
  <2>1. PICK t \in TodoIds, in \in TodoInputs : todos' = [todos EXCEPT ![t] = NewTodo(in, clock)]
    BY <1>7 DEF InsertTodo
  <2>2. Live' \subseteq Live \cup {t} /\ LivePatterns' = LivePatterns
    BY <1>7, <2>1 DEF InsertTodo, Live, LivePatterns, Base, TypeOK
  <2>3. req[r].pc = "insert" /\ req'[r].pc = "idle"
        /\ \A s \in Requests : s # r => req'[s] = req[s]
    BY <1>7, Returned DEF InsertTodo, At
  <2> QED BY <2>2, <2>3, InsertingTodo
<1>8. ASSUME NEW r \in Requests, CheckForPattern(r)
      PROVE  Counting'
  <2>1. Live' = Live /\ LivePatterns' = LivePatterns
    BY <1>8 DEF CheckForPattern, Live, LivePatterns
  <2>2. CASE Return(r)
    BY <1>1, <2>1, <2>2, Returned DEF Quiet, Lands
  <2>3. ASSUME NEW p \in PatternIds, NEW rec, HasPatternRoom,
               req' = [req EXCEPT ![r].pc = "recInsert", ![r].now = clock,
                         ![r].recs = [NoRecs EXCEPT ![p] = rec]]
        PROVE  Counting'
    <3> DEFINE recs == [NoRecs EXCEPT ![p] = rec]
    <3>1. req'[r].pc = "recInsert" /\ req'[r].recs = recs
          /\ \A s \in Requests : s # r => req'[s] = req[s]
      BY <1>22, <2>3 DEF Request
    <3>2. \A u \in PatternIds : recs[u] # None => u = p
      BY DEF NoRecs
    <3> QED BY <1>0, <2>1, <2>3, <3>1, <3>2, Uncounted
  <2> QED BY <1>8, <2>2, <2>3 DEF CheckForPattern
<1>9. ASSUME NEW r \in Requests, InsertPattern(r)
      PROVE  Counting'
  BY <1>9, InsertingPattern
<1>10. ASSUME NEW r \in Requests, ReadPattern(r)
       PROVE  Counting'
  <2>1. Lands(r, {"recWrite", "idle"})
    BY <1>10, Landing
  <2>2. Live' = Live /\ LivePatterns' = LivePatterns
    BY <1>10 DEF ReadPattern, Live, LivePatterns
  <2> QED BY <1>1, <2>1, <2>2 DEF Quiet, Lands
<1>11. ASSUME NEW r \in Requests, WritePattern(r)
       PROVE  Counting'
  <2>1. Lands(r, {"idle"})
    BY <1>11, Landing
  <2>2. Live' = Live /\ LivePatterns' \subseteq LivePatterns
    BY <1>11 DEF WritePattern, Live, LivePatterns, Base, TypeOK
  <2> QED BY <1>1, <2>1, <2>2 DEF Quiet, Lands
<1>12. ASSUME NEW r \in Requests, Sweep(r)
       PROVE  Counting'
  <2>1. Lands(r, {"activate", "open"})
    BY <1>12, Landing
  <2>2. Live' = Live /\ LivePatterns' = LivePatterns
    BY <1>12 DEF Sweep, Live, LivePatterns
  <2> QED BY <1>1, <2>1, <2>2 DEF Quiet, Lands
<1>13. ASSUME NEW r \in Requests, SpawnNext(r)
       PROVE  Counting'
  <2>1. Lands(r, {"open", "idle"})
    BY <1>13, Landing
  <2>2. Live' = Live /\ LivePatterns' = LivePatterns
    BY <1>13 DEF SpawnNext, Live, LivePatterns
  <2> QED BY <1>1, <2>1, <2>2 DEF Quiet, Lands
<1>14. ASSUME NEW r \in Requests, SpawnIfDue(r)
       PROVE  Counting'
  <2> PICK p \in PatternIds : HasOne(r, p) \/ Exhaust(r, p) \/ Refuse(r, p) \/ Admit(r, p)
    BY <1>14 DEF SpawnIfDue
  <2>1. Live' = Live
    BY <1>14 DEF SpawnIfDue, Live
  <2>2. CASE Admit(r, p)
    <3>1. HasRoom /\ LivePatterns' = LivePatterns
      BY <2>2 DEF Admit, LivePatterns
    <3>3. req' = [req EXCEPT ![r] = [req[r] EXCEPT !.pc = "spawn", !.pid = p]]
      BY <1>22, <2>2 DEF Admit
    <3>2. req'[r].pc = "spawn" /\ \A s \in Requests : s # r => req'[s] = req[s]
      BY <1>22, <3>3 DEF Request
    <3> QED BY <1>0, <2>1, <3>1, <3>2, Uncounted
  <2>3. CASE HasOne(r, p) \/ Exhaust(r, p) \/ Refuse(r, p)
    <3>1. LivePatterns' \subseteq LivePatterns
      BY <2>3 DEF HasOne, Exhaust, Refuse, LivePatterns, Base, TypeOK
    <3>2. NextRec(r, p) \/ Return(r)
      BY <2>3 DEF HasOne, Exhaust, Refuse
    <3> QED BY <1>1, <2>1, <3>1, <3>2, NextRecMoves, Returned DEF Quiet, Lands
  <2> QED BY <2>2, <2>3
<1>15. ASSUME NEW r \in Requests, Spawn(r)
       PROVE  Counting'
  <2>1. PICK t \in TodoIds :
          todos' = [todos EXCEPT ![t] = Instance(req[r].pid, req[r].recs[req[r].pid], req[r].now)]
    BY <1>15 DEF Spawn
  <2>2. Live' \subseteq Live \cup {t} /\ LivePatterns' = LivePatterns
    BY <1>15, <2>1 DEF Spawn, Live, LivePatterns, Base, TypeOK
  <2>3. req[r].pc = "spawn" /\ req'[r].pc = "save"
        /\ \A s \in Requests : s # r => req'[s] = req[s]
    BY <1>22, <1>15 DEF Spawn, Request
  <2> QED BY <2>2, <2>3, InsertingTodo
<1>16. ASSUME NEW r \in Requests, SaveSpawned(r)
       PROVE  Counting'
  <2>1. req[r].pid \in PatternIds
    BY <1>16 DEF SaveSpawned, Base, Ready, HandsFull
  <2>2. NextRec(r, req[r].pid) \/ Return(r)
    BY <1>16 DEF SaveSpawned
  <2>3. Live' = Live /\ LivePatterns' \subseteq LivePatterns
    BY <1>16 DEF SaveSpawned, Live, LivePatterns, Base, TypeOK
  <2> QED BY <1>1, <2>1, <2>2, <2>3, NextRecMoves, Returned DEF Quiet, Lands
<1>17. ASSUME NEW r \in Requests, ActivateDue(r)
       PROVE  Counting'
  <2>1. Lands(r, {"read"})
    BY <1>17, Landing
  <2>2. Live' \subseteq Live /\ LivePatterns' = LivePatterns
    BY <1>17 DEF ActivateDue, Overdue, Live, LivePatterns
  <2> QED BY <1>1, <2>1, <2>2 DEF Quiet, Lands
<1>18. ASSUME NEW r \in Requests, ReadList(r) \/ Abort(r)
       PROVE  Counting'
  <2>1. Lands(r, {"idle"})
    BY <1>18, Landing
  <2>2. Live' = Live /\ LivePatterns' = LivePatterns
    BY <1>18 DEF ReadList, Abort, Live, LivePatterns
  <2> QED BY <1>1, <2>1, <2>2 DEF Quiet, Lands
<1>19. ASSUME NEW t \in TodoIds, DeleteTodo(t)
       PROVE  Counting'
  <2>1. Live' \subseteq Live /\ LivePatterns' = LivePatterns /\ req' = req
    BY <1>19 DEF DeleteTodo, Live, LivePatterns, Base, TypeOK
  <2> QED BY <1>0, <2>1, Uncounted
<1>20. ASSUME NEW p \in PatternIds, DeletePattern(p)
       PROVE  Counting'
  <2>1. Live' = Live /\ LivePatterns' \subseteq LivePatterns /\ req' = req
    BY <1>20 DEF DeletePattern, Live, LivePatterns, Base, TypeOK
  <2> QED BY <1>0, <2>1, Uncounted
<1>21. CASE Tick \/ UNCHANGED vars
  <2>1. Live' = Live /\ LivePatterns' = LivePatterns /\ req' = req
    BY <1>21 DEF Tick, vars, Live, LivePatterns
  <2> QED BY <1>0, <2>1, Uncounted
<1> QED BY <1>2, <1>3, <1>4, <1>5, <1>6, <1>7, <1>8, <1>9, <1>10, <1>11, <1>12, <1>13,
           <1>14, <1>15, <1>16, <1>17, <1>18, <1>19, <1>20, <1>21 DEF Next, Step

LEMMA CountingInit == Init => Counting
<1> SUFFICES ASSUME Init
             PROVE  Counting
  OBVIOUS
<1>1. Live = {} /\ LivePatterns = {}
  BY DEF Init, Live, LivePatterns
<1>2. \A r \in Requests : req[r].pc = "idle"
  BY DEF Init, Idle
<1> QED BY <1>1, <1>2, FS_EmptySet, Quotas DEF Counting, Finite, QuotaHeld, Room, OneRec

\* The allowances of an account hold for any number of concurrent requests, in
\* any interleaving and whatever fails between two statements.
THEOREM Allowances == Spec => []QuotaHeld
<1>1. Base /\ Counting /\ [Next]_vars => (Base /\ Counting)'
  BY BaseStep, CountingStep
<1>2. Counting => QuotaHeld
  BY DEF Counting
<1> QED BY <1>1, <1>2, BaseInit, CountingInit, PTL DEF Spec

-----------------------------------------------------------------------------
(* One open instance of a pattern *)

\* The row a request is about to overwrite is the one it read: an id is never
\* given to another action, and the pattern of an action never changes.
Copied ==
  \A r \in Requests : req[r].pc = "write" =>
    /\ todos[req[r].id] # None
    /\ req[r].id \in Live => todos[req[r].id].pattern = req[r].row.pattern

\* Open, and not taken back from completed.
FirstOpen(t, p) == IsOpen(t) /\ t \notin reopened /\ todos[t].pattern = p

\* What spawnIfDue has found stays true until it inserts.
NoneOpen ==
  \A r \in Requests, p \in PatternIds : req[r].pc = "spawn" /\ req[r].pid = p =>
    \A t \in TodoIds : ~FirstOpen(t, p)

Opening == Copied /\ NoneOpen /\ OneOpenInstance

\* A step that opens nothing: what is open after it was open before, with the same
\* pattern, and whoever starts to write or to spawn has just read what it relies on.
LEMMA NothingOpens ==
  ASSUME Base, Base', Opening,
         \A t \in TodoIds, p \in PatternIds : FirstOpen(t, p)' => FirstOpen(t, p),
         \A t \in TodoIds : todos[t] # None =>
            todos'[t] # None /\ (t \in Live' => t \in Live /\ todos'[t].pattern = todos[t].pattern),
         \A r \in Requests : req'[r].pc = "write" =>
            \/ req[r] = req'[r]
            \/ req'[r].id \in Live /\ req'[r].row = todos[req'[r].id],
         \A r \in Requests : req'[r].pc = "spawn" =>
            req[r] = req'[r] \/ ~HasOpenInstance(req'[r].pid)
  PROVE  Opening'
<1>1. Copied'
  <2> SUFFICES ASSUME NEW r \in Requests, req'[r].pc = "write"
               PROVE  /\ todos'[req'[r].id] # None
                      /\ req'[r].id \in Live' => todos'[req'[r].id].pattern = req'[r].row.pattern
    BY DEF Copied
  <2> DEFINE t == req'[r].id
  <2>1. t \in TodoIds
    BY DEF Base, Ready, HandsFull
  <2>2. todos[t] # None /\ (t \in Live => todos[t].pattern = req'[r].row.pattern)
    BY DEF Opening, Copied, Live
  <2> QED BY <2>1, <2>2
<1>2. NoneOpen'
  <2> SUFFICES ASSUME NEW r \in Requests, NEW p \in PatternIds,
                      req'[r].pc = "spawn", req'[r].pid = p,
                      NEW t \in TodoIds, FirstOpen(t, p)'
               PROVE  FALSE
    BY DEF NoneOpen
  <2>1. FirstOpen(t, p)
    OBVIOUS
  <2>2. HasOpenInstance(p)
    BY <2>1 DEF FirstOpen, HasOpenInstance, IsOpen
  <2> QED BY <2>1, <2>2 DEF Opening, NoneOpen
<1>3. OneOpenInstance'
  <2> SUFFICES ASSUME NEW p \in PatternIds, NEW t \in TodoIds, NEW u \in TodoIds,
                      FirstOpen(t, p)', FirstOpen(u, p)'
               PROVE  t = u
    BY DEF OneOpenInstance, FirstOpen, IsOpen, Live, Base, TypeOK, Todo
  <2>1. FirstOpen(t, p) /\ FirstOpen(u, p)
    OBVIOUS
  <2>2. p # None
    BY Markers
  <2> QED BY <2>1, <2>2 DEF Opening, OneOpenInstance, FirstOpen
<1> QED BY <1>1, <1>2, <1>3 DEF Opening

\* A step of r that ends neither before a write nor before a spawn.
Settled(r) == Lands(r, {"idle", "start", "insert", "recInsert", "recWrite", "open", "save",
                        "activate", "read"})

\* No row changes.
LEMMA SameRows ==
  ASSUME Base, Base', Opening, todos' = todos, reopened' = reopened,
         \A r \in Requests : req'[r].pc = "write" =>
            \/ req[r] = req'[r]
            \/ req'[r].id \in Live /\ req'[r].row = todos[req'[r].id],
         \A r \in Requests : req'[r].pc = "spawn" =>
            req[r] = req'[r] \/ ~HasOpenInstance(req'[r].pid)
  PROVE  Opening'
<1>1. Live' = Live
  BY DEF Live
<1>2. \A t \in TodoIds, p \in PatternIds : FirstOpen(t, p)' => FirstOpen(t, p)
  BY <1>1 DEF FirstOpen, IsOpen
<1> QED BY <1>1, <1>2, NothingOpens

\* The steps that leave the rows alone.
LEMMA ReadingSteps ==
  ASSUME Base, Base', Opening, NEW r \in Requests,
         \/ \E op \in {"create", "update", "list", "recCreate", "recUpdate"} : Ask(r, op)
         \/ \E op \in {"complete", "reactivate", "reorder"}, t \in TodoIds : ReadRow(r, op, t)
         \/ ReadForUpdate(r) \/ CheckForCreate(r)
         \/ CheckForPattern(r) \/ InsertPattern(r) \/ ReadPattern(r) \/ WritePattern(r)
         \/ Sweep(r) \/ SpawnNext(r) \/ SpawnIfDue(r) \/ SaveSpawned(r)
         \/ ReadList(r) \/ Abort(r)
  PROVE  Opening'
<1>0. req[r] \in Request /\ req \in [Requests -> Request]
  BY DEF Base, TypeOK
<1>1. todos' = todos /\ reopened' = reopened
  BY DEF Ask, ReadRow, ReadForUpdate, CheckForCreate, CheckForPattern, InsertPattern,
         ReadPattern, WritePattern, Sweep, SpawnNext, SpawnIfDue, SaveSpawned, ReadList,
         Abort, ghosts
<1>2. CASE Settled(r)
  BY <1>1, <1>2, SameRows DEF Settled, Lands
<1>3. ASSUME NEW op, Ask(r, op)
      PROVE  Settled(r)
  BY <1>3, Landing DEF Settled, Lands
<1>4. ASSUME NEW op, NEW t \in TodoIds, ReadRow(r, op, t)
      PROVE  Opening'
  <2>1. req'[r].id = t /\ req'[r].row = todos[t] /\ t \in Live
        /\ \A s \in Requests : s # r => req'[s] = req[s]
    BY <1>0, <1>4 DEF ReadRow, Idle
  <2>2. req'[r].pc = "write"
    BY <1>4, Landing DEF Lands
  <2> QED BY <1>1, <2>1, <2>2, SameRows
<1>5. CASE ReadForUpdate(r)
  <2>1. ASSUME NEW t \in Live,
               req' = [req EXCEPT ![r].pc = "write", ![r].id = t, ![r].row = todos[t]]
        PROVE  Opening'
    <3>1. req'[r].id = t /\ req'[r].row = todos[t]
      BY <1>0, <2>1 DEF Request
    <3>2. \A s \in Requests : s # r => req'[s] = req[s]
      BY <1>0, <2>1
    <3>3. req'[r].pc = "write"
      BY <1>0, <2>1 DEF Request
    <3> QED BY <1>1, <3>1, <3>2, <3>3, SameRows
  <2>2. ASSUME Return(r)
        PROVE  Settled(r)
    BY <2>2, Returned DEF Settled, Lands
  <2> QED BY <1>2, <1>5, <2>1, <2>2 DEF ReadForUpdate
<1>6. ASSUME CheckForCreate(r)
      PROVE  Settled(r)
  <2>1. ASSUME req' = [req EXCEPT ![r].pc = "insert"]
        PROVE  Settled(r)
    BY <1>0, <2>1 DEF Settled, Lands, Request
  <2> QED BY <1>6, <2>1, Returned DEF CheckForCreate, Settled, Lands
<1>7. ASSUME CheckForPattern(r)
      PROVE  Settled(r)
  <2>1. ASSUME NEW p \in PatternIds, NEW rec,
               req' = [req EXCEPT ![r].pc = "recInsert", ![r].now = clock,
                         ![r].recs = [NoRecs EXCEPT ![p] = rec]]
        PROVE  Settled(r)
    BY <1>0, <2>1 DEF Settled, Lands, Request
  <2> QED BY <1>7, <2>1, Returned DEF CheckForPattern, Settled, Lands
<1>8. ASSUME \/ InsertPattern(r) \/ ReadPattern(r) \/ WritePattern(r) \/ Sweep(r)
             \/ SpawnNext(r) \/ SaveSpawned(r) \/ ReadList(r) \/ Abort(r)
      PROVE  Settled(r)
  BY <1>8, Landing DEF Settled, Lands
<1>9. CASE SpawnIfDue(r)
  <2> PICK p \in PatternIds : HasOne(r, p) \/ Exhaust(r, p) \/ Refuse(r, p) \/ Admit(r, p)
    BY <1>9 DEF SpawnIfDue
  <2>1. CASE Admit(r, p)
    <3>1. ~HasOpenInstance(p)
      BY <2>1 DEF Admit
    <3>2. req' = [req EXCEPT ![r] = [req[r] EXCEPT !.pc = "spawn", !.pid = p]]
      BY <1>0, <2>1 DEF Admit
    <3>3. req'[r].pc = "spawn" /\ req'[r].pid = p
      BY <1>0, <3>2 DEF Request
    <3>4. \A s \in Requests : s # r => req'[s] = req[s]
      BY <1>0, <3>2
    <3> QED BY <1>1, <3>1, <3>3, <3>4, SameRows
  <2>2. ASSUME HasOne(r, p) \/ Exhaust(r, p) \/ Refuse(r, p)
        PROVE  Settled(r)
    <3>1. NextRec(r, p) \/ Return(r)
      BY <2>2 DEF HasOne, Exhaust, Refuse
    <3> QED BY <3>1, NextRecMoves, Returned DEF Settled, Lands
  <2> QED BY <1>2, <2>1, <2>2
<1> QED BY <1>2, <1>3, <1>4, <1>5, <1>6, <1>7, <1>8, <1>9

\* The steps that write rows without inserting an instance.
LEMMA WritingSteps ==
  ASSUME Base, Base', Opening, NEW r \in Requests,
         WriteRow(r) \/ InsertTodo(r) \/ ActivateDue(r)
  PROVE  Opening'
<1>0. Settled(r) /\ todos \in [TodoIds -> Todo \cup {None, Gone}]
  BY Landing DEF Settled, Lands, Base, TypeOK
<1>1. ASSUME \A t \in TodoIds, p \in PatternIds : FirstOpen(t, p)' => FirstOpen(t, p),
             \A t \in TodoIds : todos[t] # None =>
               todos'[t] # None
               /\ (t \in Live' => t \in Live /\ todos'[t].pattern = todos[t].pattern)
      PROVE  Opening'
  BY <1>0, <1>1, NothingOpens DEF Settled, Lands
<1>2. CASE WriteRow(r)
  <2> DEFINE u == req[r].id
  <2>1. CASE u \notin Live
    <3>1. todos' = todos /\ reopened' = reopened
      BY <1>2, <2>1 DEF WriteRow
    <3> QED BY <1>0, <3>1, SameRows DEF Settled, Lands
  <2>2. CASE u \in Live
    <3>1. u \in TodoIds /\ req[r].row \in Todo /\ todos[u].pattern = req[r].row.pattern
          /\ todos[u] \in Todo
      BY <1>0, <1>2, <2>2 DEF WriteRow, Base, Ready, HandsFull, Opening, Copied, Live
    <3>2. PICK in \in (IF req[r].op = "update" THEN TodoEdits ELSE {None}) :
            todos' = [todos EXCEPT ![u] = RowToWrite(r, in)]
      BY <1>2, <2>2 DEF WriteRow
    <3>3. RowToWrite(r, in) \in Todo
      BY <3>1, RowToWriteType DEF Base
    <3>4. RowToWrite(r, in).pattern = req[r].row.pattern
      BY <3>1 DEF RowToWrite, Updated, Reactivated, Todo
    <3>5. todos'[u] \in Todo /\ todos'[u].pattern = todos[u].pattern
          /\ \A t \in TodoIds : t # u => todos'[t] = todos[t]
      BY <1>0, <3>1, <3>2, <3>3, <3>4
    <3>6. reopened' = IF todos[u].state = "completed" /\ todos'[u].state # "completed"
                      THEN reopened \cup {u} ELSE reopened
      BY <1>2, <2>2 DEF WriteRow
    <3>7. \A t \in TodoIds, p \in PatternIds : FirstOpen(t, p)' => FirstOpen(t, p)
      BY <2>2, <3>5, <3>6 DEF FirstOpen, IsOpen, Live
    <3> QED BY <1>1, <2>2, <3>1, <3>5, <3>7, NotRows DEF Live
  <2> QED BY <2>1, <2>2
<1>3. CASE InsertTodo(r)
  <2> PICK u \in TodoIds, in \in TodoInputs :
        todos[u] = None /\ todos' = [todos EXCEPT ![u] = NewTodo(in, clock)]
    BY <1>3 DEF InsertTodo
  <2>1. todos'[u].pattern = None /\ reopened' = reopened
        /\ \A t \in TodoIds : t # u => todos'[t] = todos[t]
    BY <1>0, <1>3 DEF InsertTodo, NewTodo, ghosts
  <2>2. \A t \in TodoIds, p \in PatternIds : FirstOpen(t, p)' => FirstOpen(t, p)
    BY <2>1, Markers DEF FirstOpen, IsOpen, Live
  <2>3. \A t \in TodoIds : todos[t] # None => todos'[t] = todos[t]
    BY <2>1
  <2> QED BY <1>1, <2>2, <2>3 DEF Live
<1>4. CASE ActivateDue(r)
  <2>1. \A t \in TodoIds :
          \/ todos'[t] = todos[t]
          \/ /\ t \in Live /\ todos[t].state = "deferred"
             /\ todos'[t] = [todos[t] EXCEPT !.state = "active"]
    BY <1>4 DEF ActivateDue, Overdue
  <2>2. \A t \in TodoIds :
          \/ todos'[t] = todos[t]
          \/ /\ t \in Live /\ todos[t].state = "deferred"
             /\ todos'[t] \in Todo /\ todos'[t].pattern = todos[t].pattern
    BY <1>0, <2>1 DEF Live, Todo, States
  <2>3. reopened' = reopened
    BY <1>4 DEF ActivateDue, ghosts
  <2>4. \A t \in TodoIds, p \in PatternIds : FirstOpen(t, p)' => FirstOpen(t, p)
    BY <2>2, <2>3 DEF FirstOpen, IsOpen, Live
  <2> QED BY <1>1, <2>2, <2>4, NotRows DEF Live
<1> QED BY <1>2, <1>3, <1>4

\* The insert of spawnIfDue: none is open, so the new one is the only one.
LEMMA SpawnStep ==
  ASSUME Base, Base', Opening, NEW r \in Requests, Spawn(r)
  PROVE  Opening'
<1>0. Lands(r, {"save"}) /\ todos \in [TodoIds -> Todo \cup {None, Gone}]
      /\ req[r].pc = "spawn" /\ holder = r
  BY Landing DEF Base, TypeOK, Spawn, Held, Guarded
<1> DEFINE q == req[r].pid
<1>1. q \in PatternIds
  BY <1>0 DEF Base, Ready, HandsFull
<1> DEFINE row == Instance(q, req[r].recs[q], req[r].now)
<1>2. PICK u \in TodoIds : todos[u] = None /\ todos' = [todos EXCEPT ![u] = row]
  BY DEF Spawn
<1>3. row.pattern = q
  BY DEF Instance
<1>4. todos'[u].pattern = q /\ reopened' = reopened
      /\ \A t \in TodoIds : t # u => todos'[t] = todos[t]
  BY <1>0, <1>2, <1>3 DEF Spawn
<1> HIDE DEF row
<1>5. \A t \in TodoIds, p \in PatternIds : FirstOpen(t, p)' => (t = u /\ p = q) \/ FirstOpen(t, p)
  BY <1>4 DEF FirstOpen, IsOpen, Live
<1>6. \A t \in TodoIds : ~FirstOpen(t, q)
  BY <1>0, <1>1 DEF Opening, NoneOpen
<1>7. OneOpenInstance'
  <2> SUFFICES ASSUME NEW p \in PatternIds, NEW t \in TodoIds, NEW v \in TodoIds,
                      FirstOpen(t, p)', FirstOpen(v, p)'
               PROVE  t = v
    BY DEF OneOpenInstance, FirstOpen, IsOpen, Live, Base, TypeOK, Todo
  <2>1. CASE p = q
    BY <1>5, <1>6, <2>1
  <2>2. CASE p # q
    <3>1. FirstOpen(t, p) /\ FirstOpen(v, p) /\ p # None
      BY <1>5, <2>2, Markers
    <3> QED BY <3>1 DEF Opening, OneOpenInstance, FirstOpen
  <2> QED BY <2>1, <2>2
<1>8. NoneOpen'
  <2>1. \A s \in Requests : req'[s].pc # "spawn"
    BY <1>0, Alone DEF Base, Lands
  <2> QED BY <2>1 DEF NoneOpen
<1>9. Copied'
  <2> SUFFICES ASSUME NEW s \in Requests, req'[s].pc = "write"
               PROVE  /\ todos'[req'[s].id] # None
                      /\ req'[s].id \in Live' => todos'[req'[s].id].pattern = req'[s].row.pattern
    BY DEF Copied
  <2> DEFINE t == req'[s].id
  <2>1. req'[s] = req[s] /\ t \in TodoIds
    BY <1>0 DEF Lands, Base, Ready, HandsFull
  <2>2. todos[t] # None /\ (t \in Live => todos[t].pattern = req'[s].row.pattern)
    BY <2>1 DEF Opening, Copied
  <2>3. t # u
    BY <1>2, <2>2
  <2> QED BY <1>4, <2>1, <2>2, <2>3 DEF Live
<1> QED BY <1>7, <1>8, <1>9 DEF Opening

LEMMA OpeningStep == Base /\ Opening /\ [Next]_vars => Opening'
<1> SUFFICES ASSUME Base, Opening, [Next]_vars
             PROVE  Opening'
  OBVIOUS
<1>0. Base' /\ todos \in [TodoIds -> Todo \cup {None, Gone}]
  BY BaseStep DEF Base, TypeOK
<1>1. ASSUME NEW t \in TodoIds, DeleteTodo(t)
      PROVE  Opening'
  <2>1. /\ todos'[t] = Gone /\ reopened' = reopened \ {t} /\ req' = req
        /\ \A u \in TodoIds : u # t => todos'[u] = todos[u]
    BY <1>0, <1>1 DEF DeleteTodo
  <2>2. \A u \in TodoIds, p \in PatternIds : FirstOpen(u, p)' => FirstOpen(u, p)
    BY <2>1 DEF FirstOpen, IsOpen, Live
  <2>3. \A u \in TodoIds : todos[u] # None =>
          todos'[u] # None /\ (u \in Live' => u \in Live /\ todos'[u].pattern = todos[u].pattern)
    BY <2>1, Markers DEF Live
  <2> QED BY <1>0, <2>1, <2>2, <2>3, NothingOpens
<1>2. ASSUME NEW p \in PatternIds, DeletePattern(p)
      PROVE  Opening'
  BY <1>0, <1>2, SameRows DEF DeletePattern, ghosts
<1>3. CASE Tick \/ UNCHANGED vars
  BY <1>0, <1>3, SameRows DEF Tick, vars, ghosts
<1> QED BY <1>0, <1>1, <1>2, <1>3, ReadingSteps, WritingSteps, SpawnStep DEF Next, Step

LEMMA OpeningInit == Init => Opening
BY DEF Init, Opening, Copied, NoneOpen, OneOpenInstance, IsOpen, Live, Idle

\* Sweeps and completions never leave a pattern with two open instances, unless a
\* write took one back from completed: for any number of requests and patterns.
THEOREM SingleInstance == Spec => []OneOpenInstance
<1>1. Base /\ Opening /\ [Next]_vars => (Base /\ Opening)'
  BY BaseStep, OpeningStep
<1>2. Opening => OneOpenInstance
  BY DEF Opening
<1> QED BY <1>1, <1>2, BaseInit, OpeningInit, PTL DEF Spec

-----------------------------------------------------------------------------
(***************************************************************************)
(* The dates: what promotion, edits and spawning make of them, and what a  *)
(* list reads.                                                             *)
(***************************************************************************)

-----------------------------------------------------------------------------
(* The dates of a row *)

\* No request asks to be shown an action after it is due.  Create drops a negative
\* lead; update stores the one it is given.
LeadsAhead == Leads \subseteq Nat

Sound(row) ==
  /\ row.state = "deferred" => row.showFrom # None
  /\ LeadsAhead /\ row.due # None /\ row.showFrom # None => row.showFrom <= row.due
  /\ row.due # None /\ row.pattern = None => row.showFrom # None

\* Deferred only for a date that is still to come.
Ahead(row, now) == row.state = "deferred" => row.showFrom # None /\ now < row.showFrom

\* An earlier day is an earlier instant.
LEMMA DayOrder ==
  ASSUME NEW a \in Int, NEW b \in Int, Day(a) < Day(b)
  PROVE  a < b
<1> DEFINE m == a \div PerDay
           n == b \div PerDay
<1>1. m \in Int /\ n \in Int /\ m + 1 <= n
  BY TimesAssumption DEF Day
<1>2. a < PerDay * m + PerDay /\ PerDay * n <= b
  BY TimesAssumption
<1> HIDE DEF m, n
<1>3. PerDay * (m + 1) <= PerDay * n
  BY <1>1, TimesAssumption
<1>4. PerDay * (m + 1) = PerDay * m + PerDay
  BY <1>1, TimesAssumption
<1>5. PerDay * m \in Int /\ PerDay * n \in Int /\ PerDay \in Int
  BY <1>1, TimesAssumption
<1> QED BY <1>2, <1>3, <1>4, <1>5

LEMMA StateOnAhead ==
  ASSUME NEW now \in Int, NEW showFrom \in Int \cup {None}, StateOn(now, showFrom) = "deferred"
  PROVE  showFrom # None /\ now < showFrom
BY DayOrder DEF StateOn

\* What the fill-in and the clamp promise.
LEMMA ShowFromPromise ==
  ASSUME NEW due \in Int \cup {None}, NEW showFrom \in Int \cup {None}
  PROVE  LET s == ShowFromFor(due, showFrom)
         IN  /\ due # None => s # None /\ s <= due
             /\ showFrom # None => s # None
<1> DEFINE given == IF showFrom = None /\ due # None
                    THEN due - ShowFromDays * PerDay ELSE showFrom
<1>1. ShowFromDays * PerDay \in Int
  BY TimesAssumption
<1>2. given \in Int \cup {None} /\ (due # None \/ showFrom # None => given \in Int)
  BY <1>1, Markers, NoneIsNoDate
<1>3. ShowFromFor(due, showFrom) = ClampShowFrom(due, given)
  BY DEF ShowFromFor
<1> HIDE DEF given
<1>4. CASE due = None
  BY <1>2, <1>3, <1>4, Markers, NoneIsNoDate DEF ClampShowFrom
<1>5. CASE due # None
  <2>1. given \in Int /\ due \in Int /\ None \notin {due, given}
    BY <1>2, <1>5, Markers, NoneIsNoDate
  <2>2. ClampShowFrom(due, given) = IF given <= due THEN given ELSE due
    BY <2>1 DEF ClampShowFrom
  <2> QED BY <1>3, <2>1, <2>2, Markers, NoneIsNoDate
<1> QED BY <1>4, <1>5

LEMMA NewTodoSound ==
  ASSUME NEW in \in TodoInputs, NEW now \in Nat
  PROVE  Sound(NewTodo(in, now)) /\ Ahead(NewTodo(in, now), now)
<1> DEFINE s == ShowFromFor(in.due, in.showFrom)
<1>1. in.due \in Int \cup {None} /\ in.showFrom \in Int \cup {None}
  BY TimesAssumption DEF TodoInputs
<1>2. s \in Int \cup {None} /\ (in.due # None => s # None /\ s <= in.due)
  BY <1>1, ShowFromType, ShowFromPromise
<1>3. NewTodo(in, now) = [state |-> StateOn(now, s), due |-> in.due,
                          showFrom |-> s, pattern |-> None]
  BY DEF NewTodo
<1> HIDE DEF s
<1>4. StateOn(now, s) = "deferred" => s # None /\ now < s
  BY <1>2, StateOnAhead
<1> QED BY <1>2, <1>3, <1>4 DEF Sound, Ahead

LEMMA UpdatedSound ==
  ASSUME NEW row \in Todo, Sound(row), NEW in \in TodoEdits, NEW now \in Nat
  PROVE  Sound(Updated(row, in, now)) /\ Ahead(Updated(row, in, now), now)
<1> DEFINE due == Merge(in.due, row.due)
           cleared == in.showFrom = None \/ (in.due = None /\ row.showFrom # None)
           given == IF cleared THEN None ELSE Merge(in.showFrom, row.showFrom)
           woken == IF cleared /\ row.state = "deferred" THEN "active" ELSE row.state
           s == ShowFromFor(due, given)
           state == IF s # None /\ woken # "completed" THEN StateOn(now, s) ELSE woken
<1>1. due \in Int \cup {None} /\ given \in Int \cup {None}
  BY TimesAssumption DEF TodoEdits, Todo, Merge
<1>2. s \in Int \cup {None} /\ (due # None => s # None /\ s <= due) /\ (given # None => s # None)
  BY <1>1, ShowFromType, ShowFromPromise
<1>3. woken = "deferred" => given # None
  BY DEF Sound, Merge
<1>4. Updated(row, in, now) = [row EXCEPT !.due = due, !.showFrom = s, !.state = state]
  BY DEF Updated
<1> HIDE DEF due, given, woken, s
<1>5. state = "deferred" => s # None /\ now < s
  BY <1>2, <1>3, StateOnAhead
<1> HIDE DEF state
<1>6. Updated(row, in, now).due = due /\ Updated(row, in, now).showFrom = s
      /\ Updated(row, in, now).state = state
  BY <1>4 DEF Todo
<1> QED BY <1>2, <1>5, <1>6 DEF Sound, Ahead

LEMMA ReactivatedSound ==
  ASSUME NEW row \in Todo, Sound(row), NEW now \in Nat
  PROVE  Sound(Reactivated(row, now)) /\ Ahead(Reactivated(row, now), now)
<1> DEFINE new == Reactivated(row, now)
<1>1. new.due = row.due /\ new.showFrom = row.showFrom /\ new.pattern = row.pattern
      /\ new.state = IF row.showFrom # None /\ row.showFrom > now THEN "deferred" ELSE "active"
  BY DEF Reactivated, Todo
<1>2. row.showFrom \in Int \cup {None}
  BY DEF Todo
<1> HIDE DEF new
<1>3. new.state = "deferred" => new.showFrom # None /\ now < new.showFrom
  BY <1>1, <1>2
<1>4. Sound(new) /\ Ahead(new, now)
  BY <1>1, <1>3 DEF Sound, Ahead
<1> QED BY <1>4 DEF new

LEMMA InstanceSound ==
  ASSUME NEW p \in PatternIds, NEW rec \in Pattern, LeadsAhead => rec.lead \in Nat,
         NEW now \in Nat, NextDue(rec, now) # None, NEW later \in Nat
  PROVE  /\ Sound(Instance(p, rec, now))
         /\ Day(now) = Day(later) => Ahead(Instance(p, rec, now), later)
<1> DEFINE due == NextDue(rec, now) * PerDay
           s == due - rec.lead * PerDay
           new == Instance(p, rec, now)
<1>0. rec.lead * PerDay \in Int /\ (rec.lead \in Nat => rec.lead * PerDay >= 0)
  BY TimesAssumption DEF Pattern
<1>1. due \in Int
  BY NextDueType, TimesAssumption
<1>2. new.due = due /\ new.pattern = p /\ new.state = StateOn(now, s)
      /\ new.showFrom = IF new.state = "deferred" THEN s ELSE None
  BY DEF Instance
<1> HIDE DEF due, new
<1>3. s \in Int /\ s # None /\ (rec.lead \in Nat => s <= due)
  BY <1>0, <1>1, Markers, NoneIsNoDate
<1> HIDE DEF s
<1>4. Day(now) = Day(later) /\ StateOn(now, s) = "deferred" => later < s
  <2>1. Day(now) = Day(later) => StateOn(now, s) = StateOn(later, s)
    BY DEF StateOn
  <2> QED BY <1>3, <2>1, StateOnAhead
<1>5. Sound(new) /\ (Day(now) = Day(later) => Ahead(new, later))
  BY <1>2, <1>3, <1>4, Markers, NoneIsNoDate DEF Sound, Ahead
<1> QED BY <1>5 DEF new
-----------------------------------------------------------------------------
(* The rows of the account and in the hands of its requests *)

\* A request that is about to write a row holds a sound one.
Sounding ==
  /\ \A t \in Live : Sound(todos[t])
  /\ \A r \in Requests : req[r].pc = "write" => Sound(req[r].row)

\* The leads of the patterns, stored and in hand.
Leading ==
  LeadsAhead =>
    /\ \A p \in LivePatterns : patterns[p].lead \in Nat
    /\ \A r \in Requests, p \in PatternIds :
         req[r].recs[p] # None => req[r].recs[p].lead \in Nat

\* No request has a clock that is ahead.
Past == \A r \in Requests : req[r].now <= clock

\* A request carries on with the rows it had, with rows just read, or with none,
\* and with the instant it had or an earlier one than the clock's.
Carries(r) ==
  /\ req'[r].now <= clock
  /\ \A p \in PatternIds : req'[r].recs[p] # None =>
       \/ req'[r].recs[p] = req[r].recs[p]
       \/ p \in LivePatterns /\ req'[r].recs[p] = patterns[p]
       \/ LeadsAhead => req'[r].recs[p].lead \in Nat
  /\ \A s \in Requests : s # r => req'[s] = req[s]

LEMMA ReturnCarries ==
  ASSUME Base, NEW r \in Requests, Return(r)
  PROVE  Carries(r)
<1>1. req'[r] = Idle /\ \A s \in Requests : s # r => req'[s] = req[s]
  BY DEF Return, Base, TypeOK
<1>2. clock \in Nat
  BY DEF Base, TypeOK
<1> QED BY <1>1, <1>2 DEF Carries, Idle, NoRecs

LEMMA NextRecCarries ==
  ASSUME Base, Past, NEW r \in Requests, NEW p \in PatternIds, NextRec(r, p)
  PROVE  Carries(r)
<1> DEFINE recs == [req[r].recs EXCEPT ![p] = None]
           q(pc) == [req[r] EXCEPT !.pc = pc, !.pid = None, !.recs = recs]
<1>1. req[r] \in Request /\ req \in [Requests -> Request]
  BY DEF Base, TypeOK
<1>2. \A u \in PatternIds : recs[u] # None => recs[u] = req[r].recs[u]
  BY <1>1 DEF Request
<1> HIDE DEF recs
<1>3. ASSUME NEW pc, req' = [req EXCEPT ![r] = q(pc)]
      PROVE  Carries(r)
  <2>1. req'[r] = q(pc) /\ \A s \in Requests : s # r => req'[s] = req[s]
    BY <1>1, <1>3
  <2>2. q(pc).recs = recs /\ q(pc).now = req[r].now
    BY <1>1 DEF Request
  <2> QED BY <1>2, <2>1, <2>2 DEF Carries, Past
<1>4. \/ req' = [req EXCEPT ![r] = q("open")] \/ req' = [req EXCEPT ![r] = q("activate")]
      \/ Return(r)
  BY <1>1 DEF NextRec, recs
<1> QED BY <1>3, <1>4, ReturnCarries

\* A step that leaves rows and clock in hand as they are.
LEMMA SameHands ==
  ASSUME Base, Past, NEW r \in Requests, NEW q, req' = [req EXCEPT ![r] = q],
         q.now = req[r].now, q.recs = req[r].recs
  PROVE  Carries(r)
<1>1. req'[r] = q /\ \A s \in Requests : s # r => req'[s] = req[s]
  BY DEF Base, TypeOK
<1> QED BY <1>1 DEF Carries, Past

LEMMA OneRecInHand ==
  ASSUME Base, Past, NEW r \in Requests, NEW q, req' = [req EXCEPT ![r] = q],
         q.now <= clock, NEW p \in PatternIds, NEW rec, q.recs = [NoRecs EXCEPT ![p] = rec],
         \/ p \in LivePatterns /\ rec = patterns[p]
         \/ LeadsAhead => rec.lead \in Nat
  PROVE  Carries(r)
<1>1. req'[r] = q /\ \A s \in Requests : s # r => req'[s] = req[s]
  BY DEF Base, TypeOK
<1>2. \A u \in PatternIds : q.recs[u] # None => u = p /\ q.recs[u] = rec
  BY DEF NoRecs
<1> QED BY <1>1, <1>2 DEF Carries

LEMMA NewPatternLead ==
  ASSUME NEW in \in PatternInputs, NEW now
  PROVE  NewPattern(in, now).lead \in Nat
<1>1. in.lead \in Int
  BY TimesAssumption DEF PatternInputs
<1> QED BY <1>1 DEF NewPattern

\* Every step of a request carries.
LEMMA StepCarries ==
  ASSUME Base, Past, NEW r \in Requests, Step(r)
  PROVE  Carries(r)
<1>0. req[r] \in Request /\ req \in [Requests -> Request] /\ clock \in Nat
      /\ NoRecs \in [PatternIds -> Pattern \cup {None}]
  BY DEF Base, TypeOK, NoRecs
<1>1. ASSUME NEW op, Ask(r, op)
      PROVE  Carries(r)
  <2>1. req'[r] = [Idle EXCEPT !.op = op, !.pc = "start",
                     !.now = IF op = "list" THEN clock ELSE 0]
        /\ \A s \in Requests : s # r => req'[s] = req[s]
    BY <1>0, <1>1 DEF Ask
  <2>2. req'[r].now <= clock /\ req'[r].recs = NoRecs
    BY <1>0, <2>1 DEF Idle
  <2> QED BY <2>1, <2>2 DEF Carries, NoRecs
<1>2. ASSUME NEW op, NEW t, ReadRow(r, op, t)
      PROVE  Carries(r)
  <2>1. req'[r] = [Idle EXCEPT !.op = op, !.pc = "write", !.now = clock,
                     !.id = t, !.row = todos[t]]
        /\ \A s \in Requests : s # r => req'[s] = req[s]
    BY <1>0, <1>2 DEF ReadRow
  <2>2. req'[r].now = clock /\ req'[r].recs = NoRecs
    BY <2>1 DEF Idle
  <2> QED BY <1>0, <2>1, <2>2 DEF Carries, NoRecs
<1>3. ASSUME NEW pc, req' = [req EXCEPT ![r].pc = pc]
      PROVE  Carries(r)
  <2> DEFINE q == [req[r] EXCEPT !.pc = pc]
  <2>1. q.now = req[r].now /\ q.recs = req[r].recs
    BY <1>0 DEF Request
  <2>2. req' = [req EXCEPT ![r] = q]
    BY <1>0, <1>3
  <2> QED BY <2>1, <2>2, SameHands
<1>4. CASE ReadForUpdate(r)
  <2>1. ASSUME NEW t \in Live,
               req' = [req EXCEPT ![r].pc = "write", ![r].id = t, ![r].row = todos[t]]
        PROVE  Carries(r)
    <3> DEFINE q == [req[r] EXCEPT !.pc = "write", !.id = t, !.row = todos[t]]
    <3>1. q.now = req[r].now /\ q.recs = req[r].recs
      BY <1>0 DEF Request
    <3>2. req' = [req EXCEPT ![r] = q]
      BY <1>0, <2>1
    <3> QED BY <3>1, <3>2, SameHands
  <2> QED BY <1>4, <2>1, ReturnCarries DEF ReadForUpdate
<1>5. CASE WriteRow(r)
  BY <1>3, <1>5, ReturnCarries DEF WriteRow, AfterWrite
<1>6. CASE CheckForCreate(r)
  BY <1>3, <1>6, ReturnCarries DEF CheckForCreate
<1>7. CASE InsertTodo(r) \/ WritePattern(r) \/ ReadList(r) \/ Abort(r)
  BY <1>7, ReturnCarries DEF InsertTodo, WritePattern, ReadList, Abort
<1>8. CASE CheckForPattern(r)
  <2>1. ASSUME NEW p \in PatternIds, NEW in \in PatternInputs,
               req' = [req EXCEPT ![r].pc = "recInsert", ![r].now = clock,
                         ![r].recs = [NoRecs EXCEPT ![p] = NewPattern(in, clock)]]
        PROVE  Carries(r)
    <3> DEFINE q == [req[r] EXCEPT !.pc = "recInsert", !.now = clock,
                       !.recs = [NoRecs EXCEPT ![p] = NewPattern(in, clock)]]
    <3>1. q.now = clock /\ q.recs = [NoRecs EXCEPT ![p] = NewPattern(in, clock)]
      BY <1>0 DEF Request
    <3>2. req' = [req EXCEPT ![r] = q]
      BY <1>0, <2>1
    <3>3. q.now <= clock /\ NewPattern(in, clock).lead \in Nat
      BY <1>0, <3>1, NewPatternLead
    <3> HIDE DEF q
    <3> QED BY <3>1, <3>2, <3>3, OneRecInHand
  <2> QED BY <1>8, <2>1, ReturnCarries DEF CheckForPattern
<1>9. CASE InsertPattern(r)
  BY <1>3, <1>9 DEF InsertPattern
<1>10. CASE ReadPattern(r)
  <2>1. ASSUME NEW p \in LivePatterns,
               req' = [req EXCEPT ![r].pc = "recWrite", ![r].pid = p,
                         ![r].recs = [NoRecs EXCEPT ![p] = patterns[p]]]
        PROVE  Carries(r)
    <3> DEFINE q == [req[r] EXCEPT !.pc = "recWrite", !.pid = p,
                       !.recs = [NoRecs EXCEPT ![p] = patterns[p]]]
    <3>1. q.now = req[r].now /\ q.recs = [NoRecs EXCEPT ![p] = patterns[p]]
      BY <1>0 DEF Request
    <3>2. req' = [req EXCEPT ![r] = q]
      BY <1>0, <2>1
    <3>3. p \in PatternIds /\ q.now <= clock
      BY <3>1 DEF LivePatterns, Past
    <3> HIDE DEF q
    <3> QED BY <3>1, <3>2, <3>3, OneRecInHand
  <2> QED BY <1>10, <2>1, ReturnCarries DEF ReadPattern
<1>11. CASE Sweep(r)
  <2> DEFINE recs == [p \in PatternIds |-> IF Active(p) THEN patterns[p] ELSE None]
             q == [req[r] EXCEPT !.pc = "open", !.recs = recs]
  <2>1. req' = [req EXCEPT ![r].pc = "activate"] \/ req' = [req EXCEPT ![r] = q]
    BY <1>0, <1>11 DEF Sweep
  <2>2. q.now = req[r].now /\ q.recs = recs
    BY <1>0 DEF Request
  <2>3. \A p \in PatternIds : recs[p] # None => p \in LivePatterns /\ recs[p] = patterns[p]
    BY DEF Active
  <2> HIDE DEF q, recs
  <2>4. ASSUME req' = [req EXCEPT ![r] = q]
        PROVE  Carries(r)
    <3>1. req'[r] = q /\ \A s \in Requests : s # r => req'[s] = req[s]
      BY <1>0, <2>4
    <3> QED BY <2>2, <2>3, <3>1 DEF Carries, Past
  <2> QED BY <1>3, <2>1, <2>4
<1>12. CASE SpawnNext(r)
  <2> DEFINE p == req[r].row.pattern
             q == [req[r] EXCEPT !.pc = "open", !.recs = [NoRecs EXCEPT ![p] = patterns[p]]]
  <2>1. \/ Return(r)
        \/ Active(p) /\ req' = [req EXCEPT ![r] = q]
    BY <1>0, <1>12 DEF SpawnNext
  <2>2. q.now = req[r].now /\ q.recs = [NoRecs EXCEPT ![p] = patterns[p]]
    BY <1>0 DEF Request
  <2>3. q.now <= clock /\ (Active(p) => p \in LivePatterns /\ p \in PatternIds)
    BY <2>2 DEF Past, Active, LivePatterns
  <2> HIDE DEF q, p
  <2> QED BY <2>1, <2>2, <2>3, ReturnCarries, OneRecInHand
<1>13. CASE SpawnIfDue(r)
  <2> PICK p \in PatternIds : HasOne(r, p) \/ Exhaust(r, p) \/ Refuse(r, p) \/ Admit(r, p)
    BY <1>13 DEF SpawnIfDue
  <2>1. CASE Admit(r, p)
    <3> DEFINE q == [req[r] EXCEPT !.pc = "spawn", !.pid = p]
    <3>1. q.now = req[r].now /\ q.recs = req[r].recs
      BY <1>0 DEF Request
    <3>2. req' = [req EXCEPT ![r] = q]
      BY <1>0, <2>1 DEF Admit
    <3> QED BY <3>1, <3>2, SameHands
  <2>2. CASE HasOne(r, p) \/ Exhaust(r, p) \/ Refuse(r, p)
    BY <2>2, NextRecCarries, ReturnCarries DEF HasOne, Exhaust, Refuse
  <2> QED BY <2>1, <2>2
<1>14. CASE Spawn(r)
  BY <1>3, <1>14 DEF Spawn
<1>15. CASE SaveSpawned(r)
  <2>1. req[r].pid \in PatternIds /\ (NextRec(r, req[r].pid) \/ Return(r))
    BY <1>15 DEF SaveSpawned, Base, Ready, HandsFull
  <2> QED BY <2>1, NextRecCarries, ReturnCarries
<1>16. CASE ActivateDue(r)
  BY <1>3, <1>16 DEF ActivateDue
<1> QED BY <1>1, <1>2, <1>4, <1>5, <1>6, <1>7, <1>8, <1>9, <1>10, <1>11, <1>12, <1>13,
           <1>14, <1>15, <1>16 DEF Step

-----------------------------------------------------------------------------
(* What a step does to the patterns and the rows *)

\* A stored pattern stays as it is, or its lead is one that may be asked for.
PatternsLead ==
  \A p \in LivePatterns' :
    \/ p \in LivePatterns /\ patterns'[p] = patterns[p]
    \/ LeadsAhead => patterns'[p].lead \in Nat

\* A row stays as it is, or is sound and, unless it counts as late, deferred only
\* for a date that is still to come.
RowStep(t) ==
  \/ t \in Live /\ todos'[t] = todos[t] /\ (t \in late => t \in late')
  \/ Sound(todos'[t]) /\ (t \in late' \/ Ahead(todos'[t], clock))

LEMMA UpdatedPatternLead ==
  ASSUME NEW rec \in Pattern, NEW in \in PatternEdits, LeadsAhead, rec.lead \in Nat
  PROVE  UpdatedPattern(rec, in).lead \in Nat
<1>1. in.lead \in Nat \cup {Keep}
  BY DEF PatternEdits, LeadsAhead
<1>2. UpdatedPattern(rec, in).lead = Merge(in.lead, rec.lead)
  BY DEF UpdatedPattern, Pattern
<1> QED BY <1>1, <1>2 DEF Merge

LEMMA StepLeads ==
  ASSUME Base, Leading, NEW r \in Requests, Step(r)
  PROVE  PatternsLead
<1>0. patterns \in [PatternIds -> Pattern \cup {None, Gone}] /\ req[r] \in Request
  BY DEF Base, TypeOK
<1>1. CASE patterns' = patterns
  BY <1>1 DEF PatternsLead, LivePatterns
<1>2. ASSUME NEW p \in PatternIds, NEW rec, patterns' = [patterns EXCEPT ![p] = rec],
             LeadsAhead => rec.lead \in Nat
      PROVE  PatternsLead
  <2>1. \A u \in PatternIds : patterns'[u] = IF u = p THEN rec ELSE patterns[u]
    BY <1>0, <1>2
  <2> QED BY <1>2, <2>1 DEF PatternsLead, LivePatterns
<1>3. ASSUME NEW p \in PatternIds, req[r].recs[p] \in Pattern, LeadsAhead
      PROVE  req[r].recs[p].lead \in Nat
  BY <1>3, NotRows DEF Leading
<1>4. CASE InsertPattern(r)
  <2>1. \A p \in PatternIds :
          patterns'[p] = IF req[r].recs[p] # None THEN req[r].recs[p] ELSE patterns[p]
    BY <1>4 DEF InsertPattern
  <2> QED BY <2>1 DEF PatternsLead, Leading, LivePatterns
<1>5. CASE WritePattern(r)
  <2> DEFINE p == req[r].pid
  <2>1. p \in PatternIds /\ req[r].recs[p] \in Pattern
    BY <1>5 DEF WritePattern, At, Base, Ready, HandsFull
  <2>2. PICK in \in PatternEdits :
          patterns' \in {patterns, [patterns EXCEPT ![p] = UpdatedPattern(req[r].recs[p], in)]}
    BY <1>5 DEF WritePattern
  <2>3. LeadsAhead => UpdatedPattern(req[r].recs[p], in).lead \in Nat
    BY <1>3, <2>1, UpdatedPatternLead
  <2> HIDE DEF p
  <2> QED BY <1>1, <1>2, <2>1, <2>2, <2>3
<1>6. CASE SpawnIfDue(r)
  <2> PICK p \in PatternIds :
        /\ req[r].recs[p] # None
        /\ HasOne(r, p) \/ Exhaust(r, p) \/ Refuse(r, p) \/ Admit(r, p)
    BY <1>6 DEF SpawnIfDue
  <2> DEFINE rec == [req[r].recs[p] EXCEPT !.state = "completed"]
  <2>1. req[r].recs[p] \in Pattern
    BY <1>0 DEF Request
  <2>2. rec.lead = req[r].recs[p].lead
    BY <2>1 DEF Pattern
  <2>3. patterns' = patterns \/ patterns' = [patterns EXCEPT ![p] = rec]
    BY DEF HasOne, Exhaust, Refuse, Admit
  <2> HIDE DEF rec
  <2> QED BY <1>1, <1>2, <1>3, <2>1, <2>2, <2>3
<1>7. CASE SaveSpawned(r)
  <2> DEFINE p == req[r].pid
             rec == [req[r].recs[p] EXCEPT !.last = NextDue(req[r].recs[p], req[r].now)]
  <2>1. p \in PatternIds /\ req[r].recs[p] \in Pattern
    BY <1>7 DEF SaveSpawned, Base, Ready, HandsFull
  <2>2. rec.lead = req[r].recs[p].lead
    BY <2>1 DEF Pattern
  <2>3. patterns' = patterns \/ patterns' = [patterns EXCEPT ![p] = rec]
    BY <1>7 DEF SaveSpawned
  <2> HIDE DEF rec, p
  <2> QED BY <1>1, <1>2, <1>3, <2>1, <2>2, <2>3
<1>8. CASE patterns' # patterns
  BY <1>4, <1>5, <1>6, <1>7, <1>8
     DEF Step, Ask, ReadRow, ReadForUpdate, WriteRow, CheckForCreate, InsertTodo,
         CheckForPattern, ReadPattern, Sweep, SpawnNext, Spawn, ActivateDue, ReadList, Abort
<1> QED BY <1>1, <1>8

LEMMA StepRows ==
  ASSUME Base, Base', Sounding, Leading, Past, NEW r \in Requests, Step(r)
  PROVE  \A t \in Live' : RowStep(t)
<1>0. todos \in [TodoIds -> Todo \cup {None, Gone}] /\ req[r] \in Request /\ clock \in Nat
      /\ late \subseteq TodoIds
  BY DEF Base, TypeOK
<1>1. CASE todos' = todos /\ late' = late
  BY <1>1 DEF RowStep, Live
<1>2. ASSUME NEW u \in TodoIds, NEW row, todos' = [todos EXCEPT ![u] = row],
             Sound(row), u \in late' \/ Ahead(row, clock), late \subseteq late'
      PROVE  \A t \in Live' : RowStep(t)
  <2>1. \A t \in TodoIds : todos'[t] = IF t = u THEN row ELSE todos[t]
    BY <1>0, <1>2
  <2> QED BY <1>2, <2>1 DEF RowStep, Live
<1>3. CASE WriteRow(r)
  <2> DEFINE u == req[r].id
             old == req[r].row
  <2>1. old \in Todo /\ Sound(old) /\ u \in TodoIds
    BY <1>3 DEF WriteRow, Base, Ready, HandsFull, Sounding
  <2>2. CASE u \notin Live
    BY <1>1, <1>3, <2>2 DEF WriteRow
  <2>3. CASE u \in Live
    <3>1. PICK in \in (IF req[r].op = "update" THEN TodoEdits ELSE {None}) :
            todos' = [todos EXCEPT ![u] = RowToWrite(r, in)]
      BY <1>3, <2>3 DEF WriteRow
    <3>2. late' = IF todos[u] # old \/ (req[r].op = "reactivate" /\ req[r].now # clock)
                  THEN late \cup {u} ELSE late
      BY <1>3, <2>3 DEF WriteRow
    <3>3. CASE req[r].op = "update"
      <4>1. RowToWrite(r, in) = Updated(old, in, clock) /\ in \in TodoEdits
        BY <3>1, <3>3 DEF RowToWrite
      <4> QED BY <1>0, <1>2, <2>1, <3>1, <3>2, <4>1, UpdatedSound
    <3>4. CASE req[r].op = "complete"
      <4> DEFINE new == [old EXCEPT !.state = "completed"]
      <4>1. RowToWrite(r, in) = new
        BY <3>4 DEF RowToWrite
      <4>2. new.state = "completed" /\ new.due = old.due /\ new.showFrom = old.showFrom
            /\ new.pattern = old.pattern
        BY <2>1 DEF Todo
      <4>3. Sound(new) /\ Ahead(new, clock)
        BY <2>1, <4>2 DEF Sound, Ahead
      <4> HIDE DEF new
      <4> QED BY <1>2, <2>1, <3>1, <3>2, <4>1, <4>3
    <3>5. CASE req[r].op = "reactivate"
      <4>1. RowToWrite(r, in) = Reactivated(old, req[r].now) /\ req[r].now \in Nat
        BY <1>0, <3>5 DEF RowToWrite, Request
      <4>2. Sound(RowToWrite(r, in)) /\ Ahead(RowToWrite(r, in), req[r].now)
        BY <2>1, <4>1, ReactivatedSound
      <4> QED BY <1>2, <2>1, <3>1, <3>2, <3>5, <4>2
    <3>6. CASE req[r].op \notin {"update", "complete", "reactivate"}
      <4>1. RowToWrite(r, in) = old
        BY <3>6 DEF RowToWrite
      <4>2. CASE todos[u] = old
        <5>1. todos' = todos /\ late' = late
          BY <1>0, <3>1, <3>2, <3>6, <4>1, <4>2
        <5> QED BY <1>1, <5>1
      <4>3. CASE todos[u] # old
        <5>1. u \in late' /\ late \subseteq late'
          BY <3>2, <4>3
        <5> QED BY <1>2, <2>1, <3>1, <4>1, <5>1
      <4> QED BY <4>2, <4>3
    <3> QED BY <3>3, <3>4, <3>5, <3>6
  <2> QED BY <2>2, <2>3
<1>4. CASE InsertTodo(r)
  <2> PICK u \in TodoIds, in \in TodoInputs : todos' = [todos EXCEPT ![u] = NewTodo(in, clock)]
    BY <1>4 DEF InsertTodo
  <2>1. late' = late
    BY <1>4 DEF InsertTodo, ghosts
  <2> QED BY <1>0, <1>2, <2>1, NewTodoSound
<1>5. CASE Spawn(r)
  <2> DEFINE p == req[r].pid
             rec == req[r].recs[p]
             row == Instance(p, rec, req[r].now)
  <2>1. PICK u \in TodoIds :
          /\ todos' = [todos EXCEPT ![u] = row]
          /\ late' = IF Day(req[r].now) # Day(clock) THEN late \cup {u} ELSE late
    BY <1>5 DEF Spawn
  <2>2. p \in PatternIds /\ rec \in Pattern /\ NextDue(rec, req[r].now) # None
        /\ req[r].now \in Nat
    BY <1>0, <1>5 DEF Spawn, Base, Ready, HandsFull, Request
  <2>3. LeadsAhead => rec.lead \in Nat
    BY <2>2, NotRows DEF Leading
  <2>4. Sound(row) /\ (Day(req[r].now) = Day(clock) => Ahead(row, clock))
    BY <1>0, <2>2, <2>3, InstanceSound
  <2> HIDE DEF row
  <2> QED BY <1>2, <2>1, <2>4
<1>6. CASE ActivateDue(r)
  <2>1. \A t \in TodoIds :
          todos'[t] = IF Overdue(t, req[r].now) THEN [todos[t] EXCEPT !.state = "active"]
                      ELSE todos[t]
    BY <1>6 DEF ActivateDue
  <2>2. late' = late
    BY <1>6 DEF ActivateDue, ghosts
  <2>3. ASSUME NEW t \in TodoIds, Overdue(t, req[r].now)
        PROVE  RowStep(t)
    <3>1. todos[t] \in Todo /\ Sound(todos[t])
      BY <1>0, <2>3 DEF Overdue, Live, Sounding
    <3>2. todos'[t].state = "active" /\ todos'[t].due = todos[t].due
          /\ todos'[t].showFrom = todos[t].showFrom /\ todos'[t].pattern = todos[t].pattern
      BY <2>1, <2>3, <3>1 DEF Todo
    <3> QED BY <3>1, <3>2 DEF RowStep, Sound, Ahead
  <2>4. ASSUME NEW t \in Live', ~Overdue(t, req[r].now)
        PROVE  RowStep(t)
    BY <2>1, <2>2, <2>4 DEF RowStep, Live
  <2> QED BY <2>3, <2>4 DEF Live
<1>7. CASE ~(todos' = todos /\ late' = late)
  BY <1>3, <1>4, <1>5, <1>6, <1>7
     DEF Step, Ask, ReadRow, ReadForUpdate, CheckForCreate, CheckForPattern, InsertPattern,
         ReadPattern, WritePattern, Sweep, SpawnNext, SpawnIfDue, SaveSpawned, ReadList,
         Abort, ghosts
<1> QED BY <1>1, <1>7

-----------------------------------------------------------------------------
(* The invariant and its steps *)

Dating == Sounding /\ Leading /\ Past /\ ListFresh

\* A step of r that ends neither before the write of a row nor before the read of a
\* list.
Elsewhere(r) == Lands(r, {"idle", "start", "insert", "recInsert", "recWrite", "open", "spawn",
                          "save", "activate"})

LEMMA Reaching ==
  ASSUME Base, NEW r \in Requests, Step(r)
  PROVE  \/ Elsewhere(r)
         \/ \E op, t : t \in TodoIds /\ ReadRow(r, op, t)
         \/ \E t \in Live : /\ req'[r].row = todos[t] /\ req'[r].pc = "write"
                            /\ \A s \in Requests : s # r => req'[s] = req[s]
         \/ ActivateDue(r)
<1>0. req[r] \in Request /\ req \in [Requests -> Request]
  BY DEF Base, TypeOK
<1>1. ASSUME NEW op, Ask(r, op)
      PROVE  Elsewhere(r)
  BY <1>1, Landing DEF Elsewhere, Lands
<1>2. ASSUME \/ WriteRow(r) \/ InsertTodo(r) \/ WritePattern(r) \/ ReadList(r) \/ Abort(r)
             \/ InsertPattern(r) \/ ReadPattern(r) \/ Sweep(r) \/ SpawnNext(r) \/ Spawn(r)
             \/ SaveSpawned(r)
      PROVE  Elsewhere(r)
  BY <1>2, Landing DEF Elsewhere, Lands
<1>3. ASSUME Return(r)
      PROVE  Elsewhere(r)
  BY <1>3, Returned DEF Elsewhere, Lands
<1>4. CASE ReadForUpdate(r)
  <2>1. ASSUME NEW t \in Live,
               req' = [req EXCEPT ![r].pc = "write", ![r].id = t, ![r].row = todos[t]]
        PROVE  /\ req'[r].row = todos[t] /\ req'[r].pc = "write"
               /\ \A s \in Requests : s # r => req'[s] = req[s]
    BY <1>0, <2>1 DEF Request
  <2> QED BY <1>3, <1>4, <2>1 DEF ReadForUpdate
<1>5. ASSUME CheckForCreate(r)
      PROVE  Elsewhere(r)
  <2>1. ASSUME req' = [req EXCEPT ![r].pc = "insert"]
        PROVE  Elsewhere(r)
    BY <1>0, <2>1 DEF Elsewhere, Lands, Request
  <2> QED BY <1>3, <1>5, <2>1 DEF CheckForCreate
<1>6. ASSUME CheckForPattern(r)
      PROVE  Elsewhere(r)
  <2>1. ASSUME NEW p, NEW rec,
               req' = [req EXCEPT ![r].pc = "recInsert", ![r].now = clock,
                         ![r].recs = [NoRecs EXCEPT ![p] = rec]]
        PROVE  Elsewhere(r)
    BY <1>0, <2>1 DEF Elsewhere, Lands, Request
  <2> QED BY <1>3, <1>6, <2>1 DEF CheckForPattern
<1>7. ASSUME SpawnIfDue(r)
      PROVE  Elsewhere(r)
  <2> PICK p \in PatternIds : HasOne(r, p) \/ Exhaust(r, p) \/ Refuse(r, p) \/ Admit(r, p)
    BY <1>7 DEF SpawnIfDue
  <2>1. ASSUME Admit(r, p)
        PROVE  Elsewhere(r)
    <3>1. req' = [req EXCEPT ![r] = [req[r] EXCEPT !.pc = "spawn", !.pid = p]]
      BY <1>0, <2>1 DEF Admit
    <3> QED BY <1>0, <3>1 DEF Elsewhere, Lands, Request
  <2>2. ASSUME NextRec(r, p)
        PROVE  Elsewhere(r)
    BY <2>2, NextRecMoves DEF Elsewhere, Lands
  <2> QED BY <1>3, <2>1, <2>2 DEF HasOne, Exhaust, Refuse
<1> QED BY <1>1, <1>2, <1>4, <1>5, <1>6, <1>7 DEF Step

LEMMA HandsSound ==
  ASSUME Base, Sounding, NEW r \in Requests, Step(r), NEW s \in Requests, req'[s].pc = "write"
  PROVE  Sound(req'[s].row)
<1>0. req \in [Requests -> Request]
  BY DEF Base, TypeOK
<1>1. CASE Elsewhere(r)
  BY <1>1 DEF Elsewhere, Lands, Sounding
<1>2. ASSUME NEW op, NEW t \in TodoIds, ReadRow(r, op, t)
      PROVE  Sound(req'[s].row)
  <2>1. req'[r].row = todos[t] /\ t \in Live /\ \A q \in Requests : q # r => req'[q] = req[q]
    BY <1>0, <1>2 DEF ReadRow, Idle
  <2> QED BY <2>1 DEF Sounding
<1>3. ASSUME NEW t \in Live, req'[r].row = todos[t],
             \A q \in Requests : q # r => req'[q] = req[q]
      PROVE  Sound(req'[s].row)
  BY <1>3 DEF Sounding
<1>4. CASE ActivateDue(r)
  BY <1>4, Landing DEF Lands, Sounding
<1> QED BY <1>1, <1>2, <1>3, <1>4, Reaching

\* What a list was about to read stays fresh under the steps of others.
LEMMA StaysFresh ==
  ASSUME Base, Base', Past, ListFresh, \A t \in Live' : RowStep(t),
         NEW s \in Requests, At(s, "list", "read"), req'[s] = req[s],
         NEW t \in TodoIds \ late'
  PROVE  ~Overdue(t, req[s].now)'
<1>1. req[s].now \in Nat /\ clock \in Nat /\ req[s].now <= clock
  BY DEF Base, TypeOK, Past, Request
<1>2. CASE t \notin Live'
  BY <1>2 DEF Overdue
<1>3. CASE t \in Live /\ todos'[t] = todos[t] /\ (t \in late => t \in late')
  <2>1. ~Overdue(t, req[s].now)
    BY <1>3 DEF ListFresh
  <2> QED BY <1>3, <2>1 DEF Overdue
<1>4. CASE t \in Live' /\ Ahead(todos'[t], clock)
  <2>1. todos'[t].showFrom \in Int \cup {None}
    BY <1>4 DEF Live, Base, TypeOK, Todo
  <2> QED BY <1>1, <1>4, <2>1 DEF Overdue, Ahead
<1> QED BY <1>2, <1>3, <1>4 DEF RowStep

LEMMA DatingRequest ==
  ASSUME Base, Base', Dating, NEW r \in Requests, Step(r)
  PROVE  Dating'
<1> USE DEF Dating
<1>0. Carries(r) /\ PatternsLead /\ \A t \in Live' : RowStep(t)
  BY StepCarries, StepLeads, StepRows
<1>1. Sounding'
  BY <1>0, HandsSound DEF Sounding, RowStep
<1>2. Leading'
  BY <1>0 DEF Leading, PatternsLead, Carries
<1>3. clock' = clock
  BY DEF Step, Ask, ReadRow, ReadForUpdate, WriteRow, CheckForCreate, InsertTodo,
         CheckForPattern, InsertPattern, ReadPattern, WritePattern, Sweep, SpawnNext,
         SpawnIfDue, Spawn, SaveSpawned, ActivateDue, ReadList, Abort
<1>4. Past'
  BY <1>0, <1>3 DEF Past, Carries
<1>5. ListFresh'
  <2> SUFFICES ASSUME NEW s \in Requests, At(s, "list", "read")',
                      NEW t \in TodoIds \ late'
               PROVE  ~Overdue(t, req[s].now)'
    BY DEF ListFresh
  <2>1. CASE req'[s] = req[s]
    BY <1>0, <2>1, StaysFresh DEF At
  <2>2. CASE req'[s] # req[s]
    <3>1. s = r
      BY <1>0, <2>2 DEF Carries
    <3>2. ActivateDue(r)
      <4>1. ASSUME NEW op, NEW u \in TodoIds, ReadRow(r, op, u)
            PROVE  FALSE
        BY <3>1, <4>1, Landing DEF Lands, At
      <4> QED BY <3>1, <4>1, Reaching DEF Elsewhere, Lands, At
    <3>3. req'[r].now = req[r].now
      BY <3>2 DEF ActivateDue, Base, TypeOK, Request
    <3>4. todos'[t] = IF Overdue(t, req[r].now) THEN [todos[t] EXCEPT !.state = "active"]
                      ELSE todos[t]
      BY <3>2 DEF ActivateDue
    <3>5. CASE Overdue(t, req[r].now)
      <4>1. todos[t] \in Todo
        BY <3>5 DEF Overdue, Live, Base, TypeOK
      <4>2. todos'[t].state = "active"
        BY <3>4, <3>5, <4>1 DEF Todo
      <4> QED BY <4>2 DEF Overdue
    <3>6. CASE ~Overdue(t, req[r].now)
      BY <3>1, <3>3, <3>4, <3>6 DEF Overdue, Live
    <3> QED BY <3>5, <3>6
  <2> QED BY <2>1, <2>2
<1> QED BY <1>1, <1>2, <1>4, <1>5

LEMMA DatingStep == Base /\ Dating /\ [Next]_vars => Dating'
<1> SUFFICES ASSUME Base, Dating, [Next]_vars
             PROVE  Dating'
  OBVIOUS
<1>0. Base' /\ clock \in Nat /\ todos \in [TodoIds -> Todo \cup {None, Gone}]
      /\ patterns \in [PatternIds -> Pattern \cup {None, Gone}]
      /\ \A r \in Requests : req[r].now \in Nat
  BY BaseStep DEF Base, TypeOK, Request
<1>1. ASSUME NEW r \in Requests, Step(r)
      PROVE  Dating'
  BY <1>0, <1>1, DatingRequest
<1>2. ASSUME NEW t \in TodoIds, DeleteTodo(t)
      PROVE  Dating'
  <2>1. /\ req' = req /\ clock' = clock /\ patterns' = patterns /\ late' = late \ {t}
        /\ \A u \in TodoIds : todos'[u] = IF u = t THEN Gone ELSE todos[u]
    BY <1>0, <1>2 DEF DeleteTodo
  <2>2. \A u \in Live' : u \in Live /\ u # t /\ todos'[u] = todos[u]
    BY <2>1 DEF Live
  <2>3. Sounding' /\ Leading' /\ Past'
    BY <2>1, <2>2 DEF Dating, Sounding, Leading, Past, LivePatterns
  <2>4. \A u \in Live' : RowStep(u)
    BY <2>1, <2>2 DEF RowStep
  <2>5. ListFresh'
    BY <1>0, <2>1, <2>4, StaysFresh DEF Dating, ListFresh, At
  <2> QED BY <2>3, <2>5 DEF Dating
<1>3. ASSUME NEW p \in PatternIds, DeletePattern(p)
      PROVE  Dating'
  <2>1. /\ req' = req /\ clock' = clock /\ todos' = todos /\ late' = late
        /\ \A u \in PatternIds : patterns'[u] = IF u = p THEN Gone ELSE patterns[u]
    BY <1>0, <1>3 DEF DeletePattern, ghosts
  <2>2. \A u \in LivePatterns' : u \in LivePatterns /\ patterns'[u] = patterns[u]
    BY <2>1 DEF LivePatterns
  <2>3. Leading'
    BY <2>1, <2>2 DEF Dating, Leading
  <2>4. Sounding' /\ Past' /\ ListFresh'
    BY <2>1 DEF Dating, Sounding, Past, ListFresh, At, Overdue, Live
  <2> QED BY <2>3, <2>4 DEF Dating
<1>4. CASE Tick \/ UNCHANGED vars
  <2>1. /\ req' = req /\ todos' = todos /\ patterns' = patterns /\ late' = late
        /\ clock <= clock' /\ clock' \in Nat
    BY <1>0, <1>4 DEF Tick, vars, ghosts
  <2>2. Past'
    BY <1>0, <2>1 DEF Dating, Past
  <2>3. Sounding' /\ Leading' /\ ListFresh'
    BY <2>1 DEF Dating, Sounding, Leading, ListFresh, At, Overdue, Live, LivePatterns
  <2> QED BY <2>2, <2>3 DEF Dating
<1> QED BY <1>1, <1>2, <1>3, <1>4 DEF Next

LEMMA DatingInit == Init => Dating
<1> SUFFICES ASSUME Init
             PROVE  Dating
  OBVIOUS
<1>1. Live = {} /\ LivePatterns = {} /\ clock = 0
  BY DEF Init, Live, LivePatterns
<1>2. \A r \in Requests : req[r].pc = "idle" /\ req[r].now = 0 /\ req[r].recs = NoRecs
  BY DEF Init, Idle
<1> QED BY <1>1, <1>2 DEF Dating, Sounding, Leading, Past, ListFresh, At, NoRecs

LEMMA DatingHolds == Spec => []Dating
<1>1. Base /\ Dating /\ [Next]_vars => (Base /\ Dating)'
  BY BaseStep, DatingStep
<1> QED BY <1>1, BaseInit, DatingInit, PTL DEF Spec

\* What the dates of a row promise one another survives every edit, completion and
\* promotion, in any overlap of any number of requests, when no request asks for a
\* negative lead: create drops one, update (recurring.go) stores it, and with it an
\* instance may be shown after its due date.
THEOREM DatesOfRows == Spec => [](LeadsAhead => DatesAgree)
<1>1. Dating => (LeadsAhead => DatesAgree)
  BY DEF Dating, Sounding, Sound, DatesAgree
<1> QED BY <1>1, DatingHolds, PTL

\* A list never reads a deferred action whose time had come when the list began,
\* except one that was written from a stale copy or with a stale clock: whatever
\* other requests write between its promotion and its read.
THEOREM FreshLists == Spec => []ListFresh
<1>1. Dating => ListFresh
  BY DEF Dating
<1> QED BY <1>1, DatingHolds, PTL

-----------------------------------------------------------------------------
(* The dates a pattern produces *)

\* Holding pattern rows, under the guard.
Handling(q) == q.pc \in {"recInsert", "recWrite", "open", "spawn", "save"}
Saving(q, p) == q.pc = "save" /\ q.pid = p

\* The row remembers a date no earlier than d.
Reached(rec, d) == rec.last # None /\ rec.last * PerDay >= d

\* What is in hand of pattern p remembers d, or is about to.
InHand(q, p, d) ==
  IF Saving(q, p) THEN NextDue(q.recs[p], q.now) * PerDay >= d ELSE Reached(q.recs[p], d)

\* Only a pattern that has been inserted has produced a date, and unless a spawn of it
\* was torn, its row and every copy in hand remember the newest.
Advancing ==
  /\ \A p \in PatternIds : produced[p] # None => patterns[p] # None
  /\ \A r \in Requests, p \in PatternIds : Handling(req[r]) /\ req[r].recs[p] # None =>
       (patterns[p] = None <=> req[r].pc = "recInsert")
  /\ \A p \in PatternIds \ torn : produced[p] # None =>
       /\ p \in LivePatterns =>
            Reached(patterns[p], produced[p]) \/ \E r \in Requests : Saving(req[r], p)
       /\ \A r \in Requests : Handling(req[r]) /\ req[r].recs[p] # None =>
            InHand(req[r], p, produced[p])

LEMMA NextDueLater ==
  ASSUME NEW rec \in Pattern, NEW now \in Nat, rec.last # None, NextDue(rec, now) # None
  PROVE  NextDue(rec, now) > rec.last
<1> DEFINE anchor == IF rec.start = None THEN rec.created ELSE rec.start
           d == rec.last - anchor
           n == d \div rec.every
<1>1. rec.last \in Int /\ anchor \in Int /\ rec.every \in Nat \ {0} /\ d \in Int
  BY DEF Pattern
<1>2. NextDue(rec, now) = NextDate(rec, rec.last)
  BY DEF NextDue
<1>3. NextDue(rec, now) = IF rec.last < anchor THEN anchor ELSE anchor + (n + 1) * rec.every
  BY <1>2 DEF NextDate, EveryNth
<1>4. n \in Int /\ d < rec.every * n + rec.every
  BY <1>1
<1> HIDE DEF n
<1>5. (n + 1) * rec.every = rec.every * n + rec.every /\ rec.every * n \in Int
  BY <1>1, <1>4
<1> HIDE DEF anchor
<1> QED BY <1>1, <1>3, <1>4, <1>5

\* A pattern that remembers d next produces a later date.
LEMMA Onward ==
  ASSUME NEW rec \in Pattern, NEW now \in Nat, NEW d \in Int, Reached(rec, d),
         NextDue(rec, now) # None
  PROVE  NextDue(rec, now) * PerDay > d
<1> DEFINE next == NextDue(rec, now)
<1>1. next \in Int /\ rec.last \in Int /\ next >= rec.last + 1
  BY NextDueType, NextDueLater DEF Reached, Pattern
<1> HIDE DEF next
<1>2. next * PerDay >= (rec.last + 1) * PerDay
  BY <1>1, TimesAssumption
<1>3. (rec.last + 1) * PerDay = rec.last * PerDay + PerDay
  BY <1>1, TimesAssumption
<1>4. next * PerDay \in Int /\ rec.last * PerDay \in Int /\ PerDay \in Nat \ {0}
  BY <1>1, TimesAssumption
<1>5. next * PerDay > d
  BY <1>2, <1>3, <1>4 DEF Reached
<1> QED BY <1>5 DEF next

\* Only the holder of the guard has pattern rows in hand.
LEMMA NobodyElse ==
  ASSUME Base, NEW r \in Requests, holder \in {None, r}, NEW s \in Requests, s # r
  PROVE  ~Handling(req[s])
BY Markers DEF Base, Held, Guarded, Handling

\* A step of r while nobody else holds the guard.
LEMMA AdvancingBy ==
  ASSUME Base, Advancing, NEW r \in Requests, holder \in {None, r},
         \A s \in Requests : s # r => req'[s] = req[s],
         \A p \in PatternIds : produced'[p] # None => patterns'[p] # None,
         \A p \in PatternIds : Handling(req'[r]) /\ req'[r].recs[p] # None =>
           (patterns'[p] = None <=> req'[r].pc = "recInsert"),
         \A p \in PatternIds \ torn' : produced'[p] # None =>
           /\ p \in LivePatterns' => Reached(patterns'[p], produced'[p]) \/ Saving(req'[r], p)
           /\ Handling(req'[r]) /\ req'[r].recs[p] # None => InHand(req'[r], p, produced'[p])
  PROVE  Advancing'
<1>1. \A s \in Requests : s # r => ~Handling(req'[s])
  BY NobodyElse
<1>2. \A p \in PatternIds \ torn' : produced'[p] # None =>
        /\ p \in LivePatterns' =>
             Reached(patterns'[p], produced'[p]) \/ \E s \in Requests : Saving(req'[s], p)
        /\ \A s \in Requests : Handling(req'[s]) /\ req'[s].recs[p] # None =>
             InHand(req'[s], p, produced'[p])
  BY <1>1
<1> QED BY <1>1, <1>2 DEF Advancing

\* A step after which those who have rows in hand are who and where they were.
LEMMA SamePatterns ==
  ASSUME Advancing, patterns' = patterns, produced' = produced, torn \subseteq torn',
         \A s \in Requests : Handling(req'[s]) => req'[s] = req[s],
         \A s \in Requests, p \in PatternIds :
           Saving(req[s], p) => p \in torn' \/ req'[s] = req[s]
  PROVE  Advancing'
<1>1. \A p \in PatternIds \ torn' : produced'[p] # None =>
        /\ p \in LivePatterns' =>
             Reached(patterns'[p], produced'[p]) \/ \E s \in Requests : Saving(req'[s], p)
        /\ \A s \in Requests : Handling(req'[s]) /\ req'[s].recs[p] # None =>
             InHand(req'[s], p, produced'[p])
  BY DEF Advancing, LivePatterns
<1> QED BY <1>1 DEF Advancing

\* A step that takes the guard with pattern rows it has just read.
LEMMA TakesPatterns ==
  ASSUME Base, Advancing, NEW r \in Requests, holder = None,
         patterns' = patterns, produced' = produced, torn' = torn,
         Lands(r, {"recWrite", "open"}),
         \A p \in PatternIds : req'[r].recs[p] # None =>
           p \in LivePatterns /\ req'[r].recs[p] = patterns[p]
  PROVE  Advancing'
<1>1. \A s \in Requests : ~Handling(req[s])
  BY Markers DEF Base, Held, Guarded, Handling
<1>2. \A p \in PatternIds \ torn : produced[p] # None /\ p \in LivePatterns =>
        Reached(patterns[p], produced[p])
  BY <1>1 DEF Advancing, Saving, Handling
<1>3. \A p : ~Saving(req'[r], p)
  BY DEF Lands, Saving
<1>4. \A p \in PatternIds : produced'[p] # None => patterns'[p] # None
  BY DEF Advancing
<1>5. \A p \in PatternIds : req'[r].recs[p] # None => patterns'[p] # None
  BY DEF LivePatterns
<1>6. req'[r].pc # "recInsert" /\ \A s \in Requests : s # r => req'[s] = req[s]
  BY DEF Lands
<1>7. LivePatterns' = LivePatterns
  BY DEF LivePatterns
<1> QED BY <1>2, <1>3, <1>4, <1>5, <1>6, <1>7, AdvancingBy DEF InHand

\* A step of the holder that leaves its patterns alone or writes one back that
\* remembers, and goes on with some of the rows in hand, not to or from the save.
LEMMA CarriesOn ==
  ASSUME Base, Advancing, NEW r \in Requests, holder = r, produced' = produced, torn' = torn,
         Handling(req[r]), req[r].pc \notin {"save", "recInsert"},
         Lands(r, {"open", "activate", "idle", "spawn"}),
         \A p \in PatternIds : Handling(req'[r]) /\ req'[r].recs[p] # None =>
           req'[r].recs[p] = req[r].recs[p],
         \A p \in PatternIds :
           \/ patterns'[p] = patterns[p]
           \/ /\ req[r].recs[p] # None /\ patterns'[p] \in Pattern
              /\ patterns'[p].last = req[r].recs[p].last
  PROVE  Advancing'
<1>0. \A p : ~Saving(req[r], p) /\ ~Saving(req'[r], p)
  BY DEF Lands, Saving
<1>1. \A p \in PatternIds \ torn : produced[p] # None /\ p \in LivePatterns =>
        Reached(patterns[p], produced[p])
  BY <1>0, NobodyElse DEF Advancing, Saving, Handling
<1>2. \A p \in PatternIds \ torn : produced[p] # None /\ req[r].recs[p] # None =>
        Reached(req[r].recs[p], produced[p])
  BY <1>0 DEF Advancing, InHand
<1>3. \A p \in PatternIds : produced'[p] # None => patterns'[p] # None
  BY NotRows DEF Advancing
<1>4. \A p \in PatternIds : Handling(req'[r]) /\ req'[r].recs[p] # None => patterns'[p] # None
  BY NotRows DEF Advancing
<1>5. \A p \in PatternIds \ torn : produced[p] # None /\ p \in LivePatterns' =>
        Reached(patterns'[p], produced[p])
  BY <1>1, <1>2 DEF Reached, LivePatterns
<1>6. req'[r].pc # "recInsert" /\ \A s \in Requests : s # r => req'[s] = req[s]
  BY DEF Lands
<1> QED BY <1>0, <1>2, <1>3, <1>4, <1>5, <1>6, AdvancingBy DEF InHand

\* The rows in hand after the step to the next pattern.
LEMMA NextRecHands ==
  ASSUME Base, NEW r \in Requests, NEW p \in PatternIds, NextRec(r, p), Handling(req'[r])
  PROVE  /\ req'[r].recs[p] = None
         /\ \A u \in PatternIds : u # p => req'[r].recs[u] = req[r].recs[u]
<1> DEFINE recs == [req[r].recs EXCEPT ![p] = None]
           q(pc) == [req[r] EXCEPT !.pc = pc, !.pid = None, !.recs = recs]
<1>1. req[r] \in Request /\ req \in [Requests -> Request]
  BY DEF Base, TypeOK
<1>2. recs[p] = None /\ \A u \in PatternIds : u # p => recs[u] = req[r].recs[u]
  BY <1>1 DEF Request
<1>3. req' = [req EXCEPT ![r] = q("open")] \/ req' = [req EXCEPT ![r] = q("activate")]
      \/ Return(r)
  BY <1>1 DEF NextRec
<1>4. ~Return(r)
  BY Returned DEF Handling
<1> HIDE DEF recs
<1>5. req'[r].recs = recs
  BY <1>1, <1>3, <1>4 DEF Request
<1> QED BY <1>2, <1>5

\* The steps that have no pattern in hand.
LEMMA AdvancingAside ==
  ASSUME Base, Advancing, NEW r \in Requests,
         \/ \E op : Ask(r, op)
         \/ \E op, t : t \in TodoIds /\ ReadRow(r, op, t)
         \/ ReadForUpdate(r) \/ WriteRow(r) \/ CheckForCreate(r) \/ InsertTodo(r)
         \/ ActivateDue(r) \/ ReadList(r) \/ Abort(r)
  PROVE  Advancing'
<1>0. req[r] \in Request /\ req \in [Requests -> Request]
  BY DEF Base, TypeOK
<1>1. patterns' = patterns /\ produced' = produced /\ torn \subseteq torn'
  BY DEF Ask, ReadRow, ReadForUpdate, WriteRow, CheckForCreate, InsertTodo, ActivateDue,
         ReadList, Abort, ghosts
<1>2. ~Handling(req'[r]) /\ \A s \in Requests : s # r => req'[s] = req[s]
  <2>1. ASSUME CheckForCreate(r)
        PROVE  Lands(r, {"insert", "idle"})
    <3>1. ASSUME req' = [req EXCEPT ![r].pc = "insert"]
          PROVE  Lands(r, {"insert"})
      BY <1>0, <3>1 DEF Lands, Request
    <3> QED BY <2>1, <3>1, Returned DEF CheckForCreate, Lands
  <2> QED BY <2>1, Landing DEF Lands, Handling
<1>3. \A p \in PatternIds : Saving(req[r], p) => p \in torn'
  <2>1. CASE Abort(r)
    BY <2>1 DEF Abort, Saving
  <2>2. CASE ~Abort(r)
    BY <2>2 DEF Saving, Ask, Begin, ReadRow, ReadForUpdate, Waits, At, WriteRow,
                CheckForCreate, InsertTodo, ActivateDue, ReadList
  <2> QED BY <2>1, <2>2
<1> QED BY <1>1, <1>2, <1>3, SamePatterns

LEMMA AdvancingHandlers ==
  ASSUME Base, Advancing, NEW r \in Requests,
         \/ CheckForPattern(r) \/ InsertPattern(r) \/ ReadPattern(r) \/ WritePattern(r)
         \/ Sweep(r) \/ SpawnNext(r)
  PROVE  Advancing'
<1>0. /\ req[r] \in Request /\ req \in [Requests -> Request]
      /\ patterns \in [PatternIds -> Pattern \cup {None, Gone}]
  BY DEF Base, TypeOK
<1>1. produced' = produced /\ torn' = torn
  BY DEF CheckForPattern, InsertPattern, ReadPattern, WritePattern, Sweep, SpawnNext, ghosts
<1>2. ASSUME patterns' = patterns, ~Handling(req'[r]), ~Handling(req[r]),
             \A s \in Requests : s # r => req'[s] = req[s]
      PROVE  Advancing'
  BY <1>1, <1>2, SamePatterns DEF Handling, Saving
<1>3. ASSUME Return(r), patterns' = patterns, req[r].pc = "start"
      PROVE  Advancing'
  BY <1>2, <1>3, Returned DEF Handling
<1>4. CASE CheckForPattern(r)
  <2>1. ASSUME NEW p \in PatternIds, NEW rec, patterns[p] = None,
               req' = [req EXCEPT ![r].pc = "recInsert", ![r].now = clock,
                         ![r].recs = [NoRecs EXCEPT ![p] = rec]]
        PROVE  Advancing'
    <3>1. req'[r].pc = "recInsert" /\ req'[r].recs = [NoRecs EXCEPT ![p] = rec]
          /\ \A s \in Requests : s # r => req'[s] = req[s]
      BY <1>0, <2>1 DEF Request
    <3>2. \A u \in PatternIds : req'[r].recs[u] # None => u = p
      BY <3>1 DEF NoRecs
    <3>3. holder = None /\ patterns' = patterns
      BY <1>4 DEF CheckForPattern, Waits
    <3>4. produced[p] = None
      BY <2>1 DEF Advancing
    <3>5. \A s \in Requests : ~Handling(req[s])
      BY <3>3, Markers DEF Base, Held, Guarded, Handling
    <3>6. \A u \in PatternIds \ torn : produced[u] # None /\ u \in LivePatterns =>
            Reached(patterns[u], produced[u])
      BY <3>5 DEF Advancing, Saving, Handling
    <3>7. LivePatterns' = LivePatterns
      BY <3>3 DEF LivePatterns
    <3>8. \A u \in PatternIds : produced'[u] # None => patterns'[u] # None
      BY <1>1, <3>3 DEF Advancing
    <3> QED BY <1>1, <2>1, <3>1, <3>2, <3>3, <3>4, <3>6, <3>7, <3>8, AdvancingBy
  <2> QED BY <1>3, <1>4, <2>1 DEF CheckForPattern, Waits, At
<1>5. CASE InsertPattern(r)
  <2>1. Lands(r, {"open"}) /\ req[r].pc = "recInsert" /\ holder = r
    BY <1>5, Landing DEF InsertPattern, At, Base, Held, Guarded
  <2>2. req'[r].recs = req[r].recs
    BY <1>0, <1>5 DEF InsertPattern, Request
  <2>3. \A p \in PatternIds :
          patterns'[p] = IF req[r].recs[p] # None THEN req[r].recs[p] ELSE patterns[p]
    BY <1>5 DEF InsertPattern
  <2>4. \A p \in PatternIds : req[r].recs[p] # None => patterns[p] = None /\ produced[p] = None
    BY <2>1 DEF Advancing, Handling
  <2>5. \A p \in PatternIds \ torn : produced[p] # None /\ p \in LivePatterns =>
          Reached(patterns[p], produced[p])
    BY <2>1, NobodyElse DEF Advancing, Saving, Handling
  <2>6. \A p \in PatternIds : produced'[p] # None => patterns'[p] # None
    BY <1>1, <2>3 DEF Advancing
  <2>7. \A p \in PatternIds \ torn : produced[p] # None /\ p \in LivePatterns' =>
          Reached(patterns'[p], produced[p])
    BY <2>3, <2>4, <2>5 DEF LivePatterns
  <2>8. req'[r].pc # "recInsert" /\ \A s \in Requests : s # r => req'[s] = req[s]
    BY <2>1 DEF Lands
  <2> QED BY <1>1, <2>1, <2>2, <2>3, <2>4, <2>6, <2>7, <2>8, AdvancingBy
<1>6. CASE ReadPattern(r)
  <2>1. ASSUME NEW p \in LivePatterns,
               req' = [req EXCEPT ![r].pc = "recWrite", ![r].pid = p,
                         ![r].recs = [NoRecs EXCEPT ![p] = patterns[p]]]
        PROVE  Advancing'
    <3>1. req'[r].recs = [NoRecs EXCEPT ![p] = patterns[p]] /\ Lands(r, {"recWrite", "open"})
      BY <1>0, <2>1 DEF Request, Lands
    <3>2. \A u \in PatternIds : req'[r].recs[u] # None =>
            u \in LivePatterns /\ req'[r].recs[u] = patterns[u]
      BY <3>1 DEF NoRecs
    <3>3. holder = None /\ patterns' = patterns
      BY <1>6 DEF ReadPattern, Waits
    <3> QED BY <1>1, <3>1, <3>2, <3>3, TakesPatterns
  <2> QED BY <1>3, <1>6, <2>1 DEF ReadPattern, Waits, At
<1>7. CASE WritePattern(r)
  <2> DEFINE p == req[r].pid
             rec == req[r].recs[p]
  <2>1. p \in PatternIds /\ rec \in Pattern /\ req[r].pc = "recWrite" /\ holder = r
    BY <1>7 DEF WritePattern, At, Base, Ready, HandsFull, Held, Guarded
  <2>2. PICK in \in PatternEdits :
          patterns' \in {patterns, [patterns EXCEPT ![p] = UpdatedPattern(rec, in)]}
    BY <1>7 DEF WritePattern
  <2>3. UpdatedPattern(rec, in) \in Pattern /\ UpdatedPattern(rec, in).last = rec.last
    BY <2>1, UpdatedPatternType DEF UpdatedPattern, Pattern
  <2>4. \A u \in PatternIds :
          \/ patterns'[u] = patterns[u]
          \/ u = p /\ patterns'[u] = UpdatedPattern(rec, in)
    BY <1>0, <2>2
  <2>5. rec # None
    BY <2>1, NotRows
  <2>6. req'[r].pc = "idle" /\ \A s \in Requests : s # r => req'[s] = req[s]
    BY <1>7, Returned DEF WritePattern
  <2>7. \A u \in PatternIds :
           \/ patterns'[u] = patterns[u]
           \/ /\ req[r].recs[u] # None /\ patterns'[u] \in Pattern
              /\ patterns'[u].last = req[r].recs[u].last
    BY <2>3, <2>4, <2>5
  <2> HIDE DEF p, rec
  <2> QED BY <1>1, <2>1, <2>6, <2>7, CarriesOn DEF Lands, Handling
<1>8. CASE Sweep(r)
  <2> DEFINE recs == [p \in PatternIds |-> IF Active(p) THEN patterns[p] ELSE None]
             q == [req[r] EXCEPT !.pc = "open", !.recs = recs]
  <2>1. holder = None /\ patterns' = patterns /\ req[r].pc = "start"
    BY <1>8 DEF Sweep, Waits, At
  <2>2. CASE req' = [req EXCEPT ![r].pc = "activate"]
    <3>1. Lands(r, {"activate"})
      BY <1>0, <2>2 DEF Lands, Request
    <3> QED BY <1>2, <2>1, <3>1 DEF Lands, Handling
  <2>3. CASE req' = [req EXCEPT ![r] = q]
    <3>1. q.pc = "open" /\ q.recs = recs
      BY <1>0 DEF Request
    <3>2. \A p \in PatternIds : recs[p] # None => p \in LivePatterns /\ recs[p] = patterns[p]
      BY DEF Active
    <3> HIDE DEF q, recs
    <3>3. req'[r] = q /\ \A s \in Requests : s # r => req'[s] = req[s]
      BY <1>0, <2>3
    <3>4. Lands(r, {"recWrite", "open"})
      BY <3>1, <3>3 DEF Lands
    <3> QED BY <1>1, <2>1, <3>1, <3>2, <3>3, <3>4, TakesPatterns
  <2>4. req' = [req EXCEPT ![r].pc = "activate"] \/ req' = [req EXCEPT ![r] = q]
    BY <1>0, <1>8 DEF Sweep
  <2> QED BY <2>2, <2>3, <2>4
<1>9. CASE SpawnNext(r)
  <2> DEFINE p == req[r].row.pattern
  <2>1. holder = None /\ patterns' = patterns /\ req[r].pc = "start"
    BY <1>9 DEF SpawnNext, Waits, At
  <2>2. CASE Active(p) /\ req' = [req EXCEPT ![r].pc = "open",
                                    ![r].recs = [NoRecs EXCEPT ![p] = patterns[p]]]
    <3>1. req'[r].recs = [NoRecs EXCEPT ![p] = patterns[p]] /\ Lands(r, {"recWrite", "open"})
      BY <1>0, <2>2 DEF Request, Lands
    <3>2. p \in LivePatterns
      BY <2>2 DEF Active
    <3> HIDE DEF p
    <3>3. \A u \in PatternIds : req'[r].recs[u] # None =>
            u \in LivePatterns /\ req'[r].recs[u] = patterns[u]
      BY <3>1, <3>2 DEF NoRecs
    <3> QED BY <1>1, <2>1, <3>1, <3>3, TakesPatterns
  <2> QED BY <1>3, <1>9, <2>1, <2>2 DEF SpawnNext
<1> QED BY <1>4, <1>5, <1>6, <1>7, <1>8, <1>9

LEMMA AdvancingSpawns ==
  ASSUME Base, Advancing, NEW r \in Requests,
         SpawnIfDue(r) \/ Spawn(r) \/ SaveSpawned(r)
  PROVE  Advancing'
<1>0. /\ req[r] \in Request /\ req \in [Requests -> Request]
      /\ patterns \in [PatternIds -> Pattern \cup {None, Gone}]
      /\ produced \in [PatternIds -> Int \cup {None}]
  BY DEF Base, TypeOK
<1>1. holder = r /\ Handling(req[r]) /\ req[r].pc \in {"open", "spawn", "save"}
  BY DEF SpawnIfDue, Spawn, SaveSpawned, Base, Held, Guarded, Handling
<1>2. CASE SpawnIfDue(r)
  <2> PICK p \in PatternIds :
        /\ req[r].recs[p] # None
        /\ HasOne(r, p) \/ Exhaust(r, p) \/ Refuse(r, p) \/ Admit(r, p)
    BY <1>2 DEF SpawnIfDue
  <2> DEFINE new == [req[r].recs[p] EXCEPT !.state = "completed"]
  <2>1. req[r].pc = "open" /\ produced' = produced /\ torn' = torn
    BY <1>2 DEF SpawnIfDue, ghosts
  <2>2. new \in Pattern /\ new.last = req[r].recs[p].last
    BY <1>0 DEF Request, Pattern
  <2>3. patterns' = patterns \/ patterns' = [patterns EXCEPT ![p] = new]
    BY DEF HasOne, Exhaust, Refuse, Admit
  <2> HIDE DEF new
  <2>4. \A u \in PatternIds :
          \/ patterns'[u] = patterns[u]
          \/ /\ req[r].recs[u] # None /\ patterns'[u] \in Pattern
             /\ patterns'[u].last = req[r].recs[u].last
    BY <1>0, <2>2, <2>3
  <2>5. CASE Admit(r, p)
    <3>1. req' = [req EXCEPT ![r] = [req[r] EXCEPT !.pc = "spawn", !.pid = p]]
      BY <1>0, <2>5 DEF Admit
    <3>2. Lands(r, {"open", "activate", "idle", "spawn"}) /\ req'[r].recs = req[r].recs
      BY <1>0, <3>1 DEF Lands, Request
    <3> QED BY <1>1, <2>1, <2>4, <3>2, CarriesOn
  <2>6. CASE NextRec(r, p)
    <3>1. Lands(r, {"open", "activate", "idle", "spawn"})
      BY <2>6, NextRecMoves DEF Lands
    <3>2. \A u \in PatternIds : Handling(req'[r]) /\ req'[r].recs[u] # None =>
            req'[r].recs[u] = req[r].recs[u]
      BY <2>6, NextRecHands
    <3> QED BY <1>1, <2>1, <2>4, <3>1, <3>2, CarriesOn
  <2>7. CASE Return(r)
    <3>1. Lands(r, {"open", "activate", "idle", "spawn"}) /\ ~Handling(req'[r])
      BY <2>7, Returned DEF Lands, Handling
    <3> QED BY <1>1, <2>1, <2>4, <3>1, CarriesOn
  <2> QED BY <2>5, <2>6, <2>7 DEF HasOne, Exhaust, Refuse
<1>3. CASE Spawn(r)
  <2> DEFINE p == req[r].pid
             due == NextDue(req[r].recs[p], req[r].now) * PerDay
             row == Instance(p, req[r].recs[p], req[r].now)
  <2>1. p \in PatternIds /\ req[r].recs[p] \in Pattern /\ req[r].pc = "spawn"
        /\ NextDue(req[r].recs[p], req[r].now) # None /\ req[r].now \in Nat
    BY <1>0, <1>3 DEF Spawn, Base, Ready, HandsFull, Request
  <2>2. row.due = due
    BY DEF Instance
  <2>3. produced' = [produced EXCEPT ![p] = row.due] /\ patterns' = patterns /\ torn' = torn
    BY <1>3 DEF Spawn
  <2>4. due \in Int
    BY <2>1, NextDueType, TimesAssumption
  <2>5. Lands(r, {"save"}) /\ req'[r].pid = p /\ req'[r].recs = req[r].recs
        /\ req'[r].now = req[r].now
    BY <1>0, <1>3 DEF Spawn, Request, Lands
  <2>6. NextDue(req'[r].recs[p], req'[r].now) * PerDay = due
    BY <2>5
  <2> HIDE DEF due, row, p
  <2>7. \A u \in PatternIds : produced'[u] = IF u = p THEN due ELSE produced[u]
    BY <1>0, <2>2, <2>3
  <2>8. \A u \in PatternIds : req[r].recs[u] # None => patterns[u] # None
    BY <1>1, <2>1 DEF Advancing
  <2>9. req[r].recs[p] # None
    BY <2>1, NotRows
  <2>10. \A u \in PatternIds : produced'[u] # None => patterns'[u] # None
    BY <2>1, <2>3, <2>7, <2>8, <2>9 DEF Advancing
  <2>11. \A u : Saving(req'[r], u) <=> u = p
    BY <2>5 DEF Saving, Lands
  <2>12. ASSUME NEW u \in PatternIds \ torn, produced'[u] # None
         PROVE  /\ u \in LivePatterns => Reached(patterns[u], produced'[u]) \/ Saving(req'[r], u)
                /\ req'[r].recs[u] # None => InHand(req'[r], u, produced'[u])
    <3>1. CASE u = p
      BY <2>4, <2>6, <2>7, <2>11, <3>1 DEF InHand
    <3>2. CASE u # p
      <4>1. produced'[u] = produced[u] /\ ~Saving(req[r], u) /\ ~Saving(req'[r], u)
        BY <2>1, <2>7, <2>11, <3>2 DEF Saving
      <4>2. u \in LivePatterns => Reached(patterns[u], produced[u])
        BY <1>1, <2>12, <4>1, NobodyElse DEF Advancing, Saving, Handling
      <4>3. req[r].recs[u] # None => Reached(req[r].recs[u], produced[u])
        BY <1>1, <2>12, <4>1 DEF Advancing, InHand
      <4> QED BY <2>5, <4>1, <4>2, <4>3 DEF InHand
    <3> QED BY <3>1, <3>2
  <2>13. LivePatterns' = LivePatterns
    BY <2>3 DEF LivePatterns
  <2>14. req'[r].pc = "save" /\ \A s \in Requests : s # r => req'[s] = req[s]
    BY <2>5 DEF Lands
  <2> QED BY <1>1, <2>3, <2>5, <2>8, <2>10, <2>12, <2>13, <2>14, AdvancingBy
<1>4. CASE SaveSpawned(r)
  <2> DEFINE p == req[r].pid
             rec == req[r].recs[p]
             new == [rec EXCEPT !.last = NextDue(rec, req[r].now)]
  <2>1. p \in PatternIds /\ rec \in Pattern /\ req[r].pc = "save"
        /\ NextDue(rec, req[r].now) # None /\ produced' = produced /\ torn' = torn
    BY <1>4 DEF SaveSpawned, Base, Ready, HandsFull, ghosts
  <2>2. new.last = NextDue(rec, req[r].now) /\ new # None
    <3>1. new.last = NextDue(rec, req[r].now)
      BY <2>1 DEF Pattern
    <3>2. req[r].now \in Nat
      BY <1>0 DEF Request
    <3>3. new \in Pattern
      BY <2>1, <3>2, NextDueType DEF Pattern
    <3> QED BY <3>1, <3>3, NotRows
  <2>3. rec # None /\ Saving(req[r], p)
    BY <2>1, NotRows DEF Saving
  <2>4. p \notin torn /\ produced[p] # None => Reached(new, produced[p])
    BY <1>1, <2>1, <2>2, <2>3 DEF Advancing, InHand, Reached
  <2>5. \/ p \in LivePatterns /\ patterns' = [patterns EXCEPT ![p] = new] /\ NextRec(r, p)
        \/ p \notin LivePatterns /\ patterns' = patterns /\ Return(r)
    BY <1>4 DEF SaveSpawned
  <2> HIDE DEF new, rec
  <2>6. \A u \in PatternIds : u # p => patterns'[u] = patterns[u]
    BY <1>0, <2>5
  <2>7. p \in LivePatterns => patterns'[p] = new
    BY <1>0, <2>1, <2>5
  <2>8. p \notin LivePatterns => patterns' = patterns
    BY <2>5
  <2>9. \A u \in PatternIds : Handling(req'[r]) /\ req'[r].recs[u] # None =>
          u # p /\ req'[r].recs[u] = req[r].recs[u]
    BY <2>1, <2>5, NextRecHands, Returned DEF Handling
  <2>10. Lands(r, {"open", "activate", "idle"})
    BY <2>1, <2>5, NextRecMoves, Returned DEF Lands
  <2> HIDE DEF p
  <2>11. \A u \in PatternIds : u # p => ~Saving(req[r], u)
    BY DEF Saving, p
  <2>12. \A u \in PatternIds : produced'[u] # None => patterns'[u] # None
    BY <2>1, <2>2, <2>6, <2>7, <2>8 DEF Advancing
  <2>13. \A u \in PatternIds : Handling(req'[r]) /\ req'[r].recs[u] # None => patterns'[u] # None
    BY <1>1, <2>1, <2>6, <2>9 DEF Advancing
  <2>14. ASSUME NEW u \in PatternIds \ torn, produced[u] # None
         PROVE  /\ u \in LivePatterns' => Reached(patterns'[u], produced[u])
                /\ Handling(req'[r]) /\ req'[r].recs[u] # None => Reached(req'[r].recs[u], produced[u])
    <3>1. CASE u = p
      BY <2>4, <2>7, <2>8, <2>9, <2>14, <3>1 DEF LivePatterns
    <3>2. CASE u # p
      <4>1. u \in LivePatterns => Reached(patterns[u], produced[u])
        BY <1>1, <2>11, <2>14, <3>2, NobodyElse DEF Advancing, Saving, Handling
      <4>2. req[r].recs[u] # None => Reached(req[r].recs[u], produced[u])
        BY <1>1, <2>11, <2>14, <3>2 DEF Advancing, InHand
      <4> QED BY <2>6, <2>9, <3>2, <4>1, <4>2 DEF LivePatterns
    <3> QED BY <3>1, <3>2
  <2>15. (\A u : ~Saving(req'[r], u)) /\ req'[r].pc # "recInsert"
         /\ \A s \in Requests : s # r => req'[s] = req[s]
    BY <2>10 DEF Lands, Saving
  <2> QED BY <1>1, <2>1, <2>12, <2>13, <2>14, <2>15, AdvancingBy DEF InHand
<1> QED BY <1>2, <1>3, <1>4

LEMMA AdvancingStep == Base /\ Advancing /\ [Next]_vars => Advancing'
<1> SUFFICES ASSUME Base, Advancing, [Next]_vars
             PROVE  Advancing'
  OBVIOUS
<1>1. ASSUME NEW r \in Requests, Step(r)
      PROVE  Advancing'
  BY <1>1, AdvancingAside, AdvancingHandlers, AdvancingSpawns DEF Step
<1>2. ASSUME NEW p \in PatternIds, DeletePattern(p)
      PROVE  Advancing'
  <2>1. /\ req' = req /\ produced' = produced /\ torn' = torn /\ patterns[p] # None
        /\ \A u \in PatternIds : patterns'[u] = IF u = p THEN Gone ELSE patterns[u]
    BY <1>2 DEF DeletePattern, ghosts, LivePatterns, Base, TypeOK
  <2>2. \A u \in PatternIds : patterns'[u] = None <=> patterns[u] = None
    BY <2>1, Markers
  <2>3. \A u \in LivePatterns' : u \in LivePatterns /\ patterns'[u] = patterns[u]
    BY <2>1 DEF LivePatterns
  <2>4. \A u \in PatternIds \ torn : produced[u] # None =>
          /\ u \in LivePatterns' =>
               Reached(patterns'[u], produced[u]) \/ \E r \in Requests : Saving(req[r], u)
          /\ \A r \in Requests : Handling(req[r]) /\ req[r].recs[u] # None =>
               InHand(req[r], u, produced[u])
    BY <2>3 DEF Advancing
  <2>5. /\ \A u \in PatternIds : produced[u] # None => patterns'[u] # None
        /\ \A r \in Requests, u \in PatternIds : Handling(req[r]) /\ req[r].recs[u] # None =>
             (patterns'[u] = None <=> req[r].pc = "recInsert")
    BY <2>2 DEF Advancing
  <2> QED BY <2>1, <2>4, <2>5 DEF Advancing
<1>3. ASSUME NEW t \in TodoIds, DeleteTodo(t)
      PROVE  Advancing'
  BY <1>3, SamePatterns DEF DeleteTodo
<1>4. CASE Tick \/ UNCHANGED vars
  BY <1>4, SamePatterns DEF Tick, vars, ghosts
<1> QED BY <1>1, <1>2, <1>3, <1>4 DEF Next

LEMMA AdvancingInit == Init => Advancing
BY DEF Init, Advancing, Handling, Idle, NoRecs

\* An instance enters the account in no step but Spawn.
LEMMA OnlySpawn ==
  ASSUME Base, [Next]_vars, NEW t \in TodoIds, NEW p \in PatternIds, NewInstance(t, p)
  PROVE  \E r \in Requests : Spawn(r) /\ req[r].pid = p
                             /\ todos'[t] = Instance(p, req[r].recs[p], req[r].now)
<1>0. todos \in [TodoIds -> Todo \cup {None, Gone}]
  BY DEF Base, TypeOK
<1>1. ASSUME NEW r \in Requests, Spawn(r)
      PROVE  req[r].pid = p /\ todos'[t] = Instance(p, req[r].recs[p], req[r].now)
  <2> DEFINE q == req[r].pid
             row == Instance(q, req[r].recs[q], req[r].now)
  <2>1. PICK u \in TodoIds : todos' = [todos EXCEPT ![u] = row]
    BY <1>1 DEF Spawn
  <2>2. row.pattern = q
    BY DEF Instance
  <2> HIDE DEF row
  <2>3. t = u /\ todos'[t] = row
    BY <1>0, <2>1 DEF NewInstance
  <2> QED BY <2>2, <2>3 DEF row, NewInstance
<1>2. ASSUME NEW r \in Requests, InsertTodo(r)
      PROVE  FALSE
  <2>1. PICK u \in TodoIds, in \in TodoInputs : todos' = [todos EXCEPT ![u] = NewTodo(in, clock)]
    BY <1>2 DEF InsertTodo
  <2>2. NewTodo(in, clock).pattern = None
    BY DEF NewTodo
  <2>3. t = u /\ todos'[t] = NewTodo(in, clock)
    BY <1>0, <2>1 DEF NewInstance
  <2> QED BY <2>2, <2>3, Markers DEF NewInstance
<1>3. ASSUME NEW r \in Requests, WriteRow(r)
      PROVE  FALSE
  BY <1>0, <1>3 DEF WriteRow, Live, NewInstance
<1>4. ASSUME NEW r \in Requests, ActivateDue(r)
      PROVE  FALSE
  BY <1>0, <1>4 DEF ActivateDue, Overdue, Live, NewInstance
<1>5. ASSUME NEW u \in TodoIds, DeleteTodo(u)
      PROVE  FALSE
  BY <1>0, <1>5 DEF DeleteTodo, Live, NewInstance
<1>6. todos' # todos
  BY DEF NewInstance
<1> QED BY <1>1, <1>2, <1>3, <1>4, <1>5, <1>6
     DEF Next, Step, Ask, ReadRow, ReadForUpdate, CheckForCreate, CheckForPattern,
         InsertPattern, ReadPattern, WritePattern, Sweep, SpawnNext, SpawnIfDue, SaveSpawned,
         ReadList, Abort, DeletePattern, Tick, vars

\* The dates a pattern produces only move forward, through edits, deletes, lists that
\* waited with an old clock and completions of any number of requests, unless a spawn
\* stopped between its insert and the save of LastSpawnedAt (spawnIfDue).
THEOREM OnlyForward == Spec => DatesAdvance
<1> DEFINE A == \A t \in TodoIds, p \in PatternIds \ torn :
                  NewInstance(t, p) /\ produced[p] # None => todos'[t].due > produced[p]
<1>1. Base /\ Advancing /\ [Next]_vars => (Base /\ Advancing)'
  BY BaseStep, AdvancingStep
<1>2. Base /\ Advancing /\ [Next]_vars => [A]_vars
  <2> SUFFICES ASSUME Base, Advancing, [Next]_vars, NEW t \in TodoIds,
                      NEW p \in PatternIds \ torn, NewInstance(t, p), produced[p] # None
               PROVE  todos'[t].due > produced[p]
    OBVIOUS
  <2> PICK r \in Requests : /\ Spawn(r) /\ req[r].pid = p
                            /\ todos'[t] = Instance(p, req[r].recs[p], req[r].now)
    BY OnlySpawn
  <2> DEFINE rec == req[r].recs[p]
  <2>1. rec \in Pattern /\ NextDue(rec, req[r].now) # None /\ req[r].now \in Nat
        /\ req[r].pc = "spawn" /\ produced[p] \in Int
    BY DEF Spawn, Base, Ready, HandsFull, TypeOK, Request
  <2>2. rec # None
    BY <2>1, NotRows
  <2>3. Reached(rec, produced[p])
    BY <2>1, <2>2 DEF Advancing, InHand, Saving, Handling
  <2>4. NextDue(rec, req[r].now) * PerDay > produced[p]
    BY <2>1, <2>3, Onward
  <2>5. todos'[t].due = NextDue(rec, req[r].now) * PerDay
    BY DEF Instance
  <2> QED BY <2>4, <2>5
<1> QED BY <1>1, <1>2, BaseInit, AdvancingInit, PTL DEF Spec, DatesAdvance

-----------------------------------------------------------------------------
(* Multiples *)

LEMMA Division ==
  ASSUME NEW x \in Int, NEW k \in Nat \ {0}
  PROVE  /\ x \div k \in Int /\ x % k \in 0..(k - 1)
         /\ x = k * (x \div k) + (x % k)
OBVIOUS

\* A larger factor makes a multiple larger by the other one at least.
LEMMA Larger ==
  ASSUME NEW i \in Int, NEW j \in Int, NEW k \in Nat \ {0}, i < j
  PROVE  i * k + k <= j * k /\ i * k < j * k
<1>1. PICK d \in Nat : j = i + 1 + d
  <2>1. j - i - 1 \in Nat /\ j = i + 1 + (j - i - 1)
    OBVIOUS
  <2> QED BY <2>1
<1>2. j * k = i * k + k + d * k /\ d * k >= 0
  BY <1>1
<1> QED BY <1>2

\* A multiple is divided without a rest, and only a multiple is.
LEMMA Multiple ==
  ASSUME NEW i \in Int, NEW k \in Nat \ {0}
  PROVE  (i * k) % k = 0 /\ (i * k) \div k = i
<1> DEFINE x == i * k
           q == x \div k
           s == x % k
<1>1. x \in Int /\ q \in Int /\ s \in 0..(k - 1) /\ x = k * q + s
  <2>1. x \in Int
    OBVIOUS
  <2> HIDE DEF x
  <2> QED BY <2>1, Division
<1> HIDE DEF q, s
<1>2. ~(q < i)
  <2>1. q < i => q * k + k <= i * k
    BY <1>1, Larger
  <2> QED BY <1>1, <2>1
<1>3. ~(i < q)
  <2>1. i < q => i * k + k <= q * k
    BY <1>1, Larger
  <2> QED BY <1>1, <2>1
<1>4. q = i
  BY <1>1, <1>2, <1>3
<1>5. s = 0
  BY <1>1, <1>4
<1> QED BY <1>4, <1>5 DEF q, s

LEMMA IsMultiple ==
  ASSUME NEW x \in Int, NEW k \in Nat \ {0}, x % k = 0
  PROVE  /\ x \div k \in Int /\ x = (x \div k) * k
         /\ x >= 0 => x \div k >= 0
<1> DEFINE q == x \div k
<1>1. q \in Int /\ x = k * q + (x % k)
  BY Division
<1> HIDE DEF q
<1>2. x = q * k
  BY <1>1
<1>3. ASSUME x >= 0, q < 0 PROVE FALSE
  <2>1. q * k + k <= 0 * k
    BY <1>1, <1>3, Larger
  <2> QED BY <1>2, <1>3, <2>1
<1> QED BY <1>1, <1>2, <1>3 DEF q

-----------------------------------------------------------------------------
(* The first number of some that have a property *)

LEMMA First ==
  ASSUME NEW S \in SUBSET Int, NEW low \in Int, \A n \in S : low <= n, S # {}
  PROVE  \E n \in S : \A k \in S : n <= k
<1> DEFINE T == {n - low : n \in S}
<1>1. T \subseteq Nat /\ T # {}
  <2>1. \A n \in S : n - low \in Nat
    OBVIOUS
  <2> QED BY <2>1
<1> HIDE DEF T
<1>2. PICK t \in T : \A u \in T : <<u, t>> \notin OpToRel(<, Nat)
  BY <1>1, NatLessThanWellFounded, WFMin
<1>3. ASSUME NEW u \in T PROVE t <= u
  <2>1. u \in Nat /\ t \in Nat
    BY <1>1
  <2>2. u < t => <<u, t>> \in OpToRel(<, Nat)
    BY <2>1 DEF OpToRel
  <2>3. ~(u < t)
    BY <1>2, <2>2
  <2> QED BY <2>1, <2>3
<1>4. \E n \in S : t = n - low /\ \A k \in S : t <= k - low
  BY <1>3 DEF T
<1> QED BY <1>4

-----------------------------------------------------------------------------
(* The calendar *)

\* The day a year of the calendar begins on, in March, and the days before its month p.
YearStart(a)  == 365 * a + a \div 4 - a \div 100 + a \div 400
MonthStart(p) == (153 * p + 2) \div 5

LEMMA YearLength ==
  ASSUME NEW a \in Int
  PROVE  YearStart(a + 1) = YearStart(a) + (IF IsLeap(a + 1) THEN 366 ELSE 365)
<1>1. (a + 1) \div 4 = a \div 4 + (IF (a + 1) % 4 = 0 THEN 1 ELSE 0)
  OBVIOUS
<1>2. (a + 1) \div 100 = a \div 100 + (IF (a + 1) % 100 = 0 THEN 1 ELSE 0)
  OBVIOUS
<1>3. (a + 1) \div 400 = a \div 400 + (IF (a + 1) % 400 = 0 THEN 1 ELSE 0)
  OBVIOUS
<1>4. ((a + 1) % 400 = 0 => (a + 1) % 100 = 0) /\ ((a + 1) % 100 = 0 => (a + 1) % 4 = 0)
  OBVIOUS
<1> QED BY <1>1, <1>2, <1>3, <1>4 DEF YearStart, IsLeap

LEMMA YearsGrow ==
  ASSUME NEW a \in Int, NEW b \in Int, a <= b
  PROVE  YearStart(a) \in Int /\ YearStart(b) \in Int /\ YearStart(a) <= YearStart(b)
<1>1. a \div 4 - a \div 100 <= b \div 4 - b \div 100
  <2>1. ASSUME NEW x \in Int, NEW y \in Int, x <= y PROVE x - x \div 25 <= y - y \div 25
    BY <2>1
  <2>2. a \div 4 <= b \div 4 /\ a \div 100 = (a \div 4) \div 25 /\ b \div 100 = (b \div 4) \div 25
    OBVIOUS
  <2> QED BY <2>1, <2>2
<1>2. a \div 400 <= b \div 400
  OBVIOUS
<1> QED BY <1>1, <1>2 DEF YearStart

LEMMA MonthTable ==
  /\ MonthStart(0) = 0    /\ MonthStart(1) = 31   /\ MonthStart(2) = 61
  /\ MonthStart(3) = 92   /\ MonthStart(4) = 122  /\ MonthStart(5) = 153
  /\ MonthStart(6) = 184  /\ MonthStart(7) = 214  /\ MonthStart(8) = 245
  /\ MonthStart(9) = 275  /\ MonthStart(10) = 306 /\ MonthStart(11) = 337
BY DEF MonthStart

Months == 1..12

\* The year a date belongs to when years begin in March, and its month in that year.
MarchYear(y, m)  == IF m <= 2 THEN y - 1 ELSE y
MarchMonth(m)    == (m + 9) % 12

LEMMA MarchIs ==
  ASSUME NEW y \in Int, NEW m \in Months
  PROVE  /\ MarchYear(y, m) \in Int /\ MarchMonth(m) \in 0..11
         /\ 12 * MarchYear(y, m) + MarchMonth(m) + 3 = 12 * y + m
BY DEF MarchYear, MarchMonth, Months

\* A day of a month is so many days after its first.
LEMMA DaysCount ==
  ASSUME NEW y \in Int, NEW m \in Months
  PROVE  /\ DayNo(y, m, 1) = YearStart(MarchYear(y, m)) + MonthStart(MarchMonth(m))
         /\ DayNo(y, m, 1) \in Int
         /\ \A d \in Int : DayNo(y, m, d) = DayNo(y, m, 1) + d - 1
<1> DEFINE s == YearStart(MarchYear(y, m)) + MonthStart(MarchMonth(m))
<1>1. s \in Int
  <2>1. MarchYear(y, m) \in Int /\ MarchMonth(m) \in 0..11
    BY MarchIs
  <2> QED BY <2>1 DEF YearStart, MonthStart
<1>2. ASSUME NEW d \in Int PROVE DayNo(y, m, d) = s + d - 1
  BY DEF DayNo, YearStart, MarchYear, MonthStart, MarchMonth, Months
<1> HIDE DEF s
<1>3. DayNo(y, m, 1) = s
  BY <1>1, <1>2
<1> QED BY <1>1, <1>2, <1>3 DEF s

\* A month ends where the next one begins, the last one of a year (February) where the
\* next year begins.
LEMMA MonthEnds ==
  ASSUME NEW y \in Int, NEW m \in Months
  PROVE  /\ LastDay(y, m) \in 28..31
         /\ MarchMonth(m) < 11 =>
              MonthStart(MarchMonth(m)) + LastDay(y, m) = MonthStart(MarchMonth(m) + 1)
         /\ MarchMonth(m) = 11 =>
              YearStart(MarchYear(y, m)) + MonthStart(MarchMonth(m)) + LastDay(y, m)
                = YearStart(MarchYear(y, m) + 1)
<1>1. LastDay(y, m) \in 28..31
  BY DEF LastDay
<1>2. MarchMonth(m) = IF m <= 2 THEN m + 9 ELSE m - 3
  BY DEF MarchMonth, Months
<1>3. ASSUME MarchMonth(m) = 11
      PROVE  YearStart(MarchYear(y, m)) + MonthStart(MarchMonth(m)) + LastDay(y, m)
                = YearStart(MarchYear(y, m) + 1)
  <2>1. m = 2 /\ MarchYear(y, m) = y - 1 /\ y - 1 \in Int /\ (y - 1) + 1 = y
    BY <1>2, <1>3 DEF MarchYear, Months
  <2>2. YearStart(y) = YearStart(y - 1) + (IF IsLeap(y) THEN 366 ELSE 365)
    BY <2>1, YearLength
  <2>3. YearStart(y - 1) \in Int
    BY DEF YearStart
  <2> QED BY <1>3, <2>1, <2>2, <2>3, MonthTable DEF LastDay
<1>4. ASSUME MarchMonth(m) < 11
      PROVE  MonthStart(MarchMonth(m)) + LastDay(y, m) = MonthStart(MarchMonth(m) + 1)
  <2>1. m # 2
    BY <1>2, <1>4
  <2>2. CASE m = 1
    BY <1>2, <2>2, MonthTable DEF LastDay
  <2>3. CASE m \in 3..12
    BY <1>2, <2>3, MonthTable DEF LastDay
  <2> QED BY <2>1, <2>2, <2>3 DEF Months
<1> QED BY <1>1, <1>3, <1>4

\* Days of a month lie before those of a later one.
LEMMA MonthsGrow ==
  ASSUME NEW y \in Int, NEW m \in Months, NEW z \in Int, NEW o \in Months, 12 * y + m < 12 * z + o
  PROVE  DayNo(y, m, 1) + LastDay(y, m) <= DayNo(z, o, 1)
<1> DEFINE a == MarchYear(y, m)  p == MarchMonth(m)
           b == MarchYear(z, o)  q == MarchMonth(o)
<1>1. a \in Int /\ p \in 0..11 /\ b \in Int /\ q \in 0..11
  BY MarchIs
<1>2. 12 * a + p + 3 = 12 * y + m /\ 12 * b + q + 3 = 12 * z + o
  BY MarchIs
<1>3. /\ YearStart(a) \in Int /\ YearStart(b) \in Int
      /\ MonthStart(p) \in 0..337 /\ MonthStart(q) \in 0..337
      /\ p < 11 => MonthStart(p + 1) \in 0..337
  <2> HIDE DEF a, p, b, q
  <2> QED BY <1>1 DEF YearStart, MonthStart
<1>4. /\ DayNo(y, m, 1) = YearStart(a) + MonthStart(p)
      /\ DayNo(z, o, 1) = YearStart(b) + MonthStart(q)
  BY DaysCount
<1>5. LastDay(y, m) \in 28..31
      /\ (p < 11 => MonthStart(p) + LastDay(y, m) = MonthStart(p + 1))
      /\ (p = 11 => YearStart(a) + MonthStart(p) + LastDay(y, m) = YearStart(a + 1))
  BY MonthEnds
<1> DEFINE last == LastDay(y, m)  A == YearStart(a)  B == YearStart(b)
           here == MonthStart(p)  there == MonthStart(q)
<1> HIDE DEF a, p, b, q
<1>0. /\ last \in 28..31 /\ A \in Int /\ B \in Int /\ here \in 0..337 /\ there \in 0..337
      /\ DayNo(y, m, 1) = A + here /\ DayNo(z, o, 1) = B + there
  BY <1>3, <1>4, <1>5
<1>6. a < b => YearStart(a) + 365 <= YearStart(b) /\ YearStart(a + 1) <= YearStart(b)
  <2>1. YearStart(a + 1) = YearStart(a) + (IF IsLeap(a + 1) THEN 366 ELSE 365)
    BY <1>1, YearLength
  <2>2. a < b => YearStart(a + 1) <= YearStart(b)
    BY <1>1, YearsGrow
  <2> QED BY <1>3, <2>1, <2>2
<1>7. CASE a = b
  <2>1. p < q /\ p < 11 /\ p + 1 \in 0..11
    BY <1>1, <1>2, <1>7
  <2>2. MonthStart(p + 1) <= MonthStart(q)
    BY <1>1, <2>1 DEF MonthStart
  <2>3. MonthStart(p) + LastDay(y, m) <= MonthStart(q)
    BY <1>5, <2>1, <2>2
  <2>4. here + last <= there /\ A = B
    BY <1>7, <2>3
  <2> HIDE DEF last, A, B, here, there
  <2> QED BY <1>0, <2>4 DEF last
<1>8. CASE a < b
  <2>2. CASE p < 11
    <3>1. here + last <= 365 /\ A + 365 <= B
      BY <1>3, <1>5, <1>6, <1>8, <2>2
    <3> HIDE DEF last, A, B, here, there
    <3> QED BY <1>0, <3>1 DEF last
  <2>3. CASE p = 11
    <3>1. YearStart(a + 1) \in Int
      BY <1>1, YearsGrow
    <3> QED BY <1>3, <1>4, <1>5, <1>6, <1>8, <2>3, <3>1
  <2> QED BY <1>1, <2>2, <2>3
<1>9. a <= b
  BY <1>1, <1>2
<1> QED BY <1>1, <1>7, <1>8, <1>9

\* Date gives a day of the calendar, and DayNo leads back from it.
LEMMA DateIs ==
  ASSUME NEW n \in Int
  PROVE  /\ Date(n)[1] \in Int /\ Date(n)[2] \in Months
         /\ Date(n)[3] \in 1..LastDay(Date(n)[1], Date(n)[2])
         /\ DayNo(Date(n)[1], Date(n)[2], Date(n)[3]) = n
<1> DEFINE e   == n \div 146097
           c   == n % 146097
           yoc == (c - c \div 1460 + c \div 36524 - c \div 146096) \div 365
           doy == c - (365 * yoc + yoc \div 4 - yoc \div 100)
           k   == (5 * doy + 2) \div 153
           m   == IF k < 10 THEN k + 3 ELSE k - 9
           y   == e * 400 + yoc + (IF m <= 2 THEN 1 ELSE 0)
           d   == doy - (153 * k + 2) \div 5 + 1
           a   == 400 * e + yoc
<1>1. Date(n) = <<y, m, d>>
  BY DEF Date
<1>2. e \in Int /\ c \in Int /\ 0 <= c /\ c < 146097 /\ n = 146097 * e + c
  OBVIOUS
<1> HIDE DEF e, c
<1>3. /\ yoc \in Int /\ 0 <= yoc /\ yoc < 400 /\ doy \in Int /\ 0 <= doy /\ doy <= 365
      /\ ~IsLeap(yoc + 1) => doy # 365
  <2>1. yoc = (c - c \div 1460 + c \div 36524 - c \div 146096) \div 365
    OBVIOUS
  <2>2. doy = c - (365 * yoc + yoc \div 4 - yoc \div 100)
    OBVIOUS
  <2> HIDE DEF yoc, doy
  <2>3. yoc \in Int /\ doy \in Int
    BY <1>2, <2>1, <2>2
  <2>4. 0 <= yoc /\ yoc < 400 /\ 0 <= doy /\ doy <= 365
    BY <1>2, <2>1, <2>2, <2>3
  <2>5. ~IsLeap(yoc + 1) => doy # 365
    BY <1>2, <2>1, <2>2, <2>3 DEF IsLeap
  <2> QED BY <2>3, <2>4, <2>5
<1>4. YearStart(a) = 146097 * e + (c - doy)
  <2>1. doy = c - (365 * yoc + yoc \div 4 - yoc \div 100)
    OBVIOUS
  <2> HIDE DEF yoc, doy
  <2>2. a \div 4 = 100 * e + yoc \div 4 /\ a \div 100 = 4 * e + yoc \div 100 /\ a \div 400 = e
    BY <1>2, <1>3
  <2>3. yoc \div 4 \in Int /\ yoc \div 100 \in Int
    BY <1>3
  <2> QED BY <1>2, <1>3, <2>1, <2>2, <2>3 DEF YearStart
<1>5. IsLeap(yoc + 1) => IsLeap(a + 1)
  <2> HIDE DEF yoc
  <2> QED BY <1>2, <1>3 DEF IsLeap
<1> HIDE DEF yoc, doy
<1>6. /\ k \in 0..11 /\ MonthStart(k) \in Int /\ MonthStart(k) <= doy
      /\ k < 11 => MonthStart(k + 1) \in Int /\ doy < MonthStart(k + 1)
  BY <1>3 DEF MonthStart
<1>7. d = doy - MonthStart(k) + 1
  BY DEF MonthStart
<1> HIDE DEF k, d
<1>8. /\ m \in Months /\ y \in Int /\ MarchMonth(m) = k /\ MarchYear(y, m) = a
  BY <1>2, <1>3, <1>6 DEF MarchMonth, MarchYear, Months
<1> HIDE DEF m, y
<1>9. d \in Int /\ d >= 1
  BY <1>3, <1>6, <1>7
<1>10. DayNo(y, m, d) = n
  <2>1. DayNo(y, m, d) = DayNo(y, m, 1) + d - 1 /\ DayNo(y, m, 1) = YearStart(a) + MonthStart(k)
    BY <1>8, <1>9, DaysCount
  <2> QED BY <1>2, <1>3, <1>4, <1>6, <1>7, <2>1
<1>11. d <= LastDay(y, m)
  <2>1. LastDay(y, m) \in 28..31
        /\ (k < 11 => MonthStart(k) + LastDay(y, m) = MonthStart(k + 1))
    BY <1>8, MonthEnds
  <2>2. CASE k < 11
    BY <1>3, <1>6, <1>7, <2>1, <2>2
  <2>3. CASE k = 11
    <3>1. m = 2 /\ y = a + 1
      BY <1>8, <2>3 DEF MarchMonth, MarchYear, Months
    <3>2. doy <= 364 \/ LastDay(y, m) = 29
      BY <1>3, <1>5, <3>1 DEF LastDay
    <3>3. LastDay(y, m) >= 28 /\ MonthStart(k) = 337
      BY <2>1, <2>3, MonthTable
    <3> QED BY <1>3, <1>7, <2>1, <3>2, <3>3
  <2> QED BY <1>6, <2>2, <2>3
<1> QED BY <1>1, <1>8, <1>9, <1>10, <1>11

\* A day of the calendar is the date of one day only.
LEMMA DateOf ==
  ASSUME NEW y \in Int, NEW m \in Months, NEW d \in Int, 1 <= d, d <= LastDay(y, m)
  PROVE  Date(DayNo(y, m, d)) = <<y, m, d>>
<1> DEFINE n == DayNo(y, m, d)  z == Date(n)[1]  o == Date(n)[2]  f == Date(n)[3]
<1>1. n \in Int
  <2>1. DayNo(y, m, 1) \in Int /\ n = DayNo(y, m, 1) + d - 1
    BY DaysCount
  <2> HIDE DEF n
  <2> QED BY <2>1
<1>2. /\ z \in Int /\ o \in Months /\ f \in 1..LastDay(z, o) /\ DayNo(z, o, f) = n
      /\ Date(n) = <<z, o, f>>
  <2>1. Date(n) = <<z, o, f>>
    BY DEF Date
  <2> QED BY <1>1, <2>1, DateIs
<1> HIDE DEF z, o, f
<1>3. LastDay(y, m) \in 28..31 /\ LastDay(z, o) \in 28..31
  BY <1>2, MonthEnds
<1>4. /\ n = DayNo(y, m, 1) + d - 1 /\ n = DayNo(z, o, 1) + f - 1
      /\ DayNo(y, m, 1) \in Int /\ DayNo(z, o, 1) \in Int /\ f \in Int
  <2>1. f \in Int
    BY <1>2, <1>3
  <2> QED BY <1>2, <2>1, DaysCount
<1> HIDE DEF n
<1>5. ~(12 * y + m < 12 * z + o)
  <2> SUFFICES ASSUME 12 * y + m < 12 * z + o PROVE FALSE
    OBVIOUS
  <2>1. DayNo(y, m, 1) + LastDay(y, m) <= DayNo(z, o, 1)
    BY <1>2, MonthsGrow
  <2> QED BY <1>2, <1>3, <1>4, <2>1
<1>6. ~(12 * z + o < 12 * y + m)
  <2> SUFFICES ASSUME 12 * z + o < 12 * y + m PROVE FALSE
    OBVIOUS
  <2>1. DayNo(z, o, 1) + LastDay(z, o) <= DayNo(y, m, 1)
    BY <1>2, MonthsGrow
  <2> QED BY <1>2, <1>3, <1>4, <2>1
<1>7. y = z /\ m = o
  BY <1>2, <1>5, <1>6 DEF Months
<1>8. d = f
  BY <1>2, <1>4, <1>7
<1> QED BY <1>2, <1>7, <1>8 DEF n

\* The first day of a month that a day of it is not before, and a later day of a later month.
LEMMA Clamping ==
  ASSUME NEW y \in Int, NEW m \in Months, NEW d \in Int, 1 <= d
  PROVE  /\ ClampDay(y, m, d) \in Int
         /\ DayNo(y, m, 1) <= ClampDay(y, m, d)
         /\ ClampDay(y, m, d) < DayNo(y, m, 1) + LastDay(y, m)
         /\ Date(ClampDay(y, m, d)) = <<y, m, IF d > LastDay(y, m) THEN LastDay(y, m) ELSE d>>
<1> DEFINE c == IF d > LastDay(y, m) THEN LastDay(y, m) ELSE d
<1>1. LastDay(y, m) \in 28..31
  BY MonthEnds
<1>2. c \in Int /\ 1 <= c /\ c <= LastDay(y, m)
  BY <1>1
<1>3. ClampDay(y, m, d) = DayNo(y, m, c)
  BY DEF ClampDay
<1> HIDE DEF c
<1>4. DayNo(y, m, c) = DayNo(y, m, 1) + c - 1 /\ DayNo(y, m, 1) \in Int
  BY <1>2, DaysCount
<1>5. Date(DayNo(y, m, c)) = <<y, m, c>>
  BY <1>2, DateOf
<1>6. /\ DayNo(y, m, c) \in Int /\ DayNo(y, m, 1) <= DayNo(y, m, c)
      /\ DayNo(y, m, c) < DayNo(y, m, 1) + LastDay(y, m)
  BY <1>1, <1>2, <1>4
<1> QED BY <1>3, <1>5, <1>6 DEF c

LEMMA ClampsGrow ==
  ASSUME NEW y \in Int, NEW m \in Months, NEW z \in Int, NEW o \in Months,
         NEW d \in Int, 1 <= d, 12 * y + m < 12 * z + o
  PROVE  ClampDay(y, m, d) < ClampDay(z, o, d)
<1>1. DayNo(y, m, 1) + LastDay(y, m) <= DayNo(z, o, 1)
  BY MonthsGrow
<1>2. LastDay(y, m) \in 28..31 /\ DayNo(y, m, 1) \in Int /\ DayNo(z, o, 1) \in Int
  BY MonthEnds, DaysCount
<1>3. /\ ClampDay(y, m, d) \in Int /\ ClampDay(z, o, d) \in Int
      /\ ClampDay(y, m, d) < DayNo(y, m, 1) + LastDay(y, m)
      /\ DayNo(z, o, 1) <= ClampDay(z, o, d)
  BY Clamping
<1> QED BY <1>1, <1>2, <1>3

-----------------------------------------------------------------------------
(* Patterns *)

LEMMA PatternIs ==
  ASSUME NEW r \in Rec
  PROVE  /\ r.every \in Nat \ {0} /\ r.anchor[1] \in Int /\ r.anchor[2] \in Months
         /\ r.anchor[3] \in Int /\ 1 <= r.anchor[3]
         /\ Anchor(r) \in Int /\ DayOf(r) \in Int /\ 1 <= DayOf(r) /\ MonthOf(r) \in Months
         /\ r.weekdays \subseteq 0..6 /\ (r.end = None \/ r.end \in Int)
         /\ r.period \in {"daily", "weekly", "monthly", "yearly"}
<1>1. /\ r.every \in Nat \ {0} /\ r.anchor \in Nat \X (1..12) \X (1..31)
      /\ r.weekdays \in SUBSET (0..6) /\ r.day \in 0..31 /\ r.month \in 0..12
      /\ r.end \in Int \cup {None} /\ r.period \in {"daily", "weekly", "monthly", "yearly"}
  BY DEF Rec
<1>2. /\ r.anchor[1] \in Int /\ r.anchor[2] \in Months
      /\ r.anchor[3] \in Int /\ 1 <= r.anchor[3]
  BY <1>1 DEF Months
<1>3. Anchor(r) \in Int
  <2>1. DayNo(r.anchor[1], r.anchor[2], 1) \in Int
    BY <1>2, DaysCount
  <2>2. Anchor(r) = DayNo(r.anchor[1], r.anchor[2], 1) + r.anchor[3] - 1
    BY <1>2, DaysCount DEF Anchor
  <2> QED BY <1>2, <2>1, <2>2
<1>4. DayOf(r) \in Int /\ 1 <= DayOf(r)
  BY <1>1, <1>2 DEF DayOf
<1>5. MonthOf(r) \in Months
  BY <1>2 DEF MonthOf, Months
<1> QED BY <1>1, <1>2, <1>3, <1>4, <1>5

\* Day n is on the pattern, whatever its end.
OnPattern(r, n) ==
  /\ n >= Anchor(r)
  /\ CASE r.period = "daily" -> (n - Anchor(r)) % r.every = 0
       [] r.period = "weekly" ->
            /\ IF r.weekdays = {} THEN Weekday(n) = Weekday(Anchor(r))
               ELSE Weekday(n) \in r.weekdays
            /\ \E k \in 0 .. (n - Anchor(r)) \div 7 + 1 :
                 WeekStart(n) = WeekStart(Anchor(r)) + 7 * r.every * k
       [] r.period = "monthly" -> MonthsSince(r, n) % r.every = 0 /\ OnDayOfMonth(r, n)
       [] OTHER -> /\ (Date(n)[1] - r.anchor[1]) % r.every = 0
                   /\ Date(n)[2] = MonthOf(r) /\ OnDayOfMonth(r, n)

LEMMA OccursIs ==
  ASSUME NEW r, NEW n
  PROVE  Occurs(r, n) <=> OnPattern(r, n) /\ (r.end = None \/ n <= r.end)
BY DEF Occurs, OnPattern

\* A search from floor finds the first day after it that is on the pattern.
Finds(r, floor, next) ==
  /\ next \in Int /\ floor < next /\ OnPattern(r, next)
  /\ \A n \in Int : floor < n /\ n < next => ~OnPattern(r, n)

-----------------------------------------------------------------------------
(* Daily patterns *)

LEMMA DailyFinds ==
  ASSUME NEW r \in Rec, r.period = "daily", NEW floor \in Int, Anchor(r) - 1 <= floor
  PROVE  Finds(r, floor, NextDaily(r, floor))
<1> DEFINE a == Anchor(r)  e == r.every  next == NextDaily(r, floor)
           x == floor - a  q == x \div e
<1>1. a \in Int /\ e \in Nat \ {0}
  BY PatternIs
<1>2. \A n : OnPattern(r, n) <=> n >= a /\ (n - a) % e = 0
  BY DEF OnPattern
<1>3. CASE floor < a
  <2>1. next = a /\ floor + 1 = a
    BY <1>1, <1>3 DEF NextDaily, EveryNth
  <2>2. (a - a) % e = 0
    <3>1. (0 * e) % e = 0 /\ 0 * e = 0 /\ a - a = 0
      BY <1>1, Multiple
    <3> QED BY <3>1
  <2> HIDE DEF a, e, next
  <2> QED BY <1>1, <1>2, <1>3, <2>1, <2>2 DEF Finds, next
<1>4. CASE a <= floor
  <2>1. next = a + (q + 1) * e
    BY <1>1, <1>4 DEF NextDaily, EveryNth
  <2>2. x \in Int /\ q \in Int /\ x = e * q + (x % e) /\ x % e \in 0..(e - 1)
    <3>1. x \in Int
      BY <1>1
    <3> HIDE DEF x
    <3> QED BY <1>1, <3>1, Division
  <2>3. x = floor - a
    OBVIOUS
  <2> HIDE DEF x, q, a, e, next
  <2>4. /\ (q + 1) * e = q * e + e /\ q * e <= x /\ x < q * e + e
        /\ q * e \in Int /\ (q + 1) * e \in Int
    BY <1>1, <2>2
  <2>5. ((q + 1) * e) % e = 0
    <3>1. q + 1 \in Int
      BY <2>2
    <3> QED BY <1>1, <3>1, Multiple
  <2>6. next \in Int /\ floor < next /\ next >= a /\ next - a = (q + 1) * e
    BY <1>1, <1>4, <2>1, <2>3, <2>4
  <2>7. ASSUME NEW n \in Int, floor < n, n < next, (n - a) % e = 0 PROVE FALSE
    <3> DEFINE p == (n - a) \div e
    <3>1. p \in Int /\ n - a = p * e
      <4>1. n - a \in Int
        BY <1>1
      <4> QED BY <1>1, <2>7, <4>1, IsMultiple
    <3> HIDE DEF p
    <3>2. p * e \in Int /\ x < p * e /\ p * e < (q + 1) * e
      BY <1>1, <2>1, <2>3, <2>4, <2>6, <2>7, <3>1
    <3>3. ~(p < q + 1)
      <4>1. ~(q < p) => p * e <= q * e
        BY <1>1, <2>2, <3>1, Larger
      <4>2. q < p
        BY <2>2, <2>4, <3>2, <4>1
      <4> QED BY <2>2, <3>1, <4>2
    <3>4. (q + 1) * e <= p * e
      <4>1. q + 1 \in Int /\ (q + 1 < p \/ q + 1 = p)
        BY <2>2, <3>1, <3>3
      <4> QED BY <1>1, <3>1, <3>2, <4>1, Larger
    <3> QED BY <2>4, <3>2, <3>4
  <2> QED BY <1>2, <2>5, <2>6, <2>7 DEF Finds, next
<1> QED BY <1>1, <1>3, <1>4

-----------------------------------------------------------------------------
(* Weekly patterns *)

Weekdays(r) == IF r.weekdays = {} THEN {Weekday(Anchor(r))} ELSE r.weekdays
Weeks(r, n) == (WeekStart(n) - WeekStart(Anchor(r))) \div 7

\* A week begins on a Sunday, and holds the six days after it.
LEMMA WeekIs ==
  ASSUME NEW n \in Int
  PROVE  /\ Weekday(n) \in 0..6 /\ WeekStart(n) \in Int
         /\ n = WeekStart(n) + Weekday(n) /\ (WeekStart(n) + 3) % 7 = 0
BY DEF WeekStart, Weekday

LEMMA WeeksBetween ==
  ASSUME NEW r \in Rec, NEW n \in Int
  PROVE  /\ Weeks(r, n) \in Int
         /\ WeekStart(n) = WeekStart(Anchor(r)) + 7 * Weeks(r, n)
         /\ Anchor(r) <= n => 0 <= Weeks(r, n) /\ Weeks(r, n) <= (n - Anchor(r)) \div 7 + 1
<1> DEFINE a == Anchor(r)  s == WeekStart(n)  b == WeekStart(a)
<1>1. a \in Int
  BY PatternIs
<1>2. s \in Int /\ (s + 3) % 7 = 0 /\ s <= n /\ n <= s + 6
  <2>1. Weekday(n) \in 0..6 /\ s \in Int /\ n = s + Weekday(n) /\ (s + 3) % 7 = 0
    BY WeekIs
  <2> HIDE DEF s
  <2> QED BY <2>1
<1>6. b \in Int /\ (b + 3) % 7 = 0 /\ b <= a /\ a <= b + 6
  <2>1. Weekday(a) \in 0..6 /\ b \in Int /\ a = b + Weekday(a) /\ (b + 3) % 7 = 0
    BY <1>1, WeekIs
  <2> HIDE DEF a, b
  <2> QED BY <1>1, <2>1
<1>3. Weeks(r, n) = (s - b) \div 7
  BY DEF Weeks
<1> HIDE DEF a, s, b
<1>4. (s - b) \div 7 \in Int /\ s = b + 7 * ((s - b) \div 7)
  BY <1>2, <1>6
<1>5. a <= n => 0 <= (s - b) \div 7 /\ (s - b) \div 7 <= (n - a) \div 7 + 1
  BY <1>1, <1>2, <1>6
<1> QED BY <1>3, <1>4, <1>5 DEF a, s, b

\* The code counts the weeks since the anchor's; the pattern names one of every so many.
LEMMA WeeklyIs ==
  ASSUME NEW r \in Rec, r.period = "weekly", NEW n \in Int, Anchor(r) <= n
  PROVE  OnPattern(r, n) <=> Weekday(n) \in Weekdays(r) /\ Weeks(r, n) % r.every = 0
<1> DEFINE e == r.every  w == Weeks(r, n)  a == Anchor(r)  top == (n - a) \div 7 + 1
<1>1. e \in Nat \ {0} /\ w \in Int /\ 0 <= w /\ w <= top /\ a \in Int
      /\ WeekStart(a) \in Int /\ WeekStart(n) = WeekStart(a) + 7 * w
  <2>1. a \in Int
    BY PatternIs
  <2> QED BY <2>1, PatternIs, WeeksBetween, WeekIs
<1>2. top \in Int
  BY <1>1
<1>3. OnPattern(r, n) <=>
        Weekday(n) \in Weekdays(r)
          /\ \E k \in 0..top : WeekStart(n) = WeekStart(a) + 7 * e * k
  BY DEF OnPattern, Weekdays
<1> HIDE DEF e, w, a, top
<1>4. ASSUME w % e = 0 PROVE \E k \in 0..top : WeekStart(n) = WeekStart(a) + 7 * e * k
  <2> DEFINE k == w \div e
  <2>1. k \in Int /\ w = k * e /\ 0 <= k
    BY <1>1, <1>4, IsMultiple
  <2> HIDE DEF k
  <2>2. k <= w
    <3>1. k * e = k + k * (e - 1) /\ k * (e - 1) >= 0
      BY <1>1, <2>1
    <3> QED BY <1>1, <2>1, <3>1
  <2>3. 7 * e * k = 7 * w
    BY <1>1, <2>1
  <2>4. k \in 0..top
    BY <1>1, <1>2, <2>1, <2>2
  <2>5. WeekStart(n) = WeekStart(a) + 7 * e * k
    BY <1>1, <2>3
  <2> QED BY <2>4, <2>5
<1>5. ASSUME NEW k \in 0..top, WeekStart(n) = WeekStart(a) + 7 * e * k PROVE w % e = 0
  <2>1. k \in Int /\ 7 * e * k = 7 * (k * e) /\ k * e \in Int
    BY <1>1, <1>2
  <2>2. w = k * e
    BY <1>1, <1>5, <2>1
  <2> QED BY <1>1, <2>1, <2>2, Multiple
<1>6. w % e = 0 <=> \E k \in 0..top : WeekStart(n) = WeekStart(a) + 7 * e * k
  BY <1>4, <1>5
<1> QED BY <1>3, <1>6 DEF e, w

\* The days the search looks at, and those of them it is looking for.
Window(r, floor) == floor + 1 .. floor + r.every * 7 + 7
Hits(r, floor) ==
  {n \in Window(r, floor) : Weekday(n) \in Weekdays(r)
                              /\ Weeks(r, n) >= 0 /\ Weeks(r, n) % r.every = 0}

LEMMA NextWeeklyIs ==
  ASSUME NEW r, NEW floor
  PROVE  NextWeekly(r, floor) =
           IF Hits(r, floor) = {} THEN None
           ELSE CHOOSE n \in Hits(r, floor) : \A k \in Hits(r, floor) : n <= k
BY DEF NextWeekly, Hits, Window, Weekdays, Weeks

\* The search goes far enough: some week of the pattern lies within its reach.
LEMMA SomeHit ==
  ASSUME NEW r \in Rec, r.period = "weekly", NEW floor \in Int, Anchor(r) - 1 <= floor
  PROVE  Hits(r, floor) # {}
<1> DEFINE e == r.every  a == Anchor(r)  w == Weeks(r, floor + 1)  q == w \div e
           k == (q + 1) * e
<1>1. a \in Int /\ e \in Nat \ {0} /\ floor + 1 \in Int
  BY PatternIs
<1>2. w \in Int /\ WeekStart(floor + 1) = WeekStart(a) + 7 * w /\ 0 <= w
  <2>1. a <= floor + 1
    BY <1>1
  <2> QED BY <1>1, <2>1, WeeksBetween
<1>3. PICK d \in Weekdays(r) : d \in 0..6
  <2>1. Weekdays(r) \subseteq 0..6 /\ Weekdays(r) # {}
    BY <1>1, PatternIs, WeekIs DEF Weekdays
  <2> QED BY <2>1
<1> DEFINE n == WeekStart(a) + 7 * k + d
<1>4. q \in Int /\ w = e * q + (w % e) /\ w % e \in 0..(e - 1)
  <2> HIDE DEF w
  <2> QED BY <1>1, <1>2, Division
<1> HIDE DEF e, a, w, q
<1>5. k \in Int /\ w < k /\ k <= w + e /\ k % e = 0
  <2>1. q + 1 \in Int /\ k = q * e + e /\ q * e \in Int /\ k \in Int /\ e * q = q * e
    BY <1>1, <1>4
  <2>2. k % e = 0
    BY <1>1, <2>1, Multiple
  <2> HIDE DEF k
  <2> QED BY <1>1, <1>2, <1>4, <2>1, <2>2
<1> HIDE DEF k
<1>6. /\ WeekStart(a) \in Int /\ (WeekStart(a) + 3) % 7 = 0
      /\ floor + 1 = WeekStart(floor + 1) + Weekday(floor + 1) /\ Weekday(floor + 1) \in 0..6
  BY <1>1, WeekIs
<1>7. n \in Int /\ floor + 1 <= n /\ n <= floor + e * 7 + 7
  <2>1. n \in Int
    BY <1>3, <1>5, <1>6
  <2>2. floor + 1 <= WeekStart(a) + 7 * w + 6 /\ WeekStart(a) + 7 * w <= floor + 1
    BY <1>1, <1>2, <1>6
  <2> QED BY <1>1, <1>2, <1>3, <1>5, <1>6, <2>1, <2>2
<1>8. n \in Window(r, floor)
  <2>1. e * 7 \in Int /\ Window(r, floor) = floor + 1 .. floor + e * 7 + 7
    BY <1>1 DEF Window, e
  <2> HIDE DEF n
  <2> QED BY <1>7, <2>1
<1>9. Weekday(n) = d /\ WeekStart(n) = WeekStart(a) + 7 * k
  <2>1. Weekday(n) = d
    BY <1>3, <1>5, <1>6 DEF Weekday
  <2>2. WeekStart(n) = n - d
    BY <2>1 DEF WeekStart
  <2> QED BY <1>3, <1>5, <1>6, <2>1, <2>2
<1> HIDE DEF n
<1>10. Weeks(r, n) = k
  <2>1. WeekStart(n) = WeekStart(a) + 7 * Weeks(r, n) /\ Weeks(r, n) \in Int
    BY <1>7, WeeksBetween DEF a
  <2> QED BY <1>5, <1>6, <1>9, <2>1
<1>11. Weeks(r, n) >= 0 /\ Weeks(r, n) % r.every = 0
  BY <1>2, <1>5, <1>10 DEF e
<1> QED BY <1>3, <1>8, <1>9, <1>11 DEF Hits

LEMMA WeeklyFinds ==
  ASSUME NEW r \in Rec, r.period = "weekly", NEW floor \in Int, Anchor(r) - 1 <= floor
  PROVE  Finds(r, floor, NextWeekly(r, floor))
<1> DEFINE hits == Hits(r, floor)  next == NextWeekly(r, floor)
<1>1. Anchor(r) \in Int /\ r.every \in Nat \ {0}
  BY PatternIs
<1>2. \A n : n \in Window(r, floor) <=> n \in Int /\ floor + 1 <= n /\ n <= floor + r.every * 7 + 7
  BY <1>1 DEF Window
<1>3. \A n \in Int : floor < n => Anchor(r) <= n
  BY <1>1
<1>4. \A n \in hits : n \in Int /\ floor + 1 <= n /\ n <= floor + r.every * 7 + 7
  BY <1>2 DEF Hits
<1>5. next \in hits /\ \A k \in hits : next <= k
  <2>1. hits # {} /\ hits \subseteq Int /\ floor + 1 \in Int
    BY <1>4, SomeHit
  <2> HIDE DEF hits
  <2>2. \E n \in hits : \A k \in hits : n <= k
    BY <1>4, <2>1, First
  <2>3. next = CHOOSE n \in hits : \A k \in hits : n <= k
    BY <2>1, NextWeeklyIs DEF hits
  <2> HIDE DEF next
  <2> QED BY <2>2, <2>3
<1>6. ASSUME NEW n \in Int, floor < n, n <= floor + r.every * 7 + 7
      PROVE  n \in hits <=> OnPattern(r, n)
  <2>1. n \in Window(r, floor) /\ Anchor(r) <= n
    BY <1>2, <1>3, <1>6
  <2>2. Weeks(r, n) >= 0
    BY <2>1, WeeksBetween
  <2>3. OnPattern(r, n) <=> Weekday(n) \in Weekdays(r) /\ Weeks(r, n) % r.every = 0
    BY <2>1, WeeklyIs
  <2> QED BY <2>1, <2>2, <2>3 DEF Hits
<1> HIDE DEF hits, next
<1>7. next \in Int /\ floor < next /\ next <= floor + r.every * 7 + 7
  BY <1>4, <1>5
<1>8. OnPattern(r, next)
  BY <1>5, <1>6, <1>7
<1>9. ASSUME NEW n \in Int, floor < n, n < next PROVE ~OnPattern(r, n)
  <2>1. n <= floor + r.every * 7 + 7
    BY <1>1, <1>7, <1>9
  <2>2. n \notin hits
    BY <1>5, <1>7, <1>9
  <2> QED BY <1>6, <1>9, <2>1, <2>2
<1> QED BY <1>7, <1>8, <1>9 DEF Finds, next

-----------------------------------------------------------------------------
(* Monthly patterns *)

\* The candidates of a search by months: their year, their month and their day.
YearAt(r, i)    == r.anchor[1] + (r.anchor[2] - 1 + i * r.every) \div 12
MonthAt(r, i)   == ((r.anchor[2] - 1 + i * r.every) % 12) + 1
MonthlyAt(r, i) == ClampDay(YearAt(r, i), MonthAt(r, i), DayOf(r))

\* Candidates are the interval apart, counted in months.
LEMMA MonthAtIs ==
  ASSUME NEW r \in Rec, NEW i \in Int
  PROVE  /\ YearAt(r, i) \in Int /\ MonthAt(r, i) \in Months /\ i * r.every \in Int
         /\ 12 * YearAt(r, i) + MonthAt(r, i) = 12 * r.anchor[1] + r.anchor[2] + i * r.every
<1> DEFINE a == r.anchor[1]  m == r.anchor[2]  p == i * r.every  t == m - 1 + p
<1>1. a \in Int /\ m \in Months /\ m \in Int /\ p \in Int
  <2>1. r.every \in Nat \ {0} /\ a \in Int /\ m \in Months
    BY PatternIs
  <2> HIDE DEF a, m
  <2> QED BY <2>1 DEF Months
<1>2. YearAt(r, i) = a + t \div 12 /\ MonthAt(r, i) = (t % 12) + 1
  BY DEF YearAt, MonthAt
<1>3. t = m - 1 + p
  OBVIOUS
<1> HIDE DEF a, m, p, t
<1>4. t \in Int
  BY <1>1, <1>3
<1>5. t \div 12 \in Int /\ t % 12 \in Int /\ 0 <= t % 12 /\ t % 12 < 12
      /\ 12 * (t \div 12) + (t % 12) = t
  BY <1>4
<1>6. (t % 12) + 1 \in Months
  BY <1>4, <1>5 DEF Months
<1>7. a + t \div 12 \in Int /\ 12 * (a + t \div 12) + ((t % 12) + 1) = 12 * a + m + p
  BY <1>1, <1>3, <1>4, <1>5
<1>8. /\ YearAt(r, i) \in Int /\ MonthAt(r, i) \in Months
      /\ 12 * YearAt(r, i) + MonthAt(r, i) = 12 * a + m + p
  BY <1>2, <1>6, <1>7
<1> QED BY <1>1, <1>8 DEF a, m, p

LEMMA MonthlyIs ==
  ASSUME NEW r \in Rec, NEW i \in Int
  PROVE  /\ MonthlyAt(r, i) \in Int
         /\ MonthsSince(r, MonthlyAt(r, i)) = i * r.every
         /\ OnDayOfMonth(r, MonthlyAt(r, i))
<1> DEFINE y == YearAt(r, i)  m == MonthAt(r, i)  n == MonthlyAt(r, i)
<1>1. /\ y \in Int /\ m \in Months /\ i * r.every \in Int
      /\ 12 * y + m = 12 * r.anchor[1] + r.anchor[2] + i * r.every
  BY MonthAtIs
<1>2. DayOf(r) \in Int /\ 1 <= DayOf(r) /\ r.anchor[1] \in Int /\ r.anchor[2] \in Int
  BY PatternIs DEF Months
<1>3. n = ClampDay(y, m, DayOf(r))
  BY DEF MonthlyAt
<1> HIDE DEF y, m, n
<1>4. /\ n \in Int
      /\ Date(n) = <<y, m, IF DayOf(r) > LastDay(y, m) THEN LastDay(y, m) ELSE DayOf(r)>>
  BY <1>1, <1>2, <1>3, Clamping
<1>5. Date(n)[1] = y /\ Date(n)[2] = m
      /\ Date(n)[3] = IF DayOf(r) > LastDay(y, m) THEN LastDay(y, m) ELSE DayOf(r)
  BY <1>4
<1>6. MonthsSince(r, n) = 12 * (y - r.anchor[1]) + m - r.anchor[2]
  BY <1>5 DEF MonthsSince
<1>7. 12 * (y - r.anchor[1]) + m - r.anchor[2] = i * r.every
  <2> DEFINE a == r.anchor[1]  b == r.anchor[2]  p == i * r.every
  <2>1. m \in Int /\ y \in Int /\ a \in Int /\ b \in Int /\ p \in Int /\ 12 * y + m = 12 * a + b + p
    BY <1>1, <1>2 DEF Months
  <2> HIDE DEF a, b, p
  <2>2. 12 * (y - a) + m - b = p
    BY <2>1
  <2> QED BY <2>2 DEF a, b, p
<1>8. OnDayOfMonth(r, n)
  BY <1>5 DEF OnDayOfMonth
<1> QED BY <1>4, <1>6, <1>7, <1>8 DEF n

\* A later candidate is a later day.
LEMMA MonthlyGrows ==
  ASSUME NEW r \in Rec, NEW i \in Int, NEW j \in Int, i < j
  PROVE  MonthlyAt(r, i) < MonthlyAt(r, j)
<1>1. i * r.every < j * r.every /\ i * r.every \in Int /\ j * r.every \in Int
  BY PatternIs, Larger, MonthAtIs
<1>2. 12 * YearAt(r, i) + MonthAt(r, i) < 12 * YearAt(r, j) + MonthAt(r, j)
  <2>1. r.anchor[1] \in Int /\ r.anchor[2] \in Int
    BY PatternIs DEF Months
  <2>2. /\ 12 * YearAt(r, i) + MonthAt(r, i) = 12 * r.anchor[1] + r.anchor[2] + i * r.every
        /\ 12 * YearAt(r, j) + MonthAt(r, j) = 12 * r.anchor[1] + r.anchor[2] + j * r.every
    BY MonthAtIs
  <2> QED BY <1>1, <2>1, <2>2
<1>3. YearAt(r, i) \in Int /\ MonthAt(r, i) \in Months /\ YearAt(r, j) \in Int
      /\ MonthAt(r, j) \in Months
  BY MonthAtIs
<1>4. DayOf(r) \in Int /\ 1 <= DayOf(r)
  BY PatternIs
<1> QED BY <1>2, <1>3, <1>4, ClampsGrow DEF MonthlyAt

\* Two months of the calendar are the same when they are as many months from its start.
LEMMA SameMonth ==
  ASSUME NEW y \in Int, NEW m \in Months, NEW z \in Int, NEW o \in Months, 12 * y + m = 12 * z + o
  PROVE  y = z /\ m = o
BY DEF Months

\* A day not before the anchor is in no earlier month.
LEMMA NotBefore ==
  ASSUME NEW r \in Rec, NEW n \in Int, Anchor(r) <= n
  PROVE  MonthsSince(r, n) \in Int /\ 0 <= MonthsSince(r, n)
<1> DEFINE y == Date(n)[1]  m == Date(n)[2]  d == Date(n)[3]
           a == r.anchor[1]  b == r.anchor[2]  f == r.anchor[3]
<1>1. /\ y \in Int /\ m \in Months /\ d \in 1..LastDay(y, m) /\ DayNo(y, m, d) = n
  BY DateIs
<1>2. a \in Int /\ b \in Months /\ f \in Int /\ 1 <= f /\ Anchor(r) = DayNo(a, b, f)
  BY PatternIs DEF Anchor
<1>3. MonthsSince(r, n) = 12 * (y - a) + m - b
  BY DEF MonthsSince
<1> HIDE DEF y, m, d, a, b, f
<1>4. ~(12 * y + m < 12 * a + b)
  <2> SUFFICES ASSUME 12 * y + m < 12 * a + b PROVE FALSE
    OBVIOUS
  <2>1. DayNo(y, m, 1) + LastDay(y, m) <= DayNo(a, b, 1)
    BY <1>1, <1>2, MonthsGrow
  <2>2. LastDay(y, m) \in 28..31 /\ DayNo(y, m, 1) \in Int /\ DayNo(a, b, 1) \in Int
    BY <1>1, <1>2, MonthEnds, DaysCount
  <2>3. d \in Int /\ d <= LastDay(y, m)
    BY <1>1, <2>2
  <2>4. n = DayNo(y, m, 1) + d - 1
    BY <1>1, <2>3, DaysCount
  <2>5. Anchor(r) = DayNo(a, b, 1) + f - 1
    BY <1>2, DaysCount
  <2> QED BY <1>2, <2>1, <2>2, <2>3, <2>4, <2>5
<1>5. m \in Int /\ b \in Int
  BY <1>1, <1>2 DEF Months
<1> QED BY <1>1, <1>2, <1>3, <1>4, <1>5

\* A day on a monthly pattern is one of its candidates.
LEMMA OnlyMonthly ==
  ASSUME NEW r \in Rec, r.period = "monthly", NEW n \in Int, OnPattern(r, n)
  PROVE  \E i \in Nat : n = MonthlyAt(r, i)
<1> DEFINE y == Date(n)[1]  m == Date(n)[2]  d == Date(n)[3]
           a == r.anchor[1]  b == r.anchor[2]  since == MonthsSince(r, n)
           i == since \div r.every
<1>1. Anchor(r) <= n /\ since % r.every = 0 /\ OnDayOfMonth(r, n)
  <2>1. n >= Anchor(r) /\ since % r.every = 0 /\ OnDayOfMonth(r, n)
    BY DEF OnPattern
  <2> QED BY <2>1, PatternIs
<1>2. since \in Int /\ 0 <= since
  BY <1>1, NotBefore
<1>3. r.every \in Nat \ {0} /\ a \in Int /\ b \in Int
  BY PatternIs DEF Months
<1>4. since = 12 * (y - a) + m - b
  BY DEF MonthsSince
<1>5. i \in Nat /\ i * r.every = since
  <2> HIDE DEF since
  <2>1. i \in Int /\ since = i * r.every /\ 0 <= i
    BY <1>1, <1>2, <1>3, IsMultiple
  <2> HIDE DEF i
  <2> QED BY <2>1
<1>6. y \in Int /\ m \in Months /\ d \in 1..LastDay(y, m) /\ DayNo(y, m, d) = n
  BY DateIs
<1> HIDE DEF since, i
<1>7. /\ YearAt(r, i) \in Int /\ MonthAt(r, i) \in Months
      /\ 12 * YearAt(r, i) + MonthAt(r, i) = 12 * a + b + since
  BY <1>5, MonthAtIs
<1>8. d = IF DayOf(r) > LastDay(y, m) THEN LastDay(y, m) ELSE DayOf(r)
  BY <1>1 DEF OnDayOfMonth
<1> HIDE DEF y, m, d, a, b
<1>9. y = YearAt(r, i) /\ m = MonthAt(r, i)
  <2>1. m \in Int
    BY <1>6 DEF Months
  <2>2. 12 * y + m = 12 * YearAt(r, i) + MonthAt(r, i)
    BY <1>2, <1>3, <1>4, <1>6, <1>7, <2>1
  <2> QED BY <1>6, <1>7, <2>2, SameMonth
<1>10. n = MonthlyAt(r, i)
  <2>1. n = ClampDay(y, m, DayOf(r))
    BY <1>6, <1>8 DEF ClampDay
  <2> QED BY <1>9, <2>1 DEF MonthlyAt
<1> QED BY <1>5, <1>10

\* The candidates of a search that lie after the day it searches from.
LaterMonths(r, floor) == {i \in 0..MonthsTried - 1 : MonthlyAt(r, i) > floor}

LEMMA SomeTried == MonthsTried \in Nat /\ YearsTried \in Nat /\ 2 < MonthsTried /\ 2 < YearsTried
BY DEF MonthsTried, YearsTried

LEMMA NextMonthlyIs ==
  ASSUME NEW r, NEW floor
  PROVE  /\ LaterMonths(r, floor) = {} => NextMonthly(r, floor) = None
         /\ LaterMonths(r, floor) # {} =>
              \E i \in LaterMonths(r, floor) :
                /\ \A j \in LaterMonths(r, floor) : i <= j
                /\ NextMonthly(r, floor) = MonthlyAt(r, i)
<1> DEFINE L == LaterMonths(r, floor)
           later(i) == MonthlyAt(r, i) > floor
           chosen == CHOOSE i \in 0..MonthsTried - 1 : later(i) /\ \A j \in 0..i - 1 : ~later(j)
<1>1. NextMonthly(r, floor) =
        IF \E i \in 0..MonthsTried - 1 : later(i) THEN MonthlyAt(r, chosen) ELSE None
  BY DEF NextMonthly, MonthlyAt, YearAt, MonthAt
<1>2. \A i : i \in L <=> i \in 0..MonthsTried - 1 /\ later(i)
  BY DEF LaterMonths
<1>3. CASE L = {}
  BY <1>1, <1>2, <1>3
<1>4. CASE L # {}
  <2> HIDE DEF L, later
  <2>1. MonthsTried \in Nat
    BY SomeTried
  <2>2. L \subseteq Int /\ \A i \in L : 0 <= i
    BY <1>2, <2>1
  <2>3. PICK i \in L : \A j \in L : i <= j
    BY <1>4, <2>2, First
  <2>4. i \in 0..MonthsTried - 1 /\ later(i) /\ \A j \in 0..i - 1 : ~later(j)
    <3>1. ASSUME NEW j \in 0..i - 1 PROVE ~later(j)
      <4>1. j \in 0..MonthsTried - 1 /\ ~(i <= j)
        BY <1>2, <2>1, <2>3
      <4> QED BY <1>2, <2>3, <4>1
    <3> QED BY <1>2, <2>3, <3>1
  <2>5. chosen \in 0..MonthsTried - 1 /\ later(chosen) /\ \A j \in 0..chosen - 1 : ~later(j)
    BY <2>4
  <2> HIDE DEF chosen
  <2>6. chosen \in L
    BY <1>2, <2>5
  <2>7. ASSUME NEW j \in L PROVE chosen <= j
    <3>1. j \in 0..MonthsTried - 1 /\ later(j)
      BY <1>2
    <3> QED BY <2>1, <2>5, <3>1
  <2>8. NextMonthly(r, floor) = MonthlyAt(r, chosen)
    BY <1>1, <2>5
  <2> QED BY <1>4, <2>6, <2>7, <2>8 DEF L
<1> QED BY <1>3, <1>4

LEMMA MonthlyFinds ==
  ASSUME NEW r \in Rec, r.period = "monthly", NEW floor \in Int, Anchor(r) - 1 <= floor,
         LaterMonths(r, floor) # {}
  PROVE  Finds(r, floor, NextMonthly(r, floor))
<1> DEFINE next == NextMonthly(r, floor)
<1>1. PICK i \in LaterMonths(r, floor) :
        (\A j \in LaterMonths(r, floor) : i <= j) /\ next = MonthlyAt(r, i)
  BY NextMonthlyIs
<1> HIDE DEF next
<1>2. MonthsTried \in Nat /\ i \in Int /\ 0 <= i /\ i <= MonthsTried - 1 /\ floor < MonthlyAt(r, i)
  <2>1. MonthsTried \in Nat /\ i \in 0..MonthsTried - 1 /\ MonthlyAt(r, i) > floor
    BY SomeTried DEF LaterMonths
  <2>2. i \in Int /\ MonthlyAt(r, i) \in Int
    BY <2>1, MonthlyIs
  <2> QED BY <2>1, <2>2
<1>3. next \in Int /\ floor < next
  BY <1>1, <1>2, MonthlyIs
<1>4. OnPattern(r, next)
  <2>1. MonthsSince(r, next) = i * r.every /\ OnDayOfMonth(r, next)
    BY <1>1, <1>2, MonthlyIs
  <2>2. MonthsSince(r, next) % r.every = 0
    BY <1>2, <2>1, PatternIs, Multiple
  <2>3. next >= Anchor(r)
    BY <1>3, PatternIs
  <2> QED BY <2>1, <2>2, <2>3 DEF OnPattern
<1>5. ASSUME NEW n \in Int, floor < n, n < next, OnPattern(r, n) PROVE FALSE
  <2>1. PICK j \in Nat : n = MonthlyAt(r, j)
    BY <1>5, OnlyMonthly
  <2>2. ~(i < j) /\ i # j
    <3>1. i < j => MonthlyAt(r, i) < MonthlyAt(r, j)
      BY <1>2, MonthlyGrows
    <3> QED BY <1>1, <1>3, <1>5, <2>1, <3>1
  <2>3. j \in 0..MonthsTried - 1 /\ j < i
    BY <1>2, <2>2
  <2>4. j \in LaterMonths(r, floor)
    BY <1>5, <2>1, <2>3 DEF LaterMonths
  <2> QED BY <1>1, <1>2, <2>3, <2>4
<1> QED BY <1>3, <1>4, <1>5 DEF Finds, next

\* How far a search looks: from before the anchor always far enough, otherwise while
\* the last candidate lies in a later month (or year) than the day searched from.
MonthsInReach(r, floor) ==
  floor < Anchor(r) \/ MonthsSince(r, floor) < (MonthsTried - 1) * r.every

\* A day of an earlier month is an earlier day than a candidate.
LEMMA CandidateAfter ==
  ASSUME NEW r \in Rec, NEW i \in Int, NEW n \in Int, MonthsSince(r, n) < i * r.every
  PROVE  n < MonthlyAt(r, i)
<1> DEFINE y == Date(n)[1]  m == Date(n)[2]  d == Date(n)[3]
           a == r.anchor[1]  b == r.anchor[2]  p == i * r.every
           z == YearAt(r, i)  o == MonthAt(r, i)
<1>1. y \in Int /\ m \in Months /\ d \in 1..LastDay(y, m) /\ DayNo(y, m, d) = n
  BY DateIs
<1>2. a \in Int /\ b \in Int /\ DayOf(r) \in Int /\ 1 <= DayOf(r)
  BY PatternIs DEF Months
<1>3. z \in Int /\ o \in Months /\ p \in Int /\ 12 * z + o = 12 * a + b + p
  BY MonthAtIs
<1>4. 12 * (y - a) + m - b < p
  BY DEF MonthsSince
<1>5. MonthlyAt(r, i) = ClampDay(z, o, DayOf(r))
  BY DEF MonthlyAt
<1> HIDE DEF y, m, d, a, b, p, z, o
<1>6. 12 * y + m < 12 * z + o
  <2>1. m \in Int /\ o \in Int
    BY <1>1, <1>3 DEF Months
  <2> QED BY <1>1, <1>2, <1>3, <1>4, <2>1
<1>7. DayNo(y, m, 1) + LastDay(y, m) <= DayNo(z, o, 1)
  BY <1>1, <1>3, <1>6, MonthsGrow
<1>8. ClampDay(z, o, DayOf(r)) \in Int /\ DayNo(z, o, 1) <= ClampDay(z, o, DayOf(r))
  BY <1>2, <1>3, Clamping
<1>9. LastDay(y, m) \in 28..31 /\ DayNo(y, m, 1) \in Int /\ DayNo(z, o, 1) \in Int
  BY <1>1, <1>3, MonthEnds, DaysCount
<1>10. d \in Int /\ d <= LastDay(y, m)
  BY <1>1, <1>9
<1>11. n = DayNo(y, m, 1) + d - 1
  BY <1>1, <1>10, DaysCount
<1> QED BY <1>5, <1>7, <1>8, <1>9, <1>10, <1>11

\* Two months on, the month of the anchor is over, whatever day it names.
LEMMA TwoMonthsOn ==
  ASSUME NEW r \in Rec, NEW y \in Int, NEW m \in Months, NEW z \in Int, NEW o \in Months,
         12 * r.anchor[1] + r.anchor[2] < 12 * y + m, 12 * y + m < 12 * z + o
  PROVE  Anchor(r) < DayNo(z, o, 1)
<1> DEFINE a == r.anchor[1]  b == r.anchor[2]  f == r.anchor[3]
<1>1. a \in Int /\ b \in Months /\ f \in Int /\ f <= 31 /\ Anchor(r) = DayNo(a, b, f)
  <2>1. r.anchor \in Nat \X (1..12) \X (1..31)
    BY DEF Rec
  <2> QED BY <2>1, PatternIs DEF Anchor
<1>2. DayNo(a, b, 1) + LastDay(a, b) <= DayNo(y, m, 1)
  BY <1>1, MonthsGrow
<1>3. DayNo(y, m, 1) + LastDay(y, m) <= DayNo(z, o, 1)
  BY MonthsGrow
<1> HIDE DEF a, b, f
<1>4. /\ LastDay(a, b) \in 28..31 /\ LastDay(y, m) \in 28..31
      /\ DayNo(a, b, 1) \in Int /\ DayNo(y, m, 1) \in Int /\ DayNo(z, o, 1) \in Int
  BY <1>1, MonthEnds, DaysCount
<1>5. Anchor(r) = DayNo(a, b, 1) + f - 1
  BY <1>1, DaysCount
<1> QED BY <1>1, <1>2, <1>3, <1>4, <1>5

LEMMA MonthsReached ==
  ASSUME NEW r \in Rec, NEW floor \in Int, floor = Anchor(r) - 1 \/ Anchor(r) <= floor,
         MonthsInReach(r, floor)
  PROVE  LaterMonths(r, floor) # {}
<1>1. Anchor(r) \in Int /\ r.every \in Nat \ {0} /\ r.anchor[1] \in Int /\ r.anchor[2] \in Int
  BY PatternIs DEF Months
<1>2. CASE floor < Anchor(r)
  <2> DEFINE a == r.anchor[1]  b == r.anchor[2]  e == r.every
             y == YearAt(r, 1)  m == MonthAt(r, 1)  z == YearAt(r, 2)  o == MonthAt(r, 2)
  <2>1. /\ y \in Int /\ m \in Months /\ 12 * y + m = 12 * a + b + 1 * e
        /\ z \in Int /\ o \in Months /\ 12 * z + o = 12 * a + b + 2 * e
    BY MonthAtIs
  <2>2. 12 * a + b < 12 * y + m /\ 12 * y + m < 12 * z + o
    <3>1. a \in Int /\ b \in Int /\ e \in Nat \ {0} /\ m \in Int /\ o \in Int
      BY <1>1, <2>1 DEF Months
    <3> HIDE DEF a, b, e, y, m, z, o
    <3> QED BY <2>1, <3>1
  <2>3. Anchor(r) < DayNo(z, o, 1)
    BY <2>1, <2>2, TwoMonthsOn
  <2>4. DayNo(z, o, 1) <= MonthlyAt(r, 2) /\ DayNo(z, o, 1) \in Int /\ MonthlyAt(r, 2) \in Int
    <3>1. DayOf(r) \in Int /\ 1 <= DayOf(r)
      BY PatternIs
    <3> QED BY <2>1, <3>1, Clamping, DaysCount DEF MonthlyAt
  <2>5. MonthlyAt(r, 2) > floor
    BY <1>1, <1>2, <2>3, <2>4
  <2> QED BY <2>5, SomeTried DEF LaterMonths
<1>3. CASE ~(floor < Anchor(r))
  <2> DEFINE i == MonthsTried - 1
  <2>1. MonthsSince(r, floor) < i * r.every
    BY <1>3 DEF MonthsInReach
  <2>2. i \in Int /\ i \in 0..MonthsTried - 1
    BY SomeTried
  <2> HIDE DEF i
  <2>3. floor < MonthlyAt(r, i) /\ MonthlyAt(r, i) \in Int
    BY <2>1, <2>2, CandidateAfter, MonthlyIs
  <2>4. MonthlyAt(r, i) > floor
    BY <2>3
  <2> QED BY <2>2, <2>4 DEF LaterMonths
<1> QED BY <1>2, <1>3

-----------------------------------------------------------------------------
(* Yearly patterns *)

YearlyAt(r, i) == ClampDay(r.anchor[1] + i * r.every, MonthOf(r), DayOf(r))

LEMMA YearlyIs ==
  ASSUME NEW r \in Rec, NEW i \in Int
  PROVE  /\ YearlyAt(r, i) \in Int /\ r.anchor[1] + i * r.every \in Int
         /\ Date(YearlyAt(r, i))[1] = r.anchor[1] + i * r.every
         /\ Date(YearlyAt(r, i))[2] = MonthOf(r)
         /\ OnDayOfMonth(r, YearlyAt(r, i))
<1> DEFINE y == r.anchor[1] + i * r.every  m == MonthOf(r)  n == YearlyAt(r, i)
<1>1. r.anchor[1] \in Int /\ r.every \in Nat \ {0} /\ m \in Months /\ DayOf(r) \in Int /\ 1 <= DayOf(r)
  BY PatternIs
<1>2. y \in Int
  BY <1>1
<1>3. n = ClampDay(y, m, DayOf(r))
  BY DEF YearlyAt
<1> HIDE DEF y, m, n
<1>4. /\ n \in Int
      /\ Date(n) = <<y, m, IF DayOf(r) > LastDay(y, m) THEN LastDay(y, m) ELSE DayOf(r)>>
  BY <1>1, <1>2, <1>3, Clamping
<1>5. Date(n)[1] = y /\ Date(n)[2] = m
      /\ Date(n)[3] = IF DayOf(r) > LastDay(y, m) THEN LastDay(y, m) ELSE DayOf(r)
  BY <1>4
<1>6. OnDayOfMonth(r, n)
  BY <1>5 DEF OnDayOfMonth
<1> QED BY <1>2, <1>4, <1>5, <1>6 DEF y, m, n

LEMMA YearlyGrows ==
  ASSUME NEW r \in Rec, NEW i \in Int, NEW j \in Int, i < j
  PROVE  YearlyAt(r, i) < YearlyAt(r, j)
<1> DEFINE a == r.anchor[1]  p == i * r.every  q == j * r.every  m == MonthOf(r)
<1>1. p < q /\ p \in Int /\ q \in Int /\ a \in Int
  <2>1. r.every \in Nat \ {0} /\ a \in Int
    BY PatternIs
  <2> QED BY <2>1, Larger
<1>2. m \in Months /\ m \in Int /\ DayOf(r) \in Int /\ 1 <= DayOf(r)
  <2>1. m \in Months /\ DayOf(r) \in Int /\ 1 <= DayOf(r)
    BY PatternIs
  <2> HIDE DEF m
  <2> QED BY <2>1 DEF Months
<1>3. YearlyAt(r, i) = ClampDay(a + p, m, DayOf(r)) /\ YearlyAt(r, j) = ClampDay(a + q, m, DayOf(r))
  BY DEF YearlyAt
<1> HIDE DEF a, p, q, m
<1>4. a + p \in Int /\ a + q \in Int /\ 12 * (a + p) + m < 12 * (a + q) + m
  BY <1>1, <1>2
<1> QED BY <1>2, <1>3, <1>4, ClampsGrow

LEMMA OnlyYearly ==
  ASSUME NEW r \in Rec, r.period = "yearly", NEW n \in Int, OnPattern(r, n)
  PROVE  \E i \in Nat : n = YearlyAt(r, i)
<1> DEFINE y == Date(n)[1]  m == Date(n)[2]  d == Date(n)[3]
           a == r.anchor[1]  b == r.anchor[2]
           i == (y - a) \div r.every
<1>1. Anchor(r) <= n /\ (y - a) % r.every = 0 /\ m = MonthOf(r) /\ OnDayOfMonth(r, n)
  <2>1. n >= Anchor(r) /\ (y - a) % r.every = 0 /\ m = MonthOf(r) /\ OnDayOfMonth(r, n)
    BY DEF OnPattern
  <2> QED BY <2>1, PatternIs
<1>2. r.every \in Nat \ {0} /\ a \in Int /\ b \in Months
  BY PatternIs
<1>3. y \in Int /\ m \in Months /\ d \in 1..LastDay(y, m) /\ DayNo(y, m, d) = n
  BY DateIs
<1>4. 0 <= 12 * (y - a) + m - b
  BY <1>1, NotBefore DEF MonthsSince
<1>5. d = IF DayOf(r) > LastDay(y, m) THEN LastDay(y, m) ELSE DayOf(r)
  BY <1>1 DEF OnDayOfMonth
<1> HIDE DEF y, m, d, a, b
<1>6. y - a \in Int /\ 0 <= y - a
  <2>1. m \in Int /\ m <= 12 /\ b \in Int /\ 1 <= b
    BY <1>2, <1>3 DEF Months
  <2> QED BY <1>2, <1>3, <1>4, <2>1
<1>7. i \in Nat /\ y = a + i * r.every
  <2>1. i \in Int /\ y - a = i * r.every /\ 0 <= i
    <3> DEFINE x == y - a
    <3>1. x \in Int /\ 0 <= x /\ x % r.every = 0
      BY <1>1, <1>6
    <3> HIDE DEF x
    <3>2. x \div r.every \in Int /\ x = (x \div r.every) * r.every /\ 0 <= x \div r.every
      BY <1>2, <3>1, IsMultiple
    <3> QED BY <3>2 DEF x
  <2> HIDE DEF i
  <2>2. i * r.every \in Int
    BY <1>2, <2>1
  <2> QED BY <1>2, <1>3, <2>1, <2>2
<1> HIDE DEF i
<1>8. n = YearlyAt(r, i)
  <2>1. n = ClampDay(y, m, DayOf(r))
    BY <1>3, <1>5 DEF ClampDay
  <2> QED BY <1>1, <1>7, <2>1 DEF YearlyAt, a
<1> QED BY <1>7, <1>8

LaterYears(r, floor) == {i \in 0..YearsTried - 1 : YearlyAt(r, i) > floor}

LEMMA NextYearlyIs ==
  ASSUME NEW r, NEW floor
  PROVE  /\ LaterYears(r, floor) = {} => NextYearly(r, floor) = None
         /\ LaterYears(r, floor) # {} =>
              \E i \in LaterYears(r, floor) :
                /\ \A j \in LaterYears(r, floor) : i <= j
                /\ NextYearly(r, floor) = YearlyAt(r, i)
<1> DEFINE L == LaterYears(r, floor)
           later(i) == YearlyAt(r, i) > floor
           chosen == CHOOSE i \in 0..YearsTried - 1 : later(i) /\ \A j \in 0..i - 1 : ~later(j)
<1>1. NextYearly(r, floor) =
        IF \E i \in 0..YearsTried - 1 : later(i) THEN YearlyAt(r, chosen) ELSE None
  BY DEF NextYearly, YearlyAt
<1>2. \A i : i \in L <=> i \in 0..YearsTried - 1 /\ later(i)
  BY DEF LaterYears
<1>3. CASE L = {}
  BY <1>1, <1>2, <1>3
<1>4. CASE L # {}
  <2> HIDE DEF L, later
  <2>1. YearsTried \in Nat
    BY SomeTried
  <2>2. L \subseteq Int /\ \A i \in L : 0 <= i
    BY <1>2, <2>1
  <2>3. PICK i \in L : \A j \in L : i <= j
    BY <1>4, <2>2, First
  <2>4. i \in 0..YearsTried - 1 /\ later(i) /\ \A j \in 0..i - 1 : ~later(j)
    <3>1. ASSUME NEW j \in 0..i - 1 PROVE ~later(j)
      <4>1. j \in 0..YearsTried - 1 /\ ~(i <= j)
        BY <1>2, <2>1, <2>3
      <4> QED BY <1>2, <2>3, <4>1
    <3> QED BY <1>2, <2>3, <3>1
  <2>5. chosen \in 0..YearsTried - 1 /\ later(chosen) /\ \A j \in 0..chosen - 1 : ~later(j)
    BY <2>4
  <2> HIDE DEF chosen
  <2>6. chosen \in L
    BY <1>2, <2>5
  <2>7. ASSUME NEW j \in L PROVE chosen <= j
    <3>1. j \in 0..YearsTried - 1 /\ later(j)
      BY <1>2
    <3> QED BY <2>1, <2>5, <3>1
  <2>8. NextYearly(r, floor) = YearlyAt(r, chosen)
    BY <1>1, <2>5
  <2> QED BY <1>4, <2>6, <2>7, <2>8 DEF L
<1> QED BY <1>3, <1>4

LEMMA YearlyFinds ==
  ASSUME NEW r \in Rec, r.period = "yearly", NEW floor \in Int, Anchor(r) - 1 <= floor,
         LaterYears(r, floor) # {}
  PROVE  Finds(r, floor, NextYearly(r, floor))
<1> DEFINE next == NextYearly(r, floor)
<1>1. PICK i \in LaterYears(r, floor) :
        (\A j \in LaterYears(r, floor) : i <= j) /\ next = YearlyAt(r, i)
  BY NextYearlyIs
<1> HIDE DEF next
<1>2. YearsTried \in Nat /\ i \in Int /\ 0 <= i /\ i <= YearsTried - 1 /\ floor < YearlyAt(r, i)
  <2>1. YearsTried \in Nat /\ i \in 0..YearsTried - 1 /\ YearlyAt(r, i) > floor
    BY SomeTried DEF LaterYears
  <2>2. i \in Int /\ YearlyAt(r, i) \in Int
    BY <2>1, YearlyIs
  <2> QED BY <2>1, <2>2
<1>3. next \in Int /\ floor < next
  BY <1>1, <1>2, YearlyIs
<1>4. OnPattern(r, next)
  <2>1. /\ Date(next)[1] = r.anchor[1] + i * r.every /\ Date(next)[2] = MonthOf(r)
        /\ OnDayOfMonth(r, next)
    BY <1>1, <1>2, YearlyIs
  <2>2. (Date(next)[1] - r.anchor[1]) % r.every = 0
    <3> DEFINE a == r.anchor[1]  p == i * r.every
    <3>1. a \in Int /\ p \in Int /\ p % r.every = 0
      <4>1. a \in Int /\ r.every \in Nat \ {0}
        BY PatternIs
      <4> QED BY <1>2, <4>1, Multiple
    <3> HIDE DEF a, p
    <3>2. (a + p) - a = p
      BY <3>1
    <3> QED BY <2>1, <3>1, <3>2 DEF a, p
  <2>3. next >= Anchor(r)
    BY <1>3, PatternIs
  <2> QED BY <2>1, <2>2, <2>3 DEF OnPattern
<1>5. ASSUME NEW n \in Int, floor < n, n < next, OnPattern(r, n) PROVE FALSE
  <2>1. PICK j \in Nat : n = YearlyAt(r, j)
    BY <1>5, OnlyYearly
  <2>2. ~(i < j) /\ i # j
    <3>1. i < j => YearlyAt(r, i) < YearlyAt(r, j)
      BY <1>2, YearlyGrows
    <3> QED BY <1>1, <1>3, <1>5, <2>1, <3>1
  <2>3. j \in 0..YearsTried - 1 /\ j < i
    BY <1>2, <2>2
  <2>4. j \in LaterYears(r, floor)
    BY <1>5, <2>1, <2>3 DEF LaterYears
  <2> QED BY <1>1, <1>2, <2>3, <2>4
<1> QED BY <1>3, <1>4, <1>5 DEF Finds, next

YearsInReach(r, floor) ==
  floor < Anchor(r) \/ Date(floor)[1] - r.anchor[1] < (YearsTried - 1) * r.every

LEMMA YearsReached ==
  ASSUME NEW r \in Rec, NEW floor \in Int, floor = Anchor(r) - 1 \/ Anchor(r) <= floor,
         YearsInReach(r, floor)
  PROVE  LaterYears(r, floor) # {}
<1> DEFINE a == r.anchor[1]  b == r.anchor[2]  e == r.every  u == MonthOf(r)
<1>1. /\ Anchor(r) \in Int /\ e \in Nat \ {0} /\ a \in Int /\ b \in Months /\ u \in Months
      /\ DayOf(r) \in Int /\ 1 <= DayOf(r)
  BY PatternIs
<1>2. ASSUME NEW i \in Int, i \in 0..YearsTried - 1, NEW n \in Int,
             n < DayNo(a + i * e, u, 1), floor <= n
      PROVE  LaterYears(r, floor) # {}
  <2>1. a + i * e \in Int
    BY <1>1
  <2>2. /\ DayNo(a + i * e, u, 1) \in Int
        /\ DayNo(a + i * e, u, 1) <= YearlyAt(r, i) /\ YearlyAt(r, i) \in Int
    BY <1>1, <2>1, Clamping, DaysCount DEF YearlyAt
  <2>3. YearlyAt(r, i) > floor
    <3> DEFINE x == DayNo(a + i * e, u, 1)
    <3>1. x \in Int /\ x <= YearlyAt(r, i) /\ YearlyAt(r, i) \in Int /\ n < x
      BY <1>2, <2>2
    <3> HIDE DEF x
    <3> QED BY <1>2, <3>1
  <2> QED BY <1>2, <2>3 DEF LaterYears
<1>3. CASE floor < Anchor(r)
  <2>1. a + 1 * e \in Int /\ a + 2 * e \in Int
    BY <1>1
  <2>2. /\ 12 * a + b < 12 * (a + 1 * e) + u
        /\ 12 * (a + 1 * e) + u < 12 * (a + 2 * e) + u
    <3> HIDE DEF a, b, e, u
    <3>1. b \in Int /\ b <= 12 /\ u \in Int /\ 1 <= u
      BY <1>1 DEF Months
    <3> QED BY <1>1, <3>1
  <2>3. Anchor(r) < DayNo(a + 2 * e, u, 1)
    BY <1>1, <2>1, <2>2, TwoMonthsOn
  <2>4. floor <= Anchor(r) /\ 2 \in Int /\ 2 \in 0..YearsTried - 1
    BY <1>1, <1>3, SomeTried
  <2> QED BY <1>1, <1>2, <2>3, <2>4
<1>4. CASE ~(floor < Anchor(r))
  <2> DEFINE i == YearsTried - 1  y == Date(floor)[1]  m == Date(floor)[2]  d == Date(floor)[3]
             p == i * e
  <2>1. y - a < p
    BY <1>4 DEF YearsInReach
  <2>2. i \in Int /\ i \in 0..YearsTried - 1
    BY SomeTried
  <2>3. y \in Int /\ m \in Months /\ d \in 1..LastDay(y, m) /\ DayNo(y, m, d) = floor
    BY DateIs
  <2> HIDE DEF i, y, m, d
  <2>4. p \in Int
    BY <1>1, <2>2
  <2> HIDE DEF p
  <2>5. a + p \in Int /\ 12 * y + m < 12 * (a + p) + u
    <3>1. m \in Int /\ m <= 12 /\ u \in Int /\ 1 <= u
      BY <1>1, <2>3 DEF Months
    <3> HIDE DEF a, u
    <3> QED BY <1>1, <2>1, <2>3, <2>4, <3>1
  <2>6. DayNo(y, m, 1) + LastDay(y, m) <= DayNo(a + p, u, 1)
    BY <1>1, <2>3, <2>5, MonthsGrow
  <2>7. LastDay(y, m) \in 28..31 /\ DayNo(y, m, 1) \in Int /\ DayNo(a + p, u, 1) \in Int
    BY <1>1, <2>3, <2>5, MonthEnds, DaysCount
  <2>8. d \in Int /\ d <= LastDay(y, m)
    BY <2>3, <2>7
  <2>9. floor = DayNo(y, m, 1) + d - 1
    BY <2>3, <2>8, DaysCount
  <2>10. floor < DayNo(a + p, u, 1)
    BY <2>6, <2>7, <2>8, <2>9
  <2> QED BY <1>2, <2>2, <2>10 DEF p
<1> QED BY <1>3, <1>4

-----------------------------------------------------------------------------
(* The next occurrence *)

\* A search by months or years looks at so many candidates and no more: the last of
\* them is of a later month (year) than the day `last'.
InReach(r, last) ==
  /\ r.period = "monthly" => MonthsInReach(r, last)
  /\ r.period = "yearly"  => YearsInReach(r, last)

Floor(r, last) == IF last < Anchor(r) THEN Anchor(r) - 1 ELSE last

Search(r, floor) ==
  CASE r.period = "daily"   -> NextDaily(r, floor)
    [] r.period = "weekly"  -> NextWeekly(r, floor)
    [] r.period = "monthly" -> NextMonthly(r, floor)
    [] OTHER                -> NextYearly(r, floor)

LEMMA NextOccurrenceIs ==
  ASSUME NEW r, NEW last
  PROVE  NextOccurrence(r, last) =
           IF Search(r, Floor(r, last)) = None \/ ~Within(r, Search(r, Floor(r, last)))
           THEN None ELSE Search(r, Floor(r, last))
BY DEF NextOccurrence, Search, Floor

LEMMA FloorIs ==
  ASSUME NEW r \in Rec, NEW last \in Int
  PROVE  /\ Floor(r, last) \in Int /\ last <= Floor(r, last) /\ Anchor(r) - 1 <= Floor(r, last)
         /\ Floor(r, last) = Anchor(r) - 1 \/ Anchor(r) <= Floor(r, last)
         /\ \A n \in Int : last < n /\ n <= Floor(r, last) => n < Anchor(r)
         /\ InReach(r, last) => InReach(r, Floor(r, last))
<1>1. Anchor(r) \in Int
  BY PatternIs
<1>2. CASE last < Anchor(r)
  <2>1. Floor(r, last) = Anchor(r) - 1
    BY <1>2 DEF Floor
  <2>2. InReach(r, Anchor(r) - 1)
    BY <1>1 DEF InReach, MonthsInReach, YearsInReach
  <2> QED BY <1>1, <1>2, <2>1, <2>2
<1>3. CASE ~(last < Anchor(r))
  <2>1. Floor(r, last) = last
    BY <1>3 DEF Floor
  <2> QED BY <1>1, <1>3, <2>1
<1> QED BY <1>2, <1>3

\* What a search finds is the first day of the pattern; within its reach it finds one.
LEMMA SearchFinds ==
  ASSUME NEW r \in Rec, NEW floor \in Int, Anchor(r) - 1 <= floor,
         floor = Anchor(r) - 1 \/ Anchor(r) <= floor
  PROVE  /\ Search(r, floor) # None => Finds(r, floor, Search(r, floor))
         /\ InReach(r, floor) => Finds(r, floor, Search(r, floor))
<1>1. CASE r.period = "daily"
  <2>1. Search(r, floor) = NextDaily(r, floor)
    BY <1>1 DEF Search
  <2> QED BY <1>1, <2>1, DailyFinds
<1>2. CASE r.period = "weekly"
  <2>1. Search(r, floor) = NextWeekly(r, floor)
    BY <1>2 DEF Search
  <2> QED BY <1>2, <2>1, WeeklyFinds
<1>3. CASE r.period = "monthly"
  <2>1. Search(r, floor) = NextMonthly(r, floor)
    BY <1>3 DEF Search
  <2>2. InReach(r, floor) => LaterMonths(r, floor) # {}
    BY <1>3, MonthsReached DEF InReach
  <2>3. NextMonthly(r, floor) # None => LaterMonths(r, floor) # {}
    BY NextMonthlyIs
  <2> QED BY <1>3, <2>1, <2>2, <2>3, MonthlyFinds
<1>4. CASE r.period = "yearly"
  <2>1. Search(r, floor) = NextYearly(r, floor)
    BY <1>4 DEF Search
  <2>2. InReach(r, floor) => LaterYears(r, floor) # {}
    BY <1>4, YearsReached DEF InReach
  <2>3. NextYearly(r, floor) # None => LaterYears(r, floor) # {}
    BY NextYearlyIs
  <2> QED BY <1>4, <2>1, <2>2, <2>3, YearlyFinds
<1> QED BY <1>1, <1>2, <1>3, <1>4, PatternIs

\* NextOccurrence names the first occurrence after `last', and none only when there is none.
LEMMA FirstOccurrence ==
  ASSUME NEW r \in Rec, NEW last \in Int
  PROVE  LET next == NextOccurrence(r, last) IN
         /\ next # None =>
              /\ next \in Int /\ last < next /\ Occurs(r, next)
              /\ \A n \in last + 1 .. next - 1 : ~Occurs(r, n)
         /\ next = None /\ InReach(r, last) =>
              r.end # None /\ \A n \in last + 1 .. r.end : ~Occurs(r, n)
<1> DEFINE floor == Floor(r, last)  s == Search(r, floor)  next == NextOccurrence(r, last)
<1>1. /\ floor \in Int /\ last <= floor /\ Anchor(r) - 1 <= floor
      /\ floor = Anchor(r) - 1 \/ Anchor(r) <= floor
      /\ \A n \in Int : last < n /\ n <= floor => n < Anchor(r)
      /\ InReach(r, last) => InReach(r, floor)
  BY FloorIs
<1>2. next = IF s = None \/ ~Within(r, s) THEN None ELSE s
  BY NextOccurrenceIs
<1>3. /\ s # None => Finds(r, floor, s)
      /\ InReach(r, floor) => Finds(r, floor, s)
  BY <1>1, SearchFinds
<1>4. Anchor(r) \in Int /\ (r.end = None \/ r.end \in Int) /\ None \notin Int
  BY PatternIs, NoneIsNoDate
<1> HIDE DEF floor, s, next
<1>5. ASSUME Finds(r, floor, s)
      PROVE  /\ s \in Int /\ last < s /\ OnPattern(r, s)
             /\ \A n \in Int : last < n /\ n < s => ~Occurs(r, n)
  <2>1. s \in Int /\ floor < s /\ OnPattern(r, s)
    BY <1>5 DEF Finds
  <2>2. ASSUME NEW n \in Int, last < n, n < s PROVE ~Occurs(r, n)
    <3>1. CASE n <= floor
      <4>1. n < Anchor(r)
        BY <1>1, <2>2, <3>1
      <4> QED BY <1>4, <4>1 DEF Occurs
    <3>2. CASE floor < n
      BY <1>5, <2>2, <3>2, OccursIs DEF Finds
    <3> QED BY <1>1, <3>1, <3>2
  <2> QED BY <1>1, <2>1, <2>2
<1>6. ASSUME next # None
      PROVE  /\ next \in Int /\ last < next /\ Occurs(r, next)
             /\ \A n \in last + 1 .. next - 1 : ~Occurs(r, n)
  <2>1. next = s /\ s # None /\ Within(r, s)
    BY <1>2, <1>6
  <2>2. s \in Int /\ last < s /\ OnPattern(r, s) /\ \A n \in Int : last < n /\ n < s => ~Occurs(r, n)
    BY <1>3, <1>5, <2>1
  <2>3. Occurs(r, s)
    BY <2>1, <2>2, OccursIs DEF Within
  <2>4. ASSUME NEW n \in last + 1 .. s - 1 PROVE ~Occurs(r, n)
    <3>1. n \in Int /\ last < n /\ n < s
      BY <2>2
    <3> QED BY <2>2, <3>1
  <2> QED BY <2>1, <2>2, <2>3, <2>4
<1>7. ASSUME next = None, InReach(r, last)
      PROVE  r.end # None /\ \A n \in last + 1 .. r.end : ~Occurs(r, n)
  <2>1. s \in Int /\ \A n \in Int : last < n /\ n < s => ~Occurs(r, n)
    BY <1>1, <1>3, <1>5, <1>7
  <2>2. s # None
    BY <1>4, <2>1
  <2>3. r.end # None /\ r.end \in Int /\ r.end < s
    BY <1>2, <1>4, <1>7, <2>1, <2>2 DEF Within
  <2>4. ASSUME NEW n \in last + 1 .. r.end PROVE ~Occurs(r, n)
    <3>1. n \in Int /\ last < n /\ n < s
      BY <2>1, <2>3
    <3> QED BY <2>1, <3>1
  <2> QED BY <2>3, <2>4
<1> QED BY <1>6, <1>7 DEF next

-----------------------------------------------------------------------------
(* A pattern that spawns *)

Typed == series \in Rec /\ reached \in Int

\* Once a monthly pattern has spawned, it stands on one of its candidates.
InStep == series.period = "monthly" /\ spawned > 0 => \E i \in Nat : reached = MonthlyAt(series, i)

LEMMA TypedHolds == SeriesSpec => [](Typed /\ spawned \in Nat)
<1>1. SeriesInit => Typed /\ spawned \in Nat
  <2> SUFFICES ASSUME SeriesInit PROVE Typed /\ spawned \in Nat
    OBVIOUS
  <2>1. series \in Rec /\ spawned = 0
    BY PatternsAreRows DEF SeriesInit
  <2>2. PICK delay \in Delays : reached = Anchor(series) + delay - 1
    BY DEF SeriesInit
  <2>3. delay \in Int /\ Anchor(series) \in Int
    BY <2>1, PatternsAreRows, PatternIs
  <2> QED BY <2>1, <2>2, <2>3 DEF Typed
<1>2. Typed /\ spawned \in Nat /\ [SeriesNext]_seriesVars => Typed' /\ (spawned \in Nat)'
  <2> SUFFICES ASSUME Typed, spawned \in Nat, [SeriesNext]_seriesVars PROVE Typed' /\ spawned' \in Nat
    OBVIOUS
  <2>1. CASE SeriesNext
    <3>1. NextOccurrence(series, reached) # None /\ reached' = NextOccurrence(series, reached) /\ series' = series
      BY <2>1 DEF SeriesNext, Recur
    <3>2. reached' \in Int
      BY <3>1, FirstOccurrence DEF Typed
    <3>3. spawned' = spawned + 1 \/ spawned' = spawned
      BY <2>1 DEF SeriesNext, Recur
    <3> QED BY <3>1, <3>2, <3>3 DEF Typed
  <2>2. CASE UNCHANGED seriesVars
    BY <2>2 DEF seriesVars, Typed
  <2> QED BY <2>1, <2>2
<1> QED BY <1>1, <1>2, PTL DEF SeriesSpec

\* The next occurrence of a pattern is an occurrence, none lies between it and the last
\* one, and the pattern ends only when none is left - as long as the search by months or by
\* years has not come to the last of its candidates.
THEOREM Correctness == SeriesSpec => [](InReach(series, reached) => NextIsTheNext)
<1>1. Typed => (InReach(series, reached) => NextIsTheNext)
  <2> SUFFICES ASSUME Typed, InReach(series, reached) PROVE NextIsTheNext
    OBVIOUS
  <2> DEFINE next == NextOccurrence(series, reached)
  <2>1. series \in Rec /\ reached \in Int
    BY DEF Typed
  <2>2. /\ next # None =>
             /\ next \in Int /\ reached < next /\ Occurs(series, next)
             /\ \A n \in reached + 1 .. next - 1 : ~Occurs(series, n)
        /\ next = None => series.end # None /\ \A n \in reached + 1 .. series.end : ~Occurs(series, n)
    BY <2>1, FirstOccurrence
  <2>3. next # None => next > reached
    <3> HIDE DEF next
    <3> QED BY <2>1, <2>2
  <2> QED BY <2>2, <2>3 DEF NextIsTheNext
<1> QED BY <1>1, TypedHolds, PTL

\* Whatever the reach of the search: every day spawned is a later occurrence, and no
\* occurrence is skipped on the way to it.
THEOREM NoneSkipped ==
  SeriesSpec => [][/\ reached < reached' /\ Occurs(series, reached')
             /\ \A n \in reached + 1 .. reached' - 1 : ~Occurs(series, n)]_seriesVars
<1>1. Typed /\ [SeriesNext]_seriesVars =>
        [/\ reached < reached' /\ Occurs(series, reached')
         /\ \A n \in reached + 1 .. reached' - 1 : ~Occurs(series, n)]_seriesVars
  <2> SUFFICES ASSUME Typed, SeriesNext
               PROVE  /\ reached < reached' /\ Occurs(series, reached')
                      /\ \A n \in reached + 1 .. reached' - 1 : ~Occurs(series, n)
    OBVIOUS
  <2>1. NextOccurrence(series, reached) # None /\ reached' = NextOccurrence(series, reached)
    BY DEF SeriesNext, Recur
  <2> QED BY <2>1, FirstOccurrence DEF Typed
<1> QED BY <1>1, TypedHolds, PTL DEF SeriesSpec

\* From one of its candidates a monthly pattern moves to the next one.
LEMMA StepsByOne ==
  ASSUME NEW r \in Rec, r.period = "monthly", NEW last \in Int, NextOccurrence(r, last) # None
  PROVE  /\ \E i \in Nat : NextOccurrence(r, last) = MonthlyAt(r, i)
         /\ \A i \in Nat : last = MonthlyAt(r, i) /\ Anchor(r) <= last
                           => NextOccurrence(r, last) = MonthlyAt(r, i + 1)
<1> DEFINE floor == Floor(r, last)
<1>1. /\ NextOccurrence(r, last) = NextMonthly(r, floor)
      /\ NextMonthly(r, floor) # None
  <2>1. Search(r, floor) = NextMonthly(r, floor)
    BY DEF Search
  <2> QED BY <2>1, NextOccurrenceIs
<1>2. PICK k \in LaterMonths(r, floor) :
        (\A j \in LaterMonths(r, floor) : k <= j) /\ NextMonthly(r, floor) = MonthlyAt(r, k)
  BY <1>1, NextMonthlyIs
<1>3. MonthsTried \in Nat /\ k \in 0..MonthsTried - 1 /\ MonthlyAt(r, k) > floor
  BY SomeTried DEF LaterMonths
<1>4. k \in Nat
  BY <1>3
<1>5. ASSUME NEW i \in Nat, last = MonthlyAt(r, i), Anchor(r) <= last
      PROVE  NextOccurrence(r, last) = MonthlyAt(r, i + 1)
  <2>1. floor = last
    BY <1>5, PatternIs DEF Floor
  <2>2. i < k
    <3>1. k < i => MonthlyAt(r, k) < MonthlyAt(r, i)
      BY <1>4, MonthlyGrows
    <3>2. MonthlyAt(r, k) > MonthlyAt(r, i) /\ MonthlyAt(r, k) \in Int /\ MonthlyAt(r, i) \in Int
      BY <1>3, <1>4, <1>5, <2>1, MonthlyIs
    <3>3. ~(k < i) /\ k # i
      BY <3>1, <3>2
    <3> QED BY <1>4, <3>3
  <2>3. i + 1 \in LaterMonths(r, floor)
    <3>1. i + 1 \in 0..MonthsTried - 1 /\ i + 1 \in Int
      BY <1>3, <2>2
    <3>2. MonthlyAt(r, i) < MonthlyAt(r, i + 1) /\ MonthlyAt(r, i) \in Int
          /\ MonthlyAt(r, i + 1) \in Int
      BY <3>1, MonthlyGrows, MonthlyIs
    <3> QED BY <1>5, <2>1, <3>1, <3>2 DEF LaterMonths
  <2>4. k = i + 1
    BY <1>2, <1>4, <2>2, <2>3
  <2> QED BY <1>1, <1>2, <2>4
<1> QED BY <1>1, <1>2, <1>4, <1>5

\* A clamped date does not drift: from one occurrence to the next a monthly pattern
\* moves by exactly its interval, back to the day it asked for when the month has it.
THEOREM KeepsPace == SeriesSpec => MonthsKeepPace
<1> DEFINE Stands == series.period = "monthly" /\ spawned > 0 => Anchor(series) <= reached
<1>1. SeriesInit => InStep /\ Stands
  BY DEF SeriesInit, InStep
<1>2. Typed /\ InStep /\ Stands /\ [SeriesNext]_seriesVars => InStep' /\ Stands'
  <2> SUFFICES ASSUME Typed, InStep, Stands, [SeriesNext]_seriesVars PROVE InStep' /\ Stands'
    OBVIOUS
  <2>1. CASE UNCHANGED seriesVars
    <3>1. series' = series /\ reached' = reached /\ spawned' = spawned
      BY <2>1 DEF seriesVars
    <3> QED BY <3>1 DEF InStep
  <2>2. CASE SeriesNext
    <3>1. /\ series' = series /\ NextOccurrence(series, reached) # None
          /\ reached' = NextOccurrence(series, reached)
      BY <2>2 DEF SeriesNext, Recur
    <3>2. series.period = "monthly" => \E i \in Nat : reached' = MonthlyAt(series, i)
      BY <3>1, StepsByOne DEF Typed
    <3>3. Anchor(series) <= reached'
      <4>1. Occurs(series, reached') /\ reached' \in Int
        BY <3>1, FirstOccurrence DEF Typed
      <4>2. reached' >= Anchor(series) /\ Anchor(series) \in Int
        BY <4>1, PatternIs DEF Typed, Occurs
      <4> QED BY <4>1, <4>2
    <3>4. InStep'
      BY <3>1, <3>2 DEF InStep
    <3>5. Stands'
      BY <3>1, <3>3
    <3> QED BY <3>4, <3>5
  <2> QED BY <2>1, <2>2
<1>3. Typed /\ InStep /\ Stands /\ [SeriesNext]_seriesVars =>
        [series.period = "monthly" /\ spawned > 0 =>
           /\ MonthsSince(series, reached') = MonthsSince(series, reached) + series.every
           /\ OnDayOfMonth(series, reached')]_seriesVars
  <2> SUFFICES ASSUME Typed, InStep, Stands, SeriesNext, series.period = "monthly", spawned > 0
               PROVE  /\ MonthsSince(series, reached') = MonthsSince(series, reached) + series.every
                      /\ OnDayOfMonth(series, reached')
    OBVIOUS
  <2>1. PICK i \in Nat : reached = MonthlyAt(series, i)
    BY DEF InStep
  <2>2. NextOccurrence(series, reached) # None /\ reached' = NextOccurrence(series, reached)
    BY DEF SeriesNext, Recur
  <2>3. reached' = MonthlyAt(series, i + 1)
    BY <2>1, <2>2, StepsByOne DEF Typed
  <2>4. /\ MonthsSince(series, reached) = i * series.every
        /\ MonthsSince(series, reached') = (i + 1) * series.every
        /\ OnDayOfMonth(series, reached')
    <3>1. i \in Int /\ i + 1 \in Int
      OBVIOUS
    <3> QED BY <2>1, <2>3, <3>1, MonthlyIs DEF Typed
  <2>5. (i + 1) * series.every = i * series.every + series.every
    BY PatternIs DEF Typed
  <2> QED BY <2>4, <2>5
<1> HIDE DEF Stands
<1> QED BY <1>1, <1>2, <1>3, TypedHolds, PTL DEF SeriesSpec, MonthsKeepPace

-----------------------------------------------------------------------------
(* The daily patterns of Tickler *)

\* The date that a sweep, a completion or a list takes for a daily row (Tickler) is the one
\* NextOccurrence finds for its pattern: the row starts on the day it is given, or on the day
\* it was created.
THEOREM DailySchedule ==
  ASSUME NEW r \in Rec, r.period = "daily", NEW last \in Int,
         NEW row, IF row.start = None THEN row.created = Anchor(r) ELSE row.start = Anchor(r),
         row.every = r.every, row.end = r.end
  PROVE  /\ NextDate(row, last) = NextOccurrence(r, last)
         /\ NextDate(row, last) # None =>
              /\ last < NextDate(row, last) /\ Occurs(r, NextDate(row, last))
              /\ \A n \in last + 1 .. NextDate(row, last) - 1 : ~Occurs(r, n)
         /\ NextDate(row, last) = None => r.end # None /\ \A n \in last + 1 .. r.end : ~Occurs(r, n)
<1> DEFINE a == Anchor(r)  next == EveryNth(a, r.every, last)
<1>1. a \in Int /\ r.every \in Nat \ {0} /\ None \notin Int
  BY PatternIs, NoneIsNoDate
<1>2. NextDate(row, last) = IF r.end # None /\ next > r.end THEN None ELSE next
  BY DEF NextDate
<1>3. next \in Int
  <2> DEFINE e == r.every  k == (last - a) \div e + 1
  <2>1. e \in Nat \ {0} /\ e \in Int /\ last - a \in Int /\ a \in Int
    BY <1>1
  <2>2. next = IF last < a THEN a ELSE a + k * e
    BY DEF EveryNth
  <2> HIDE DEF e, next, a
  <2>3. (last - a) \div e \in Int
    BY <2>1, Division
  <2>4. k \in Int
    BY <2>3
  <2> HIDE DEF k
  <2>5. k * e \in Int
    BY <2>1, <2>4
  <2> QED BY <2>1, <2>2, <2>5
<1>4. EveryNth(a, r.every, Floor(r, last)) = next
  <2>1. CASE last < a
    <3>1. a - 1 < a
      BY <1>1
    <3> QED BY <2>1, <3>1 DEF EveryNth, Floor
  <2>2. CASE ~(last < a)
    BY <2>2 DEF Floor
  <2> QED BY <2>1, <2>2
<1>5. Search(r, Floor(r, last)) = next
  BY <1>4 DEF Search, NextDaily
<1> HIDE DEF next, a
<1>6. NextOccurrence(r, last) = IF next = None \/ ~Within(r, next) THEN None ELSE next
  BY <1>5, NextOccurrenceIs
<1>7. next # None /\ (r.end # None => r.end \in Int)
  BY <1>1, <1>3, PatternIs
<1>8. Within(r, next) <=> ~(r.end # None /\ next > r.end)
  BY <1>3, <1>7 DEF Within
<1>9. NextDate(row, last) = NextOccurrence(r, last)
  BY <1>2, <1>6, <1>7, <1>8
<1>10. InReach(r, last)
  BY DEF InReach
<1> QED BY <1>9, <1>10, FirstOccurrence
=============================================================================

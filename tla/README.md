# gotracks: verification project

gotracks is a "getting things done" task manager: a Go server over SQLite or
Postgres (`internal/`), with a React client (`ui/`).  The server keeps no state
of its own between requests except the in-process half of one lock.  Everything
else is rows, written by request handlers that run concurrently, mostly outside
transactions, in a schema without foreign keys.  What keeps the rows consistent is
the order of statements in the handlers, a per-account lock that some of them
take, and conditions repeated in `WHERE` clauses.  That is what the modules of the
server are about.  The client keeps a pair of tokens that all its tabs share, a cache
of answers that its pages share, and forms over rows that change elsewhere; what
keeps these true is the order of callbacks, and lists of what each change makes
stale that are written by hand.  That is what the modules of the client are about.

All paths below are relative to `src/`.

## 1. The system

### Components

| Component | State | Operations | What is hard | What makes it correct |
|---|---|---|---|---|
| Account guard (`internal/repo/guard.go`) | map of reference-counted entries per process; an advisory lock in Postgres | `WithUser` | entries freed while others join; several processes; a lock held by another connection than the writes | one request per account inside; no leaked entry; waiters leave |
| Quotas (`service/quota.go`) | none (counts rows) | `Check*`, `Guard`, `Usage` | count-then-insert | allowances never exceeded |
| Actions and tickler (`service/todo.go`) | action rows | create, update, complete, reactivate, reorder, delete, list (which first sweeps and promotes) | unguarded whole-row read-modify-write beside guarded writes; two dates and a state that must agree; the clock passing while a request waits | dates agree with states; lists are not stale |
| Recurrence (`service/recurring.go`, `service/recurrence.go`) | pattern rows, with the date last spawned | create, update, delete, sweep, spawn on completion | sweeps and completions spawning at once; calendar arithmetic; a spawn that stops half-way | one open instance of a pattern; no date twice; every date an occurrence |
| Contexts and projects (`service/context.go`, `project.go`, `resolve.go`) | rows with names | create, edit, review, delete with or without contents, resolution of typed names | deletes in several statements beside requests that file there; names not unique in the schema | references lead to rows; a new name that guarded requests type makes one place |
| Notes (`api/tag_note_handler.go`) | rows | create, edit, delete | the edit can create a project, unguarded | as above |
| Attachments (`service/attachment.go`) | rows, and objects in an S3 store | save, delete, delete with the action, auto-delete on completion | two stores that cannot be written together; a long upload outside the guard | no row without object; no object forgotten; storage within its allowance |
| Tags (`repo/bun_gtd.go`) | rows and links | replaced by the tag list of an action or a pattern | select-then-insert | no link without action; allowance |
| Sessions and sign-in (`service/auth.go`, `repo/bun_auth.go`) | refresh tokens, one per session; failures per address | sign-in, refresh, revoke one / others / all, password change | a refresh beside a revocation of all; stale whole-row writes of the user | a revoked session stays revoked; a token is used once |
| Two-factor (`service/twofactor.go`, `twofactor_challenge.go`) | configuration, recovery codes, challenges | enrol, verify, disable, regenerate | attempt counter and take in separate statements | a code is used once; a challenge has its attempts |
| Passkeys (`service/passkey.go`) | credentials, ceremonies | register, sign in, reauthenticate | ceremonies are single-use rows | a ceremony is used once |
| Pending tokens and mail (`service/email.go`, `repo/bun_ephemeral.go`) | ephemeral rows | verify, reset, invite, change address, delete account | links redeemed twice or after a newer one | single use |
| Enrollment (`repo/bun_enrollment.go`) | pending enrollments | begin, activate | first account becomes administrator | exactly one first administrator; capacity |
| Administration (`service/admin.go`) | users | create, edit, delete, purge | rows read before the administration guard and written inside; a purge of fifteen statements | an administrator remains; nothing outlives its account |
| Settings, preferences (`service/settings.go`, `preference.go`) | one row, one row per account | setters | whole-row read-modify-write | no lost update |
| Usage report (`service/usage_report.go`) | snapshot rows | daily job | a schedule by wall-clock minutes | once a day |
| Audit, legal, statistics, export | append-only log, texts, none | record, accept, read | none beyond paging | - |
| Object store, database, mail, HTTP, metrics, start-up | external or I/O | | | |
| Client: session and transport (`ui/src/lib/api.ts`, `AuthProvider.tsx`) | a token pair in localStorage, a user per tab | sign-in and -out, restoring, requests with one retry, refresh | one refresh for all refused requests of a tab, none between tabs; mailed links; reloads | a request is carried out once; no good tokens thrown away; an ended session stays ended |
| Client: query cache (TanStack Query, used by `hooks/`) | one answer per query | fetch, join, replace, invalidate | an answer read before a change that arrives after it | what is shown holds the changes made here |
| Client: content pages (`pages/`, `components/`) | dialogs, prompts | every change of an action, context, project, note, pattern, file | each change names what it makes stale | as above |
| Client: undo (`lib/undoable.tsx`) | one pending operation, timers | schedule, flush, cancel, time out | timers that outlive pages; a completion that asks first | sent or undone, never both |
| Client: forms and composer (`lib/composer.ts`, `components/ActionForm.tsx`, `RecurringForm.tsx`) | the fields of an open form | typing, completing, picking, dates, saving | partial updates beside changes elsewhere; three parties that clamp dates; a text parsed again | what is shown is what is saved, and nothing else |
| Client: administrators' tables (`pages/AdminPage.tsx`, `AuditPage.tsx`, `ReportsPage.tsx`) | filter, order, page | typing, turning, changing rows | debounce; counts of another view; rows that go away | the table is current and stands on a page there is |
| Client: settings pages, look and language | forms over one row each; none | | | |

### How they interact

* Every handler of the API calls a service, which calls repositories; the services
  share rows, never memory.  A list of actions runs `Sweep` first, so every read of
  the main page writes.
* `Guard` (quota.go) wraps `WithUser`.  It is taken by the creates and updates of
  actions and patterns, by `Sweep` and `SpawnNext`, by the creates of contexts,
  projects and notes, by the last check of an upload, and with key 0 by the
  administration.  It is **not** taken by completing, reactivating, reordering and
  deleting actions, by the updates and deletes of contexts and projects, by the
  edit of a note, nor by any delete of attachments.
* Completing an action may delete its attachments and spawns the next instance of
  its pattern.  Deleting a context or a project deletes or detaches what it holds
  through the other components' repositories.
* A failure can come at any statement: an error of the database, a cancelled
  request, a shutdown.  Nothing is undone except where the code says so (the object
  of a refused upload).
* The client calls the server by requests that carry an access token; one that is
  refused with a 401 waits for the refresh of its tab, and is sent once more.  Tabs
  share the pair of tokens through localStorage and nothing else.
* The pages of a tab share its query cache and its one pending operation: a change
  made, or undone, on one page decides what another shows.

## 2. The modules

| Module | Models | Checked by | Proved in |
|---|---|---|---|
| `AccountLock` | what `WithUser` promises, abstractly | `ImplementsAccountLock` in run `guard` | `UserGuardProofs`; its use in those of the account modules |
| `UserGuard` | `repo/guard.go` | `guard` | `UserGuardProofs` |
| `Tickler` | actions and patterns: rows, states, dates, spawning | `tickler`, `tickler_torn` | `TicklerProofs` |
| `Calendar` | the date arithmetic of `recurrence.go`, every period, and what a pattern means by the calendar: operators only | through `Recurrence` and `Tickler` | `TicklerProofs` |
| `Recurrence` | a pattern that spawns one occurrence after the other | `recurrence` | `TicklerProofs` |
| `Filing` | contexts, projects, and the references of actions, patterns and notes | `filing`, `filing_orphan` | `FilingProofs` |
| `Belongings` | attachments with their objects, tags with their links | `belongings` | `BelongingsProofs` |
| `Session` | the token pair of a browser, its tabs' transport, the server's refresh tokens | `session` | `SessionProofs` |
| `Query` | one cached answer and its request | through the next two | - |
| `Desk` | the content pages, their changes and the undo | `desk`, `desk_stale` | `DeskProofs` |
| `Tables` | the administrators' paged tables | `tables` | `TablesProofs` |
| `Composer` | the line an action is typed into: operators only | through `Forms` | `FormsProofs` |
| `Forms` | the forms of actions and patterns, up to what the server stores | `forms` | `FormsProofs` |

`MC*` modules only add what TLC needs to run the module they extend: symmetry sets
and the small instances of function-valued constants.

The modules cut the rows of one account by what can go wrong with them, not by
table.  An action is in three of them: its state and dates in `Tickler`, what it
refers to in `Filing`, what hangs off it in `Belongings`.  (`Forms` has one row of
each kind, as a form sees it.)  In each, the statements
of a handler that touch only another module's part are left out; where they may
refuse, the refusal is the `Abort` every request can do at every step.

### Shape of the account modules

`Tickler`, `Filing` and `Belongings` have the same shape.

* **A step is one database statement** (or one call of the object store) with the
  computation around it.  Two reads in a row are one step when no write of another
  request between them could be told from one before or after both; each module's
  head says so.
* **`req[r]`** holds the local variables of a handler, `pc` the statement it is at.
  A handler that takes the guard takes it with its first guarded statement and
  gives it back with its last (`holder`): acquiring commutes to the right and
  releasing to the left of other requests' steps.
* **`Abort`** ends a request before any of its statements: an error, a cancelled
  request, a dead process.  Rows and objects stay as they are.
* **Ids are never reused**, as the autoincrement keys of the schema; a deleted row
  is `Gone` in `Tickler` and `Filing`.
* **Ghosts** (`late`, `raced`, `torn`, `reopened`, `byEdit`, `leaked`, `unsure`, ...)
  record that the excuse a property grants did happen.  Each is set only by the
  step that is the excuse; no guard reads one.
* Definitions whose comment begins with **Fault** are what a plausible bug would
  make of the definition after them: each is known to break a property.  No
  specification uses one, in any module.

The three assume that the guard excludes.  `UserGuard` shows in which executions
it does: always on SQLite and in one process, and on several as long as no
lock-holding transaction ends early.  The other side is proved of each of the three
(`GuardAsPromised`): their `holder` changes only as `AccountLock`, which `UserGuard`
implements, lets the lock of one account change.

### UserGuard

One action is one uninterruptible region of `guard.go`: a critical section of `mu`,
one channel operation, one statement.  `Join`/`Open` and `Drop` are the two sections
under `mu`; `Acquire`/`GiveUp` the `select`; `LockShared`/`FailShared` the advisory
lock; `Finish`, `Release` the way out; `TxEnds` the end of the transaction under a
running `fn`; `Crash` the death of a process.  User ids are truncated to `int4`
advisory keys (`KeyOf`), so two accounts may share one.

### Tickler

`NewTodo`, `Updated`, `ClampShowFrom`, `StateOn` translate the date logic of
`todo.go`; `Sweep`, `SpawnIfDue`, `Spawn`, `SaveSpawned` the spawning, with the
two statements of a spawn apart; `ActivateDue`, `ReadList` the rest of a list.
Complete, Reactivate and Reorder read a row in one step and write all of it in a
later one.  Time passes between any two steps, in instants of which several make a
day, because the code compares some dates by day and some by instant.

### Calendar and Recurrence

`Calendar` has `NextOccurrence` and its four periods as functions of a pattern and a day
number.  The reference is the calendar itself (`Occurs`): whether a day matches the
pattern is decided from its date, with no search.  The behaviours of `Recurrence` are
chains of spawns: `series` is the pattern, `reached` the day it has come to.  `Tickler`
takes its daily schedule (`NextDate`) from the same `Calendar`.

### Filing

Contexts and projects are "places" with a name.  `CreateItem` to `WriteItem` follow
a guarded create or update through the resolution of typed names; `EditNote` the
same way outside the guard; `DeleteContext` and `DeleteProject` the deletes
statement by statement, with the list of a purge held in `batch`.

### Belongings

An upload passes `put`, `size`, `row` (and `undo`); deletes list, delete rows and
remove objects in that order.  Removal may fail silently.  On Postgres `CreateRow`
may store its row and still be told that the guard failed, because the guard's
transaction is on another connection and commits afterwards.

### Session

`stored` is the pair in localStorage, `rows` the refresh tokens of the server,
`call[c]` a request of a tab with its answer, `flight[c]` the refresh a refused
request started.  `Begin`, `Handle`, `Arrive` are `authedFetch`: sent, answered,
and either settled, or joined to the refresh of its tab.  A request may be carried out
and still be answered as failed; a change of password revokes and issues in two
statements and may stop between them (`ReplacePassword`).  The refresh is `Consume`
and `Rotate`, since `Refresh` in `auth.go` deletes the old row and inserts the
successor in two statements; `RotateFails` stops between them, `Outage` puts an error
in the place of the answer.  Its end in the browser is `Refreshed` or `Expelled`, for
all requests that waited for it, or `Rejected`: the fetch throws, the tokens stay as
they are, and the server works on.  `adrift` holds what the server works on with nobody
waiting: such a refresh, one a reload left behind, or a change of password whose
connection broke (`GiveUp`).  `Submit`, `Answered` and `Verify`
are the sign-in screen, whose answer may be lost too (`EstablishLost`); `Logout`,
`MailLink`, `ResetLink`, `RevokeElsewhere` the ways a session ends.  A logout is under way
in `leaving` until the server has removed the row (`Revoked`) or it fails, of which nobody
hears (`LogoutLost`).  `Open` loads a tab, losing what it waited for.

The ghosts say what a property excuses.  `left` has the sessions their user ended.
`slipped` has those of them that were being rotated at that moment, or whose logout named a
token that a lost rotation had replaced, or whose logout failed.  `crossed` has the
sessions one of whose rotations was raced by another tab, failed or was answered with an error, or
lost its answer; that were opened by an answer that was lost; that came into the store
while a tab refreshed another; or that were replaced in the store.

### Query, Desk and Tables

`Query` is what the screens rely on in the library: a refetch joins a request under
way while nothing is held yet (`Ask`, `Refetch`), and replaces it afterwards.

`Desk` gives every query by the facets of the data it shows (`Shows`), every change
by the facets the server changes (`Effects`) and the queries the hooks invalidate,
every page by the queries it mounts and the changes it offers (`Content`).  Queries
do not touch each other, so a behaviour follows one: it counts the changes of this
tab that reached it (`own`).  `Schedule`, `Cancel`, `Timeout`, `AskFiles` and `Leave`
are `undoable.tsx` with the completion that first asks for the files of its action.

`Tables` has the three tables in one module because they differ in one operator each
(when a typed filter is asked for, what is shown meanwhile, what can be done to a
row).  `Serve` reads, `Arrive` shows, so that changes fall in between.

### Composer and Forms

`Composer` is pure: `Tokens` reads a text left to right, `ActiveToken` finds the token
under the caret, `Applied` writes a name.  `Forms` opens one of seven forms: the
line alone, typed character by character, and the others with whole texts from a small
set.  `Submit` sends what that form sends (everything, or what differs from the item
as the list shows it), places that do not exist by name (`made`).  `Carry` is the
server's create or update, which may be carried out though the answer is lost: `Meant`
makes names and tags bare, trimmed and without the sigil (a name of nothing is refused),
`Dated` applies the defaults and clamps.  A place is known by its name, so a bare name
that exists is that place.  `CarryHalf` fails after the row is written, before its tags
are or when they are only taken off.  `Elsewhere` and `Refetch` change the item under an
open form.

## 3. Runs

| Run | Asks | Bounds |
|---|---|---|
| `guard` | Does `WithUser` exclude (but for the known exception), count exactly, let waiters go, implement `AccountLock`? | 3 requests on 2 processes, 2 accounts sharing one advisory key, 3 entries: an entry can be dropped while a second request joins and a third opens a new one |
| `tickler` | Allowances, one open instance, agreeing dates, dates that advance, fresh lists | 2 requests at a time, 4 in all, 3 action rows, 1 pattern, 2 instants a day, days 0 and 1: two requests overlap on a state that two earlier ones built |
| `tickler_torn` | Does a pattern never repeat a date, as `recurring.go:404` says? **No**, after a torn spawn. | the same |
| `recurrence` | Is the next occurrence the next by the calendar, to the end of the pattern? | six anchors at ends of long, short and leap months and week boundaries, intervals 1, 2 and 5, all periods, end dates on the anchor and 60 days later, chains of 5 or to the end |
| `filing` | Allowances, one place per new name, references that lead to rows | every account with up to 2 items, 3 contexts, 2 projects, 2 names; any 2 requests that overlap |
| `filing_orphan` | Does an action's context exist, as `context.go:135` says? **No**, when its delete overlaps. | the same |
| `belongings` | Storage and tag allowances, rows with objects, objects accounted for, nothing left of a deleted action | 3 requests at a time, 4 in all, 2 actions, 2 uploads, 2 tags; a file of size 2 fills the account, as do two of size 1 |
| `session` | Is a request carried out once, are no good tokens thrown away, is an ended session dead and a stored pair usable; does every request settle, those that wait for another's refresh too? | 2 tabs, one with the sign-in screen and two requests, the other with one, 3 pairs issued: two requests share a refresh beside another tab's |
| `desk` | Is a page current once nothing is under way; is what was undone not sent, and what was scheduled sent or undone? | 7 pages, 4 queries followed one at a time, 2 changes, of which both may be deferred: one is flushed by the next |
| `desk_stale` | Does a deletion refresh all that it changes, as `useTodos.ts:31-38` says? **No**, not the page of all files. | 2 pages, 1 query, 1 change |
| `tables` | Is a settled table current, and on a page there is? | 3 tables, 2 rows, pages of one row, 2 views, 2 changes of the server's table |
| `forms` | Is what is shown what is stored, does an edit leave the rest alone, does a completion name what was chosen? | the line: every text of up to 5 characters over an alphabet with a blank, a sigil and a quote; the others: 3 inputs, 2 saves to add, 1 to edit, days around a lead time of one, names with a sigil and blanks of their own |

Why the bounds are enough to be worth anything: every interference in these modules
is between two requests of one account over one or two rows (a third request
matters in `guard`, where an entry has three users' worth of history, in
`belongings`, where two uploads race with a delete, and in `session`, where two share
a refresh and one of another tab crosses it).  `filing` starts from every
consistent account, so a history of more requests reaches no new start but the
ones that races leave behind.  For the properties proved below, bounds do not
matter.  The faults named in the modules are reached within the same bounds.

`desk` follows four queries and opens seven pages: a list of actions, a list others
change by naming, the notes that are turned into actions, and the files.  The whole of
`Keys` and `Pages` without the liveness property has 7.4 million states, and holds.
`session` needs the third pair, for a successor that is stored while another is
made; the proof covers longer histories, and found one (below).

Deadlock is checked in `guard`, which has no bound on what requests do.  The others
may stop: the account runs when their requests are used up, `recurrence` at the end of
a pattern, `session` when every pair has been issued, `tables`, `desk` and `forms` when
their changes, inputs and saves are used up or the tab is closed.  `Settles` and
`ScheduledLeaves` say for the client what deadlock checking would: nobody is left
waiting.

### Fairness

`UserGuard!Fairness`: what a request does alone (finish, release, drop) is weakly
fair, because handlers return: every statement carries the context of a request
the server times out.  Acquiring is strongly fair, because Go queues the senders
of a channel and Postgres the waiters of an advisory lock in order of arrival.
`Recurrence` assumes that patterns are swept for ever (weak fairness of `SeriesNext`):
every list of actions sweeps.  `Session` is weakly fair in what is under
way for each request (`Continue`): the server answers, and the browser runs what waits
for the answer.  Nothing obliges a user, a clock or another device to act, nor a connection
to fail: `Rejected`, `GiveUp` and `Outage` may happen and need not.  `Desk` is weakly fair in the timers of an open tab and in the two
steps of a completion that was committed, which wait for a request that ends.  The
account modules, `Tables` and `Forms` state no liveness and assume no fairness.

### What the violations show

1. **`tickler_torn`** - the instance is inserted before `LastSpawnedAt` is saved; a
   stop in between makes the pattern produce the date again later.
2. **`filing_orphan`** - the count and the drop of a context are two statements
   outside the guard; an action filed between them points at nothing.
3. **`desk_stale`** - an action is deleted with the undo and the page of all files opened
   before the five seconds are over: the deletion takes the files along, and nothing asks
   for the list again, although `useTodos.ts:31-38` promises "everything a todo can change".

A passing run states such a property with its exception, so that the exception is
known to be the only one.  These exceptions are stated nowhere else:

* `ExclusionUnlessTxEnds`: on Postgres the advisory lock belongs to a transaction
  `fn` does not use; when it ends early another process enters.
* `AllowancesHeld`, `NamesResolveOnce`: the edit of a note may make a project outside the
  guard (`byEdit`, `tag_note_handler.go:210`): one too many, or a second one of a name that
  another request is making too.
* `DatesAgree`: an instance spawned on or after its show-from day has a due date and
  no show-from.  It is stated for leads that are not negative: an update of a pattern
  stores a negative one (`recurring.go:312`), a create drops it (`recurring.go:200`),
  and with `-1` among `Leads` TLC finds an instance that stays hidden past its due date.
* `RowsHaveObjects`: an upload whose row was stored although the guard's own
  transaction failed to commit, after which `Save` removes the object.
* `EndedIsDead` (`slipped`): a session that was being rotated as it ended (`auth.go:495`), one
  signed out of while the store held a token that had been replaced, and one whose
  `/auth/logout` failed, which `AuthProvider.tsx:77` swallows: the tokens are cleared here and
  the row stays.
* `LiveSessionKept`, `StoredIsLive` (`crossed`): another tab sent the same refresh token; the
  successor was not made (`auth.go:495`, `:553`), or its answer was an error or was lost, by a
  reload or by a fetch that rejects (`api.ts:55`, `:112`), and so was that of a new password or
  a sign-in; another session came into the store while a tab refreshed, or in place of this one.  "Its
  answer was an error" is any status that is not ok (`api.ts:60`): a 500, a 429 or a proxy
  restarting, met by the refresh, removes tokens (`api.ts:112-115`), although
  `AuthProvider.tsx:24-32` keeps them then, as "none of which say anything about the
  credentials", and counts on the transport to clear only a session the server refused.
* `SettledIsCurrent`: a query whose first answer was read before the change and joined
  (`joined`), a change carried out but answered as failed, and the pairs of `LeftStale` (both
  `missed`): what the hooks never ask for.  These are, as the code stands: the files after an
  action is edited, reactivated or deleted; the files and the projects' counts after a
  context is removed by force; the patterns after a completion; one project's own page after an action, a note or a pattern may have
  created it; the lists, the patterns and the notes after a project is deleted; contexts,
  projects and tags after a pattern named new ones; and the statistics after every change
  they count but the removal of a context.  `desk_stale` is the one of them that the comment of
  `useTodos.ts` denies most plainly.
* `SettledIsFresh`: the same join (`overtaken`), and a removal, a flag or a rebuild that the
  server carried out and answered as failed (`missed`): their hooks refresh on success
  alone, unlike the invitation's (`useSettings.ts:86`, `:292`, `:96`).  `InRange`: a page turned on another
  view's count, or rows that went away (`strayed`).
* `SavesWhatIsShown`: a new name and tags that are not plain are stored bare, as in
  `@" b"`, which the form shows with its blank (`resolve.go:39`, `:73-74`,
  `todo.go:469-481`); a save that fails after the row is written leaves it with its old tags
  or with none (`todo.go:237-243`, `:341-348`, `recurring.go:220-224`, `:331-335`); a
  show-from left blank is filled in; and it is about a save that finds the item as the form
  was opened on.
* `KeepsTheRest` (`PutBack`): a field that the list has otherwise than the form was opened
  with (`opened` against `base`).  Another tab's change that was fetched while the form was
  open is sent back, although nothing was touched in that field: `changes()` compares with
  the `todo` prop as it is now, where its comment says "only the fields that actually moved"
  (`ActionForm.tsx:141-172`).  So is a description with two blanks in a row, which the form
  shows and sends with one.
* `CompletionNames`: a name completed right before more of a word, one inside an open
  quotation, and a new name with a character in it that ends a name.  The names in the lists
  are plain (`PlainNames`): the server trims a name (`context.go:73`), and the client drops
  its sigil, but both leave a blank before a sigil or two blanks in a row inside it.  With a
  context `a #b`, an `a` that is chosen before a `#b` is read as that context.  The form of
  TLC's lists is an assumption of `MCForms`, the hypothesis of the theorem here.

## 4. Proofs

All theorems are about the specifications without bounds on the constants, and rest
on the assumptions the modules name.  `UserGuard`: `GuardAssumption` and
`SingleProcessAssumption`.  `Calendar`: `NoneIsNoDate`.  `Tickler`: `Quotas`, `TimesAssumption`,
`Markers`, `NotRows`.  `Recurrence`: `PatternsAreRows`.  `Filing`: `Apart`, `Limits`, `NotRows`.  `Belongings`:
`NamesAssumption`, `Bounds`, `NoneIsNone`.  `Session`: `CallsAssumption`,
`OpsAssumption`, `PairsAssumption`, `NoneAssumption`.  `Desk`: `MaxAssumption`,
`FollowedAssumption`, `NoneAssumption`.  `Tables`: `RowsAssumption`, `MaxAssumption`.
`Composer`: `CharsAssumption`, `ListsAssumption`, `NoneAssumption`.  `Forms`:
`KindsAssumption`, `NamesAssumption`, `DaysAssumption`, `InputsAssumption`,
`ItemsAssumption`, `BoundsAssumption`, `MarkersAssumption`.
They say that constants have their types, that limits are positive where a limit of zero
means none (`quota.go:44`), that `None` and the other markers are no row and no number,
that what is counted is finite (places, tags, rows of a table, requests of a browser),
that no action a form is opened on hides past the day it is due (the server's side of that
is `DatesAgree`), and that SQLite is used by one process, as its documentation demands.

Every invariant and every action property that a passing run checks is a theorem; what is
left to TLC is at the end of this section.

**`UserGuardProofs`.**  `Invariance` proves `IInv`.  `EntryInMap` and `RefsExact`
are not inductive alone: that an entry is freed at the right moment needs the count
to be the number of its users, which needs distinct accounts to have distinct
entries (`EntriesDistinct`), idle requests to hold none (`IdleHasNothing`), and one
token per entry (`TokenUnique`).  From it follow `EntryStaysInMap`,
`ReferenceCountsExact`, `NoAbandonedToken`, `Exclusion`, `Typing` (`TypeOK`), and
`Refinement`: every step of `UserGuard` is a step of `AccountLock` or a stutter.  The
finite sets are handled with the cardinality lemmas of the library.

**`TicklerProofs`.**

* `Typing` (`TypeOK`): `Base`, the types with two facts no type shows: what a request
  must have in hand at each statement (`Ready`), and that only the holder of the
  guard is at a guarded one (`Held`).
* `Allowances`: `QuotaHeld`.  Inductive with `Room` (who is about to insert has
  found room) and `OneRec` (an inserted pattern is the only one its request holds).
  `Held` is what keeps two requests from having found the same room.
* `SingleInstance`: `OneOpenInstance`.  Inductive with `NoneOpen` (who is about to
  spawn has found no open instance, and nobody can have made one since) and
  `Copied` (a row about to be overwritten has the pattern that was read).
* `DatesOfRows` (`DatesAgree`, when `Leads` has no negative number: `LeadsAhead`) and
  `FreshLists` (`ListFresh`, without that condition) come from `Dating`: every row,
  stored or about to be written back, is sound (`Sounding`), no stored pattern and no
  copy of one has a negative lead (`Leading`), and no request has a clock that is ahead
  (`Past`).  A step leaves a row as it is, or writes a sound one that is deferred only
  for a later instant or counts as late (`RowStep`): that keeps a list fresh between its
  promotion and its read.
* `OnlyForward` (`DatesAdvance`): `Advancing` says that the row of a pattern and every
  copy in hand remember the newest date it produced, or the holder of the guard is just
  about to save it.  A next occurrence is later than the remembered one (`NextDueLater`),
  whatever the calendar and however the pattern was edited.

`TicklerProofs` extends `Recurrence` beside `Tickler`, and has the theorems about the
calendar too: both modules are about `recurrence.go`.  Nothing here recurs: the calendar is a formula for the number of
a date (`DayNo`), and a search is the first element of a set.

* `Correctness` (`NextIsTheNext`): what `NextOccurrence` finds is the next occurrence, and
  it finds none only when there is none up to the end of the pattern.  `Occurs` reads
  the date off a day number; that this date is the only one with that number
  (`DateOf`), so that a candidate built from year, month and clamped day is the day
  that occurs, is shown from the lengths of months and years.  The first element exists
  by well-foundedness of the naturals; the candidates of a search grow (`MonthlyGrows`),
  so the first that is later is the least that is.  A weekly search looks at one full
  interval and a week, and every such stretch has a hit.
  The code gives up after 1200 candidates of a monthly search and 200 of a yearly one
  (`recurrence.go:151`, `:171`), so the theorem is stated for days before the last of
  them (`InReach`): a century of monthly, two of yearly dates, counted from the anchor
  and multiplied by the interval.  Daily and weekly patterns have no such limit.
* `NoneSkipped`: whatever the reach, each day that is spawned is a later occurrence
  and none was skipped on the way; a pattern past its reach stops.
* `KeepsPace` (`MonthsKeepPace`): between two occurrences in a row lies one interval of
  months, and the day is the one asked for or the last of a shorter month.
* `DailySchedule`: the day `Tickler` takes for a row is the day `NextOccurrence` finds for
  a daily pattern with the anchor, interval and end of that row, and so an occurrence by
  the calendar with none before it.  `OnlyForward` is about rows that are edited between
  two spawns; this is about what one spawn computes.

**The guard of the account modules.**  `GuardAsPromised`, in `TicklerProofs`,
`FilingProofs` and `BelongingsProofs`: the module's `Spec` implements `AccountLock` with
one account, and a request gets the guard and loses it only by steps of its own
(`OwnGuard`).  `StepTurns` goes through the actions.  The handlers that give the guard
back while going on need the invariant: `NextRec` sets `holder` to `None` without asking
whose it is, and takes it from nobody else because of `Held`.

**`FilingProofs`.**  Each step is first reduced to what its request has in hand after it
(`Moves`) and to what it writes; the three invariants read only that.

* `Typing` (`TypeOK`): `Base`, with what a request has in hand (`HandsFull`), that a note
  has no context (`Row`) and that only the holder of the guard is in a guarded handler.
* `Allowances` (`AllowancesHeld`): inductive with `Room` (who is about to insert has found
  room) and `SameKind` (a row that is written back is of the kind it was, so that an
  update never makes a note).
* `OnePlacePerName` (`NamesResolveOnce`): inductive with `Unnamed`, which says of the
  holder of the guard what the lookup found, until its insert.  It is about the places that
  guarded requests make; the edit of a note is the exception of section 3.
* `ReferencesAreGood` (`ReferencesLead`): inductive with `Cleared`.  The rows that hold up
  a delete (`Loose`) only become fewer (`Shrinks`), whoever writes, because a row that is
  filed meanwhile is in `raced`; each statement of a delete empties one kind, and the row
  of the place goes when all are empty.

**`BelongingsProofs`.**  Every step is one request's (`OneMoves`), which is what the
lemmas on handing on, taking back and adding are about.

* `Typing` (`TypeOK`): `Base`, the types and what a request has in hand (`Ready`).
* `Accounting`: `ObjectsAccounted`, inductive beside `Base`: what vouches for an
  object hands it on, to a request, a row or the ghost `leaked` (`HandedOn`).
* `ListedCanBeOpened`: `RowsHaveObjects`.  Inductive with the life of a stored name
  (`FilesSound`): it belongs to one upload until its row is there, to one row until
  that is gone, and only then to those who remove its object.
* `NothingLeftBehind`: `NothingOutlivesItsAction`.  Inductive with `Leaving`: from
  its first statement on, a delete leaves only links added meanwhile, and from the
  delete of the rows on only rows added meanwhile.
* `Allowances`: `WithinAllowance`.  Inductive with `Checked`: whoever is about to insert
  a row or tags holds the guard and has found room for them.  What an account uses is a
  sum over a set of rows, a recursive function on its subsets; that a row more adds its
  size and a row less makes no larger sum is shown without induction over data, from a
  smallest set for which it fails (`Smallest`, by the library's well-foundedness of
  finite subsets).

**`SessionProofs`.**  Two invariants, the second on top of the first, and the types.

* `IInv` has the types, what a request and a refresh have in hand (`Ready`), that
  numbers are given out once (`Numbered`), one row a session (`Single`), that a pair on
  its way to the store is nowhere else (`OnTheWay`), which requests and refreshes may be
  adrift, and that the successor of a refresh adrift is missed already (`Adrift`), that the store has the token of
  its session or is about to get it (`Follows`), and what an ended session has left
  (`Ended`).  `OnceForAll`
  (`CarriedOutOnce`) and `OneRowPerSession` are parts of it.  `EndedForGood`
  (`EndedIsDead`) needs that a session in `left` and not in `slipped` is in no answer
  and in no refresh past `Consume`, so that nothing makes it a row again (`Unmoved`),
  and that a row it still has is named by a logout under way and is neither stored nor
  being sent (`Doomed`).
* `Full` adds `Loyal`: unless the stored session is in `crossed`, a refresh under way is
  of the stored pair and is the only one, and when it was refused the session has no
  row; with it `NoneThrownAway` (`LiveSessionKept`) is a property of the step
  `Expelled`.  `StoreIsGood` (`StoredIsLive`) needs `Kept`: a session that lost its row
  was ended or is being rotated (`Lost`), and one that has a row is stored, on its way
  to the store, ended or crossed (`Accounted`).

With five pairs, more than a run reaches, a refresh can land beside one of another
session in the same tab, or a sign-in replace a session whose refresh then fails;
the proof did not go through until `crossed` recorded these (`Overlaid`, `Replaced`),
which says what `LiveSessionKept` does not promise.

* `Typing` (`TypeOK`): that a number never goes beyond `MaxPairs` needs `Fits` (the pairs
  that requests under way may still need, for a refresh or a changed password, have been
  set aside); that every token anywhere is one that was issued is `Placed`.  So the bound
  of the run cuts off no behaviour half-way: a request begins only if it can be finished.

**`DeskProofs`.**

* `UndoneForGood` (`UndoneStays`): with `Single`, the only timer that runs is that of the
  operation that is pending, and one that was taken back is neither.
* `ShownIsCurrent` (`SettledIsCurrent`), for all queries, all pages and any number of
  changes, where a run follows four.  `Covered` goes through the table of changes: what
  the server alters of a query (`Effects`, `Shows`) is in the list of its hook
  (`Invalidates`) or known to be left out (`LeftStale`).  `Fresh` carries it over the
  time between the answer and the refetch: an answer on its way or on screen has every
  change of the tab, or a change that is answered still has to ask (`Owed`).
* `Typing` (`TypeOK`): a change reaches a page at most twice (a note that is turned into an
  action is written, and deleted afterwards).  `Balance` says that what has reached it and
  what requests and undoable operations under way may still add is at most two for each
  change begun; `Looks` that no answer counts more than has reached it.

**`TablesProofs`.**

* `ShownIsFresh` (`SettledIsFresh`): `Fresh`, as above, for the table on screen.
* `StandsOnAPage` (`InRange`): `Ranged` is the claim about the server, about an answer on
  its way and about what is held, at once, because rows may be added between them; that
  more rows make no fewer pages (`PagesGrow`) carries it from one to the next.
* `Typing` (`TypeOK`): with `Counted`, the changes of this page are among the server's.

**`FormsProofs`.**  `Composer` reads a text by two recursive functions (`Tokens`,
`Collapse`), and a claim about every text is one about every length.  It is proved without
induction over data: the set of positions from which the claim fails is a set of numbers,
so if it is not empty it has a least or a greatest element (`LeastOf`, `GreatestOf`), and
that one has a neighbour for which the claim holds.  That the recursions define functions
at all is shown by the same argument on the functions that solve them up to a length.

* `FormsTypeOK` (`TypeOK`): `IInv`, the types with what a save under way carries (`Asked`:
  what is sent is as it was shown, what is left out as the list had it), what the form of
  an edited action can show (`Marked`), and that saves are numbered once.  A description is a text because every token lies inside the
  text it was read from, and what is collapsed has only characters of that text.
* `FormsSaveWhatIsShown` (`SavesWhatIsShown`): a field that is not sent was shown as it
  was when the form was opened; a plain name or tag is read as it stands, having no blank
  to trim and no sigil to lose (`TrimmedPlain`, `NameOfPlain`, `MeaningAsShown`); and the
  server's clamp changes nothing, because the form had clamped (`Dated` is the identity on
  what a form shows, but for a blank show-from).  A save that fails half-way differs from
  that in its tags alone (`CarriedIs`).
* `FormsKeepTheRest` (`KeepsTheRest`): from the same invariant, whatever was stored meanwhile.
  A field that is not sent keeps its value (`UpdatedIs`).  One that is sent untouched differed
  in the list, is not a name that is made (`Asked`), and so is read as what the form was opened
  with (`MeaningIs`).
* `FormsCompletion` (`CompletionNames`), for lists of plain names: a completed text agrees
  with the one before up to the sigil (`Agree`), and the scans of both take the same tokens
  until one reaches it (`Reached`).  What stands there (`Stands`) is then read as the name:
  one in quotes to its closing quote, one word to its blank, and an existing one because
  any longer name that fits would hold the blank that was put behind it and go on with a
  blank or a sigil, which a plain name does not.

Only model-checked:

* Liveness: `WaitersLeave`, `EndsWithWindow`, `Settles`, `ScheduledLeaves`.  Liveness under
  fairness and `ENABLED` are beyond the prover.
* `NextIsTheNext` past the reach of a search, as above, is not claimed: there the code
  ends a pattern that has occurrences left.  No run comes that far.
* `CompletionNames` for lists that hold a name that is not plain is false, as section 3 says.

No module declares a `RECURSIVE` operator.

## 5. Not modelled

* Second factor, passkeys, pending tokens and mail, enrollment, accounts and
  administration, settings and preferences, the report's schedule: planned, next
  section.  The hazards listed for them have no property yet: the rows an
  administrator's update or delete reads before its guard (`admin.go:233`), the purge
  beside requests of the account (`admin.go:274`), the columns an update of preferences
  writes (`bun_prefs.go:36`).
* The lockout after failed sign-ins, and how identity is proved.
* Whose data a cached answer holds: the cache is not emptied on sign-out
  (`AuthProvider.tsx:79`), and `Desk` follows one account.
* The settings pages of the client, its look and its language; filters and gestures
  of the content pages; interval, day and month of a pattern's form.
* Positions of actions and projects, descriptions, stars, wording, paging and
  filters: no property is about them.
* Time zones: one zone; a day has its number.  `recurrence.go` works in the zone of
  its arguments; the zone database is Go's.
* The links between patterns and tags, the default context of a project.
* A statement is atomic and durable when it returns.  A commit whose outcome is
  unknown is modelled only where the code reacts to it (`CreateRow`).
* Audit, legal texts, statistics, export, metrics, mail, routing, start-up.

## 6. Plan

Done: 1 `UserGuard` over `AccountLock` with proofs; 2 `Tickler` with proofs;
3 `Recurrence` with proofs; 4 `Filing` with proofs; 5 `Belongings` with proofs; 6 `Session` with proofs;
7 `Query` with `Tables` and `Desk`, with proofs; 8 `Composer` with `Forms`, with proofs.

Next, in this order:

9. **`Accounts`** (`service/admin.go`, `settings.go`, `preference.go`,
   `repo/bun_enrollment.go`): users as whole rows read and written by
   administrators, owners and password changes; the guard with key 0; enrollment and
   the first administrator; the purge against requests in flight.  Properties: an
   administrator remains unless a stale write is to blame, a purge that stopped can
   be finished, nothing is written for an account that is gone but by a request
   that began before, settings are not lost but to an overlapping writer.
   Run: 2 administrators, 1 other user, 2 requests.
10. **`SignIn`** (`service/twofactor.go`, `twofactor_challenge.go`, `passkey.go`,
    `email.go`, `repo/bun_ephemeral.go`): challenges with attempts, one-time and
    recovery codes, ceremonies, single-use links.  Abstract specification worth
    stating: a token that can be used once (`SingleUse`), implemented by `Take`,
    `ConsumeStep` and the `Consume` of `Session`.  Properties: a code or link is spent
    once; a challenge accepts no more codes than its attempts.
11. Proofs: single use in `SignIn`.
12. A composition of `Tickler` with `Belongings` on deletion, and of `Session` with
    `Desk` on sign-out, if the state spaces allow.

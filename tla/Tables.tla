-------------------------------- MODULE Tables --------------------------------
(* The paged tables of the administrators: accounts (pages/AdminPage.tsx), the *)
(* audit log (AuditPage.tsx) and the usage report (ReportsPage.tsx).  Each asks *)
(* the server for one page of one view, a view being a filter and an order.     *)
(* They differ in when a new view is asked for, in what they show meanwhile,    *)
(* and in what can be done to a row.                                            *)
EXTENDS Query, Naturals, FiniteSets

CONSTANTS
  Screens,    \* which of "users", "audit", "usage" are modelled
  Rows,       \* rows there may be, in the order they are listed
  Me,         \* the row of the administrator
  PageSize,
  MaxChanges  \* bound: changes of the server's table

Views == {"all", "flagged"}
ASSUME ScreensAssumption == Screens \subseteq {"users", "audit", "usage"}
ASSUME RowsAssumption == Rows \subseteq Nat /\ IsFiniteSet(Rows) /\ PageSize \in Nat \ {0}
ASSUME MaxAssumption == MaxChanges \in Nat

VARIABLES
  screen,     \* the page that is open
  rows, flagged, built,   \* the server: rows, their flag, the rows of the built report
  own,        \* how many requests of this page have changed it
  changes,    \* bound
  typed, asked, page,     \* the inputs, the view that is asked for and its page
  q,          \* the query of that view and page
  last,       \* the answer shown before it
  confirming, \* the row whose removal is to be confirmed
  writing,    \* requests that change something
  \* History, read by the properties only.
  strayed,    \* the page was turned, or kept, without knowing how many there are
  overtaken,  \* the answer that is coming was read before a change of this page
  missed      \* a change of this page, not an invitation, was carried out and answered as
              \* failed, and the server has not been asked for the table since

server == <<rows, flagged, built, own, changes>>
view   == <<typed, asked, page, last>>
vars   == <<screen, server, view, q, confirming, writing, strayed, overtaken, missed>>

Snapshot == [rows : SUBSET Rows, flagged : SUBSET Rows, own : 0..MaxChanges]
Now      == [rows |-> IF screen = "usage" THEN built ELSE rows, flagged |-> flagged, own |-> own]

\* What the server answers for a page of a view: filtered, in order, and counted.
Matches(s, v)  == IF v = "all" THEN s.rows ELSE s.rows \cap s.flagged
Total(s, v)    == Cardinality(Matches(s, v))
Items(s, v, p) == {r \in Matches(s, v) :
                     LET k == Cardinality({x \in Matches(s, v) : x <= r})
                     IN  (p - 1) * PageSize < k /\ k <= p * PageSize}
Pages(n)       == IF n = 0 THEN 1 ELSE (n + PageSize - 1) \div PageSize
LastPage       == Pages(Cardinality(Rows))

Write == [op : {"delete", "flag", "create", "rebuild"}, row : Rows \cup {None}, on : BOOLEAN,
          pc : {"sent", "ok", "refused"}]
Answer == [snap : Snapshot, view : Views, page : 1..LastPage + 1]

TypeOK ==
  /\ screen \in Screens
  /\ rows \subseteq Rows /\ flagged \subseteq Rows /\ built \subseteq Rows
  /\ own \in 0..MaxChanges /\ changes \in 0..MaxChanges
  /\ typed \in Views /\ asked \in Views /\ page \in 1..LastPage + 1
  /\ q \in Queries(Snapshot) /\ last \in Answer \cup {None}
  /\ confirming \in Rows \cup {None} /\ writing \subseteq Write
  /\ strayed \in BOOLEAN /\ overtaken \in BOOLEAN /\ missed \in BOOLEAN

\* The accounts show nothing until the answer is there, the others what was shown.
Shown == IF q.data # None THEN [snap |-> q.data, view |-> asked, page |-> page]
         ELSE IF screen = "users" THEN None ELSE last

Init ==
  /\ screen \in Screens
  /\ rows \in SUBSET Rows /\ flagged \in SUBSET Rows
  /\ built = rows /\ own = 0 /\ changes = 0
  /\ typed = "all" /\ asked = "all" /\ page = 1
  /\ q = Sent(NoQuery) /\ last = None
  /\ confirming = None /\ writing = {} /\ strayed = FALSE /\ overtaken = FALSE
  /\ missed = FALSE

-----------------------------------------------------------------------------
(* Views and pages *)

\* Another view or page is another query (bound: one that was left is forgotten).
Goto(v, p) ==
  /\ asked' = v /\ page' = p
  /\ IF v = asked /\ p = page THEN UNCHANGED <<q, last, overtaken>>
     ELSE /\ q' = Sent(NoQuery) /\ overtaken' = FALSE
          /\ last' = IF q.data # None THEN Shown ELSE last

Looking == UNCHANGED <<screen, confirming, writing, missed>> /\ UNCHANGED server

\* Accounts: each keystroke goes back to page 1; audit: the draft alone changes.
Type(v) ==
  /\ screen \in {"users", "audit"} /\ v # typed
  /\ typed' = v
  /\ IF screen = "users" THEN Goto(asked, 1) /\ strayed' = FALSE
     ELSE UNCHANGED <<asked, page, last, q, strayed, overtaken>>
  /\ Looking

\* Accounts: 300 ms after the last keystroke the text is asked for, on the page
\* that is open by then.
Debounce ==
  /\ screen = "users" /\ typed # asked
  /\ Goto(typed, page) /\ UNCHANGED typed
  /\ strayed' = (strayed \/ page # 1)
  /\ Looking

\* Audit: the draft is asked for, from the first page on.
Apply ==
  /\ screen = "audit"
  /\ Goto(typed, 1) /\ UNCHANGED typed /\ strayed' = FALSE
  /\ Looking

\* Fault: the view changes under the page that is open.
RefineInPlace(v) ==
  /\ screen \in {"users", "usage"} /\ typed = asked /\ v # asked
  /\ typed' = v /\ Goto(v, page) /\ UNCHANGED strayed
  /\ Looking

\* The other filters and the order: at once, from the first page on.
Refine(v) ==
  /\ screen \in {"users", "usage"} /\ typed = asked /\ v # asked
  /\ typed' = v /\ Goto(v, 1) /\ strayed' = FALSE
  /\ Looking

\* Fault: the buttons are never off.
TurnAlways(step) ==
  /\ Shown # None
  /\ LET at == IF screen = "usage" THEN Shown.page ELSE page
         p  == IF step = "next" THEN at + 1 ELSE at - 1
     IN  Goto(asked, p) /\ strayed' = (p # 1 /\ (strayed \/ q.data = None))
  /\ UNCHANGED typed /\ Looking

\* Pagination: the total is that of the answer on screen.  The report also takes the
\* page it is at from that answer.
Turn(step) ==
  LET at == IF screen = "usage" THEN Shown.page ELSE page
      p  == IF step = "next" THEN at + 1 ELSE at - 1
      n  == Total(Shown.snap, Shown.view) IN
  /\ Shown # None
  /\ n > 0 /\ (IF step = "next" THEN at < Pages(n) ELSE at > 1)
  /\ Goto(asked, p) /\ strayed' = (p # 1 /\ (strayed \/ q.data = None \/ Total(Now, asked) < n))
  /\ UNCHANGED typed /\ Looking

-----------------------------------------------------------------------------
(* The query *)

Fetched == UNCHANGED <<screen, typed, asked, page, last, confirming, writing, strayed>>
           /\ UNCHANGED server

Serve   == /\ q.pc = "sent" /\ q' = Read(q, Now) /\ missed' = FALSE
           /\ Fetched /\ UNCHANGED overtaken
Arrive  == q.pc = "read" /\ q' = Land(q) /\ Fetched /\ UNCHANGED <<overtaken, missed>>
Lose    == q.pc = "sent" /\ q' = Fail(q) /\ Fetched /\ UNCHANGED <<overtaken, missed>>

-----------------------------------------------------------------------------
(* Requests that change something *)

\* (bound: room is kept for the change each of them may make)
Begin(w) ==
  /\ changes + Cardinality(writing) < MaxChanges
  /\ writing' = writing \cup {w}
  /\ UNCHANGED <<screen, q, strayed, overtaken, missed>> /\ UNCHANGED view /\ UNCHANGED server

W(op, r, on) == [op |-> op, row |-> r, on |-> on, pc |-> "sent"]
Busy(op)     == \E w \in writing : w.op = op

\* A row of the table is to be removed: its dialog is opened, dismissed or confirmed.
Choose(r) ==
  /\ screen = "users" /\ confirming = None /\ Shown # None
  /\ r \in Items(Shown.snap, Shown.view, Shown.page)
  /\ confirming' = r
  /\ UNCHANGED <<screen, q, writing, strayed, overtaken, missed>> /\ UNCHANGED view /\ UNCHANGED server
Dismiss ==
  /\ confirming # None /\ confirming' = None
  /\ UNCHANGED <<screen, q, writing, strayed, overtaken, missed>> /\ UNCHANGED view /\ UNCHANGED server
Confirm ==
  /\ confirming # None /\ ~Busy("delete")
  /\ confirming' = None /\ Begin(W("delete", confirming, FALSE))

\* The flag is set to the opposite of what the table shows; not one's own.
Toggle(r) ==
  /\ screen = "users" /\ r # Me /\ confirming = None /\ Shown # None
  /\ r \in Items(Shown.snap, Shown.view, Shown.page)
  /\ Begin(W("flag", r, r \notin Shown.snap.flagged)) /\ UNCHANGED confirming

Create ==
  /\ screen = "users" /\ ~Busy("create") /\ confirming = None
  /\ Begin(W("create", None, FALSE)) /\ UNCHANGED confirming
Rebuild ==
  /\ screen = "usage" /\ ~Busy("rebuild")
  /\ Begin(W("rebuild", None, FALSE)) /\ UNCHANGED confirming

\* The server's table becomes rs with flags fl; a page that is open may end earlier.
Becomes(rs, fl, bt) ==
  /\ changes < MaxChanges /\ changes' = changes + 1
  /\ rows' = rs /\ flagged' = fl /\ built' = bt
  /\ strayed' = (strayed \/ (page # 1 /\ \E v \in {asked, typed} :
                   Total([rows |-> IF screen = "usage" THEN bt ELSE rs, flagged |-> fl], v)
                     < Total(Now, v)))

\* What the request does to the table.
Effect(w) ==
  \/ /\ w.op = "create"
     /\ \E r \in Rows \ rows : Becomes(rows \cup {r}, flagged, built)
  \/ /\ w.op = "delete" /\ w.row \in rows
     /\ Becomes(rows \ {w.row}, flagged, built)
  \/ /\ w.op = "flag" /\ w.row \in rows
     /\ Becomes(rows, IF w.on THEN flagged \cup {w.row} ELSE flagged \ {w.row}, built)
  \/ /\ w.op = "rebuild"
     /\ Becomes(rows, flagged, rows)

\* Carried out and answered as done; refused; or carried out and answered as failed: the
\* mail after an account is stored, the commit of the guard after a flag or a purge
\* (admin.go:217, :264), the time after a rebuild (usage_report.go:86-91), or an answer
\* that is lost.
Carry(w) ==
  /\ w \in writing /\ w.pc = "sent"
  /\ \E pc \in {"ok", "refused"} :
       /\ writing' = (writing \ {w}) \cup {[w EXCEPT !.pc = pc]}
       /\ \/ /\ Effect(w) /\ own' = own + 1
             /\ missed' = (missed \/ (pc = "refused" /\ w.op # "create"))
          \/ pc = "refused" /\ UNCHANGED <<rows, flagged, built, own, changes, strayed, missed>>
  /\ UNCHANGED <<screen, q, confirming, overtaken>> /\ UNCHANGED view

\* Fault: the list is refreshed only when the account could be mailed.
FinishIfOk(w) ==
  /\ w \in writing /\ w.pc # "sent"
  /\ writing' = writing \ {w}
  /\ IF w.pc = "ok"
     THEN q' = Refetch(q) /\ overtaken' = (Overtakes(q) \/ (overtaken /\ Refetch(q) = q))
     ELSE UNCHANGED <<q, overtaken>>
  /\ UNCHANGED <<screen, confirming, strayed, missed>> /\ UNCHANGED view /\ UNCHANGED server

\* The answer: success refreshes the table (onSuccess), and so does a failed invitation
\* (onSettled), but no other failure.
Finish(w) ==
  /\ w \in writing /\ w.pc # "sent"
  /\ writing' = writing \ {w}
  /\ IF w.pc = "ok" \/ w.op = "create"
     THEN q' = Refetch(q) /\ overtaken' = (Overtakes(q) \/ (overtaken /\ Refetch(q) = q))
     ELSE UNCHANGED <<q, overtaken>>
  /\ UNCHANGED <<screen, confirming, strayed, missed>> /\ UNCHANGED view /\ UNCHANGED server

\* The rest of the world: other administrators, sign-ups, and the log, which records
\* the searches and exports of this very page and drops what is past its retention; also
\* a request of this page that is carried out after it was given up here.
Elsewhere ==
  /\ changes + Cardinality({w \in writing : w.pc = "sent"}) < MaxChanges
  /\ \/ \E r \in Rows \ rows : Becomes(rows \cup {r}, flagged, built)
     \/ \E r \in rows : Becomes(rows \ {r}, flagged, built)
     \/ Becomes(rows, flagged, rows)
  /\ UNCHANGED <<screen, own, q, confirming, writing, overtaken, missed>> /\ UNCHANGED view

-----------------------------------------------------------------------------
Next ==
  \/ \E v \in Views : Type(v) \/ Refine(v)
  \/ \E step \in {"next", "prev"} : Turn(step)
  \/ Debounce \/ Apply \/ Serve \/ Arrive \/ Lose
  \/ \E r \in Rows : Choose(r) \/ Toggle(r)
  \/ Dismiss \/ Confirm \/ Create \/ Rebuild
  \/ \E w \in writing : Carry(w) \/ Finish(w)
  \/ Elsewhere

Spec == Init /\ [][Next]_vars

-----------------------------------------------------------------------------
(* Properties *)

\* Once nothing is under way the answer on screen was read after the last change that
\* this page made (it counts as many of them as the server does), the account whose
\* invitation could not be mailed included.  Two exceptions: the very first answer of the
\* view was read before the change and joined by its refresh, and a removal, a flag or a
\* rebuild that was carried out and answered as failed, after which the hooks refresh
\* nothing (hooks/useSettings.ts:86, :292), until the table is asked for again.
SettledIsFresh ==
  Settled(q) /\ writing = {} => q.data.own = own \/ overtaken \/ missed

\* The table never stands past its last page, where it would be empty for no reason
\* (pages/AuditPage.tsx:87-88), except in three ways the code leaves open: the page
\* is turned while another view's answer is on screen or before the typed text is
\* asked for, or rows go away.
InRange ==
  Settled(q) /\ ~strayed => page <= Pages(Total(q.data, asked))
=============================================================================

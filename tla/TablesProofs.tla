----------------------------- MODULE TablesProofs -----------------------------
(***************************************************************************)
(* Proofs about Tables, for any rows, any size of a page and any number of *)
(* changes.                                                                *)
(***************************************************************************)
EXTENDS Tables, FiniteSetTheorems, TLAPS

-----------------------------------------------------------------------------
(* How many pages there are *)

LEMMA Quotient ==
  ASSUME NEW n \in Nat, NEW k \in Nat \ {0}
  PROVE  /\ n \div k \in Nat
         /\ k * (n \div k) <= n
         /\ n < k * (n \div k) + k
OBVIOUS

LEMMA QuotientGrows ==
  ASSUME NEW m \in Nat, NEW n \in Nat, NEW k \in Nat \ {0}, m <= n
  PROVE  m \div k <= n \div k
<1> DEFINE a == m \div k
           b == n \div k
<1>1. a \in Nat /\ b \in Nat /\ k * a <= m /\ n < k * b + k
  BY Quotient
<1> HIDE DEF a, b
<1>2. ASSUME b < a PROVE FALSE
  <2>1. PICK d \in Nat : a = b + 1 + d
    BY <1>1, <1>2
  <2>2. k * a = k * b + k + k * d /\ k * d >= 0
    BY <1>1, <2>1
  <2> QED BY <1>1, <2>2
<1>3. a <= b
  BY <1>1, <1>2
<1> QED BY <1>3 DEF a, b

\* There is always a first page, and more rows make no fewer pages.
LEMMA PagesGrow ==
  ASSUME NEW m \in Nat, NEW n \in Nat, m <= n
  PROVE  Pages(m) \in Nat /\ 1 <= Pages(m) /\ Pages(m) <= Pages(n)
<1>1. PageSize \in Nat \ {0}
  BY RowsAssumption
<1>2. ASSUME NEW x \in Nat, x # 0
      PROVE  /\ Pages(x) = (x + PageSize - 1) \div PageSize
             /\ Pages(x) \in Nat /\ 1 <= Pages(x)
  <2>1. x + PageSize - 1 \in Nat /\ PageSize <= x + PageSize - 1
    BY <1>1, <1>2
  <2>2. PageSize \div PageSize = 1
    BY <1>1
  <2>3. (x + PageSize - 1) \div PageSize \in Nat
    BY <1>1, <2>1, Quotient
  <2>4. PageSize \div PageSize <= (x + PageSize - 1) \div PageSize
    BY <1>1, <2>1, QuotientGrows
  <2> QED BY <1>2, <2>2, <2>3, <2>4 DEF Pages
<1>3. CASE m = 0
  BY <1>2, <1>3 DEF Pages
<1>4. CASE m # 0
  <2>1. n # 0 /\ m + PageSize - 1 \in Nat /\ n + PageSize - 1 \in Nat
        /\ m + PageSize - 1 <= n + PageSize - 1
    BY <1>1, <1>4
  <2>2. (m + PageSize - 1) \div PageSize <= (n + PageSize - 1) \div PageSize
    BY <1>1, <2>1, QuotientGrows
  <2> QED BY <1>2, <1>4, <2>1, <2>2
<1> QED BY <1>3, <1>4

-----------------------------------------------------------------------------
(* Shapes *)

Shaped(r)   == r = [pc |-> r.pc, data |-> r.data, got |-> r.got]
Request(w)  == w = [op |-> w.op, row |-> w.row, on |-> w.on, pc |-> w.pc]
Typed ==
  /\ Shaped(q) /\ \A w \in writing : Request(w)
  /\ own \in Nat /\ page \in Nat
  /\ rows \subseteq Rows /\ built \subseteq Rows
  /\ last # None => last.page \in Nat
  /\ q.pc = "read" => IsFiniteSet(q.got.rows)
  /\ q.data # None => IsFiniteSet(q.data.rows)

LEMMA SentShape ==
  ASSUME Shaped(q), NEW r, r = Sent(q) \/ r = Sent(NoQuery)
  PROVE  Shaped(r) /\ r.pc = "sent" /\ ~Settled(r)
         /\ (r.data = q.data \/ r.data = None)
BY DEF Shaped, Sent, NoQuery, Settled

LEMMA SentEmpty == Sent(NoQuery) = [pc |-> "sent", data |-> None, got |-> None]
<1>1. NoQuery \in [pc : {"idle"}, data : {None}, got : {None}]
  BY DEF NoQuery
<1>2. Sent(NoQuery) \in [pc : {"sent"}, data : {None}, got : {None}]
  BY <1>1 DEF Sent
<1> QED BY <1>2

LEMMA NowFinite == Typed => IsFiniteSet(Now.rows)
BY RowsAssumption, FS_Subset DEF Typed, Now

\* Another page or view starts over.
LEMMA Going ==
  ASSUME Typed, NEW v, NEW p \in Nat, Goto(v, p)
  PROVE  /\ asked' = v /\ page' = p /\ page' \in Nat
         /\ \/ v = asked /\ p = page /\ UNCHANGED <<q, last, overtaken>>
            \/ /\ q' = Sent(NoQuery) /\ overtaken' = FALSE
               /\ last' # None => last'.page \in Nat
BY DEF Goto, Typed, Shown

LEMMA TypedGone ==
  ASSUME Typed, NEW v, NEW p \in Nat, Goto(v, p), Looking
  PROVE  Typed'
<1>1. UNCHANGED <<writing, own, rows, built>>
  BY DEF Looking, server
<1>2. Sent(NoQuery).data = None /\ Sent(NoQuery).pc = "sent" /\ Shaped(Sent(NoQuery))
  BY SentEmpty DEF Shaped
<1> QED BY <1>1, <1>2, Going DEF Typed

LEMMA TotalNat ==
  ASSUME NEW s, IsFiniteSet(s.rows), NEW v
  PROVE  Total(s, v) \in Nat
<1>1. IsFiniteSet(Matches(s, v))
  BY FS_Subset DEF Matches
<1> QED BY <1>1, FS_CardinalityType DEF Total

\* The page a turn leads to.
LEMMA Turning ==
  ASSUME Typed, NEW step, Turn(step)
  PROVE  \E p \in Nat : /\ Goto(asked, p) /\ Looking
                        /\ \/ p = 1 /\ strayed' = FALSE
                           \/ strayed'
                           \/ /\ ~strayed /\ q.data # None
                              /\ Total(q.data, asked) <= Total(Now, asked)
                              /\ p < page \/ p <= Pages(Total(q.data, asked))
<1> DEFINE at == IF screen = "usage" THEN Shown.page ELSE page
           p  == IF step = "next" THEN at + 1 ELSE at - 1
           n  == Total(Shown.snap, Shown.view)
<1>1. /\ Shown # None /\ Goto(asked, p) /\ Looking
      /\ IF step = "next" THEN at < Pages(n) ELSE at > 1
      /\ strayed' = (p # 1 /\ (strayed \/ q.data = None \/ Total(Now, asked) < n))
  BY DEF Turn
<1>2. at \in Nat
  BY <1>1 DEF Shown, Typed
<1>3. p \in Nat
  BY <1>1, <1>2
<1>4. CASE p = 1
  BY <1>1, <1>3, <1>4
<1>5. CASE p # 1 /\ strayed'
  BY <1>1, <1>3, <1>5
<1>6. CASE p # 1 /\ ~strayed'
  <2>1. ~strayed /\ q.data # None /\ ~(Total(Now, asked) < n)
    BY <1>1, <1>6
  <2>2. Shown = [snap |-> q.data, view |-> asked, page |-> page]
    BY <2>1 DEF Shown
  <2>3. at = page /\ n = Total(q.data, asked)
    BY <2>2
  <2>4. Total(q.data, asked) \in Nat /\ Total(Now, asked) \in Nat
    BY <2>1, NowFinite, TotalNat DEF Typed
  <2>5. Total(q.data, asked) <= Total(Now, asked)
    BY <2>1, <2>3, <2>4
  <2>6. Pages(n) \in Nat
    BY <2>3, <2>4, PagesGrow
  <2>7. p < page \/ p <= Pages(n)
    <3> HIDE DEF n
    <3>1. CASE step = "next"
      BY <1>1, <1>2, <2>6, <3>1
    <3>2. CASE step # "next"
      BY <1>2, <2>3, <3>2
    <3> QED BY <3>1, <3>2
  <2> QED BY <1>1, <1>3, <2>1, <2>3, <2>5, <2>7
<1> QED BY <1>4, <1>5, <1>6

\* What the reader of the table does to its view: everything else is left as it is.
Looks == \/ \E v \in Views : Type(v) \/ Refine(v)
         \/ \E step \in {"next", "prev"} : Turn(step)
         \/ Debounce \/ Apply

\* A look goes somewhere, or only changes what is typed.
LEMMA Looking1 ==
  ASSUME Typed, Looks
  PROVE  /\ Looking
         /\ \/ UNCHANGED <<asked, page, last, q, strayed, overtaken>>
            \/ \E v \in Views \cup {asked, typed}, p \in Nat :
                 /\ Goto(v, p)
                 /\ \/ p = 1 /\ strayed' = FALSE
                    \/ strayed'
                    \/ p = 1 /\ page = 1
                    \/ /\ v = asked /\ ~strayed /\ q.data # None
                       /\ Total(q.data, asked) <= Total(Now, asked)
                       /\ p < page \/ p <= Pages(Total(q.data, asked))
<1>1. ASSUME NEW v \in Views, Type(v) \/ Refine(v)
      PROVE  /\ Looking
             /\ \/ UNCHANGED <<asked, page, last, q, strayed, overtaken>>
                \/ \E w \in {v, asked} : Goto(w, 1) /\ strayed' = FALSE
  BY <1>1 DEF Type, Refine
<1>2. ASSUME NEW step \in {"next", "prev"}, Turn(step)
      PROVE  /\ Looking
             /\ \E p \in Nat : /\ Goto(asked, p)
                               /\ \/ p = 1 /\ strayed' = FALSE
                                  \/ strayed'
                                  \/ /\ ~strayed /\ q.data # None
                                     /\ Total(q.data, asked) <= Total(Now, asked)
                                     /\ p < page \/ p <= Pages(Total(q.data, asked))
  BY <1>2, Turning
<1>3. CASE Debounce
  BY <1>3 DEF Debounce, Typed
<1>4. CASE Apply
  BY <1>4 DEF Apply
<1> QED BY <1>1, <1>2, <1>3, <1>4 DEF Looks

\* What is under way to change something.
Asks == \/ \E r \in Rows : Choose(r) \/ Toggle(r)
        \/ Dismiss \/ Confirm \/ Create \/ Rebuild

LEMMA Asking ==
  ASSUME Typed, Asks
  PROVE  /\ UNCHANGED <<screen, q, strayed, overtaken, missed>>
         /\ UNCHANGED view /\ UNCHANGED server
         /\ writing \subseteq writing'
         /\ \A w \in writing' : Request(w)
BY DEF Asks, Choose, Toggle, Dismiss, Confirm, Create, Rebuild, Begin, W, Typed, Request

\* The server's table becomes another one.
Changed == \E rs \in SUBSET Rows, bt \in SUBSET Rows : \E fl : Becomes(rs, fl, bt)

\* A request is carried out, and its page will hear of it or misses it, or is refused.
LEMMA Carrying ==
  ASSUME Typed, NEW w \in writing, Carry(w)
  PROVE  /\ UNCHANGED <<screen, q, overtaken>> /\ UNCHANGED view
         /\ w.pc = "sent"
         /\ \E pc \in {"ok", "refused"} :
              /\ writing' = (writing \ {w}) \cup {[w EXCEPT !.pc = pc]}
              /\ \/ Changed /\ own' = own + 1 /\ (pc = "ok" \/ w.op = "create" \/ missed')
                 \/ UNCHANGED <<rows, flagged, built, own, strayed, missed>>
<1> PICK pc \in {"ok", "refused"} :
      /\ writing' = (writing \ {w}) \cup {[w EXCEPT !.pc = pc]}
      /\ \/ /\ Effect(w) /\ own' = own + 1
            /\ missed' = (missed \/ (pc = "refused" /\ w.op # "create"))
         \/ pc = "refused" /\ UNCHANGED <<rows, flagged, built, own, changes, strayed, missed>>
  BY DEF Carry
<1>1. Effect(w) => Changed
  BY DEF Effect, Changed, Typed
<1> QED BY <1>1 DEF Carry

LEMMA Elsewhere1 ==
  ASSUME Typed, Elsewhere
  PROVE  Changed /\ UNCHANGED <<screen, own, q, writing, overtaken, missed>> /\ UNCHANGED view
<1>1. Changed
  BY DEF Elsewhere, Changed, Typed
<1> QED BY <1>1 DEF Elsewhere

LEMMA TypedInit == Init => Typed
<1> SUFFICES ASSUME Init PROVE Typed
  OBVIOUS
<1> QED BY SentEmpty DEF Init, Typed, Shaped

LEMMA TypedStep == ASSUME Typed, [Next]_vars PROVE Typed'
<1>1. CASE Looks
  <2>1. CASE UNCHANGED <<asked, page, last, q, strayed, overtaken>>
    BY <1>1, <2>1, Looking1 DEF Typed, Looking, server
  <2> QED BY <1>1, <2>1, Looking1, TypedGone
<1>2. CASE Serve
  <2>1. q' = [pc |-> "read", data |-> q.data, got |-> Now]
    BY <1>2 DEF Serve, Read, Typed, Shaped
  <2> QED BY <1>2, <2>1, NowFinite DEF Serve, Fetched, server, Typed, Shaped
<1>3. CASE Arrive
  <2>1. q' = [pc |-> "idle", data |-> q.got, got |-> None] /\ q.pc = "read"
    BY <1>3 DEF Arrive, Land, Typed, Shaped
  <2> QED BY <1>3, <2>1 DEF Arrive, Fetched, server, Typed, Shaped
<1>4. CASE Lose
  <2>1. q' = [pc |-> "failed", data |-> q.data, got |-> None]
    BY <1>4 DEF Lose, Fail, Typed, Shaped
  <2> QED BY <1>4, <2>1 DEF Lose, Fetched, server, Typed, Shaped
<1>5. CASE Asks
  BY <1>5, Asking DEF Typed, view, server
<1>6. ASSUME NEW w \in writing, Carry(w) PROVE Typed'
  <2>1. \A v \in writing' : Request(v)
    BY <1>6, Carrying DEF Typed, Request
  <2>2. UNCHANGED <<q, page, last>>
    BY <1>6, Carrying DEF view
  <2>3. own' \in Nat
    <3>1. own \in Nat
      BY DEF Typed
    <3>2. own' = own \/ own' = own + 1
      BY <1>6, Carrying
    <3> QED BY <3>1, <3>2
  <2>4. rows' \subseteq Rows /\ built' \subseteq Rows
    BY <1>6, Carrying DEF Changed, Becomes, Typed
  <2> QED BY <2>1, <2>2, <2>3, <2>4 DEF Typed
<1>7. ASSUME NEW w \in writing, Finish(w) PROVE Typed'
  <2>1. q' = q \/ q' = Sent(q)
    BY <1>7 DEF Finish, Refetch
  <2>2. UNCHANGED <<page, last, own, rows, built>> /\ writing' \subseteq writing
    BY <1>7 DEF Finish, view, server
  <2> QED BY <2>1, <2>2, SentShape DEF Typed
<1>8. CASE Elsewhere
  BY <1>8, Elsewhere1 DEF Changed, Becomes, view, Typed
<1>9. CASE UNCHANGED vars
  BY <1>9 DEF vars, server, view, Typed
<1> QED BY <1>1, <1>2, <1>3, <1>4, <1>5, <1>6, <1>7, <1>8, <1>9 DEF Next, Looks, Asks

-----------------------------------------------------------------------------
(* The table is fresh *)

\* A change was carried out, and the table is about to be asked for anew for it.
Owed(w) == w.pc # "sent" /\ (w.pc = "ok" \/ w.op = "create")
Excused == overtaken \/ missed \/ \E w \in writing : Owed(w)

Fresh ==
  /\ q.pc = "read" => q.got.own = own \/ Excused
  /\ Settled(q) => q.data.own = own \/ Excused

LEMMA FreshInit == Init => Fresh
BY SentEmpty DEF Init, Fresh, Settled

LEMMA FreshKept ==
  ASSUME Fresh, UNCHANGED <<q, own, overtaken, missed>>, \A w \in writing : Owed(w) => w \in writing'
  PROVE  Fresh'
BY DEF Fresh, Excused, Owed

LEMMA FreshCarried == ASSUME Typed, Fresh, NEW w \in writing, Carry(w) PROVE Fresh'
<1> PICK pc \in {"ok", "refused"} :
      /\ writing' = (writing \ {w}) \cup {[w EXCEPT !.pc = pc]}
      /\ \/ Changed /\ own' = own + 1 /\ (pc = "ok" \/ w.op = "create" \/ missed')
         \/ UNCHANGED <<rows, flagged, built, own, strayed, missed>>
  BY Carrying
<1>1. UNCHANGED <<q, overtaken>> /\ w.pc = "sent"
  BY Carrying
<1>2. CASE UNCHANGED <<own, missed>>
  BY <1>1, <1>2, FreshKept DEF Owed
<1>4. CASE missed'
  BY <1>4 DEF Fresh, Excused
<1>3. CASE pc = "ok" \/ w.op = "create"
  <2>1. Owed([w EXCEPT !.pc = pc])
    BY <1>3 DEF Typed, Request, Owed
  <2> QED BY <1>1, <2>1 DEF Fresh, Excused
<1> QED BY <1>2, <1>3, <1>4

LEMMA FreshFinished == ASSUME Typed, Fresh, NEW w \in writing, Finish(w) PROVE Fresh'
<1>1. /\ UNCHANGED <<own, missed>> /\ writing' = writing \ {w} /\ w.pc # "sent"
      /\ IF w.pc = "ok" \/ w.op = "create"
         THEN q' = Refetch(q) /\ overtaken' = (Overtakes(q) \/ (overtaken /\ Refetch(q) = q))
         ELSE UNCHANGED <<q, overtaken>>
  BY DEF Finish, server
<1>2. CASE ~Owed(w)
  BY <1>1, <1>2, FreshKept DEF Owed
<1>3. CASE Owed(w) /\ UnderWay(q) /\ q.data = None
  BY <1>1, <1>3 DEF Owed, Refetch, Overtakes, UnderWay, Settled, Fresh, Excused
<1>4. CASE Owed(w) /\ ~(UnderWay(q) /\ q.data = None)
  <2>1. q' = Sent(q)
    BY <1>1, <1>4 DEF Owed, Refetch
  <2>2. q'.pc = "sent" /\ ~Settled(q')
    BY <2>1, SentShape DEF Typed
  <2> QED BY <2>2 DEF Fresh
<1> QED BY <1>2, <1>3, <1>4

LEMMA FreshStep == ASSUME Typed, Fresh, [Next]_vars PROVE Fresh'
<1>1. CASE Looks
  <2>1. UNCHANGED <<own, writing, missed>>
    BY <1>1, Looking1 DEF Looking, server
  <2>2. CASE UNCHANGED <<q, overtaken>>
    BY <2>1, <2>2, FreshKept
  <2>3. CASE q' = Sent(NoQuery)
    BY <2>3, SentEmpty DEF Fresh, Settled
  <2> QED BY <1>1, <2>2, <2>3, Looking1, Going
<1>2. CASE Serve
  <2>1. q' = [pc |-> "read", data |-> q.data, got |-> Now] /\ UNCHANGED own
    BY <1>2 DEF Serve, Read, Typed, Shaped, Fetched, server
  <2> QED BY <2>1 DEF Fresh, Settled, Now
<1>3. CASE Arrive
  <2>1. q' = [pc |-> "idle", data |-> q.got, got |-> None] /\ q.pc = "read"
        /\ UNCHANGED <<own, writing, overtaken, missed>>
    BY <1>3 DEF Arrive, Land, Typed, Shaped, Fetched, server
  <2> QED BY <2>1 DEF Fresh, Settled, Excused, Owed
<1>4. CASE Lose
  <2>1. q' = [pc |-> "failed", data |-> q.data, got |-> None]
    BY <1>4 DEF Lose, Fail, Typed, Shaped
  <2> QED BY <2>1 DEF Fresh, Settled
<1>5. CASE Asks
  BY <1>5, Asking, FreshKept DEF server
<1>6. CASE Elsewhere
  BY <1>6, Elsewhere1, FreshKept
<1>7. CASE UNCHANGED vars
  BY <1>7, FreshKept DEF vars, server
<1> QED BY <1>1, <1>2, <1>3, <1>4, <1>5, <1>6, <1>7, FreshCarried, FreshFinished
        DEF Next, Looks, Asks

\* Once nothing is under way the answer on screen was read after the last change its page
\* made, for any rows, pages of any size and any number of changes, unless a first answer
\* was read before the change and joined, or the change was answered as failed.
THEOREM ShownIsFresh == Spec => []SettledIsFresh
<1>1. Init => Typed /\ Fresh
  BY TypedInit, FreshInit
<1>2. Typed /\ Fresh /\ [Next]_vars => (Typed /\ Fresh)'
  BY TypedStep, FreshStep
<1>3. Fresh => SettledIsFresh
  BY DEF Fresh, SettledIsFresh, Excused
<1> QED BY <1>1, <1>2, <1>3, PTL DEF Spec

-----------------------------------------------------------------------------
(* The table stands on a page there is *)

Within(s) == page <= Pages(Total(s, asked))

\* What the server would answer, what is on its way and what is shown all reach to the
\* page that is open: none of the three alone is kept by the others' steps.
Ranged ==
  ~strayed => /\ Within(Now)
              /\ q.pc = "read" => Within(q.got)
              /\ q.data # None => Within(q.data)

LEMMA FirstPage == ASSUME NEW s, IsFiniteSet(s.rows), NEW v PROVE 1 <= Pages(Total(s, v))
BY TotalNat, PagesGrow

LEMMA RangedInit == Init => Ranged
<1> SUFFICES ASSUME Init PROVE Ranged
  OBVIOUS
<1>1. page = 1 /\ q.pc = "sent" /\ q.data = None
  BY SentEmpty DEF Init
<1>2. IsFiniteSet(Now.rows)
  BY TypedInit, NowFinite
<1> QED BY <1>1, <1>2, FirstPage DEF Ranged, Within

\* Another page or view starts over, on a page that the answer then shown vouches for.
LEMMA RangedGone ==
  ASSUME Typed, Ranged, NEW v, NEW p \in Nat, Goto(v, p), Looking,
         \/ p = 1 /\ strayed' = FALSE
         \/ strayed'
         \/ p = 1 /\ page = 1
         \/ /\ v = asked /\ ~strayed /\ q.data # None
            /\ Total(q.data, asked) <= Total(Now, asked)
            /\ p < page \/ p <= Pages(Total(q.data, asked))
  PROVE  Ranged'
<1>1. /\ asked' = v /\ page' = p
      /\ \/ v = asked /\ p = page /\ UNCHANGED q
         \/ q' = Sent(NoQuery)
  BY Going
<1>2. Now' = Now
  BY DEF Now, Looking, server
<1>3. IsFiniteSet(Now.rows)
  BY NowFinite
<1>4. CASE p = 1
  <2>1. Within(Now)'
    BY <1>1, <1>2, <1>3, <1>4, FirstPage DEF Within
  <2>2. (q.pc = "read" => Within(q.got))' /\ (q.data # None => Within(q.data))'
    <3>1. CASE q' = Sent(NoQuery)
      BY <3>1, SentEmpty
    <3>2. CASE v = asked /\ p = page /\ UNCHANGED q
      <4>1. /\ q.pc = "read" => IsFiniteSet(q.got.rows)
            /\ q.data # None => IsFiniteSet(q.data.rows)
        BY DEF Typed
      <4> QED BY <1>1, <1>4, <3>2, <4>1, FirstPage DEF Within
    <3> QED BY <1>1, <3>1, <3>2
  <2> QED BY <2>1, <2>2 DEF Ranged
<1>5. CASE strayed'
  BY <1>5 DEF Ranged
<1>6. CASE /\ v = asked /\ ~strayed /\ q.data # None
           /\ Total(q.data, asked) <= Total(Now, asked)
           /\ p < page \/ p <= Pages(Total(q.data, asked))
  <2>1. Within(Now) /\ (q.pc = "read" => Within(q.got)) /\ Within(q.data)
    BY <1>6 DEF Ranged
  <2>2. Total(q.data, asked) \in Nat /\ Total(Now, asked) \in Nat
    BY <1>3, <1>6, TotalNat DEF Typed
  <2>3. /\ Pages(Total(q.data, asked)) \in Nat /\ Pages(Total(Now, asked)) \in Nat
        /\ Pages(Total(q.data, asked)) <= Pages(Total(Now, asked))
    BY <1>6, <2>2, PagesGrow
  <2>4. p <= Pages(Total(Now, asked))
    BY <1>6, <2>1, <2>3 DEF Within, Typed
  <2>5. Within(Now)'
    BY <1>1, <1>2, <1>6, <2>4 DEF Within
  <2>6. CASE q' = Sent(NoQuery)
    BY <2>5, <2>6, SentEmpty DEF Ranged
  <2>7. CASE p = page /\ UNCHANGED q
    BY <1>1, <1>6, <2>1, <2>5, <2>7 DEF Ranged, Within
  <2> QED BY <1>1, <2>6, <2>7
<1> QED BY <1>4, <1>5, <1>6

\* A page that is not the first is marked as soon as its view has fewer rows.
LEMMA RangedChanged ==
  ASSUME Typed, Typed', Ranged, Changed, UNCHANGED <<screen, q>>, UNCHANGED view
  PROVE  Ranged'
<1> PICK rs \in SUBSET Rows, bt \in SUBSET Rows : \E fl : Becomes(rs, fl, bt)
  BY DEF Changed
<1> PICK fl : Becomes(rs, fl, bt)
  OBVIOUS
<1> DEFINE new == [rows |-> IF screen = "usage" THEN bt ELSE rs, flagged |-> fl]
<1>1. UNCHANGED <<page, asked, q>>
  BY DEF view
<1>2. Total(Now', asked) = Total(new, asked)
  BY DEF Becomes, Now, Total, Matches
<1>3. IsFiniteSet(Now.rows) /\ IsFiniteSet(Now'.rows)
  BY NowFinite, RowsAssumption, FS_Subset DEF Now, Typed
<1>4. CASE page = 1
  <2>1. Within(Now)'
    BY <1>1, <1>3, <1>4, FirstPage DEF Within
  <2>2. /\ q.pc = "read" => IsFiniteSet(q.got.rows)
        /\ q.data # None => IsFiniteSet(q.data.rows)
    BY DEF Typed
  <2> QED BY <1>1, <1>4, <2>1, <2>2, FirstPage DEF Ranged, Within
<1>5. CASE page # 1 /\ ~strayed'
  <2>1. ~strayed /\ ~(Total(new, asked) < Total(Now, asked))
    BY <1>5 DEF Becomes
  <2>2. Total(Now, asked) \in Nat /\ Total(Now', asked) \in Nat
    BY <1>3, TotalNat
  <2>3. /\ Pages(Total(Now, asked)) \in Nat /\ Pages(Total(Now', asked)) \in Nat
        /\ Pages(Total(Now, asked)) <= Pages(Total(Now', asked))
    BY <1>2, <2>1, <2>2, PagesGrow
  <2>4. page <= Pages(Total(Now, asked)) /\ page \in Nat
    BY <2>1 DEF Ranged, Within, Typed
  <2>5. Within(Now)'
    BY <1>1, <2>3, <2>4 DEF Within
  <2> QED BY <1>1, <2>1, <2>5 DEF Ranged, Within
<1> QED BY <1>4, <1>5 DEF Ranged

LEMMA RangedKept ==
  ASSUME Ranged, UNCHANGED <<screen, rows, flagged, built, own, page, asked, strayed>>,
         q'.pc # "read", q'.data = q.data \/ q'.data = None
  PROVE  Ranged'
BY DEF Ranged, Within, Now

LEMMA RangedStep == ASSUME Typed, Typed', Ranged, [Next]_vars PROVE Ranged'
<1>1. CASE Looks
  <2>1. CASE UNCHANGED <<asked, page, last, q, strayed, overtaken>>
    BY <1>1, <2>1, Looking1 DEF Looking, server, Ranged, Within, Now
  <2> QED BY <1>1, <2>1, Looking1, RangedGone
<1>2. CASE Serve
  <2>1. q' = [pc |-> "read", data |-> q.data, got |-> Now]
        /\ UNCHANGED <<screen, rows, flagged, built, own, page, asked, strayed>>
    BY <1>2 DEF Serve, Read, Typed, Shaped, Fetched, server
  <2> QED BY <2>1 DEF Ranged, Within, Now
<1>3. CASE Arrive
  <2>1. q' = [pc |-> "idle", data |-> q.got, got |-> None] /\ q.pc = "read"
        /\ UNCHANGED <<screen, rows, flagged, built, own, page, asked, strayed>>
    BY <1>3 DEF Arrive, Land, Typed, Shaped, Fetched, server
  <2> QED BY <2>1 DEF Ranged, Within, Now
<1>4. CASE Lose
  <2>1. q' = [pc |-> "failed", data |-> q.data, got |-> None]
    BY <1>4 DEF Lose, Fail, Typed, Shaped
  <2> QED BY <1>4, <2>1, RangedKept DEF Lose, Fetched, server
<1>5. ASSUME UNCHANGED <<screen, rows, flagged, built, own, page, asked, strayed, q>> PROVE Ranged'
  BY <1>5 DEF Ranged, Within, Now
<1>6. CASE Asks
  BY <1>5, <1>6, Asking DEF server, view
<1>7. ASSUME NEW w \in writing, Carry(w) PROVE Ranged'
  <2>1. CASE Changed
    BY <1>7, <2>1, Carrying, RangedChanged
  <2>2. CASE UNCHANGED <<rows, flagged, built, own, strayed>>
    BY <1>5, <1>7, <2>2, Carrying DEF view
  <2> QED BY <1>7, <2>1, <2>2, Carrying
<1>8. ASSUME NEW w \in writing, Finish(w) PROVE Ranged'
  <2>1. /\ q' = q \/ q' = Sent(q)
        /\ UNCHANGED <<screen, rows, flagged, built, own, page, asked, strayed>>
    BY <1>8 DEF Finish, Refetch, view, server
  <2>2. CASE q' = q
    BY <1>5, <2>1, <2>2
  <2>3. CASE q' = Sent(q)
    <3>1. q'.pc = "sent" /\ (q'.data = q.data \/ q'.data = None)
      BY <2>3, SentShape DEF Typed
    <3> QED BY <2>1, <3>1, RangedKept
  <2> QED BY <2>1, <2>2, <2>3
<1>9. CASE Elsewhere
  BY <1>9, Elsewhere1, RangedChanged
<1>10. CASE UNCHANGED vars
  BY <1>5, <1>10 DEF vars, server, view
<1> QED BY <1>1, <1>2, <1>3, <1>4, <1>6, <1>7, <1>8, <1>9, <1>10 DEF Next, Looks, Asks

\* The table never stands past its last page but in the three ways that leave a mark.
THEOREM StandsOnAPage == Spec => []InRange
<1>1. Init => Typed /\ Ranged
  BY TypedInit, RangedInit
<1>2. Typed /\ Ranged /\ [Next]_vars => (Typed /\ Ranged)'
  BY TypedStep, RangedStep
<1>3. Ranged => InRange
  BY DEF Ranged, Within, InRange, Settled
<1> QED BY <1>1, <1>2, <1>3, PTL DEF Spec

-----------------------------------------------------------------------------
(* Types *)

\* The changes of this page are among those of the server's table.
Counted == TypeOK /\ own <= changes

LEMMA QueryTypes ==
  ASSUME NEW S, NEW r \in Queries(S), NEW s \in S
  PROVE  /\ NoQuery \in Queries(S) /\ Sent(NoQuery) \in Queries(S)
         /\ Sent(r) \in Queries(S) /\ Refetch(r) \in Queries(S) /\ Read(r, s) \in Queries(S)
         /\ Land(r) \in Queries(S) /\ Fail(r) \in Queries(S)
<1>1. NoQuery \in Queries(S)
  BY DEF NoQuery, Queries
<1>2. ASSUME NEW x \in Queries(S) PROVE Sent(x) \in Queries(S)
  BY DEF Sent, Queries
<1>3. Refetch(r) \in Queries(S)
  BY <1>2 DEF Refetch
<1>4. Read(r, s) \in Queries(S) /\ Land(r) \in Queries(S) /\ Fail(r) \in Queries(S)
  BY DEF Read, Land, Fail, Queries
<1> QED BY <1>1, <1>2, <1>3, <1>4

LEMMA SnapshotIs ==
  ASSUME TypeOK
  PROVE  /\ Now \in Snapshot /\ 1 \in 1..LastPage + 1 /\ LastPage \in Nat
         /\ \A s \in Snapshot : \A v : Pages(Total(s, v)) \in Nat /\ Pages(Total(s, v)) <= LastPage
<1>1. Now \in Snapshot
  BY DEF TypeOK, Now, Snapshot
<1>2. Cardinality(Rows) \in Nat
  BY RowsAssumption, FS_CardinalityType
<1>3. LastPage \in Nat /\ 1 <= LastPage
  BY <1>2, PagesGrow DEF LastPage
<1>4. ASSUME NEW s \in Snapshot, NEW v
      PROVE  Pages(Total(s, v)) \in Nat /\ Pages(Total(s, v)) <= LastPage
  <2>1. Matches(s, v) \subseteq Rows
    BY DEF Snapshot, Matches
  <2>2. Total(s, v) \in Nat /\ Total(s, v) <= Cardinality(Rows)
    BY <2>1, RowsAssumption, FS_Subset, FS_CardinalityType DEF Total
  <2> QED BY <1>2, <2>2, PagesGrow DEF LastPage
<1>5. 1 \in 1..LastPage + 1
  BY <1>3
<1> QED BY <1>1, <1>3, <1>4, <1>5

LEMMA ShownIs ==
  ASSUME TypeOK
  PROVE  Shown \in Answer \cup {None}
BY DEF TypeOK, Shown, Answer, Queries

\* Another page or view keeps the types of what it touches.
LEMMA GoneTypes ==
  ASSUME Counted, NEW v \in Views, NEW p \in 1..LastPage + 1, Goto(v, p), Looking,
         typed' \in Views, strayed' \in BOOLEAN
  PROVE  Counted'
<1>1. UNCHANGED <<screen, confirming, writing, missed, rows, flagged, built, own, changes>>
  BY DEF Looking, server
<1>2. q \in Queries(Snapshot) /\ last \in Answer \cup {None} /\ overtaken \in BOOLEAN
      /\ Shown \in Answer \cup {None} /\ Now \in Snapshot
  BY ShownIs, SnapshotIs DEF Counted, TypeOK
<1>3. Sent(NoQuery) \in Queries(Snapshot)
  BY <1>2, QueryTypes
<1>4. q' \in Queries(Snapshot) /\ last' \in Answer \cup {None} /\ overtaken' \in BOOLEAN
  BY <1>2, <1>3 DEF Goto
<1>5. asked' = v /\ page' = p
  BY DEF Goto
<1> QED BY <1>1, <1>4, <1>5 DEF Counted, TypeOK

LEMMA TurnTypes ==
  ASSUME Counted, NEW step, Turn(step)
  PROVE  Counted'
<1> DEFINE at == IF screen = "usage" THEN Shown.page ELSE page
           p  == IF step = "next" THEN at + 1 ELSE at - 1
           n  == Total(Shown.snap, Shown.view)
<1>1. /\ Shown # None /\ Goto(asked, p) /\ Looking /\ typed' = typed
      /\ IF step = "next" THEN at < Pages(n) ELSE at > 1
      /\ strayed' \in BOOLEAN
  BY DEF Turn
<1>2. Shown \in Answer
  BY <1>1, ShownIs DEF Counted
<1>3. at \in 1..LastPage + 1
  BY <1>2 DEF Counted, TypeOK, Answer
<1>4. Pages(n) \in Nat /\ Pages(n) <= LastPage /\ LastPage \in Nat
  BY <1>2, SnapshotIs DEF Counted, Answer
<1> HIDE DEF at, n
<1>5. p \in 1..LastPage + 1
  <2>1. CASE step = "next"
    <3>1. p = at + 1 /\ at < Pages(n)
      BY <1>1, <2>1
    <3> HIDE DEF p
    <3> QED BY <1>3, <1>4, <3>1
  <2>2. CASE step # "next"
    <3>1. p = at - 1 /\ at > 1
      BY <1>1, <2>2
    <3> HIDE DEF p
    <3> QED BY <1>3, <1>4, <3>1
  <2> QED BY <2>1, <2>2
<1> HIDE DEF p
<1>6. asked \in Views /\ typed' \in Views
  BY <1>1 DEF Counted, TypeOK
<1> QED BY <1>1, <1>5, <1>6, GoneTypes

\* What is asked of the server is a request, and nothing else changes.
LEMMA AskTypes ==
  ASSUME Counted, Asks
  PROVE  Counted'
<1>1. UNCHANGED <<screen, q, strayed, overtaken, missed>> /\ UNCHANGED view /\ UNCHANGED server
  BY DEF Asks, Choose, Toggle, Dismiss, Confirm, Create, Rebuild, Begin
<1>2. writing' \subseteq Write /\ confirming' \in Rows \cup {None}
  <2>1. writing \subseteq Write /\ confirming \in Rows \cup {None}
    BY DEF Counted, TypeOK
  <2>2. \A r \in Rows \cup {None} : \A on \in BOOLEAN :
          \A op \in {"delete", "flag", "create", "rebuild"} : W(op, r, on) \in Write
    BY DEF W, Write
  <2>3. ASSUME NEW r \in Rows, Choose(r) \/ Toggle(r)
        PROVE  writing' \subseteq Write /\ confirming' \in Rows \cup {None}
    <3>1. (r \notin Shown.snap.flagged) \in BOOLEAN
      OBVIOUS
    <3>2. W("flag", r, r \notin Shown.snap.flagged) \in Write
      BY <2>2, <3>1
    <3> QED BY <2>1, <2>3, <3>2 DEF Choose, Toggle, Begin
  <2>4. CASE Dismiss
    BY <2>1, <2>4 DEF Dismiss
  <2>5. CASE Confirm
    BY <2>1, <2>2, <2>5 DEF Confirm, Begin
  <2>6. CASE Create \/ Rebuild
    BY <2>1, <2>2, <2>6 DEF Create, Rebuild, Begin
  <2> QED BY <2>3, <2>4, <2>5, <2>6 DEF Asks
<1> QED BY <1>1, <1>2 DEF Counted, TypeOK, view, server

\* The server's table stays one, and its changes are counted.
LEMMA BecomesTypes ==
  ASSUME Counted, NEW rs \in SUBSET Rows, NEW fl \in SUBSET Rows, NEW bt \in SUBSET Rows,
         Becomes(rs, fl, bt)
  PROVE  /\ rows' \subseteq Rows /\ flagged' \subseteq Rows /\ built' \subseteq Rows
         /\ changes' \in 0..MaxChanges /\ strayed' \in BOOLEAN
         /\ own \in 0..MaxChanges /\ own <= changes' /\ own + 1 <= changes'
         /\ own + 1 \in 0..MaxChanges
<1>1. own \in 0..MaxChanges /\ changes \in 0..MaxChanges /\ own <= changes /\ MaxChanges \in Nat
  BY MaxAssumption DEF Counted, TypeOK
<1>2. changes < MaxChanges /\ changes' = changes + 1
  BY DEF Becomes
<1>3. /\ rows' = rs /\ flagged' = fl /\ built' = bt /\ strayed' \in BOOLEAN
  BY DEF Becomes
<1> QED BY <1>1, <1>2, <1>3

LEMMA CarryTypes ==
  ASSUME Counted, NEW w \in writing, Carry(w)
  PROVE  Counted'
<1>1. PICK pc \in {"ok", "refused"} :
      /\ writing' = (writing \ {w}) \cup {[w EXCEPT !.pc = pc]}
      /\ \/ /\ Effect(w) /\ own' = own + 1
            /\ missed' = (missed \/ (pc = "refused" /\ w.op # "create"))
         \/ pc = "refused" /\ UNCHANGED <<rows, flagged, built, own, changes, strayed, missed>>
  BY DEF Carry
<1>2. UNCHANGED <<screen, q, confirming, overtaken>> /\ UNCHANGED <<typed, asked, page, last>>
  BY DEF Carry, view
<1>3. writing' \subseteq Write
  <2>1. w \in Write /\ writing \subseteq Write
    BY DEF Counted, TypeOK
  <2>2. [w EXCEPT !.pc = pc] \in Write
    BY <2>1 DEF Write
  <2> QED BY <1>1, <2>1, <2>2
<1>4. CASE /\ Effect(w) /\ own' = own + 1
           /\ missed' = (missed \/ (pc = "refused" /\ w.op # "create"))
  <2>1. rows \subseteq Rows /\ flagged \subseteq Rows /\ built \subseteq Rows
    BY DEF Counted, TypeOK
  <2>2. \E rs \in SUBSET Rows, fl \in SUBSET Rows, bt \in SUBSET Rows : Becomes(rs, fl, bt)
    BY <1>4, <2>1 DEF Effect
  <2>3. /\ rows' \subseteq Rows /\ flagged' \subseteq Rows /\ built' \subseteq Rows
        /\ changes' \in 0..MaxChanges /\ strayed' \in BOOLEAN
        /\ own + 1 <= changes' /\ own + 1 \in 0..MaxChanges
    BY <2>2, BecomesTypes
  <2>4. missed' \in BOOLEAN
    BY <1>4
  <2> QED BY <1>2, <1>3, <1>4, <2>3, <2>4 DEF Counted, TypeOK
<1>5. CASE UNCHANGED <<rows, flagged, built, own, changes, strayed, missed>>
  BY <1>2, <1>3, <1>5 DEF Counted, TypeOK
<1> QED BY <1>1, <1>4, <1>5

LEMMA ElsewhereTypes ==
  ASSUME Counted, Elsewhere
  PROVE  Counted'
<1>1. UNCHANGED <<screen, own, q, confirming, writing, overtaken, missed, typed, asked, page, last>>
  BY DEF Elsewhere, view
<1>2. rows \subseteq Rows /\ flagged \subseteq Rows /\ built \subseteq Rows
  BY DEF Counted, TypeOK
<1>3. \E rs \in SUBSET Rows, fl \in SUBSET Rows, bt \in SUBSET Rows : Becomes(rs, fl, bt)
  BY <1>2 DEF Elsewhere
<1>4. /\ rows' \subseteq Rows /\ flagged' \subseteq Rows /\ built' \subseteq Rows
      /\ changes' \in 0..MaxChanges /\ strayed' \in BOOLEAN
      /\ own \in 0..MaxChanges /\ own <= changes'
  BY <1>3, BecomesTypes
<1> QED BY <1>1, <1>4 DEF Counted, TypeOK

LEMMA CountedInit == Init => Counted
<1> SUFFICES ASSUME Init PROVE Counted
  OBVIOUS
<1>1. Cardinality(Rows) \in Nat
  BY RowsAssumption, FS_CardinalityType
<1>2. LastPage \in Nat /\ 1 \in 1..LastPage + 1
  BY <1>1, PagesGrow DEF LastPage
<1>3. Sent(NoQuery) \in Queries(Snapshot)
  BY DEF Sent, NoQuery, Queries
<1>4. 0 \in 0..MaxChanges
  BY MaxAssumption
<1>5. own <= changes
  BY DEF Init
<1>6. /\ rows \subseteq Rows /\ flagged \subseteq Rows /\ built \subseteq Rows
      /\ own \in 0..MaxChanges /\ changes \in 0..MaxChanges
  BY <1>4 DEF Init
<1>7. /\ page \in 1..LastPage + 1 /\ q \in Queries(Snapshot)
      /\ typed \in Views /\ asked \in Views
  BY <1>2, <1>3 DEF Init, Views
<1>8. /\ last \in Answer \cup {None} /\ confirming \in Rows \cup {None} /\ writing \subseteq Write
      /\ strayed \in BOOLEAN /\ overtaken \in BOOLEAN /\ missed \in BOOLEAN /\ screen \in Screens
  BY DEF Init
<1> QED BY <1>5, <1>6, <1>7, <1>8 DEF Counted, TypeOK

LEMMA CountedStep == ASSUME Counted, [Next]_vars PROVE Counted'
<1>1. TypeOK /\ asked \in Views /\ typed \in Views /\ page \in 1..LastPage + 1
      /\ 1 \in 1..LastPage + 1 /\ q \in Queries(Snapshot) /\ Now \in Snapshot
      /\ strayed \in BOOLEAN /\ overtaken \in BOOLEAN /\ missed \in BOOLEAN
  BY SnapshotIs DEF Counted, TypeOK
<1>2. ASSUME NEW v \in Views, Type(v) \/ Refine(v) PROVE Counted'
  <2>1. CASE Goto(asked, 1) \/ Goto(v, 1)
    <3>1. Looking /\ typed' = v /\ strayed' \in BOOLEAN
      BY <1>1, <1>2 DEF Type, Refine
    <3> QED BY <1>1, <2>1, <3>1, GoneTypes
  <2>2. CASE UNCHANGED <<asked, page, last, q, strayed, overtaken>>
    <3>1. Looking /\ typed' = v
      BY <1>2 DEF Type, Refine
    <3> QED BY <2>2, <3>1 DEF Looking, server, Counted, TypeOK
  <2> QED BY <1>2, <2>1, <2>2 DEF Type, Refine
<1>3. ASSUME NEW step \in {"next", "prev"}, Turn(step) PROVE Counted'
  BY <1>3, TurnTypes
<1>4. CASE Debounce
  <2>1. Goto(typed, page) /\ Looking /\ typed' = typed /\ strayed' \in BOOLEAN
    BY <1>4 DEF Debounce
  <2> QED BY <1>1, <2>1, GoneTypes
<1>5. CASE Apply
  <2>1. Goto(typed, 1) /\ Looking /\ typed' = typed /\ strayed' \in BOOLEAN
    BY <1>5 DEF Apply
  <2> QED BY <1>1, <2>1, GoneTypes
<1>6. CASE Serve \/ Arrive \/ Lose
  <2>1. q' \in Queries(Snapshot)
    BY <1>1, <1>6, QueryTypes DEF Serve, Arrive, Lose
  <2>3. missed' \in BOOLEAN
    BY <1>1, <1>6 DEF Serve, Arrive, Lose
  <2>2. UNCHANGED <<screen, typed, asked, page, last, confirming, writing, strayed, overtaken,
                    rows, flagged, built, own, changes>>
    BY <1>6 DEF Serve, Arrive, Lose, Fetched, server
  <2> QED BY <2>1, <2>2, <2>3 DEF Counted, TypeOK
<1>7. CASE Asks
  BY <1>7, AskTypes
<1>8. ASSUME NEW w \in writing, Carry(w) PROVE Counted'
  BY <1>8, CarryTypes
<1>9. ASSUME NEW w \in writing, Finish(w) PROVE Counted'
  <2>1. q' = q \/ q' = Refetch(q)
    BY <1>9 DEF Finish
  <2>2. q' \in Queries(Snapshot)
    BY <1>1, <2>1, QueryTypes
  <2>3. overtaken' \in BOOLEAN
    BY <1>1, <1>9 DEF Finish, Overtakes
  <2>4. UNCHANGED <<screen, confirming, strayed, missed, typed, asked, page, last, rows, flagged, built,
                    own, changes>>
        /\ writing' = writing \ {w}
    BY <1>9 DEF Finish, view, server
  <2> QED BY <2>2, <2>3, <2>4 DEF Counted, TypeOK
<1>10. CASE Elsewhere
  BY <1>10, ElsewhereTypes
<1>11. CASE UNCHANGED vars
  BY <1>11 DEF vars, server, view, Counted, TypeOK
<1> QED BY <1>2, <1>3, <1>4, <1>5, <1>6, <1>7, <1>8, <1>9, <1>10, <1>11 DEF Next, Asks

\* The page that is open is one the rows could ever fill, or the one after the last, and the
\* server's table, its answers and the requests keep their shapes.
THEOREM Typing == Spec => []TypeOK
<1>1. Init => Counted
  BY CountedInit
<1>2. Counted /\ [Next]_vars => Counted'
  BY CountedStep
<1>3. Counted => TypeOK
  BY DEF Counted
<1> QED BY <1>1, <1>2, <1>3, PTL DEF Spec
=============================================================================

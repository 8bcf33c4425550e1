---------------------------- MODULE SessionProofs ----------------------------
(***************************************************************************)
(* Proofs about Session, for any number of tabs, requests and token pairs. *)
(***************************************************************************)
EXTENDS Session, FiniteSetTheorems, TLAPS

Pairs   == [id : Nat, session : Nat]
Request == [pc     : {"idle", "sent", "answered", "waiting"},
            op     : Op \cup {"me"},
            token  : Pairs \cup {None},
            again  : BOOLEAN,
            answer : {"ok", "denied", "failed"},
            new    : Pairs \cup {None},
            on     : Calls \cup {None},
            done   : Nat]
Refresh == [pc    : {"none", "sent", "consumed", "answered"},
            token : Pairs \cup {None},
            new   : Pairs \cup {None}]

Typed ==
  /\ stored \in Pairs \cup {None} /\ rows \subseteq Pairs /\ leaving \subseteq Pairs
  /\ issued \in Nat /\ adrift \subseteq Calls
  /\ call \in [Calls -> Request] /\ flight \in [Calls -> Refresh]

\* What a request and a refresh have in hand at each point.
CallReady(q) ==
  /\ q.done <= 1
  /\ q.new # None => q.pc = "answered" /\ q.answer = "ok"
  /\ q.done = 1 => q.pc = "answered" /\ q.answer # "denied"
FlightReady(f) ==
  /\ f.pc # "none" => f.token # None
  /\ f.new # None => f.pc = "answered" /\ f.new.session = f.token.session
Ready == \A c \in Calls : CallReady(call[c]) /\ FlightReady(flight[c])

\* A refresh is under way; it has taken the row of its token.
Aloft(c) == flight[c].pc # "none"
Taken(c) == flight[c].pc = "consumed"

\* What is adrift is a refresh whose requests have been told, or a change of password that
\* is not sent again; the request that started any other refresh waits for it.  The
\* successor of a token that was taken from one adrift will be lost.
InHand(c) ==
  /\ c \in adrift =>
       \/ flight[c].pc \in {"sent", "consumed"} /\ call[c].pc = "idle"
       \/ flight[c].pc = "none" /\ call[c].pc = "sent" /\ call[c].op = "password" /\ ~call[c].again
  /\ Heard(c) => call[c].pc = "waiting" /\ call[c].on = c
  /\ c \in adrift /\ flight[c].pc = "consumed" => flight[c].token.session \in crossed
Adrift == \A c \in Calls : InHand(c)

\* Numbers are given out once: every pair anywhere is one that was issued.
Known(p) == p # None => p.id <= issued /\ p.session <= issued
Numbered ==
  /\ Known(stored) /\ \A p \in rows : Known(p)
  /\ \A c \in Calls : Known(flight[c].token) /\ Known(flight[c].new) /\ Known(call[c].new)
  /\ \A s \in left : s \in Nat /\ s <= issued

\* A session has one row, or none while the row is being replaced.
Single ==
  /\ \A p, q \in rows : p.session = q.session => p = q
  /\ \A c \in Calls : Taken(c) => ~Live(flight[c].token.session)
  /\ \A c, d \in Calls :
       Taken(c) /\ Taken(d) /\ flight[c].token.session = flight[d].token.session => c = d

\* A pair on its way to the store has not been there, and nothing else has it.
Unseen(n) ==
  /\ n # stored
  /\ \A p \in rows : p.session = n.session => p = n
  /\ \A c \in Calls : /\ flight[c].token # n
                      /\ Taken(c) => flight[c].token.session # n.session
Apart ==
  \A c, d \in Calls :
    /\ flight[c].new # None => /\ flight[c].new = flight[d].new => c = d
                               /\ flight[c].new # call[d].new
    /\ call[c].new # None => (call[c].new = call[d].new => c = d)
OnTheWay ==
  /\ Apart
  /\ \A c \in Calls : /\ flight[c].new # None => Unseen(flight[c].new)
                      /\ call[c].new # None => Unseen(call[c].new)

\* The store has the token of its session, or is about to get it.
Follows ==
  stored # None /\ stored.session \notin crossed /\ Live(stored.session) =>
    \/ stored \in rows
    \/ \E c \in Calls : /\ flight[c].new # None /\ flight[c].new \in rows
                        /\ flight[c].new.session = stored.session

\* Nothing can bring back a session that its user ended, and a logout that has not
\* arrived yet names the token it has.
Unmoved(s) ==
  \A c \in Calls : /\ flight[c].new # None => flight[c].new.session # s
                   /\ call[c].new # None => call[c].new.session # s
                   /\ Taken(c) => flight[c].token.session # s
Doomed(s) ==
  /\ \E p \in leaving : p \in rows /\ p.session = s
  /\ stored # None => stored.session # s
  /\ \A c \in Calls : flight[c].pc = "sent" => flight[c].token.session # s
Ended == \A s \in left \ slipped : Unmoved(s) /\ (Live(s) => Doomed(s))

\* The refresh of a session that is in the store, and that nothing came across, is the
\* only one there is; when it was refused, the session is over.
Loyal ==
  stored # None /\ stored.session \notin crossed =>
    \A c \in Calls : Heard(c) =>
      /\ flight[c].token = stored /\ \A d \in Calls : Heard(d) => d = c
      /\ flight[c].pc = "answered" /\ flight[c].new = None => ~Live(stored.session)

\* A session that lost its row has been ended, or has it back in a moment.
Lost(p) ==
  p # None /\ p.session \notin crossed /\ ~Live(p.session) =>
    p.session \in left \/ \E c \in Calls : Taken(c) /\ flight[c].token.session = p.session
\* A session that has a row is one that this browser has, is about to have, or gave up.
Accounted(p) ==
  \/ p.session \in left \cup crossed
  \/ stored # None /\ stored.session = p.session
  \/ \E c \in Calls : \/ call[c].new # None /\ call[c].new.session = p.session
                      \/ flight[c].new # None /\ flight[c].new.session = p.session
Kept ==
  /\ \A p \in leaving : Known(p) /\ (p \in rows => p.session \in left)
  /\ Lost(stored) /\ \A c \in Calls : Lost(call[c].new) /\ Lost(flight[c].new)
  /\ \A p \in rows : Accounted(p)

Base == Typed /\ Ready /\ Numbered /\ Adrift
IInv == Base /\ Single /\ OnTheWay /\ Follows /\ Ended
Full == IInv /\ Loyal /\ Kept

-----------------------------------------------------------------------------
(* Every request is carried out at most once: types and what is in hand *)

LEMMA NotNone == \A p \in Pairs : p # None
BY NoneAssumption DEF Pairs

LEMMA SentUndone ==
  ASSUME NEW q \in Request, CallReady(q), q.pc = "sent" PROVE q.done = 0
<1>1. q.done \in Nat /\ q.done <= 1 /\ q.done # 1
  BY DEF Request, CallReady
<1> QED BY <1>1

LEMMA NoCallReady == NoCall \in Request /\ CallReady(NoCall) /\ NoCall.new = None /\ NoCall.done = 0
BY DEF NoCall, Request, CallReady, Op

\* The server answers: a change of password carries its pair, what was carried out is not
\* denied, and nobody waits for what is adrift.
LEMMA Replied ==
  ASSUME Base, NEW c \in Calls, call[c].pc = "sent", NEW a \in {"ok", "denied", "failed"},
         NEW p \in Pairs \cup {None}, NEW k \in {0, 1},
         p # None => a = "ok", k = 1 => a # "denied", Reply(c, a, p, call[c].done + k)
  PROVE  /\ adrift' = adrift \ {c}
         /\ \E q \in Request :
              /\ CallReady(q) /\ q.new = (IF c \in adrift THEN None ELSE p)
              /\ call' = [call EXCEPT ![c] = q]
              /\ q = NoCall \/ (q.pc = "answered" /\ q.op = call[c].op /\ q.again = call[c].again
                                /\ q.token = call[c].token)
<1>0. call[c] \in Request /\ CallReady(call[c]) /\ DOMAIN call = Calls
  BY DEF Base, Typed, Ready
<1>1. call[c].done = 0 /\ call[c].done + k = k
  BY <1>0, SentUndone
<1>2. CASE c \in adrift
  BY <1>2, NoCallReady DEF Reply
<1>3. CASE c \notin adrift
  <2> DEFINE q == [call[c] EXCEPT !.pc = "answered", !.answer = a, !.new = p, !.done = k]
  <2>1. adrift' = adrift \ {c} /\ call' = [call EXCEPT ![c] = q]
    BY <1>0, <1>1, <1>3 DEF Reply
  <2>2. q \in Request
    <3>1. k \in Nat /\ a \in {"ok", "denied", "failed"} /\ p \in Pairs \cup {None}
      OBVIOUS
    <3> QED BY <1>0, <3>1 DEF Request
  <2>3. /\ q.pc = "answered" /\ q.answer = a /\ q.new = p /\ q.done = k
        /\ q.op = call[c].op /\ q.again = call[c].again /\ q.token = call[c].token
    BY <1>0 DEF Request
  <2> HIDE DEF q
  <2>4. CallReady(q)
    BY <2>3 DEF CallReady
  <2> QED BY <1>3, <2>1, <2>2, <2>3, <2>4
<1> QED BY <1>2, <1>3

LEMMA SendingReady ==
  ASSUME Typed, NEW op \in Op \cup {"me"}
  PROVE  Sending(op) \in Request /\ CallReady(Sending(op)) /\ Sending(op).new = None
BY DEF Sending, Request, CallReady, Typed

\* A refused request waits for a refresh, and is sent once more when it has succeeded.
LEMMA Waits ==
  ASSUME NEW q \in Request, CallReady(q), q.pc = "answered", q.answer = "denied", NEW d \in Calls
  PROVE  LET w == [q EXCEPT !.pc = "waiting", !.on = d]
         IN  q.new = None /\ w \in Request /\ CallReady(w) /\ w.new = None
<1> DEFINE w == [q EXCEPT !.pc = "waiting", !.on = d]
<1>1. q.new = None /\ q.done = 0
  BY DEF Request, CallReady
<1>2. w \in Request
  BY <1>1 DEF Request
<1>3. w.pc = "waiting" /\ w.new = None /\ w.done = 0
  BY <1>1 DEF Request
<1> HIDE DEF w
<1>4. CallReady(w)
  BY <1>3 DEF CallReady
<1> QED BY <1>1, <1>2, <1>3, <1>4 DEF w

LEMMA SentAgain ==
  ASSUME NEW q \in Request, CallReady(q), q.pc = "waiting", NEW p \in Pairs
  PROVE  LET w == [q EXCEPT !.pc = "sent", !.token = p, !.again = FALSE, !.on = None]
         IN  q.new = None /\ w \in Request /\ CallReady(w) /\ w.new = None
<1> DEFINE w == [q EXCEPT !.pc = "sent", !.token = p, !.again = FALSE, !.on = None]
<1>1. q.new = None /\ q.done = 0
  BY DEF Request, CallReady
<1>2. w \in Request
  BY <1>1 DEF Request
<1>3. w.pc = "sent" /\ w.new = None /\ w.done = 0
  BY <1>1 DEF Request
<1> HIDE DEF w
<1>4. CallReady(w)
  BY <1>3 DEF CallReady
<1> QED BY <1>1, <1>2, <1>3, <1>4 DEF w

\* The points a refresh goes through.
LEMMA RefreshingReady ==
  ASSUME Typed, stored # None
  PROVE  /\ Refreshing \in Refresh /\ FlightReady(Refreshing)
         /\ Refreshing.pc = "sent" /\ Refreshing.token = stored /\ Refreshing.new = None
BY DEF Refreshing, Refresh, FlightReady, Typed

LEMMA Consumed ==
  ASSUME NEW f \in Refresh, FlightReady(f), f.pc = "sent", NEW pc \in {"consumed", "answered"}
  PROVE  LET g == [f EXCEPT !.pc = pc]
         IN  /\ f.token # None /\ f.new = None
             /\ g \in Refresh /\ FlightReady(g) /\ g.pc = pc /\ g.token = f.token /\ g.new = None
BY DEF Refresh, FlightReady

LEMMA Rotated ==
  ASSUME NEW f \in Refresh, FlightReady(f), f.pc = "consumed",
         NEW p \in Pairs, p.session = f.token.session
  PROVE  LET g == [f EXCEPT !.pc = "answered", !.new = p]
         IN  /\ f.token # None /\ f.new = None
             /\ g \in Refresh /\ FlightReady(g) /\ g.pc = "answered" /\ g.token = f.token /\ g.new = p
BY DEF Refresh, FlightReady

LEMMA NoFlightReady ==
  NoFlight \in Refresh /\ FlightReady(NoFlight) /\ NoFlight.new = None /\ NoFlight.token = None
BY DEF NoFlight, Refresh, FlightReady

LEMMA FreshPair ==
  ASSUME issued \in Nat, NEW s \in Nat \cup {None}
  PROVE  Fresh(s) \in Pairs /\ Fresh(s).id = issued + 1
         /\ Fresh(s).session = IF s = None THEN issued + 1 ELSE s
BY DEF Fresh, Pairs

\* A request that is replaced by one that is ready leaves all of them ready.
LEMMA CallStep ==
  ASSUME Typed, Ready, NEW c \in Calls, NEW q \in Request, CallReady(q),
         call' = [call EXCEPT ![c] = q]
  PROVE  /\ call' \in [Calls -> Request]
         /\ \A d \in Calls : CallReady(call'[d])
BY DEF Typed, Ready

LEMMA FlightStep ==
  ASSUME Typed, Ready, NEW c \in Calls, NEW f \in Refresh, FlightReady(f),
         flight' = [flight EXCEPT ![c] = f]
  PROVE  /\ flight' \in [Calls -> Refresh]
         /\ \A d \in Calls : FlightReady(flight'[d])
BY DEF Typed, Ready

\* The steps that only move screens, tabs and clocks.
core == <<stored, rows, issued, call, flight, adrift, leaving, left, slipped, crossed>>

\* The base without what is known of the requests adrift, which follows below.
Sound == Typed /\ Ready /\ Numbered

LEMMA BaseStays == ASSUME Base, UNCHANGED core PROVE Sound'
BY DEF Sound, Base, core, Typed, Ready, Numbered, CallReady, FlightReady, Known

\* A session is opened: it comes into the store, or is lost from sight.
Opening ==
  /\ rows' = rows \cup {Fresh(None)} /\ issued' = issued + 1
  /\ UNCHANGED <<call, flight, adrift, leaving, left, slipped>> /\ crossed \subseteq crossed'
  /\ \/ /\ stored' = Fresh(None)
        /\ stored # None => stored.session \in crossed'
        /\ \A c \in Calls : Heard(c) => issued' \in crossed'
     \/ stored' = stored /\ issued' \in crossed'

LEMMA Opens == ASSUME NEW t \in Tabs, Establish(t) \/ EstablishLost(t) PROVE Opening
<1>1. Establish(t) => Opening
  BY DEF Establish, Opening, Overlaid, Replaced
<1>2. EstablishLost(t) => Opening
  BY DEF EstablishLost, Opening
<1> QED BY <1>1, <1>2

LEMMA BaseOpening == ASSUME Base, Opening PROVE Sound'
<1>1. Fresh(None) \in Pairs /\ Fresh(None).id = issued + 1 /\ Fresh(None).session = issued + 1
  BY FreshPair DEF Base, Typed
<1>2. stored' \in {stored, Fresh(None)}
  BY DEF Opening
<1>3. Typed'
  BY <1>1, <1>2 DEF Base, Typed, Opening
<1>4. Ready'
  BY DEF Base, Ready, CallReady, FlightReady, Opening
<1>5. Numbered'
  BY <1>1, <1>2 DEF Base, Typed, Numbered, Known, Opening, Pairs, Request, Refresh
<1> QED BY <1>3, <1>4, <1>5 DEF Sound

\* Sessions are ended by their user, or a logout comes through, or is lost.
Leaving ==
  \/ \E t \in Tabs : Logout(t) \/ MailLink(t)
  \/ \E p \in leaving : Revoked(p) \/ LogoutLost(p)
  \/ \E S \in SUBSET {p.session : p \in rows} : RevokeElsewhere(S)

LEMMA BaseLeave == ASSUME Base, Leaving PROVE Sound'
<1>1. Typed'
  BY DEF Leaving, Base, Typed, Logout, MailLink, SignOut, Revoked, LogoutLost, RevokeElsewhere, server
<1>2. Ready'
  BY DEF Leaving, Base, Ready, CallReady, FlightReady, Logout, MailLink, Revoked, LogoutLost,
         RevokeElsewhere
<1>3. /\ stored' \in {stored, None} /\ rows' \subseteq rows /\ UNCHANGED <<issued, call, flight>>
      /\ \A s \in left' : s \in left \/ (stored # None /\ s = stored.session)
                                    \/ \E p \in rows : s = p.session
  BY DEF Leaving, Logout, MailLink, SignOut, Revoked, LogoutLost, RevokeElsewhere, server, End, history
<1>4. Numbered'
  <2>1. \A s \in left' : s \in Nat /\ s <= issued
    <3> SUFFICES ASSUME NEW s \in left' PROVE s \in Nat /\ s <= issued
      OBVIOUS
    <3>1. CASE s \in left
      BY <3>1 DEF Base, Numbered
    <3>2. CASE stored # None /\ s = stored.session
      BY <3>2 DEF Base, Typed, Numbered, Known, Pairs
    <3>3. ASSUME NEW p \in rows, s = p.session PROVE s \in Nat /\ s <= issued
      BY <3>3, NotNone DEF Base, Typed, Numbered, Known, Pairs
    <3> QED BY <1>3, <3>1, <3>2, <3>3
  <2> QED BY <1>3, <2>1 DEF Base, Numbered, Known
<1> QED BY <1>1, <1>2, <1>4 DEF Sound

LEMMA BaseBegin == ASSUME Base, NEW c \in Calls, Begin(c) PROVE Sound'
<1>1. PICK op \in Ops : call' = [call EXCEPT ![c] = Sending(op)]
  BY DEF Begin
<1>2. Sending(op) \in Request /\ CallReady(Sending(op)) /\ Sending(op).new = None
  BY SendingReady, OpsAssumption DEF Base
<1>4. call' \in [Calls -> Request] /\ \A d \in Calls : CallReady(call'[d])
  BY <1>1, <1>2, CallStep DEF Base
<1>5. UNCHANGED <<stored, rows, issued, flight, adrift, leaving, left>>
  BY DEF Begin, server, history
<1>6. \A d \in Calls : call'[d].new \in {call[d].new, None}
  BY <1>1, <1>2 DEF Base, Typed
<1> QED
  BY <1>4, <1>5, <1>6 DEF Sound, Base, Typed, Ready, Numbered, Known

\* A change of password that is given up is not sent again.
LEMMA GivenUp ==
  ASSUME NEW q \in Request, CallReady(q)
  PROVE  LET w == [q EXCEPT !.again = FALSE]
         IN  /\ w \in Request /\ CallReady(w) /\ w.new = q.new /\ w.pc = q.pc /\ w.op = q.op
             /\ ~w.again /\ w.token = q.token
BY DEF Request, CallReady

LEMMA BaseGiveUp == ASSUME Base, NEW c \in Calls, GiveUp(c) PROVE Sound'
<1> DEFINE q == [call[c] EXCEPT !.again = FALSE]
<1>1. call[c] \in Request /\ CallReady(call[c])
  BY DEF Base, Typed, Ready
<1>2. q \in Request /\ CallReady(q) /\ q.new = call[c].new
  BY <1>1, GivenUp
<1>3. call' = [call EXCEPT ![c] = q]
  BY DEF Base, Typed, GiveUp
<1> HIDE DEF q
<1>4. call' \in [Calls -> Request] /\ \A d \in Calls : CallReady(call'[d])
  BY <1>2, <1>3, CallStep DEF Base
<1>5. UNCHANGED <<stored, rows, issued, flight, leaving, left>> /\ adrift' \subseteq Calls
  BY DEF GiveUp, server, history, Base, Typed
<1>6. \A d \in Calls : call'[d].new = call[d].new
  BY <1>2, <1>3 DEF Base, Typed
<1> QED
  BY <1>4, <1>5, <1>6 DEF Sound, Base, Typed, Ready, Numbered, Known

\* What becomes of the requests and the refreshes of a tab that is loaded.
LEMMA Opened ==
  ASSUME Base, NEW t \in Tabs, Open(t), NEW c \in Calls
  PROVE  /\ call'[c] \in Request /\ CallReady(call'[c])
         /\ call'[c].new = call[c].new \/ (call'[c].new = None /\ TabOf[c] = t)
         /\ flight'[c] = flight[c] \/ (flight'[c] = NoFlight /\ TabOf[c] = t /\ ~AtServer(c))
         /\ call'[c].token \in {call[c].token, stored, None}
<1> DEFINE me == Sending("me")
           w  == [call[c] EXCEPT !.again = FALSE]
<1>1. me \in Request /\ CallReady(me) /\ me.new = None /\ me.token = stored
  BY SendingReady DEF Base, Sending
<1>2. NoCall.new = None /\ NoCall.token = None
  BY DEF NoCall
<1>3. call[c] \in Request /\ CallReady(call[c])
  BY DEF Base, Typed, Ready
<1>4. w \in Request /\ CallReady(w) /\ w.new = call[c].new /\ w.token = call[c].token
  BY <1>3, GivenUp
<1>5. call'[c] \in {call[c], me, w, NoCall} /\ (TabOf[c] # t => call'[c] = call[c])
  BY DEF Open
<1>6. flight'[c] = flight[c] \/ (flight'[c] = NoFlight /\ TabOf[c] = t /\ ~AtServer(c))
  BY DEF Open
<1> HIDE DEF me, w
<1> QED BY <1>1, <1>2, <1>3, <1>4, <1>5, <1>6, NoCallReady

LEMMA BaseOpen == ASSUME Base, NEW t \in Tabs, Open(t) PROVE Sound'
<1>1. call' = [c \in Calls |-> call'[c]] /\ flight' = [c \in Calls |-> flight'[c]]
  BY DEF Open
<1>2. UNCHANGED <<stored, rows, issued, leaving, left>> /\ adrift' \subseteq Calls
  BY DEF Open, server, Base, Typed
<1>3. \A c \in Calls : /\ call'[c] \in Request /\ CallReady(call'[c])
                       /\ call'[c].new \in {call[c].new, None}
  BY Opened
<1>4. \A c \in Calls : flight'[c] \in {flight[c], NoFlight}
  BY Opened
<1>5. Typed'
  BY <1>1, <1>2, <1>3, <1>4, NoFlightReady DEF Base, Typed
<1>6. Ready'
  BY <1>3, <1>4, NoFlightReady DEF Base, Ready
<1>7. Numbered'
  BY <1>2, <1>3, <1>4, NoFlightReady DEF Base, Numbered, Known
<1> QED BY <1>5, <1>6, <1>7 DEF Sound

\* What the server does with a request changes one call, and may replace every row by
\* the pair of a new session, or by nothing.
Quiet(c) ==
  /\ UNCHANGED <<rows, issued, left, slipped, crossed>>
  /\ \E q \in Request : CallReady(q) /\ q.new = None /\ call' = [call EXCEPT ![c] = q]
Cleared(c) ==
  /\ rows' = {} /\ UNCHANGED <<issued, crossed>> /\ End({r.session : r \in rows}, {})
  /\ \E q \in Request : CallReady(q) /\ q.new = None /\ call' = [call EXCEPT ![c] = q]
NewPassword(c) ==
  /\ rows' = {Fresh(None)} /\ issued' = issued + 1 /\ End({r.session : r \in rows}, {})
  /\ crossed \subseteq crossed' /\ crossed' \subseteq crossed \cup {issued'}
  /\ \E q \in Request : /\ CallReady(q) /\ call' = [call EXCEPT ![c] = q]
                        /\ q.new = Fresh(None) \/ (q.new = None /\ issued' \in crossed')

LEMMA Handling ==
  ASSUME Base, NEW c \in Calls, Handle(c)
  PROVE  /\ UNCHANGED <<stored, flight, leaving>> /\ adrift' = adrift \ {c} /\ call[c].pc = "sent"
         /\ Quiet(c) \/ Cleared(c) \/ NewPassword(c)
<1>1. UNCHANGED <<stored, flight, leaving>> /\ call[c].pc = "sent"
  BY DEF Handle
<1>2. Fresh(None) \in Pairs /\ call[c].done = call[c].done + 0
  <2>1. call[c].done = 0
    BY <1>1, SentUndone DEF Base, Typed, Ready
  <2>2. call[c].done = call[c].done + 0
    BY <2>1
  <2> QED BY <2>2, FreshPair DEF Base, Typed
<1>3. ASSUME Honoured(call[c].token), call[c].op = "password", ReplacePassword(c)
      PROVE  adrift' = adrift \ {c} /\ (Cleared(c) \/ NewPassword(c))
  <2>1. ASSUME rows' = {}, Reply(c, "failed", None, call[c].done + 1), UNCHANGED <<issued, crossed>>
        PROVE  adrift' = adrift \ {c} /\ Cleared(c)
    BY <1>1, <1>3, <2>1, Replied DEF ReplacePassword, Cleared
  <2>2. ASSUME rows' = {Fresh(None)}, issued' = issued + 1,
               Reply(c, "ok", Fresh(None), call[c].done + 1),
               crossed' = IF c \in adrift THEN crossed \cup {issued'} ELSE crossed
        PROVE  adrift' = adrift \ {c} /\ NewPassword(c)
    <3> DEFINE p == Fresh(None)
    <3> HIDE DEF p
    <3>1. p \in Pairs /\ Reply(c, "ok", p, call[c].done + 1)
      BY <1>2, <2>2 DEF p
    <3>2. /\ adrift' = adrift \ {c}
          /\ \E q \in Request : /\ CallReady(q) /\ q.new = (IF c \in adrift THEN None ELSE p)
                                /\ call' = [call EXCEPT ![c] = q]
      BY <1>1, <3>1, Replied
    <3>3. c \in adrift => issued' \in crossed'
      BY <2>2
    <3>4. crossed \subseteq crossed' /\ crossed' \subseteq crossed \cup {issued'}
      BY <2>2
    <3>5. \E q \in Request : /\ CallReady(q) /\ call' = [call EXCEPT ![c] = q]
                             /\ q.new = p \/ (q.new = None /\ issued' \in crossed')
      BY <3>2, <3>3
    <3> QED BY <1>3, <2>2, <3>2, <3>4, <3>5 DEF NewPassword, ReplacePassword, p
  <2>3. ASSUME rows' = {Fresh(None)}, issued' = issued + 1,
               Reply(c, "failed", None, call[c].done + 1), crossed' = crossed \cup {issued'}
        PROVE  adrift' = adrift \ {c} /\ NewPassword(c)
    <3>1. /\ adrift' = adrift \ {c}
          /\ \E q \in Request : CallReady(q) /\ q.new = None /\ call' = [call EXCEPT ![c] = q]
      BY <1>1, <2>3, Replied
    <3> QED BY <1>3, <2>3, <3>1 DEF NewPassword, ReplacePassword
  <2> QED BY <1>3, <2>1, <2>2, <2>3 DEF ReplacePassword
<1>4. ASSUME NEW a \in {"ok", "failed"}, Reply(c, a, None, call[c].done + 1)
      PROVE  /\ adrift' = adrift \ {c}
             /\ \E q \in Request : CallReady(q) /\ q.new = None /\ call' = [call EXCEPT ![c] = q]
  BY <1>1, <1>4, Replied
<1>5. ASSUME NEW a \in {"denied", "failed"}, Reply(c, a, None, call[c].done)
      PROVE  /\ adrift' = adrift \ {c}
             /\ \E q \in Request : CallReady(q) /\ q.new = None /\ call' = [call EXCEPT ![c] = q]
  <2>1. Reply(c, a, None, call[c].done + 0)
    BY <1>2, <1>5
  <2> QED BY <1>1, <2>1, Replied
<1> QED BY <1>1, <1>3, <1>4, <1>5 DEF Handle, Quiet

LEMMA BaseHandle == ASSUME Base, NEW c \in Calls, Handle(c) PROVE Sound'
<1>1. UNCHANGED <<stored, flight, leaving>> /\ adrift' \subseteq Calls
  BY Handling DEF Base, Typed
<1>2. ASSUME UNCHANGED issued, rows' \subseteq rows, \A s \in left' : s \in left \/ \E p \in rows : s = p.session,
             NEW q \in Request, CallReady(q), q.new = None, call' = [call EXCEPT ![c] = q]
      PROVE  Sound'
  <2>1. call' \in [Calls -> Request] /\ \A d \in Calls : CallReady(call'[d])
    BY <1>2, CallStep DEF Base
  <2>2. \A d \in Calls : call'[d].new \in {call[d].new, None}
    BY <1>2 DEF Base, Typed
  <2>3. \A s \in left' : s \in Nat /\ s <= issued
    <3>1. \A p \in rows : p.session \in Nat /\ p.session <= issued
      BY NotNone DEF Base, Typed, Numbered, Known, Pairs
    <3> QED BY <1>2, <3>1 DEF Base, Numbered
  <2> QED BY <1>1, <1>2, <2>1, <2>2, <2>3 DEF Sound, Base, Typed, Ready, Numbered, Known
<1>3. Quiet(c) => Sound'
  BY <1>2 DEF Quiet
<1>4. Cleared(c) => Sound'
  BY <1>2 DEF Cleared, End
<1>5. ASSUME NewPassword(c) PROVE Sound'
  <2> DEFINE p == Fresh(None)
  <2>1. p \in Pairs /\ p.id = issued + 1 /\ p.session = issued + 1
    BY FreshPair DEF Base, Typed
  <2> HIDE DEF p
  <2>2. PICK q \in Request : /\ CallReady(q) /\ q.new \in {p, None} /\ call' = [call EXCEPT ![c] = q]
    BY <1>5 DEF NewPassword, p
  <2>3. call' \in [Calls -> Request] /\ \A d \in Calls : CallReady(call'[d])
    BY <2>2, CallStep DEF Base
  <2>4. rows' = {p} /\ issued' = issued + 1
    BY <1>5 DEF NewPassword, p
  <2>5. Typed'
    BY <1>1, <2>1, <2>3, <2>4 DEF Base, Typed
  <2>6. Ready'
    BY <1>1, <2>3 DEF Base, Ready
  <2>7. \A d \in Calls : call'[d].new \in {call[d].new, p, None}
    BY <2>2 DEF Base, Typed
  <2>8. \A s \in left' : s \in Nat /\ s <= issued
    <3> SUFFICES ASSUME NEW r \in rows PROVE r.session \in Nat /\ r.session <= issued
      BY <1>5 DEF NewPassword, End, Base, Numbered
    <3> QED BY NotNone DEF Base, Typed, Numbered, Known, Pairs
  <2>9. Numbered'
    BY <1>1, <2>1, <2>4, <2>7, <2>8 DEF Base, Typed, Numbered, Known, Pairs, Request, Refresh
  <2> QED BY <2>5, <2>6, <2>9 DEF Sound
<1> QED BY <1>3, <1>4, <1>5, Handling

\* What comes of an answer: the request waits for a refresh, or it is over.
Parked(c) ==
  /\ call[c].new = None /\ stored # None /\ stored' = stored
  /\ \E q \in Request : CallReady(q) /\ q.new = None /\ call' = [call EXCEPT ![c] = q]
  /\ \/ UNCHANGED <<flight, crossed>>
     \/ /\ flight[c].pc = "none" /\ flight' = [flight EXCEPT ![c] = Refreshing]
        /\ crossed \subseteq crossed'
        /\ \A d \in Calls : Heard(d) /\ flight[d].token = stored => stored.session \in crossed'
Over(c) ==
  /\ stored' = IF call[c].new # None THEN call[c].new ELSE stored
  /\ call' = [call EXCEPT ![c] = NoCall] /\ flight' = flight
  /\ crossed \subseteq crossed'
  /\ call[c].new # None => /\ stored # None => stored.session \in crossed'
                           /\ \A d \in Calls : Heard(d) => call[c].new.session \in crossed'

LEMMA Arriving ==
  ASSUME Base, NEW c \in Calls, Arrive(c)
  PROVE  UNCHANGED <<rows, issued, adrift, leaving, left, slipped>> /\ (Parked(c) \/ Over(c))
<1>1. UNCHANGED <<rows, issued, adrift, leaving, left, slipped>>
  BY DEF Arrive, server
<1>2. call[c] \in Request /\ CallReady(call[c])
  BY DEF Base, Typed, Ready
<1>3. DOMAIN call = Calls /\ call = [d \in Calls |-> call[d]]
  BY DEF Base, Typed
<1>4. ASSUME call[c].pc = "answered", call[c].answer = "denied", stored # None, stored' = stored,
             JoinRefresh(c)
      PROVE  Parked(c)
  <2>1. ASSUME NEW d \in Calls, call' = [call EXCEPT ![c].pc = "waiting", ![c].on = d]
        PROVE  call[c].new = None
               /\ \E q \in Request : CallReady(q) /\ q.new = None /\ call' = [call EXCEPT ![c] = q]
    <3> DEFINE q == [call[c] EXCEPT !.pc = "waiting", !.on = d]
    <3>1. call[c].new = None /\ q \in Request /\ CallReady(q) /\ q.new = None
      BY <1>2, <1>4, Waits
    <3>2. call' = [call EXCEPT ![c] = q]
      BY <1>3, <2>1
    <3> QED BY <3>1, <3>2
  <2>2. CASE Flying(TabOf[c]) # {}
    <3>1. \E d \in Calls : call' = [call EXCEPT ![c].pc = "waiting", ![c].on = d]
      BY <1>4, <2>2 DEF JoinRefresh, Flying
    <3>2. UNCHANGED <<flight, crossed>>
      BY <1>4, <2>2 DEF JoinRefresh
    <3> QED BY <1>4, <2>1, <3>1, <3>2 DEF Parked
  <2>3. CASE Flying(TabOf[c]) = {}
    <3>1. flight[c].pc = "none"
      BY <1>4, <2>3 DEF Flying, Heard, Base, Adrift, InHand
    <3>2. /\ call' = [call EXCEPT ![c].pc = "waiting", ![c].on = c]
          /\ flight' = [flight EXCEPT ![c] = Refreshing]
          /\ crossed' = crossed \cup Raced(TabOf[c])
      BY <1>4, <2>3 DEF JoinRefresh
    <3>3. ASSUME NEW d \in Calls, Heard(d), flight[d].token = stored
          PROVE  stored.session \in crossed'
      BY <2>3, <3>2, <3>3 DEF Flying, Heard, Raced
    <3> QED BY <1>4, <2>1, <3>1, <3>2, <3>3 DEF Parked
  <2> QED BY <2>2, <2>3
<1>5. ASSUME Settle(c), UNCHANGED flight PROVE Over(c)
  BY <1>5 DEF Settle, Over, Overlaid, Replaced
<1> QED BY <1>1, <1>4, <1>5 DEF Arrive

LEMMA BaseArrive == ASSUME Base, NEW c \in Calls, Arrive(c) PROVE Sound'
<1>1. UNCHANGED <<rows, issued, adrift, leaving, left, slipped>>
  BY Arriving
<1>2. CASE Parked(c)
  <2>1. PICK q \in Request : CallReady(q) /\ q.new = None /\ call' = [call EXCEPT ![c] = q]
    BY <1>2 DEF Parked
  <2>2. call' \in [Calls -> Request] /\ \A d \in Calls : CallReady(call'[d])
    BY <2>1, CallStep DEF Base
  <2>3. /\ flight' \in [Calls -> Refresh] /\ \A d \in Calls : FlightReady(flight'[d])
        /\ \A d \in Calls : /\ flight'[d].token \in {flight[d].token, stored}
                            /\ flight'[d].new \in {flight[d].new, None}
    <3>1. CASE UNCHANGED flight
      BY <3>1 DEF Base, Typed, Ready
    <3>2. CASE flight' = [flight EXCEPT ![c] = Refreshing]
      <4>1. Refreshing \in Refresh /\ FlightReady(Refreshing)
            /\ Refreshing.token = stored /\ Refreshing.new = None
        BY <1>2, RefreshingReady DEF Base, Parked
      <4>2. flight' \in [Calls -> Refresh] /\ \A d \in Calls : FlightReady(flight'[d])
        BY <3>2, <4>1, FlightStep DEF Base
      <4>3. \A d \in Calls : flight'[d] = IF d = c THEN Refreshing ELSE flight[d]
        BY <3>2 DEF Base, Typed
      <4> QED BY <4>1, <4>2, <4>3
    <3> QED BY <1>2, <3>1, <3>2 DEF Parked
  <2>4. \A d \in Calls : call'[d].new \in {call[d].new, None}
    BY <2>1 DEF Base, Typed
  <2>5. stored' = stored
    BY <1>2 DEF Parked
  <2>6. Typed' /\ Ready'
    BY <1>1, <2>2, <2>3, <2>5 DEF Base, Typed, Ready
  <2>7. Numbered'
    BY <1>1, <2>3, <2>4, <2>5 DEF Base, Numbered, Known
  <2> QED BY <2>6, <2>7 DEF Sound
<1>3. CASE Over(c)
  <2>1. call' \in [Calls -> Request] /\ \A d \in Calls : CallReady(call'[d])
    BY <1>3, NoCallReady, CallStep DEF Base, Over
  <2>2. \A d \in Calls : call'[d].new \in {call[d].new, None}
    BY <1>3, NoCallReady DEF Base, Typed, Over
  <2>3. stored' \in {stored, call[c].new} /\ flight' = flight
    BY <1>3 DEF Over
  <2>4. call[c].new \in Pairs \cup {None}
    BY DEF Base, Typed, Request
  <2>5. Typed' /\ Ready'
    BY <1>1, <2>1, <2>3, <2>4 DEF Base, Typed, Ready
  <2>6. Numbered'
    BY <1>1, <2>2, <2>3 DEF Base, Numbered, Known
  <2> QED BY <2>5, <2>6 DEF Sound
<1> QED BY <1>2, <1>3, Arriving

\* A refresh goes one point on, to its end for one that nobody waits for.
Advanced(c, pc, new) ==
  /\ flight[c].token # None /\ adrift' = adrift
  /\ \E g \in Refresh : /\ FlightReady(g) /\ flight' = [flight EXCEPT ![c] = g]
                        /\ g.pc = pc /\ g.token = flight[c].token /\ g.new = new
Vanished(c) == c \in adrift /\ adrift' = adrift \ {c} /\ flight' = [flight EXCEPT ![c] = NoFlight]

LEMMA Advancing ==
  ASSUME Base, NEW c \in Calls, Aloft(c), NEW pc \in {"consumed", "answered"},
         NEW p \in Pairs \cup {None},
         p # None => pc = "answered" /\ p.session = flight[c].token.session,
         flight' = [flight EXCEPT ![c].pc = pc, ![c].new = p], adrift' = adrift
  PROVE  Advanced(c, pc, p)
<1>1. flight[c] \in Refresh /\ FlightReady(flight[c]) /\ DOMAIN flight = Calls
  BY DEF Base, Typed, Ready
<1> DEFINE g == [flight[c] EXCEPT !.pc = pc, !.new = p]
<1>2. /\ flight[c].token # None
      /\ g \in Refresh /\ FlightReady(g) /\ g.pc = pc /\ g.token = flight[c].token /\ g.new = p
  BY <1>1 DEF Refresh, FlightReady, Aloft
<1>3. flight' = [flight EXCEPT ![c] = g]
  BY <1>1
<1> QED BY <1>2, <1>3 DEF Advanced

LEMMA Answering ==
  ASSUME Base, NEW c \in Calls, Aloft(c), NEW p \in Pairs \cup {None},
         p # None => p.session = flight[c].token.session, Answer(c, p)
  PROVE  (c \notin adrift /\ Advanced(c, "answered", p)) \/ Vanished(c)
<1>1. CASE c \in adrift
  BY <1>1 DEF Answer, Vanished
<1>2. CASE c \notin adrift
  BY <1>2, Advancing DEF Answer
<1> QED BY <1>1, <1>2

\* A refresh goes on with nothing in hand: its token is refused, or its successor is not
\* made, or not heard of.
Failing(c) ==
  /\ UNCHANGED <<stored, rows, issued, call, leaving, left, slipped>>
  /\ crossed \subseteq crossed' /\ Aloft(c)
  /\ Taken(c) \/ flight[c].new # None => flight[c].token.session \in crossed'
  /\ \/ /\ Advanced(c, "answered", None) /\ c \notin adrift
        /\ flight[c].token \notin rows \/ flight[c].token.session \in crossed'
     \/ Vanished(c)
Succeeding(c) ==
  /\ UNCHANGED <<stored, call, leaving, left, slipped, crossed>>
  /\ flight[c].pc = "consumed" /\ issued' = issued + 1
  /\ \E p \in Pairs : /\ p.id = issued + 1 /\ p.session = flight[c].token.session
                      /\ rows' = rows \cup {p}
                      /\ (c \notin adrift /\ Advanced(c, "answered", p)) \/ Vanished(c)
Taking(c) ==
  /\ UNCHANGED <<stored, issued, call, leaving, left, slipped>> /\ crossed \subseteq crossed'
  /\ flight[c].pc = "sent" /\ flight[c].token \in rows /\ rows' = rows \ {flight[c].token}
  /\ Advanced(c, "consumed", None) /\ (c \in adrift => flight[c].token.session \in crossed')

\* The effect of each point of a refresh on the server and on the requests.
LEMMA Refreshes ==
  ASSUME Base, NEW c \in Calls
  PROVE  /\ Consume(c) => Taking(c) \/ Failing(c)
         /\ Outage(c) \/ RotateFails(c) => Failing(c)
         /\ Rotate(c) => Succeeding(c)
<1>0. /\ flight[c] \in Refresh /\ FlightReady(flight[c]) /\ DOMAIN flight = Calls
  BY DEF Base, Typed, Ready
<1>1. ASSUME Consume(c) PROVE Taking(c) \/ Failing(c)
  <2>1. flight[c].pc = "sent" /\ Aloft(c) /\ flight[c].new = None /\ ~Taken(c)
    BY <1>0, <1>1 DEF Consume, Aloft, FlightReady, Taken
  <2>2. UNCHANGED <<stored, issued, call, leaving, left, slipped>> /\ crossed \subseteq crossed'
    BY <1>1 DEF Consume
  <2>3. CASE flight[c].token \in rows
    <3>1. /\ rows' = rows \ {flight[c].token} /\ adrift' = adrift
          /\ flight' = [flight EXCEPT ![c].pc = "consumed"]
          /\ c \in adrift => flight[c].token.session \in crossed'
      BY <1>1, <2>3 DEF Consume
    <3>2. flight' = [flight EXCEPT ![c].pc = "consumed", ![c].new = None]
      BY <1>0, <2>1, <3>1 DEF Refresh
    <3>3. Advanced(c, "consumed", None)
      BY <2>1, <3>1, <3>2, Advancing
    <3> QED BY <2>1, <2>2, <2>3, <3>1, <3>3 DEF Taking
  <2>4. CASE flight[c].token \notin rows
    <3>1. rows' = rows /\ Answer(c, None)
      BY <1>1, <2>4 DEF Consume
    <3>2. (c \notin adrift /\ Advanced(c, "answered", None)) \/ Vanished(c)
      BY <2>1, <3>1, Answering
    <3> QED BY <2>1, <2>2, <2>4, <3>1, <3>2 DEF Failing
  <2> QED BY <2>3, <2>4
<1>2. ASSUME Outage(c) PROVE Failing(c)
  <2>1. Aloft(c) /\ ~Taken(c) /\ Answer(c, None)
    BY <1>0, <1>2 DEF Outage, Aloft, FlightReady, Taken
  <2>2. (c \notin adrift /\ Advanced(c, "answered", None)) \/ Vanished(c)
    BY <2>1, Answering
  <2>3. UNCHANGED <<stored, rows, issued, call, leaving, left, slipped>> /\ crossed \subseteq crossed'
    BY <1>2 DEF Outage, server
  <2>4. c \notin adrift => flight[c].token.session \in crossed'
    BY <1>2 DEF Outage
  <2>5. c \in adrift => flight[c].new = None /\ Vanished(c)
    BY <1>0, <2>1 DEF Base, Adrift, InHand, Answer, Vanished, FlightReady
  <2> QED BY <2>1, <2>2, <2>3, <2>4, <2>5 DEF Failing
<1>3. ASSUME RotateFails(c) PROVE Failing(c)
  <2>1. Aloft(c) /\ Answer(c, None) /\ flight[c].token.session \in crossed'
    BY <1>3 DEF RotateFails, Aloft
  <2>2. (c \notin adrift /\ Advanced(c, "answered", None)) \/ Vanished(c)
    BY <2>1, Answering
  <2>3. UNCHANGED <<stored, rows, issued, call, leaving, left, slipped>> /\ crossed \subseteq crossed'
    BY <1>3 DEF RotateFails, server
  <2> QED BY <2>1, <2>2, <2>3 DEF Failing
<1>4. ASSUME Rotate(c) PROVE Succeeding(c)
  <2> DEFINE p == Fresh(flight[c].token.session)
  <2>1. /\ flight[c].pc = "consumed" /\ Aloft(c) /\ issued' = issued + 1
        /\ UNCHANGED <<stored, call, leaving, left, slipped, crossed>>
    BY <1>4 DEF Rotate, Aloft, history
  <2>2. rows' = rows \cup {p} /\ Answer(c, p)
    BY <1>4 DEF Rotate
  <2>3. flight[c].token \in Pairs
    BY <1>0, <2>1 DEF FlightReady, Refresh
  <2>4. flight[c].token.session \in Nat /\ issued \in Nat /\ flight[c].token.session # None
    BY <2>3, NoneAssumption DEF Pairs, Base, Typed
  <2>5. p \in Pairs /\ p.id = issued + 1 /\ p.session = flight[c].token.session
    BY <2>4, FreshPair
  <2> HIDE DEF p
  <2>6. (c \notin adrift /\ Advanced(c, "answered", p)) \/ Vanished(c)
    BY <2>1, <2>2, <2>5, Answering
  <2> QED BY <2>1, <2>2, <2>5, <2>6 DEF Succeeding
<1> QED BY <1>1, <1>2, <1>3, <1>4

\* Of the refreshes, only this one changes.
LEMMA AdvancedKeeps ==
  ASSUME Base, NEW c \in Calls
  PROVE  /\ \A pc, new : Advanced(c, pc, new) =>
              /\ flight' \in [Calls -> Refresh] /\ \A d \in Calls : FlightReady(flight'[d])
              /\ flight'[c].pc = pc /\ flight'[c].token = flight[c].token /\ flight'[c].new = new
              /\ \A d \in Calls : d # c => flight'[d] = flight[d]
         /\ Vanished(c) =>
              /\ flight' \in [Calls -> Refresh] /\ \A d \in Calls : FlightReady(flight'[d])
              /\ flight'[c] = NoFlight
              /\ \A d \in Calls : d # c => flight'[d] = flight[d]
<1>1. ASSUME NEW pc, NEW new, Advanced(c, pc, new)
      PROVE  /\ flight' \in [Calls -> Refresh] /\ \A d \in Calls : FlightReady(flight'[d])
             /\ flight'[c].pc = pc /\ flight'[c].token = flight[c].token /\ flight'[c].new = new
             /\ \A d \in Calls : d # c => flight'[d] = flight[d]
  <2>1. PICK g \in Refresh : /\ FlightReady(g) /\ flight' = [flight EXCEPT ![c] = g]
                             /\ g.pc = pc /\ g.token = flight[c].token /\ g.new = new
    BY <1>1 DEF Advanced
  <2>2. flight' \in [Calls -> Refresh] /\ \A d \in Calls : FlightReady(flight'[d])
    BY <2>1, FlightStep DEF Base
  <2>3. flight'[c] = g /\ \A d \in Calls : d # c => flight'[d] = flight[d]
    BY <2>1 DEF Base, Typed
  <2> QED BY <2>1, <2>2, <2>3
<1>2. ASSUME Vanished(c)
      PROVE  /\ flight' \in [Calls -> Refresh] /\ \A d \in Calls : FlightReady(flight'[d])
             /\ flight'[c] = NoFlight
             /\ \A d \in Calls : d # c => flight'[d] = flight[d]
  BY <1>2, NoFlightReady, FlightStep DEF Base, Typed, Vanished
<1> QED BY <1>1, <1>2

\* What is kept of the tokens and the successors when a refresh goes on.
LEMMA BaseAdvance ==
  ASSUME Base, NEW c \in Calls, Taking(c) \/ Failing(c) \/ Succeeding(c)
  PROVE  Sound'
<1>1. CASE Taking(c) \/ Failing(c)
  <2>1. UNCHANGED <<stored, issued, call, leaving, left>> /\ rows' \subseteq rows
    BY <1>1 DEF Taking, Failing
  <2>2. (\E pc : Advanced(c, pc, None)) \/ Vanished(c)
    BY <1>1 DEF Taking, Failing
  <2>3. /\ flight' \in [Calls -> Refresh] /\ \A d \in Calls : FlightReady(flight'[d])
        /\ flight'[c].token \in {flight[c].token, None} /\ flight'[c].new = None
        /\ \A d \in Calls : d # c => flight'[d] = flight[d]
    BY <2>2, AdvancedKeeps, NoFlightReady
  <2>4. adrift' \subseteq Calls
    BY <2>2 DEF Advanced, Vanished, Base, Typed
  <2>5. Typed' /\ Ready'
    BY <2>1, <2>3, <2>4 DEF Base, Typed, Ready
  <2>6. Numbered'
    BY <2>1, <2>3 DEF Base, Numbered, Known
  <2> QED BY <2>5, <2>6 DEF Sound
<1>2. CASE Succeeding(c)
  <2>1. PICK p \in Pairs : /\ p.id = issued + 1 /\ p.session = flight[c].token.session
                           /\ rows' = rows \cup {p} /\ (Advanced(c, "answered", p) \/ Vanished(c))
    BY <1>2 DEF Succeeding
  <2>2. UNCHANGED <<stored, call, leaving, left>> /\ issued' = issued + 1 /\ flight[c].pc = "consumed"
    BY <1>2 DEF Succeeding
  <2>3. /\ flight' \in [Calls -> Refresh] /\ \A d \in Calls : FlightReady(flight'[d])
        /\ flight'[c].token \in {flight[c].token, None} /\ flight'[c].new \in {p, None}
        /\ \A d \in Calls : d # c => flight'[d] = flight[d]
    BY <2>1, AdvancedKeeps, NoFlightReady
  <2>4. Typed' /\ Ready'
    BY <2>1, <2>2, <2>3 DEF Base, Typed, Ready, Advanced, Vanished
  <2>5. flight[c].token # None
    BY <2>2 DEF Base, Ready, FlightReady
  <2>6. p.session <= issued
    BY <2>1, <2>5 DEF Base, Numbered, Known
  <2>7. \A q \in Pairs \cup {None} : Known(q) => (Known(q))'
    BY <2>2 DEF Base, Typed, Known, Pairs
  <2>8. (Known(p))' /\ (Known(None))'
    BY <2>1, <2>2, <2>6 DEF Base, Typed, Known, Pairs
  <2>9. \A s \in left' : s \in Nat /\ s <= issued'
    BY <2>2 DEF Base, Typed, Numbered
  <2>10. (Known(stored))' /\ \A q \in rows' : (Known(q))'
    BY <2>1, <2>2, <2>7, <2>8 DEF Base, Typed, Numbered
  <2>11. ASSUME NEW d \in Calls
         PROVE  (Known(flight[d].token))' /\ (Known(flight[d].new))' /\ (Known(call[d].new))'
    BY <2>2, <2>3, <2>7, <2>8 DEF Base, Typed, Numbered, Request, Refresh
  <2>12. Numbered'
    BY <2>9, <2>10, <2>11 DEF Numbered
  <2> QED BY <2>4, <2>12 DEF Sound
<1> QED BY <1>1, <1>2

\* A refresh that has ended, well or not, is taken out of the way.
LEMMA Concluding ==
  ASSUME Base, NEW c \in Calls, Refreshed(c) \/ Expelled(c)
  PROVE  /\ UNCHANGED <<rows, issued, adrift, leaving, left, slipped>> /\ crossed \subseteq crossed'
         /\ flight[c].pc = "answered" /\ flight' = [flight EXCEPT ![c] = NoFlight]
         /\ call' \in [Calls -> Request]
         /\ \A d \in Calls : CallReady(call'[d]) /\ call'[d].new \in {call[d].new, None}
         /\ \/ stored' = None
            \/ flight[c].new # None /\ stored' = flight[c].new
<1>1. /\ UNCHANGED <<rows, issued, adrift, leaving, left, slipped>> /\ crossed \subseteq crossed'
      /\ flight[c].pc = "answered" /\ flight' = [flight EXCEPT ![c] = NoFlight]
      /\ \/ stored' = None
         \/ flight[c].new # None /\ stored' = flight[c].new
  BY DEF Refreshed, Expelled, server, history
<1>2. ASSUME NEW d \in Calls PROVE call[d] \in Request /\ CallReady(call[d])
  BY DEF Base, Typed, Ready
<1>3. CASE Expelled(c)
  <2>1. call' = [d \in Calls |-> IF d \in Waiting(c) THEN NoCall ELSE call[d]]
    BY <1>3 DEF Expelled
  <2> QED BY <1>1, <1>2, <2>1, NoCallReady
<1>4. CASE Refreshed(c)
  <2> DEFINE again(d) == [call[d] EXCEPT !.pc = "sent", !.token = flight[c].new, !.again = FALSE,
                                         !.on = None]
  <2>1. call' = [d \in Calls |-> IF d \in Waiting(c) THEN again(d) ELSE call[d]]
    BY <1>4 DEF Refreshed
  <2>2. flight[c].new \in Pairs
    BY <1>4 DEF Refreshed, Base, Typed, Refresh
  <2>3. ASSUME NEW d \in Waiting(c)
        PROVE  again(d) \in Request /\ CallReady(again(d)) /\ again(d).new = None
    <3>1. d \in Calls /\ call[d].pc = "waiting"
      BY DEF Waiting
    <3>2. call[d] \in Request /\ CallReady(call[d])
      BY <1>2, <3>1
    <3> QED BY <2>2, <3>1, <3>2, SentAgain
  <2> HIDE DEF again
  <2> QED BY <1>1, <1>2, <2>1, <2>3
<1> QED BY <1>3, <1>4

LEMMA BaseConclude == ASSUME Base, NEW c \in Calls, Refreshed(c) \/ Expelled(c) PROVE Sound'
<1>1. /\ flight' \in [Calls -> Refresh] /\ \A d \in Calls : FlightReady(flight'[d])
      /\ \A d \in Calls : flight'[d] = IF d = c THEN NoFlight ELSE flight[d]
  BY Concluding, NoFlightReady, FlightStep DEF Base, Typed
<1>2. flight[c].new \in Pairs \cup {None}
  BY DEF Base, Typed, Refresh
<1>3. Typed' /\ Ready'
  BY <1>1, <1>2, Concluding DEF Base, Typed, Ready
<1>4. Numbered'
  BY <1>1, Concluding, NoFlightReady DEF Base, Numbered, Known
<1> QED BY <1>3, <1>4 DEF Sound

\* A refresh that nobody hears of any more: its requests are over, and it goes on at the
\* server or is gone.
LEMMA Rejecting ==
  ASSUME Base, NEW c \in Calls, Rejected(c)
  PROVE  /\ UNCHANGED <<stored, rows, issued, leaving, left, slipped>> /\ crossed \subseteq crossed'
         /\ call' \in [Calls -> Request] /\ flight' \in [Calls -> Refresh]
         /\ \A d \in Calls : /\ CallReady(call'[d]) /\ call'[d].new = call[d].new
                             /\ call'[d] = IF d \in Waiting(c) THEN NoCall ELSE call[d]
                             /\ FlightReady(flight'[d]) /\ (d # c => flight'[d] = flight[d])
         /\ \/ AtServer(c) /\ flight' = flight /\ adrift' = adrift \cup {c}
            \/ ~AtServer(c) /\ flight'[c] = NoFlight /\ adrift' = adrift
         /\ Taken(c) \/ flight[c].new # None => flight[c].token.session \in crossed'
<1>1. /\ UNCHANGED <<stored, rows, issued, leaving, left, slipped>> /\ crossed \subseteq crossed'
      /\ call' = [d \in Calls |-> IF d \in Waiting(c) THEN NoCall ELSE call[d]]
      /\ IF AtServer(c) THEN adrift' = adrift \cup {c} /\ UNCHANGED flight
         ELSE flight' = [flight EXCEPT ![c] = NoFlight] /\ UNCHANGED adrift
  BY DEF Rejected, server
<1>2. \A d \in Waiting(c) : d \in Calls /\ call[d].new = None
  BY DEF Waiting, Base, Ready, CallReady
<1>3. /\ call' \in [Calls -> Request]
      /\ \A d \in Calls : /\ CallReady(call'[d]) /\ call'[d].new = call[d].new
                          /\ call'[d] = IF d \in Waiting(c) THEN NoCall ELSE call[d]
  BY <1>1, <1>2, NoCallReady DEF Base, Typed, Ready
<1>4. /\ flight' \in [Calls -> Refresh]
      /\ \A d \in Calls : FlightReady(flight'[d]) /\ (d # c => flight'[d] = flight[d])
      /\ ~AtServer(c) => flight'[c] = NoFlight
  BY <1>1, NoFlightReady, FlightStep DEF Base, Typed, Ready
<1>5. Taken(c) \/ flight[c].new # None => flight[c].token.session \in crossed'
  BY DEF Rejected, Missed, Taken
<1> QED BY <1>1, <1>3, <1>4, <1>5

LEMMA BaseReject == ASSUME Base, NEW c \in Calls, Rejected(c) PROVE Sound'
<1>1. \A d \in Calls : flight'[d] \in {flight[d], NoFlight}
  BY Rejecting
<1>2. adrift' \subseteq Calls
  BY Rejecting DEF Base, Typed
<1>3. Typed' /\ Ready'
  BY <1>2, Rejecting DEF Base, Typed, Ready
<1>4. Numbered'
  BY <1>1, Rejecting, NoFlightReady DEF Base, Numbered, Known
<1> QED BY <1>3, <1>4 DEF Sound

\* The steps of a request and of its refresh.
Acts(c) ==
  \/ Begin(c) \/ Handle(c) \/ GiveUp(c) \/ Arrive(c) \/ Refreshed(c) \/ Expelled(c) \/ Rejected(c)
  \/ Taking(c) \/ Failing(c) \/ Succeeding(c)

LEMMA AdriftActs == ASSUME Base, NEW c \in Calls, Acts(c) PROVE Adrift'
<1> SUFFICES ASSUME NEW d \in Calls PROVE InHand(d)'
  BY DEF Adrift
<1>0. InHand(c) /\ InHand(d)
  BY DEF Base, Adrift
<1>1. call \in [Calls -> Request] /\ flight \in [Calls -> Refresh] /\ Ready
  BY DEF Base, Typed
<1>2. CASE Begin(c)
  <2>1. /\ UNCHANGED <<flight, adrift, crossed>> /\ c \notin adrift /\ call[c].pc = "idle"
        /\ d # c => call'[d] = call[d]
    BY <1>1, <1>2 DEF Begin, history
  <2> QED BY <1>0, <2>1 DEF InHand, Heard
<1>3. CASE Handle(c)
  <2>1. /\ flight' = flight /\ adrift' = adrift \ {c} /\ call[c].pc = "sent"
        /\ \E q : call' = [call EXCEPT ![c] = q]
    BY <1>3, Handling DEF Quiet, Cleared, NewPassword
  <2>2. crossed \subseteq crossed'
    BY <1>3, Handling DEF Quiet, Cleared, NewPassword
  <2>3. d # c => call'[d] = call[d]
    BY <1>1, <2>1
  <2>4. flight[c].pc = "none"
    BY <1>0, <2>1 DEF InHand, Heard
  <2> QED BY <1>0, <2>1, <2>2, <2>3, <2>4 DEF InHand, Heard
<1>4. CASE GiveUp(c)
  <2>1. /\ UNCHANGED <<flight, crossed>> /\ adrift' = adrift \cup {c} /\ c \notin adrift
        /\ call[c].pc = "sent" /\ call[c].op = "password"
        /\ call' = [call EXCEPT ![c].again = FALSE]
    BY <1>4 DEF GiveUp, history
  <2>2. /\ d # c => call'[d] = call[d]
        /\ call'[c].pc = "sent" /\ call'[c].op = "password" /\ ~call'[c].again
    BY <1>1, <2>1 DEF Request
  <2>3. flight[c].pc = "none"
    BY <1>0, <2>1 DEF InHand, Heard
  <2> QED BY <1>0, <2>1, <2>2, <2>3 DEF InHand, Heard
<1>5. CASE Arrive(c)
  <2>1. adrift' = adrift /\ call[c].pc = "answered" /\ crossed \subseteq crossed'
    BY <1>5, Arriving DEF Arrive, Parked, Over
  <2>2. c \notin adrift /\ flight[c].pc = "none"
    BY <1>0, <2>1 DEF InHand, Heard
  <2>3. d # c => call'[d] = call[d] /\ flight'[d] = flight[d]
    BY <1>1, <1>5 DEF Arrive, JoinRefresh, Settle
  <2>4. flight'[c] = flight[c] \/ (call'[c].pc = "waiting" /\ call'[c].on = c)
    BY <1>1, <1>5 DEF Arrive, JoinRefresh, Settle, Request
  <2> QED BY <1>0, <2>1, <2>2, <2>3, <2>4 DEF InHand, Heard
<1>6. CASE Refreshed(c) \/ Expelled(c)
  <2>1. /\ adrift' = adrift /\ crossed \subseteq crossed' /\ flight[c].pc = "answered"
        /\ flight' = [flight EXCEPT ![c] = NoFlight]
    BY <1>6, Concluding
  <2>2. d \notin Waiting(c) => call'[d] = call[d]
    BY <1>6 DEF Refreshed, Expelled
  <2>3. d \in adrift \/ (Heard(d) /\ d # c) => d \notin Waiting(c)
    BY <1>0 DEF InHand, Waiting
  <2>4. flight'[c].pc = "none" /\ (d # c => flight'[d] = flight[d])
    BY <1>1, <2>1 DEF NoFlight
  <2> QED BY <1>0, <2>1, <2>2, <2>3, <2>4 DEF InHand, Heard
<1>7. CASE Rejected(c)
  <2>1. Heard(c) /\ call[c].pc = "waiting" /\ call[c].on = c
    BY <1>0, <1>7 DEF Rejected, InHand
  <2>2. call'[c] = NoCall /\ (d \notin Waiting(c) => call'[d] = call[d])
    BY <1>7, <2>1, Rejecting DEF Waiting
  <2>3. d \in adrift \/ (Heard(d) /\ d # c) => d \notin Waiting(c)
    BY <1>0 DEF InHand, Waiting
  <2>4. crossed \subseteq crossed' /\ (flight[c].pc = "consumed" => flight[c].token.session \in crossed')
    BY <1>7, Rejecting DEF Taken
  <2>5. AtServer(c) => flight[c].pc \in {"sent", "consumed"}
    BY <2>1 DEF AtServer
  <2>6. /\ d # c => flight'[d] = flight[d]
        /\ \/ AtServer(c) /\ flight' = flight /\ adrift' = adrift \cup {c}
           \/ flight'[c] = NoFlight /\ adrift' = adrift
    BY <1>7, Rejecting
  <2> QED BY <1>0, <2>1, <2>2, <2>3, <2>4, <2>5, <2>6 DEF InHand, Heard, NoCall, NoFlight
<1>8. CASE Taking(c)
  <2>1. /\ call' = call /\ adrift' = adrift /\ crossed \subseteq crossed' /\ flight[c].pc = "sent"
        /\ flight'[c].pc = "consumed" /\ flight'[c].token = flight[c].token
        /\ d # c => flight'[d] = flight[d]
        /\ c \in adrift => flight[c].token.session \in crossed'
    BY <1>8, AdvancedKeeps DEF Taking, Advanced
  <2> QED BY <1>0, <2>1 DEF InHand, Heard
<1>9. CASE Failing(c) \/ Succeeding(c)
  <2>1. /\ call' = call /\ crossed \subseteq crossed' /\ Aloft(c)
        /\ (\E p : c \notin adrift /\ Advanced(c, "answered", p)) \/ Vanished(c)
    BY <1>9 DEF Failing, Succeeding, Aloft
  <2>2. /\ d # c => flight'[d] = flight[d]
        /\ \/ c \notin adrift /\ adrift' = adrift
           \/ flight'[c] = NoFlight /\ adrift' = adrift \ {c}
    BY <2>1, AdvancedKeeps DEF Advanced, Vanished
  <2> QED BY <1>0, <2>1, <2>2 DEF InHand, Heard, NoFlight, Aloft
<1> QED BY <1>2, <1>3, <1>4, <1>5, <1>6, <1>7, <1>8, <1>9 DEF Acts

LEMMA AdriftOpen == ASSUME Base, NEW t \in Tabs, Open(t) PROVE Adrift'
<1> SUFFICES ASSUME NEW d \in Calls PROVE InHand(d)'
  BY DEF Adrift
<1> DEFINE mine == {c \in Calls : TabOf[c] = t}
<1>0. InHand(d) /\ call[d] \in Request
  BY DEF Base, Adrift, Typed
<1>1. /\ crossed \subseteq crossed' /\ adrift' = adrift \cup {c \in mine : AtServer(c)}
      /\ flight'[d] = IF d \in mine /\ ~AtServer(d) THEN NoFlight ELSE flight[d]
  BY DEF Open
<1>2. PICK boot \in mine \ adrift' :
        call'[d] = IF d \notin mine THEN call[d]
                   ELSE IF d = boot /\ stored # None THEN Sending("me")
                   ELSE IF AtServer(d) /\ flight[d].pc = "none" THEN [call[d] EXCEPT !.again = FALSE]
                   ELSE NoCall
  BY DEF Open
<1>3. CASE d \notin mine
  BY <1>0, <1>1, <1>2, <1>3 DEF InHand, Heard
<1>4. CASE d \in mine /\ ~AtServer(d)
  BY <1>0, <1>1, <1>4 DEF InHand, Heard, AtServer, NoFlight
<1>5. CASE d \in mine /\ AtServer(d)
  <2>1. d \in adrift' /\ d # boot /\ flight'[d] = flight[d]
    BY <1>1, <1>2, <1>5
  <2>2. CASE flight[d].pc = "none"
    <3>1. call[d].pc = "sent" /\ call[d].op = "password"
      BY <1>5, <2>2 DEF AtServer
    <3>2. call'[d].pc = "sent" /\ call'[d].op = "password" /\ ~call'[d].again
      BY <1>0, <1>2, <1>5, <2>1, <2>2, <3>1 DEF Request
    <3> QED BY <2>1, <2>2, <3>2 DEF InHand, Heard
  <2>3. CASE flight[d].pc # "none"
    <3>1. call'[d] = NoCall /\ flight[d].pc \in {"sent", "consumed"}
      BY <1>0, <1>2, <1>5, <2>1, <2>3 DEF InHand, Heard, AtServer
    <3>2. flight[d].pc = "consumed" => flight[d].token.session \in crossed'
      BY <1>5 DEF Open, Missed
    <3> QED BY <2>1, <3>1, <3>2 DEF InHand, Heard, NoCall
  <2> QED BY <2>2, <2>3
<1> QED BY <1>3, <1>4, <1>5

\* Every step keeps the base.  The steps that change nothing of the core are those of
\* the sign-in screen and of the clock.
Aside == UNCHANGED core

LEMMA Moves ==
  ASSUME [Next]_vars
  PROVE  \/ Aside \/ Leaving
         \/ \E t \in Tabs : Establish(t) \/ EstablishLost(t) \/ Open(t)
         \/ \E c \in Calls : \/ Begin(c) \/ Handle(c) \/ GiveUp(c) \/ Arrive(c)
                             \/ Consume(c) \/ Rotate(c) \/ RotateFails(c) \/ Outage(c)
                             \/ Refreshed(c) \/ Expelled(c) \/ Rejected(c)
<1>1. ASSUME NEW t \in Doors, Submit(t) \/ Answered(t) \/ Verify(t)
      PROVE  Aside \/ \E u \in Tabs : Establish(u) \/ EstablishLost(u)
  <2>1. t \in Tabs
    BY OpsAssumption
  <2>2. Submit(t) \/ Verify(t) => Aside
    BY DEF Submit, Verify, Aside, core, server, history
  <2>3. Answered(t) => Aside \/ Establish(t) \/ EstablishLost(t)
    BY DEF Answered, Aside, core, server, history
  <2> QED BY <1>1, <2>1, <2>2, <2>3
<1>2. Expire => Aside
  BY DEF Expire, Aside, core, history
<1>3. UNCHANGED vars => Aside
  BY DEF vars, Aside, core
<1>4. ResetLink => Leaving
  BY DEF ResetLink, Leaving
<1>5. ASSUME NEW p \in rows, RevokeElsewhere({p.session})
      PROVE  Leaving
  BY <1>5 DEF Leaving
<1>6. ASSUME NEW t \in Tabs, Logout(t) \/ MailLink(t) PROVE Leaving
  BY <1>6 DEF Leaving
<1>7. ASSUME NEW p \in leaving, Revoked(p) \/ LogoutLost(p) PROVE Leaving
  BY <1>7 DEF Leaving
<1> QED BY <1>1, <1>2, <1>3, <1>4, <1>5, <1>6, <1>7 DEF Next

LEMMA Steps ==
  ASSUME Base, [Next]_vars
  PROVE  \/ Aside \/ Opening \/ Leaving
         \/ \E t \in Tabs : Open(t)
         \/ \E c \in Calls : Acts(c)
<1>1. ASSUME NEW t \in Tabs, Establish(t) \/ EstablishLost(t) PROVE Opening
  BY <1>1, Opens
<1>2. ASSUME NEW c \in Calls, \/ Begin(c) \/ Handle(c) \/ GiveUp(c) \/ Arrive(c)
                              \/ Consume(c) \/ Rotate(c) \/ RotateFails(c) \/ Outage(c)
                              \/ Refreshed(c) \/ Expelled(c) \/ Rejected(c)
      PROVE  Acts(c)
  BY <1>2, Refreshes DEF Acts
<1> QED BY <1>1, <1>2, Moves

LEMMA AdriftStays ==
  ASSUME Base, UNCHANGED <<call, flight, adrift>>, crossed \subseteq crossed' PROVE Adrift'
BY DEF Base, Adrift, InHand, Heard

LEMMA BaseStep == Base /\ [Next]_vars => Base'
<1> SUFFICES ASSUME Base, [Next]_vars PROVE Sound' /\ Adrift'
  BY DEF Base, Sound
<1>1. CASE Aside
  BY <1>1, BaseStays, AdriftStays DEF Aside, core
<1>2. CASE Opening
  BY <1>2, BaseOpening, AdriftStays DEF Opening
<1>3. CASE Leaving
  <2>1. UNCHANGED <<call, flight, adrift, crossed>>
    BY <1>3 DEF Leaving, Logout, MailLink, Revoked, LogoutLost, RevokeElsewhere, history
  <2> QED BY <1>3, <2>1, BaseLeave, AdriftStays
<1>4. ASSUME NEW t \in Tabs, Open(t) PROVE Sound' /\ Adrift'
  BY <1>4, BaseOpen, AdriftOpen
<1>5. ASSUME NEW c \in Calls, Acts(c) PROVE Sound' /\ Adrift'
  <2>1. Sound'
    BY <1>5, BaseBegin, BaseHandle, BaseGiveUp, BaseArrive, BaseAdvance, BaseConclude, BaseReject
       DEF Acts
  <2> QED BY <1>5, <2>1, AdriftActs
<1> QED BY <1>1, <1>2, <1>3, <1>4, <1>5, Steps

LEMMA BaseInit == Init => Base
BY NoCallReady, NoFlightReady DEF Init, Base, Typed, Ready, Numbered, Known, Adrift, InHand, Heard,
                                 NoFlight

\* No request is carried out twice, for any number of tabs and requests: one that is
\* sent again has not been carried out before.
THEOREM OnceForAll == Spec => []CarriedOutOnce
<1>1. Base => CarriedOutOnce
  BY DEF Base, Ready, CallReady, CarriedOutOnce
<1> QED BY <1>1, BaseInit, BaseStep, PTL DEF Spec

-----------------------------------------------------------------------------
(* One row for a session, and a successor that nobody has seen *)

\* Steps that add no row and take none.
Frugal ==
  /\ rows' \subseteq rows
  /\ \A c \in Calls : (Taken(c))' => Taken(c) /\ flight'[c].token = flight[c].token
\* Steps after which only what was on its way still is, and not in the store.
Delivers ==
  /\ \A c \in Calls : /\ flight'[c].new \in {flight[c].new, None}
                      /\ call'[c].new \in {call[c].new, None}
                      /\ flight'[c].token \in {flight[c].token, stored, None}
                      /\ flight'[c].new # None => flight'[c].new # stored'
                      /\ call'[c].new # None => call'[c].new # stored'

LEMMA FrugalSingle == ASSUME Single, Frugal PROVE Single'
BY DEF Single, Frugal, Live

LEMMA FrugalOnTheWay == ASSUME Numbered, OnTheWay, Frugal, Delivers PROVE OnTheWay'
<1>1. Apart'
  BY DEF OnTheWay, Apart, Delivers
<1>2. ASSUME NEW c \in Calls, NEW n, n \in {flight[c].new, call[c].new}, n # None, n # stored'
      PROVE  (Unseen(n))'
  <2>1. Unseen(n)
    BY <1>2 DEF OnTheWay
  <2>2. \A p \in rows' : p.session = n.session => p = n
    BY <2>1 DEF Unseen, Frugal
  <2>3. \A d \in Calls : /\ flight'[d].token # n
                         /\ (Taken(d))' => flight'[d].token.session # n.session
    BY <1>2, <2>1 DEF Unseen, Frugal, Delivers
  <2> QED BY <1>2, <2>2, <2>3 DEF Unseen
<1>3. ASSUME NEW c \in Calls
      PROVE  /\ flight'[c].new # None => (Unseen(flight[c].new))'
             /\ call'[c].new # None => (Unseen(call[c].new))'
  BY <1>2 DEF Delivers
<1> QED BY <1>1, <1>3 DEF OnTheWay

\* A sign-in, or a new password, issues a pair of a session of its own.
LEMMA Issuing ==
  ASSUME Base
  PROVE  /\ Fresh(None) \in Pairs /\ Fresh(None) # None
         /\ Fresh(None).id = issued + 1 /\ Fresh(None).session = issued + 1
         /\ \A p \in Pairs : Known(p) => p # Fresh(None) /\ p.session # Fresh(None).session
         /\ Fresh(None).session \notin left
<1>1. Fresh(None) \in Pairs /\ Fresh(None).id = issued + 1 /\ Fresh(None).session = issued + 1
  BY FreshPair DEF Base, Typed
<1>2. ASSUME NEW p \in Pairs, Known(p) PROVE p # Fresh(None) /\ p.session # Fresh(None).session
  BY <1>1, <1>2, NotNone DEF Base, Typed, Known, Pairs
<1>3. Fresh(None).session \notin left
  BY <1>1 DEF Base, Typed, Numbered
<1> QED BY <1>1, <1>2, <1>3, NotNone

\* What is known of everything that holds a pair.
LEMMA Holds ==
  ASSUME Base
  PROVE  /\ stored # None => stored \in Pairs /\ Known(stored)
         /\ \A p \in rows : p \in Pairs /\ Known(p) /\ p # None
         /\ \A c \in Calls :
              /\ flight[c].token # None => flight[c].token \in Pairs /\ Known(flight[c].token)
              /\ flight[c].new # None => flight[c].new \in Pairs /\ Known(flight[c].new)
              /\ call[c].new # None => call[c].new \in Pairs /\ Known(call[c].new)
              /\ Taken(c) => flight[c].token # None
              /\ flight[c].new # None => /\ flight[c].pc = "answered" /\ flight[c].token # None
                                         /\ flight[c].new.session = flight[c].token.session
<1>1. /\ stored # None => stored \in Pairs /\ Known(stored)
      /\ \A p \in rows : p \in Pairs /\ Known(p) /\ p # None
  BY NotNone DEF Base, Typed, Numbered
<1>2. ASSUME NEW c \in Calls
      PROVE  /\ flight[c].token # None => flight[c].token \in Pairs /\ Known(flight[c].token)
             /\ flight[c].new # None => flight[c].new \in Pairs /\ Known(flight[c].new)
             /\ call[c].new # None => call[c].new \in Pairs /\ Known(call[c].new)
  BY DEF Base, Typed, Numbered, Request, Refresh
<1>3. ASSUME NEW c \in Calls
      PROVE  /\ Taken(c) => flight[c].token # None
             /\ flight[c].new # None => /\ flight[c].pc = "answered" /\ flight[c].token # None
                                        /\ flight[c].new.session = flight[c].token.session
  BY DEF Base, Ready, FlightReady, Taken
<1> QED BY <1>1, <1>2, <1>3

LEMMA OpeningRest == ASSUME IInv, Opening PROVE Single' /\ OnTheWay' /\ Follows' /\ Ended'
<1> DEFINE p == Fresh(None)
<1>1. /\ stored' = p \/ (stored' = stored /\ crossed \subseteq crossed')
      /\ rows' = rows \cup {p} /\ UNCHANGED <<call, flight, leaving, left, slipped>>
  BY DEF Opening
<1>2. /\ p # None /\ p.session \notin left
      /\ \A q \in Pairs : Known(q) => q # p /\ q.session # p.session
  BY Issuing DEF IInv
<1> HIDE DEF p
<1>3. /\ \A q \in rows : q # None /\ q # p /\ q.session # p.session
      /\ stored # None => stored.session # p.session
      /\ \A c \in Calls :
           /\ flight[c].token # None => flight[c].token # p /\ flight[c].token.session # p.session
           /\ flight[c].new # None => flight[c].new # p /\ flight[c].new.session # p.session
           /\ call[c].new # None => call[c].new # p /\ call[c].new.session # p.session
           /\ Taken(c) => flight[c].token # None
  BY <1>2, Holds DEF IInv
<1>4. \A s : s # p.session => (Live(s))' = Live(s)
  BY <1>1 DEF Live
<1>5. Single'
  BY <1>1, <1>3 DEF IInv, Single, Live, Taken
<1>6. OnTheWay'
  <2>1. Apart'
    BY <1>1 DEF IInv, OnTheWay, Apart
  <2>2. ASSUME NEW n, n # None, Unseen(n), n # p, n.session # p.session PROVE (Unseen(n))'
    BY <1>1, <2>2 DEF Unseen, Taken
  <2> QED BY <1>1, <1>3, <2>1, <2>2 DEF IInv, OnTheWay
<1>7. Follows'
  <2>1. CASE stored' = p
    BY <1>1, <2>1 DEF Follows
  <2>2. CASE stored' = stored /\ crossed \subseteq crossed'
    BY <1>1, <1>3, <1>4, <2>2 DEF IInv, Follows
  <2> QED BY <1>1, <2>1, <2>2
<1>8. Ended'
  <2> SUFFICES ASSUME NEW s \in left \ slipped PROVE (Unmoved(s))' /\ ((Live(s))' => (Doomed(s))')
    BY <1>1 DEF Ended
  <2>1. s # p.session
    BY <1>2
  <2> QED BY <1>1, <1>4, <2>1 DEF IInv, Ended, Unmoved, Doomed, Taken
<1> QED BY <1>5, <1>6, <1>7, <1>8

\* A row that goes takes nothing with it: its session has no other.
LEMMA FewerFollow ==
  ASSUME Single, Follows, rows' \subseteq rows, stored' \in {stored, None}, crossed \subseteq crossed',
         \A c \in Calls : flight[c].new # None =>
           \/ flight'[c].new = flight[c].new
           \/ flight[c].new.session \in crossed'
  PROVE  Follows'
<1> SUFFICES ASSUME stored # None, stored' = stored, stored.session \notin crossed', (Live(stored.session))'
             PROVE  \/ stored \in rows'
                    \/ \E c \in Calls : /\ flight'[c].new # None /\ flight'[c].new \in rows'
                                        /\ flight'[c].new.session = stored.session
  BY DEF Follows
<1>1. PICK p \in rows' : p.session = stored.session
  BY DEF Live
<1>2. p \in rows /\ \A q \in rows : q.session = stored.session => q = p
  BY <1>1 DEF Single
<1>3. CASE stored \in rows
  BY <1>1, <1>2, <1>3
<1>4. ASSUME NEW c \in Calls, flight[c].new # None, flight[c].new \in rows,
             flight[c].new.session = stored.session
      PROVE  flight'[c].new = p /\ flight[c].new = p
  BY <1>2, <1>4
<1> QED BY <1>1, <1>2, <1>3, <1>4 DEF Follows, Live

\* The sessions that were ended stay so, where nothing new is issued, taken or stored.
LEMMA EndedStays ==
  ASSUME Single, Ended, Frugal,
         \A c \in Calls : /\ flight'[c].new \in {flight[c].new, None}
                          /\ call'[c].new \in {call[c].new, None}
                          /\ flight'[c].pc = "sent" => \/ flight[c].pc = "sent" /\ flight'[c].token = flight[c].token
                                                       \/ stored # None /\ flight'[c].token = stored,
         \/ stored' \in {stored, None}
         \/ \E c \in Calls : \/ flight[c].new # None /\ stored' = flight[c].new
                             \/ call[c].new # None /\ stored' = call[c].new,
         NEW s \in left \ slipped,
         \A p \in leaving : p \in leaving' \/ p \notin rows' \/ p.session # s
  PROVE  (Unmoved(s))' /\ ((Live(s))' => (Doomed(s))')
<1>1. Unmoved(s) /\ (Live(s) => Doomed(s))
  BY DEF Ended
<1>2. (Unmoved(s))'
  BY <1>1 DEF Unmoved, Frugal
<1>3. ASSUME (Live(s))' PROVE (Doomed(s))'
  <2>1. Live(s) /\ Doomed(s)
    BY <1>1, <1>3 DEF Live, Frugal
  <2>2. \E p \in leaving' : p \in rows' /\ p.session = s
    <3>1. PICK p \in leaving : p \in rows /\ p.session = s
      BY <2>1 DEF Doomed
    <3>2. PICK q \in rows' : q.session = s
      BY <1>3 DEF Live
    <3>3. p = q
      BY <3>1, <3>2 DEF Single, Frugal
    <3> QED BY <3>1, <3>2, <3>3
  <2>3. stored' # None => stored'.session # s
    BY <1>1, <2>1 DEF Doomed, Unmoved
  <2>4. \A c \in Calls : flight'[c].pc = "sent" => flight'[c].token.session # s
    BY <2>1 DEF Doomed
  <2> QED BY <2>2, <2>3, <2>4 DEF Doomed
<1> QED BY <1>2, <1>3

\* A session with no rotation under way has nothing that moves.
LEMMA Still ==
  ASSUME NEW s, s \notin Rotating
  PROVE  Unmoved(s) /\ \A c \in Calls : flight[c].pc = "sent" => flight[c].token.session # s
<1>1. ASSUME NEW c \in Calls, flight[c].pc \in {"sent", "consumed"} PROVE flight[c].token.session # s
  BY <1>1 DEF Rotating
<1>2. ASSUME NEW c \in Calls, flight[c].new # None PROVE flight[c].new.session # s
  BY <1>2 DEF Rotating
<1>3. ASSUME NEW c \in Calls, call[c].new # None PROVE call[c].new.session # s
  BY <1>3 DEF Rotating
<1> QED BY <1>1, <1>2, <1>3 DEF Unmoved, Taken

LEMMA LeaveRest == ASSUME IInv, Leaving PROVE Single' /\ OnTheWay' /\ Follows' /\ Ended'
<1>1. /\ stored' \in {stored, None} /\ rows' \subseteq rows /\ UNCHANGED <<call, flight, crossed>>
      /\ \A p \in leaving : p \in leaving' \/ p \notin rows' \/ p.session \in slipped'
      /\ left \subseteq left' /\ slipped \subseteq slipped'
  BY DEF Leaving, Logout, MailLink, SignOut, Revoked, LogoutLost, RevokeElsewhere, End, server, history
<1>2. Frugal
  BY <1>1 DEF Frugal, Taken
<1>3. Delivers
  BY <1>1 DEF Delivers, IInv, OnTheWay, Unseen
<1>4. Single' /\ OnTheWay'
  BY <1>2, <1>3, FrugalSingle, FrugalOnTheWay DEF IInv, Base
<1>5. Follows'
  BY <1>1, FewerFollow DEF IInv
<1>6. ASSUME NEW s \in left \ slipped' PROVE (Unmoved(s))' /\ ((Live(s))' => (Doomed(s))')
  <2>1. s \in left \ slipped /\ \A p \in leaving : p \in leaving' \/ p \notin rows' \/ p.session # s
    BY <1>1
  <2> QED BY <1>1, <1>2, <2>1, EndedStays DEF IInv
<1>7. ASSUME NEW s \in left' \ slipped', s \notin left
      PROVE  (Unmoved(s))' /\ ((Live(s))' => (Doomed(s))')
  <2>1. s \notin Rotating
    BY <1>7 DEF Leaving, Logout, MailLink, Revoked, LogoutLost, RevokeElsewhere, End, history
  <2>2. (Unmoved(s))' /\ \A c \in Calls : flight'[c].pc = "sent" => flight'[c].token.session # s
    BY <1>1, <2>1, Still DEF Unmoved, Taken
  <2>3. CASE ~(Live(s))'
    BY <2>2, <2>3
  <2>4. CASE (Live(s))'
    <3>1. PICK t \in Tabs : Logout(t)
      BY <1>7, <2>4 DEF Leaving, MailLink, Revoked, LogoutLost, RevokeElsewhere, End, history, Live
    <3>2. /\ stored # None /\ s = stored.session /\ s \notin crossed
          /\ stored' = None /\ leaving' = leaving \cup {stored} /\ rows' = rows
      BY <1>7, <3>1 DEF Logout, SignOut, End, server
    <3>3. stored \in rows
      BY <2>1, <2>4, <3>2, Still DEF IInv, Follows, Live, Unmoved
    <3>4. (Doomed(s))'
      BY <2>2, <3>2, <3>3 DEF Doomed
    <3> QED BY <2>2, <3>4
  <2> QED BY <2>3, <2>4
<1>8. Ended'
  BY <1>1, <1>6, <1>7 DEF Ended
<1> QED BY <1>4, <1>5, <1>8

\* Steps of one tab that drop or park what it has under way.
Trims ==
  /\ rows' \subseteq rows /\ leaving' = leaving /\ left' = left /\ slipped' = slipped
  /\ stored' \in {stored, None} /\ crossed \subseteq crossed'
  /\ \A c \in Calls : call'[c].new \in {call[c].new, None}
  /\ \A c \in Calls : \/ flight'[c] \in {flight[c], NoFlight}
                      \/ flight[c].pc = "none" /\ stored # None /\ flight'[c] = Refreshing
                      \/ flight'[c].pc = "answered" /\ flight'[c].token = flight[c].token
                         /\ flight'[c].new = None
  /\ \A c \in Calls : flight[c].new # None => \/ flight'[c] = flight[c]
                                              \/ flight[c].new.session \in crossed'

LEMMA TabRest == ASSUME IInv, Trims PROVE Single' /\ OnTheWay' /\ Follows' /\ Ended'
<1> USE DEF Trims
<1>1. /\ NoFlight.pc = "none" /\ NoFlight.token = None /\ NoFlight.new = None
      /\ Refreshing.pc = "sent" /\ Refreshing.token = stored /\ Refreshing.new = None
  BY DEF NoFlight, Refreshing
<1>2. ASSUME NEW c \in Calls
      PROVE  /\ flight'[c].new \in {flight[c].new, None}
             /\ flight'[c].token \in {flight[c].token, stored, None}
             /\ (Taken(c))' => Taken(c) /\ flight'[c].token = flight[c].token
             /\ flight'[c].pc = "sent" => \/ flight[c].pc = "sent" /\ flight'[c].token = flight[c].token
                                          \/ stored # None /\ flight'[c].token = stored
             /\ flight[c].new # None => \/ flight'[c].new = flight[c].new
                                        \/ flight[c].new.session \in crossed'
  BY <1>1 DEF Taken
<1>3. Frugal
  BY <1>2 DEF Frugal
<1>4. ASSUME NEW c \in Calls
      PROVE  /\ flight[c].new # None => flight[c].new # stored
             /\ call[c].new # None => call[c].new # stored
  BY DEF IInv, OnTheWay, Unseen
<1>5. Delivers
  BY <1>2, <1>4 DEF Delivers
<1>6. Single' /\ OnTheWay'
  BY <1>3, <1>5, FrugalSingle, FrugalOnTheWay DEF IInv, Base
<1>7. Follows'
  BY <1>2, FewerFollow DEF IInv
<1>8. ASSUME NEW s \in left \ slipped PROVE (Unmoved(s))' /\ ((Live(s))' => (Doomed(s))')
  <2>1. \A c \in Calls : call'[c].new \in {call[c].new, None}
    OBVIOUS
  <2> QED BY <1>2, <1>3, <2>1, EndedStays DEF IInv
<1>9. Ended'
  BY <1>8 DEF Ended
<1> QED BY <1>6, <1>7, <1>9

LEMMA OpenRest ==
  ASSUME IInv, NEW t \in Tabs, Open(t)
  PROVE  Single' /\ OnTheWay' /\ Follows' /\ Ended'
<1>1. UNCHANGED <<stored, rows, leaving, left, slipped>> /\ crossed \subseteq crossed'
  BY DEF Open, server
<1>2. ASSUME NEW c \in Calls
      PROVE  /\ call'[c].new \in {call[c].new, None}
             /\ flight'[c] \in {flight[c], NoFlight}
             /\ flight[c].new # None => \/ flight'[c] = flight[c]
                                        \/ flight[c].new.session \in crossed'
  <2>1. ASSUME TabOf[c] = t, flight[c].new # None PROVE flight[c].new.session \in crossed'
    <3>1. flight[c].new.session = flight[c].token.session
      BY <2>1, Holds DEF IInv
    <3>2. flight[c].token.session \in crossed'
      BY <2>1 DEF Open, Missed
    <3> QED BY <3>1, <3>2
  <2> QED BY <2>1, Opened DEF IInv
<1>3. Trims
  BY <1>1, <1>2 DEF Trims
<1> QED BY <1>3, TabRest

LEMMA BeginRest ==
  ASSUME IInv, NEW c \in Calls, Begin(c)
  PROVE  Single' /\ OnTheWay' /\ Follows' /\ Ended'
<1>1. PICK op : call' = [call EXCEPT ![c] = Sending(op)]
  BY DEF Begin
<1>2. \A d \in Calls : call'[d].new \in {call[d].new, None}
  BY <1>1 DEF IInv, Base, Typed, Sending
<1>3. UNCHANGED <<stored, rows, leaving, left, slipped, flight, crossed>>
  BY DEF Begin, server, history
<1>4. Trims
  BY <1>2, <1>3 DEF Trims
<1> QED BY <1>4, TabRest

LEMMA GiveUpRest ==
  ASSUME IInv, NEW c \in Calls, GiveUp(c)
  PROVE  Single' /\ OnTheWay' /\ Follows' /\ Ended'
<1>1. call[c] \in Request /\ CallReady(call[c])
  BY DEF IInv, Base, Typed, Ready
<1>2. \A d \in Calls : call'[d].new = call[d].new
  BY <1>1 DEF IInv, Base, Typed, GiveUp, Request
<1>3. UNCHANGED <<stored, rows, leaving, left, slipped, flight, crossed>>
  BY DEF GiveUp, server, history
<1>4. Trims
  BY <1>2, <1>3 DEF Trims
<1> QED BY <1>4, TabRest

LEMMA RejectRest ==
  ASSUME IInv, NEW c \in Calls, Rejected(c)
  PROVE  Single' /\ OnTheWay' /\ Follows' /\ Ended'
<1>1. ASSUME NEW d \in Calls
      PROVE  /\ flight'[d] \in {flight[d], NoFlight}
             /\ flight[d].new # None => \/ flight'[d] = flight[d]
                                        \/ flight[d].new.session \in crossed'
  BY Rejecting, Holds DEF IInv
<1>2. Trims
  BY <1>1, Rejecting DEF IInv, Trims
<1> QED BY <1>2, TabRest

LEMMA HandleRest ==
  ASSUME IInv, NEW c \in Calls, Handle(c)
  PROVE  Single' /\ OnTheWay' /\ Follows' /\ Ended'
<1>1. UNCHANGED <<stored, flight, leaving>>
  BY Handling DEF IInv
<1>2. ASSUME Quiet(c) PROVE Single' /\ OnTheWay' /\ Follows' /\ Ended'
  <2>1. \A d \in Calls : call'[d].new \in {call[d].new, None}
    BY <1>2 DEF Quiet, IInv, Base, Typed
  <2>2. Trims
    BY <1>1, <1>2, <2>1 DEF Trims, Quiet
  <2> QED BY <2>2, TabRest
<1>4. ASSUME Cleared(c) PROVE Single' /\ OnTheWay' /\ Follows' /\ Ended'
  <2>1. /\ rows' = {} /\ \A d \in Calls : call'[d].new \in {call[d].new, None}
        /\ left' = left \cup {r.session : r \in rows}
        /\ slipped' = slipped \cup ({r.session : r \in rows} \cap Rotating)
    BY <1>4 DEF Cleared, End, IInv, Base, Typed
  <2>2. \A s : ~(Live(s))'
    BY <2>1 DEF Live
  <2>3. Frugal
    BY <1>1, <2>1 DEF Frugal, Taken
  <2>4. Delivers
    BY <1>1, <2>1 DEF Delivers, IInv, OnTheWay, Unseen
  <2>5. Single' /\ OnTheWay'
    BY <2>3, <2>4, FrugalSingle, FrugalOnTheWay DEF IInv, Base
  <2>6. ASSUME NEW s \in left' \ slipped' PROVE (Unmoved(s))'
    <3>1. Unmoved(s)
      BY <2>1, Still DEF IInv, Ended
    <3> QED BY <1>1, <2>1, <3>1 DEF Unmoved, Taken
  <2> QED BY <2>2, <2>5, <2>6 DEF Follows, Ended
<1>3. ASSUME NewPassword(c) PROVE Single' /\ OnTheWay' /\ Follows' /\ Ended'
  <2>0. PICK p : p = Fresh(None)
    OBVIOUS
  <2>1. /\ rows' = {p}
        /\ left' = left \cup {r.session : r \in rows}
        /\ slipped' = slipped \cup ({r.session : r \in rows} \cap Rotating)
    BY <1>3, <2>0 DEF NewPassword, End
  <2>2. /\ p # None /\ p.session \notin left
        /\ \A q \in Pairs : Known(q) => q # p /\ q.session # p.session
    BY <2>0, Issuing DEF IInv
  <2>3. call'[c].new \in {p, None} /\ \A d \in Calls : d # c => call'[d] = call[d]
    BY <1>3, <2>0 DEF NewPassword, IInv, Base, Typed
  <2>4. /\ \A q \in rows : q # None /\ q # p /\ q.session # p.session
        /\ stored # None => stored # p /\ stored.session # p.session
        /\ \A d \in Calls :
             /\ flight[d].token # None => flight[d].token # p /\ flight[d].token.session # p.session
             /\ flight[d].new # None => flight[d].new # p /\ flight[d].new.session # p.session
             /\ call[d].new # None => call[d].new # p /\ call[d].new.session # p.session
             /\ Taken(d) => flight[d].token # None
    BY <2>2, Holds DEF IInv
  <2>5. \A s : (Live(s))' <=> s = p.session
    BY <2>1 DEF Live
  <2>6. Single'
    BY <1>1, <2>1, <2>4, <2>5 DEF IInv, Single, Taken
  <2>7. OnTheWay'
    <3>1. Apart'
      BY <1>1, <2>3, <2>4 DEF IInv, OnTheWay, Apart
    <3>2. ASSUME NEW n, n # None, Unseen(n), n # p, n.session # p.session PROVE (Unseen(n))'
      BY <1>1, <2>1, <3>2 DEF Unseen, Taken
    <3>3. (Unseen(p))'
      BY <1>1, <2>1, <2>2, <2>4 DEF Unseen, Taken
    <3> QED BY <1>1, <2>3, <2>4, <3>1, <3>2, <3>3 DEF IInv, OnTheWay
  <2>8. Follows'
    BY <1>1, <2>4, <2>5 DEF Follows
  <2>9. Ended'
    <3> SUFFICES ASSUME NEW s \in left' \ slipped' PROVE (Unmoved(s))' /\ ~(Live(s))'
      BY DEF Ended
    <3>1. s # p.session
      BY <2>1, <2>2, <2>4
    <3>2. Unmoved(s)
      BY <2>1, Still DEF IInv, Ended
    <3>3. (Unmoved(s))'
      BY <1>1, <2>3, <3>1, <3>2 DEF Unmoved, Taken
    <3> QED BY <2>5, <3>1, <3>3
  <2> QED BY <2>6, <2>7, <2>8, <2>9
<1> QED BY <1>2, <1>3, <1>4, Handling DEF IInv

\* A successor comes into the store: from the answer to a change of password, or from
\* a refresh.
Lands ==
  /\ rows' = rows /\ leaving' = leaving /\ left' = left /\ slipped' = slipped
  /\ \A c \in Calls : /\ call'[c].new \in {call[c].new, None}
                      /\ flight'[c] \in {flight[c], NoFlight}
  /\ stored' # None
  /\ \E c \in Calls : \/ call[c].new = stored' /\ call'[c].new = None
                      \/ flight[c].new = stored' /\ flight'[c] = NoFlight

LEMMA LandsRest == ASSUME IInv, Lands PROVE Single' /\ OnTheWay' /\ Follows' /\ Ended'
<1>1. NoFlight.pc = "none" /\ NoFlight.token = None /\ NoFlight.new = None
  BY DEF NoFlight
<1>2. ASSUME NEW c \in Calls
      PROVE  /\ flight'[c].new \in {flight[c].new, None}
             /\ flight'[c].token \in {flight[c].token, None}
             /\ (Taken(c))' => Taken(c) /\ flight'[c].token = flight[c].token
             /\ flight'[c].pc = "sent" => flight[c].pc = "sent" /\ flight'[c].token = flight[c].token
  BY <1>1 DEF Lands, Taken
<1>3. Frugal
  BY <1>2 DEF Frugal, Lands
<1>4. PICK c \in Calls : \/ call[c].new = stored' /\ call'[c].new = None
                         \/ flight[c].new = stored' /\ flight'[c].new = None
  BY <1>1 DEF Lands
<1>5. ASSUME NEW d \in Calls
      PROVE  /\ flight'[d].new # None => flight'[d].new # stored'
             /\ call'[d].new # None => call'[d].new # stored'
  BY <1>2, <1>4 DEF Lands, IInv, OnTheWay, Apart
<1>6. Delivers
  BY <1>2, <1>5 DEF Delivers, Lands
<1>7. Single' /\ OnTheWay'
  BY <1>3, <1>6, FrugalSingle, FrugalOnTheWay DEF IInv, Base
<1>8. Follows'
  <2>1. Unseen(stored')
    BY <1>4 DEF Lands, IInv, OnTheWay
  <2>2. \A p \in rows' : p.session = stored'.session => p = stored'
    BY <2>1 DEF Unseen, Lands
  <2> QED BY <2>2 DEF Follows, Live
<1>9. ASSUME NEW s \in left \ slipped PROVE (Unmoved(s))' /\ ((Live(s))' => (Doomed(s))')
  <2>1. \E d \in Calls : \/ flight[d].new # None /\ stored' = flight[d].new
                         \/ call[d].new # None /\ stored' = call[d].new
    BY <1>4 DEF Lands
  <2>2. /\ \A p \in leaving : p \in leaving' \/ p \notin rows'
        /\ \A d \in Calls : call'[d].new \in {call[d].new, None}
    BY DEF Lands
  <2> QED BY <1>2, <1>3, <2>1, <2>2, EndedStays DEF IInv
<1>10. Ended'
  BY <1>9 DEF Ended, Lands
<1> QED BY <1>7, <1>8, <1>10

LEMMA ArriveRest ==
  ASSUME IInv, NEW c \in Calls, Arrive(c)
  PROVE  Single' /\ OnTheWay' /\ Follows' /\ Ended'
<1>1. UNCHANGED <<rows, leaving, left, slipped>> /\ (Parked(c) \/ Over(c))
  BY Arriving DEF IInv
<1>2. CASE Parked(c)
  <2>1. \A d \in Calls : call'[d].new \in {call[d].new, None}
    BY <1>2 DEF Parked, IInv, Base, Typed
  <2>2. /\ stored' = stored /\ crossed \subseteq crossed'
        /\ \A d \in Calls :
             \/ flight'[d] = flight[d]
             \/ flight[d].pc = "none" /\ stored # None /\ flight'[d] = Refreshing
    BY <1>2 DEF Parked, IInv, Base, Typed
  <2>3. \A d \in Calls : flight[d].new # None => flight[d].pc # "none"
    BY Holds DEF IInv
  <2>4. Trims
    BY <1>1, <2>1, <2>2, <2>3 DEF Trims
  <2> QED BY <2>4, TabRest
<1>3. CASE Over(c)
  <2>1. call'[c].new = None /\ \A d \in Calls : call'[d].new \in {call[d].new, None}
    BY <1>3, NoCallReady DEF Over, IInv, Base, Typed
  <2>2. flight' = flight /\ crossed \subseteq crossed'
    BY <1>3 DEF Over
  <2>3. CASE call[c].new = None
    <3>1. stored' = stored
      BY <1>3, <2>3 DEF Over
    <3>2. Trims
      BY <1>1, <2>1, <2>2, <3>1 DEF Trims
    <3> QED BY <3>2, TabRest
  <2>4. CASE call[c].new # None
    <3>1. stored' = call[c].new
      BY <1>3, <2>4 DEF Over
    <3>2. Lands
      BY <1>1, <2>1, <2>2, <2>4, <3>1 DEF Lands
    <3> QED BY <3>2, LandsRest
  <2> QED BY <2>3, <2>4
<1> QED BY <1>1, <1>2, <1>3

LEMMA ConcludeRest ==
  ASSUME IInv, NEW c \in Calls, Refreshed(c) \/ Expelled(c)
  PROVE  Single' /\ OnTheWay' /\ Follows' /\ Ended'
<1>1. /\ UNCHANGED <<rows, leaving, left, slipped>> /\ crossed \subseteq crossed'
      /\ \A d \in Calls : call'[d].new \in {call[d].new, None}
  BY Concluding DEF IInv
<1>2. \A d \in Calls : flight'[d] = IF d = c THEN NoFlight ELSE flight[d]
  BY Concluding DEF IInv, Base, Typed
<1>3. CASE Refreshed(c)
  <2>1. stored' = flight[c].new /\ flight[c].new # None
    BY <1>3 DEF Refreshed
  <2>2. Lands
    BY <1>1, <1>2, <2>1 DEF Lands
  <2> QED BY <2>2, LandsRest
<1>4. CASE Expelled(c)
  <2>1. stored' = None /\ flight[c].new = None
    BY <1>4 DEF Expelled
  <2>2. Trims
    BY <1>1, <1>2, <2>1 DEF Trims
  <2> QED BY <2>2, TabRest
<1> QED BY <1>3, <1>4

\* A refresh whose token is refused, or that fails, goes on with nothing in hand.
LEMMA FailingRest ==
  ASSUME IInv, NEW c \in Calls, Failing(c)
  PROVE  Single' /\ OnTheWay' /\ Follows' /\ Ended'
<1>1. /\ UNCHANGED <<stored, rows, call, leaving, left, slipped>> /\ crossed \subseteq crossed'
      /\ flight[c].new # None => flight[c].token.session \in crossed'
      /\ Advanced(c, "answered", None) \/ Vanished(c)
  BY DEF Failing
<1>2. /\ \/ flight'[c].pc = "answered" /\ flight'[c].token = flight[c].token /\ flight'[c].new = None
         \/ flight'[c] = NoFlight
      /\ \A d \in Calls : d # c => flight'[d] = flight[d]
  BY <1>1, AdvancedKeeps DEF IInv
<1>3. flight[c].new # None => flight[c].new.session = flight[c].token.session
  BY Holds DEF IInv
<1>4. Trims
  BY <1>1, <1>2, <1>3 DEF Trims
<1> QED BY <1>4, TabRest

LEMMA TakingRest ==
  ASSUME IInv, NEW c \in Calls, Taking(c)
  PROVE  Single' /\ OnTheWay' /\ Follows' /\ Ended'
<1>0. /\ UNCHANGED <<stored, call, leaving, left, slipped>> /\ crossed \subseteq crossed'
      /\ flight[c].pc = "sent" /\ flight[c].token \in rows /\ rows' = rows \ {flight[c].token}
  BY DEF Taking
<1>1. /\ flight'[c].pc = "consumed" /\ flight'[c].token = flight[c].token /\ flight'[c].new = None
      /\ flight[c].new = None /\ \A d \in Calls : d # c => flight'[d] = flight[d]
  BY <1>0, Holds, AdvancedKeeps DEF IInv, Taking
<1> DEFINE k == flight[c].token
           s0 == k.session
<1>2. Live(s0) /\ \A p \in rows : p.session = s0 => p = k
  BY <1>0 DEF IInv, Single, Live
<1>3. \A d \in Calls : Taken(d) => flight[d].token.session # s0
  BY <1>2 DEF IInv, Single
<1>4. /\ \A p \in rows' : p \in rows /\ p.session # s0
      /\ \A p \in rows : p.session # s0 => p \in rows'
  BY <1>0, <1>2
<1>5. \A d \in Calls : /\ flight'[d].new = flight[d].new /\ flight'[d].token = flight[d].token
                       /\ (Taken(d))' <=> Taken(d) \/ d = c
                       /\ flight'[d].pc = "sent" => flight[d].pc = "sent"
  BY <1>0, <1>1 DEF Taken
<1>6. Single'
  <2>1. \A d \in Calls : (Taken(d))' => ~(Live(flight[d].token.session))'
    BY <1>4, <1>5 DEF IInv, Single, Live
  <2>2. \A d, e \in Calls : (Taken(d))' /\ (Taken(e))' /\ flight'[d].token.session = flight'[e].token.session
                              => d = e
    BY <1>3, <1>5 DEF IInv, Single
  <2> QED BY <1>4, <2>1, <2>2 DEF IInv, Single
<1>7. OnTheWay'
  <2>1. Apart'
    BY <1>0, <1>5 DEF IInv, OnTheWay, Apart
  <2>2. ASSUME NEW n, Unseen(n) PROVE (Unseen(n))'
    <3>1. n.session # s0
      BY <1>0, <1>2, <2>2 DEF Unseen
    <3> QED BY <1>0, <1>4, <1>5, <2>2, <3>1 DEF Unseen
  <2> QED BY <1>0, <1>5, <2>1, <2>2 DEF IInv, OnTheWay
<1>8. Follows'
  BY <1>0, <1>5, FewerFollow DEF IInv
<1>9. ASSUME NEW s \in left \ slipped PROVE (Unmoved(s))' /\ ((Live(s))' => (Doomed(s))')
  <2>1. Unmoved(s) /\ (Live(s) => Doomed(s))
    BY DEF IInv, Ended
  <2>2. s # s0
    BY <1>0, <1>2, <2>1 DEF Doomed
  <2>3. (Unmoved(s))'
    BY <1>0, <1>5, <2>1, <2>2 DEF Unmoved
  <2>4. ASSUME (Live(s))' PROVE (Doomed(s))'
    <3>1. Doomed(s)
      BY <1>4, <2>1, <2>4 DEF Live
    <3>2. \E p \in leaving : p \in rows' /\ p.session = s
      BY <1>0, <1>4, <2>2, <3>1 DEF Doomed
    <3> QED BY <1>0, <1>5, <3>1, <3>2 DEF Doomed
  <2> QED BY <2>3, <2>4
<1>10. Ended'
  BY <1>0, <1>9 DEF Ended
<1> QED BY <1>6, <1>7, <1>8, <1>10

\* The successor of a token that was taken: the only row of its session again.
LEMMA RotateRest ==
  ASSUME IInv, NEW c \in Calls, flight[c].pc = "consumed",
         NEW p \in Pairs, p.id = issued + 1, p.session = flight[c].token.session,
         rows' = rows \cup {p}, UNCHANGED <<stored, call, leaving, left, slipped, crossed>>,
         flight'[c].pc \notin {"sent", "consumed"}, flight[c].token # None,
         \/ flight'[c].token = flight[c].token /\ flight'[c].new = p
         \/ flight'[c].token = None /\ flight'[c].new = None /\ p.session \in crossed,
         \A d \in Calls : d # c => flight'[d] = flight[d]
  PROVE  Single' /\ OnTheWay' /\ Follows' /\ Ended'
<1>1. flight[c].new = None
  BY Holds DEF IInv
<1>2. Taken(c) /\ ~Live(p.session) /\ \A d \in Calls : Taken(d) /\ d # c => flight[d].token.session # p.session
  BY DEF IInv, Single, Taken
<1>3. \A q \in Pairs : Known(q) => q # p
  BY NotNone DEF IInv, Base, Typed, Known, Pairs
<1>4. /\ p # None /\ stored # p
      /\ \A d \in Calls : flight[d].token # p /\ flight[d].new # p /\ call[d].new # p
  BY <1>3, Holds, NotNone DEF IInv
<1>5. \A d \in Calls : /\ d # c => flight'[d].new = flight[d].new
                       /\ flight'[d].token \in {flight[d].token, None}
                       /\ (Taken(d))' <=> Taken(d) /\ d # c
                       /\ (Taken(d))' => flight'[d].token = flight[d].token
                       /\ flight'[d].pc = "sent" => flight[d].pc = "sent" /\ d # c
  BY DEF Taken
<1>6. \A q \in rows : q.session # p.session
  BY <1>2 DEF Live
<1>7. \A s : s # p.session => (Live(s))' = Live(s)
  BY DEF Live
<1>8. Single'
  BY <1>2, <1>5, <1>6, <1>7 DEF IInv, Single
<1>9. OnTheWay'
  <2>1. Apart'
    BY <1>4, <1>5 DEF IInv, OnTheWay, Apart
  <2>2. ASSUME NEW n, n # None, Unseen(n), n # p PROVE (Unseen(n))'
    <3>1. n.session # p.session
      BY <1>2, <2>2 DEF Unseen
    <3> QED BY <1>5, <2>2, <3>1 DEF Unseen
  <2>3. (Unseen(p))'
    BY <1>2, <1>4, <1>5, <1>6 DEF Unseen
  <2> QED BY <1>4, <1>5, <2>1, <2>2, <2>3 DEF IInv, OnTheWay
<1>10. Follows'
  <2> SUFFICES ASSUME stored # None, stored.session \notin crossed, (Live(stored.session))'
               PROVE  \/ stored \in rows'
                      \/ \E d \in Calls : /\ flight'[d].new # None /\ flight'[d].new \in rows'
                                          /\ flight'[d].new.session = stored.session
    BY DEF Follows
  <2>1. CASE stored.session = p.session
    BY <1>4, <1>5, <2>1
  <2>2. CASE stored.session # p.session
    <3>1. \/ stored \in rows
          \/ \E d \in Calls : /\ flight[d].new # None /\ flight[d].new \in rows
                              /\ flight[d].new.session = stored.session
      BY <1>7, <2>2 DEF IInv, Follows
    <3>2. \A d \in Calls : flight[d].new # None => flight'[d].new = flight[d].new
      BY <1>1
    <3> QED BY <3>1, <3>2
  <2> QED BY <2>1, <2>2
<1>11. ASSUME NEW s \in left \ slipped PROVE (Unmoved(s))' /\ ((Live(s))' => (Doomed(s))')
  <2>1. Unmoved(s) /\ (Live(s) => Doomed(s))
    BY DEF IInv, Ended
  <2>2. s # p.session
    BY <1>2, <2>1 DEF Unmoved
  <2>3. (Unmoved(s))'
    BY <1>5, <2>1, <2>2 DEF Unmoved
  <2>4. ASSUME (Live(s))' PROVE (Doomed(s))'
    BY <1>5, <1>7, <2>1, <2>2, <2>4 DEF Doomed
  <2> QED BY <2>3, <2>4
<1>12. Ended'
  BY <1>11 DEF Ended
<1> QED BY <1>8, <1>9, <1>10, <1>12

LEMMA SucceedingRest ==
  ASSUME IInv, NEW c \in Calls, Succeeding(c)
  PROVE  Single' /\ OnTheWay' /\ Follows' /\ Ended'
<1>1. UNCHANGED <<stored, call, leaving, left, slipped, crossed>> /\ flight[c].pc = "consumed"
  BY DEF Succeeding
<1>2. PICK p \in Pairs : /\ p.id = issued + 1 /\ p.session = flight[c].token.session
                         /\ rows' = rows \cup {p}
                         /\ Advanced(c, "answered", p) \/ Vanished(c)
  BY DEF Succeeding
<1>3. flight[c].token # None
  BY <1>1, Holds DEF IInv, Taken
<1>4. Vanished(c) => p.session \in crossed
  BY <1>1, <1>2 DEF Vanished, IInv, Base, Adrift, InHand
<1>5. /\ flight'[c].pc \notin {"sent", "consumed"}
      /\ \/ flight'[c].token = flight[c].token /\ flight'[c].new = p
         \/ flight'[c].token = None /\ flight'[c].new = None /\ p.session \in crossed
      /\ \A d \in Calls : d # c => flight'[d] = flight[d]
  BY <1>2, <1>4, AdvancedKeeps DEF IInv, NoFlight
<1> QED BY <1>1, <1>2, <1>3, <1>5, RotateRest

LEMMA AsideRest == ASSUME IInv, Aside PROVE Single' /\ OnTheWay' /\ Follows' /\ Ended'
<1>1. Trims
  BY DEF Aside, core, Trims
<1> QED BY <1>1, TabRest

LEMMA IInvInit == Init => IInv
<1> SUFFICES ASSUME Init PROVE IInv
  OBVIOUS
<1>1. Base
  BY BaseInit
<1>2. \A c \in Calls : /\ flight[c].pc = "none" /\ flight[c].new = None /\ call[c].new = None
  BY DEF Init, NoCall, NoFlight
<1>3. Single /\ OnTheWay /\ Follows /\ Ended
  BY <1>2 DEF Init, Single, OnTheWay, Apart, Follows, Ended, Taken
<1> QED BY <1>1, <1>3 DEF IInv

LEMMA IInvStep == IInv /\ [Next]_vars => IInv'
<1> SUFFICES ASSUME IInv, [Next]_vars PROVE Single' /\ OnTheWay' /\ Follows' /\ Ended'
  BY BaseStep DEF IInv
<1>1. CASE Aside
  BY <1>1, AsideRest
<1>2. CASE Opening
  BY <1>2, OpeningRest
<1>3. CASE Leaving
  BY <1>3, LeaveRest
<1>4. ASSUME NEW t \in Tabs, Open(t) PROVE Single' /\ OnTheWay' /\ Follows' /\ Ended'
  BY <1>4, OpenRest
<1>5. ASSUME NEW c \in Calls, Acts(c) PROVE Single' /\ OnTheWay' /\ Follows' /\ Ended'
  BY <1>5, BeginRest, HandleRest, GiveUpRest, ArriveRest, ConcludeRest, RejectRest, TakingRest,
     FailingRest, SucceedingRest DEF Acts
<1> QED BY <1>1, <1>2, <1>3, <1>4, <1>5, Steps DEF IInv

\* A session that its user ended stays ended: whatever the tabs have under way, it has
\* no row once the logouts are through.  The sessions in slipped are excepted: one that was
\* being rotated as it ended, or of which the store had missed a rotation as its user
\* signed out, and one whose logout failed, which nobody hears of.
THEOREM EndedForGood == Spec => []EndedIsDead
<1>1. IInv => EndedIsDead
  BY DEF IInv, Ended, Doomed, EndedIsDead
<1> QED BY <1>1, IInvInit, IInvStep, PTL DEF Spec

\* A session never has two refresh tokens, a token that is being replaced is not on
\* file, and only one request replaces it: of two that send the same, one is refused.
THEOREM OneRowPerSession == Spec => []Single
<1>1. IInv => Single
  BY DEF IInv
<1> QED BY <1>1, IInvInit, IInvStep, PTL DEF Spec

-----------------------------------------------------------------------------
(* What the browser keeps is not thrown away while it is good, and no good one is *)
(* lost from sight.                                                                *)

\* A step of one tab loses no refresh that took a row, no pair in an answer, and no
\* session out of the store, unless it notes so.
Noted ==
  /\ rows' = rows /\ issued' = issued
  /\ \A c \in Calls : Taken(c) => flight'[c] = flight[c] \/ flight[c].token.session \in crossed'
  /\ \A c \in Calls : call[c].new # None =>
       call'[c].new = call[c].new \/ call[c].new.session \in crossed'
  /\ stored # None => stored' = stored \/ stored.session \in crossed \/ ~Live(stored.session)
  /\ \/ \A c \in Calls : flight'[c] \in {flight[c], NoFlight}
     \/ \E c \in Calls :
          /\ flight' = [flight EXCEPT ![c] = Refreshing]
          /\ \A d \in Calls : Heard(d) /\ flight[d].token = stored => stored.session \in crossed'
  /\ \A c \in adrift : c \in adrift' \/ flight'[c].pc = "none"

LEMMA NotedFull == ASSUME Full, Trims, Noted PROVE Loyal' /\ Kept'
<1>1. /\ NoFlight.pc = "none" /\ NoFlight.new = None
      /\ Refreshing.pc = "sent" /\ Refreshing.token = stored /\ Refreshing.new = None
  BY DEF NoFlight, Refreshing
<1>2. \A s : (Live(s))' = Live(s)
  BY DEF Live, Noted
<1>3. Loyal'
  <2> SUFFICES ASSUME stored' = stored, stored # None, stored.session \notin crossed',
                      NEW c \in Calls, (Heard(c))'
               PROVE  /\ flight'[c].token = stored /\ \A d \in Calls : (Heard(d))' => d = c
                      /\ flight'[c].pc = "answered" /\ flight'[c].new = None => ~(Live(stored.session))'
    BY DEF Loyal, Trims
  <2>1. \A d \in Calls : Heard(d) =>
          /\ flight[d].token = stored /\ \A e \in Calls : Heard(e) => e = d
          /\ flight[d].pc = "answered" /\ flight[d].new = None => ~Live(stored.session)
    BY DEF Full, Loyal, Trims
  <2>2. CASE \A d \in Calls : flight'[d] \in {flight[d], NoFlight}
    BY <1>1, <1>2, <2>1, <2>2 DEF Heard, Noted, Full, IInv, Base, Typed
  <2>3. ASSUME NEW e \in Calls, flight' = [flight EXCEPT ![e] = Refreshing],
               \A d \in Calls : Heard(d) /\ flight[d].token = stored => stored.session \in crossed'
        PROVE  /\ flight'[c].token = stored /\ \A d \in Calls : (Heard(d))' => d = c
               /\ flight'[c].pc = "answered" /\ flight'[c].new = None => ~(Live(stored.session))'
    <3>1. \A d \in Calls : ~Heard(d)
      BY <2>1, <2>3
    <3>2. \A d \in Calls : flight'[d] = IF d = e THEN Refreshing ELSE flight[d]
      BY <2>3 DEF Full, IInv, Base, Typed
    <3> QED BY <1>1, <3>1, <3>2 DEF Heard, Noted
  <2> QED BY <2>2, <2>3 DEF Noted
<1>4. ASSUME NEW n, Lost(n) PROVE (Lost(n))'
  <2> SUFFICES ASSUME n # None, n.session \notin crossed', ~Live(n.session)
               PROVE  n.session \in left \/ \E c \in Calls : (Taken(c))' /\ flight'[c].token.session = n.session
    BY <1>2 DEF Lost, Trims
  <2>1. n.session \in left \/ \E c \in Calls : Taken(c) /\ flight[c].token.session = n.session
    BY <1>4 DEF Lost, Trims
  <2> QED BY <2>1 DEF Noted, Taken
<1>5. \A c \in Calls : flight'[c].new \in {flight[c].new, None}
  BY <1>1 DEF Trims
<1>6. (Lost(None))'
  BY DEF Lost
<1>7. (Lost(stored))' /\ \A c \in Calls : (Lost(call[c].new))' /\ (Lost(flight[c].new))'
  <2>1. \A n : Lost(n) \/ n = None => (Lost(n))'
    BY <1>4, <1>6
  <2>2. \A n : n = stored' \/ (\E c \in Calls : n = call'[c].new \/ n = flight'[c].new) => Lost(n) \/ n = None
    BY <1>5 DEF Trims, Full, Kept
  <2>3. ASSUME NEW n, (Lost(n))', n = stored' PROVE (Lost(stored))'
    BY <2>3 DEF Lost
  <2>4. ASSUME NEW c \in Calls, NEW n, (Lost(n))'
        PROVE  /\ n = call'[c].new => (Lost(call[c].new))'
               /\ n = flight'[c].new => (Lost(flight[c].new))'
    BY <2>4 DEF Lost
  <2> QED BY <2>1, <2>2, <2>3, <2>4
<1>8. ASSUME NEW p \in rows PROVE (Accounted(p))'
  <2>1. CASE p.session \in left \cup crossed
    BY <2>1 DEF Accounted, Trims
  <2>2. CASE stored # None /\ stored.session = p.session
    BY <2>2 DEF Accounted, Trims, Noted, Live
  <2>3. ASSUME NEW c \in Calls, call[c].new # None, call[c].new.session = p.session PROVE (Accounted(p))'
    BY <2>3 DEF Accounted, Noted
  <2>4. ASSUME NEW c \in Calls, flight[c].new # None, flight[c].new.session = p.session
        PROVE  (Accounted(p))'
    BY <2>4 DEF Accounted, Trims
  <2> QED BY <2>1, <2>2, <2>3, <2>4 DEF Full, Kept, Accounted
<1>9. \A p \in leaving' : (Known(p))' /\ (p \in rows' => p.session \in left')
  BY DEF Full, Kept, Trims, Noted, Known
<1>10. Kept'
  BY <1>7, <1>8, <1>9 DEF Kept, Noted
<1> QED BY <1>3, <1>10

LEMMA AsideFull == ASSUME Full, Aside PROVE Loyal' /\ Kept'
<1>1. Trims /\ Noted
  BY DEF Aside, core, Trims, Noted
<1> QED BY <1>1, NotedFull

LEMMA OpenFull == ASSUME Full, NEW t \in Tabs, Open(t) PROVE Loyal' /\ Kept'
<1>1. /\ UNCHANGED <<stored, rows, issued, leaving, left, slipped>> /\ crossed \subseteq crossed'
      /\ adrift \subseteq adrift'
  BY DEF Open, server
<1>2. ASSUME NEW c \in Calls
      PROVE  /\ call'[c].new \in {call[c].new, None}
             /\ call[c].new # None => call'[c].new = call[c].new \/ call[c].new.session \in crossed'
             /\ flight'[c] \in {flight[c], NoFlight} /\ (Taken(c) => flight'[c] = flight[c])
             /\ flight[c].new # None => \/ flight'[c] = flight[c]
                                        \/ flight[c].new.session \in crossed'
  <2>1. ASSUME TabOf[c] = t, flight[c].new # None PROVE flight[c].new.session \in crossed'
    <3>1. flight[c].new.session = flight[c].token.session
      BY <2>1, Holds DEF Full, IInv
    <3>2. flight[c].token.session \in crossed'
      BY <2>1 DEF Open, Missed
    <3> QED BY <3>1, <3>2
  <2>2. ASSUME TabOf[c] = t, call[c].new # None PROVE call[c].new.session \in crossed'
    BY <2>2 DEF Open, Missed
  <2>3. Taken(c) => AtServer(c)
    BY DEF Taken, AtServer
  <2> QED BY <2>1, <2>2, <2>3, Opened DEF Full, IInv
<1>3. Trims /\ Noted
  BY <1>1, <1>2 DEF Trims, Noted
<1> QED BY <1>3, NotedFull

LEMMA GiveUpFull == ASSUME Full, NEW c \in Calls, GiveUp(c) PROVE Loyal' /\ Kept'
<1>1. call[c] \in Request
  BY DEF Full, IInv, Base, Typed
<1>2. \A d \in Calls : call'[d].new = call[d].new
  BY <1>1 DEF Full, IInv, Base, Typed, GiveUp, Request
<1>3. /\ UNCHANGED <<stored, rows, issued, leaving, left, slipped, flight, crossed>>
      /\ adrift \subseteq adrift'
  BY DEF GiveUp, server, history
<1>4. Trims /\ Noted
  BY <1>2, <1>3 DEF Trims, Noted
<1> QED BY <1>4, NotedFull

LEMMA RejectFull == ASSUME Full, NEW c \in Calls, Rejected(c) PROVE Loyal' /\ Kept'
<1>1. ASSUME NEW d \in Calls
      PROVE  /\ flight'[d] \in {flight[d], NoFlight} /\ (Taken(d) => flight'[d] = flight[d])
             /\ flight[d].new # None => \/ flight'[d] = flight[d]
                                        \/ flight[d].new.session \in crossed'
  <2>1. Taken(c) => AtServer(c)
    BY DEF Taken, AtServer
  <2> QED BY <2>1, Rejecting, Holds DEF Full, IInv
<1>2. adrift \subseteq adrift'
  BY Rejecting DEF Full, IInv
<1>3. Trims /\ Noted
  BY <1>1, <1>2, Rejecting DEF Full, IInv, Trims, Noted
<1> QED BY <1>3, NotedFull

LEMMA BeginFull == ASSUME Full, NEW c \in Calls, Begin(c) PROVE Loyal' /\ Kept'
<1>1. PICK op : call' = [call EXCEPT ![c] = Sending(op)]
  BY DEF Begin
<1>2. Sending(op).new = None /\ call[c].new = None
  BY DEF Begin, Sending, Full, IInv, Base, Ready, CallReady
<1>3. \A d \in Calls : call'[d].new = call[d].new
  BY <1>1, <1>2 DEF Full, IInv, Base, Typed
<1>4. UNCHANGED <<stored, rows, issued, leaving, left, slipped, flight, crossed, adrift>>
  BY DEF Begin, server, history
<1>5. Trims /\ Noted
  BY <1>3, <1>4 DEF Trims, Noted
<1> QED BY <1>5, NotedFull

\* An answered refresh is one that somebody waits for.
LEMMA Hears == ASSUME Full, NEW c \in Calls, flight[c].pc = "answered" PROVE Heard(c)
BY DEF Full, IInv, Base, Adrift, InHand, Heard

LEMMA ExpelledFull == ASSUME Full, NEW c \in Calls, Expelled(c) PROVE Loyal' /\ Kept'
<1>1. /\ UNCHANGED <<rows, issued, adrift, leaving, left, slipped, crossed>>
      /\ \A d \in Calls : call'[d].new \in {call[d].new, None}
      /\ flight[c].pc = "answered" /\ flight[c].new = None /\ stored' = None
  BY Concluding DEF Full, IInv, Expelled
<1>2. \A d \in Calls : flight'[d] = IF d = c THEN NoFlight ELSE flight[d]
  BY Concluding DEF Full, IInv, Base, Typed
<1>3. \A d \in Calls : call'[d].new = call[d].new
  <2>1. \A d \in Calls : call'[d] = IF d \in Waiting(c) THEN NoCall ELSE call[d]
    BY DEF Expelled
  <2>2. \A d \in Waiting(c) : d \in Calls /\ call[d].new = None
    BY DEF Waiting, Full, IInv, Base, Ready, CallReady
  <2> QED BY <2>1, <2>2, NoCallReady
<1>4. stored # None => stored.session \in crossed \/ ~Live(stored.session)
  BY <1>1, Hears DEF Full, Loyal
<1>5. Trims
  BY <1>1, <1>2 DEF Trims
<1>6. ~Taken(c)
  BY <1>1 DEF Taken
<1>7. Noted
  BY <1>1, <1>2, <1>3, <1>4, <1>6 DEF Noted
<1> QED BY <1>5, <1>7, NotedFull

\* A successor that comes into the store while another refresh is under way, or in the
\* place of another session, is noted.
Greeted ==
  /\ issued' = issued /\ crossed \subseteq crossed'
  /\ \A c \in Calls : flight'[c] = flight[c] \/ ~Taken(c)
  /\ \A c \in Calls : (Heard(c))' => stored'.session \in crossed'
  /\ stored # None => stored.session \in crossed' \/ stored.session = stored'.session
  /\ \A c \in Calls : /\ call[c].new # None => call'[c].new = call[c].new \/ call[c].new = stored'
                      /\ flight[c].new # None => flight'[c] = flight[c] \/ flight[c].new = stored'

LEMMA GreetedFull == ASSUME Full, Lands, Greeted PROVE Loyal' /\ Kept'
<1>1. NoFlight.pc = "none" /\ NoFlight.new = None
  BY DEF NoFlight
<1>2. \A s : (Live(s))' = Live(s)
  BY DEF Live, Lands
<1>3. Loyal'
  BY DEF Loyal, Greeted
<1>4. ASSUME NEW n, Lost(n) PROVE (Lost(n))'
  <2> SUFFICES ASSUME n # None, n.session \notin crossed', ~Live(n.session)
               PROVE  n.session \in left \/ \E c \in Calls : (Taken(c))' /\ flight'[c].token.session = n.session
    BY <1>2 DEF Lost, Lands
  <2>1. n.session \in left \/ \E c \in Calls : Taken(c) /\ flight[c].token.session = n.session
    BY <1>4 DEF Lost, Greeted
  <2> QED BY <2>1 DEF Greeted, Taken
<1>5. (Lost(stored))' /\ \A c \in Calls : (Lost(call[c].new))' /\ (Lost(flight[c].new))'
  <2>1. \A n : Lost(n) \/ n = None => (Lost(n))'
    BY <1>4 DEF Lost
  <2>2. \A n : n = stored' \/ (\E c \in Calls : n = call'[c].new \/ n = flight'[c].new) => Lost(n) \/ n = None
    BY <1>1 DEF Lands, Full, Kept
  <2>3. ASSUME NEW n, (Lost(n))', n = stored' PROVE (Lost(stored))'
    BY <2>3 DEF Lost
  <2>4. ASSUME NEW c \in Calls, NEW n, (Lost(n))'
        PROVE  /\ n = call'[c].new => (Lost(call[c].new))'
               /\ n = flight'[c].new => (Lost(flight[c].new))'
    BY <2>4 DEF Lost
  <2> QED BY <2>1, <2>2, <2>3, <2>4
<1>6. ASSUME NEW p \in rows PROVE (Accounted(p))'
  <2>1. CASE p.session \in left \cup crossed
    BY <2>1 DEF Accounted, Lands, Greeted
  <2>2. CASE stored # None /\ stored.session = p.session
    BY <2>2 DEF Accounted, Lands, Greeted
  <2>3. ASSUME NEW c \in Calls, call[c].new # None, call[c].new.session = p.session PROVE (Accounted(p))'
    BY <2>3 DEF Accounted, Lands, Greeted
  <2>4. ASSUME NEW c \in Calls, flight[c].new # None, flight[c].new.session = p.session
        PROVE  (Accounted(p))'
    BY <2>4 DEF Accounted, Lands, Greeted
  <2> QED BY <2>1, <2>2, <2>3, <2>4 DEF Full, Kept, Accounted
<1>7. \A p \in leaving' : (Known(p))' /\ (p \in rows' => p.session \in left')
  BY DEF Full, Kept, Lands, Greeted, Known
<1>8. Kept'
  BY <1>5, <1>6, <1>7 DEF Kept, Lands
<1> QED BY <1>3, <1>8

LEMMA ArriveFull == ASSUME Full, NEW c \in Calls, Arrive(c) PROVE Loyal' /\ Kept'
<1>1. UNCHANGED <<rows, issued, adrift, leaving, left, slipped>> /\ (Parked(c) \/ Over(c))
  BY Arriving DEF Full, IInv
<1>2. CASE Parked(c)
  <2>1. \A d \in Calls : call'[d].new = call[d].new
    BY <1>2 DEF Parked, Full, IInv, Base, Typed
  <2>2. /\ stored' = stored /\ crossed \subseteq crossed'
        /\ \A d \in Calls :
             \/ flight'[d] = flight[d]
             \/ flight[d].pc = "none" /\ stored # None /\ flight'[d] = Refreshing
    BY <1>2 DEF Parked, Full, IInv, Base, Typed
  <2>3. \A d \in Calls : flight[d].new # None => flight[d].pc # "none"
    BY Holds DEF Full, IInv
  <2>4. Trims
    BY <1>1, <2>1, <2>2, <2>3 DEF Trims
  <2>5. \A d \in Calls : Taken(d) => flight'[d] = flight[d]
    BY <2>2 DEF Taken
  <2>6. \/ \A d \in Calls : flight'[d] \in {flight[d], NoFlight}
        \/ \E e \in Calls :
             /\ flight' = [flight EXCEPT ![e] = Refreshing]
             /\ \A d \in Calls : Heard(d) /\ flight[d].token = stored => stored.session \in crossed'
    <3>1. CASE flight' = flight
      BY <3>1
    <3>2. CASE flight' # flight
      BY <1>2, <3>2 DEF Parked
    <3> QED BY <3>1, <3>2
  <2>7. Noted
    BY <1>1, <2>1, <2>2, <2>5, <2>6 DEF Noted
  <2> QED BY <2>4, <2>7, NotedFull
<1>3. CASE Over(c)
  <2>1. /\ call'[c].new = None
        /\ \A d \in Calls : call'[d].new \in {call[d].new, None} /\ (d # c => call'[d] = call[d])
    BY <1>3, NoCallReady DEF Over, Full, IInv, Base, Typed
  <2>2. flight' = flight /\ crossed \subseteq crossed'
    BY <1>3 DEF Over
  <2>3. CASE call[c].new = None
    <3>1. stored' = stored
      BY <1>3, <2>3 DEF Over
    <3>2. Trims
      BY <1>1, <2>1, <2>2, <3>1 DEF Trims
    <3>3. Noted
      BY <1>1, <2>1, <2>2, <2>3, <3>1 DEF Noted
    <3> QED BY <3>2, <3>3, NotedFull
  <2>4. CASE call[c].new # None
    <3>1. stored' = call[c].new
      BY <1>3, <2>4 DEF Over
    <3>2. Lands
      BY <1>1, <2>1, <2>2, <2>4, <3>1 DEF Lands
    <3>3. /\ stored # None => stored.session \in crossed'
          /\ \A d \in Calls : Heard(d) => stored'.session \in crossed'
      BY <1>3, <2>4, <3>1 DEF Over
    <3>4. \A d \in Calls : (Heard(d))' => Heard(d)
      BY <1>1, <2>2 DEF Heard
    <3>5. Greeted
      BY <1>1, <2>1, <2>2, <3>1, <3>3, <3>4 DEF Greeted
    <3> QED BY <3>2, <3>5, GreetedFull
  <2> QED BY <2>3, <2>4
<1> QED BY <1>1, <1>2, <1>3

LEMMA RefreshedFull == ASSUME Full, NEW c \in Calls, Refreshed(c) PROVE Loyal' /\ Kept'
<1>1. /\ UNCHANGED <<rows, issued, adrift, leaving, left, slipped>> /\ crossed \subseteq crossed'
      /\ \A d \in Calls : call'[d].new \in {call[d].new, None}
      /\ flight[c].pc = "answered"
  BY Concluding DEF Full, IInv
<1>2. \A d \in Calls : flight'[d] = IF d = c THEN NoFlight ELSE flight[d]
  BY Concluding DEF Full, IInv, Base, Typed
<1>3. stored' = flight[c].new /\ flight[c].new # None
  BY DEF Refreshed
<1>4. \A d \in Calls : call[d].new # None => call'[d].new = call[d].new
  <2>1. \A d \in Calls : d \notin Waiting(c) => call'[d] = call[d]
    BY DEF Refreshed
  <2>2. \A d \in Waiting(c) : d \in Calls /\ call[d].new = None
    BY DEF Waiting, Full, IInv, Base, Ready, CallReady
  <2> QED BY <2>1, <2>2
<1>5. \A d \in Calls : (Heard(d))' => d # c /\ Heard(d)
  BY <1>1, <1>2 DEF Heard, NoFlight
<1>6. \A d \in Calls : d # c /\ Heard(d) => stored'.session \in crossed'
  BY <1>3 DEF Refreshed, Overlaid
<1>7. stored # None => stored.session \in crossed' \/ stored.session = stored'.session
  <2>1. Heard(c) /\ flight[c].new.session = flight[c].token.session
    BY <1>1, <1>3, Holds, Hears DEF Full, IInv
  <2> QED BY <1>1, <1>3, <2>1 DEF Full, Loyal
<1>8. Lands
  BY <1>1, <1>2, <1>3 DEF Lands
<1>9. ~Taken(c)
  BY <1>1 DEF Taken
<1>10. Greeted
  BY <1>1, <1>2, <1>3, <1>4, <1>5, <1>6, <1>7, <1>9 DEF Greeted
<1> QED BY <1>8, <1>10, GreetedFull

LEMMA OpeningFull == ASSUME Full, Opening PROVE Loyal' /\ Kept'
<1>0. PICK p : p = Fresh(None)
  OBVIOUS
<1>1. /\ rows' = rows \cup {p} /\ issued' = issued + 1
      /\ UNCHANGED <<call, flight, adrift, leaving, left, slipped>>
      /\ crossed \subseteq crossed'
      /\ \/ /\ stored' = p
            /\ stored # None => stored.session \in crossed'
            /\ \A c \in Calls : Heard(c) => issued' \in crossed'
         \/ stored' = stored /\ issued' \in crossed'
  BY <1>0 DEF Opening
<1>2. /\ p # None /\ p.session \notin left /\ p.session = issued'
      /\ \A q \in Pairs : Known(q) => q # p /\ q.session # p.session
      /\ issued \in Nat
  BY <1>0, <1>1, Issuing DEF Full, IInv, Base, Typed
<1>10. \A s : s # p.session => (Live(s))' = Live(s)
  BY <1>1 DEF Live
<1>3. Loyal'
  <2>1. CASE stored' = p /\ \A c \in Calls : Heard(c) => issued' \in crossed'
    BY <1>1, <1>2, <2>1 DEF Loyal, Heard
  <2>2. CASE stored' = stored
    <3>1. stored # None => stored.session # p.session
      BY <1>2, Holds DEF Full, IInv
    <3> QED BY <1>1, <1>10, <2>2, <3>1 DEF Full, Loyal, Heard
  <2> QED BY <1>1, <2>1, <2>2
<1>4. (Live(p.session))' /\ \A s : Live(s) => (Live(s))'
  BY <1>1 DEF Live
<1>5. \A n : Lost(n) => (Lost(n))'
  BY <1>1, <1>4 DEF Lost, Taken
<1>6. (Lost(stored))' /\ \A c \in Calls : (Lost(call[c].new))' /\ (Lost(flight[c].new))'
  <2>1. (Lost(stored))'
    <3>1. PICK n : n = stored
      OBVIOUS
    <3>2. (Lost(n))' /\ (Lost(p))'
      BY <1>4, <1>5, <3>1 DEF Full, Kept, Lost
    <3> QED BY <1>1, <3>1, <3>2 DEF Lost
  <2>2. ASSUME NEW c \in Calls PROVE (Lost(call[c].new))' /\ (Lost(flight[c].new))'
    <3>1. PICK n, m : n = call[c].new /\ m = flight[c].new
      OBVIOUS
    <3>2. (Lost(n))' /\ (Lost(m))'
      BY <1>5, <3>1 DEF Full, Kept
    <3> QED BY <1>1, <3>1, <3>2 DEF Lost
  <2> QED BY <2>1, <2>2
<1>7. \A q \in rows' : (Accounted(q))'
  BY <1>1, <1>2 DEF Accounted, Full, Kept
<1>8. \A q \in leaving' : (Known(q))' /\ (q \in rows' => q.session \in left')
  <2> SUFFICES ASSUME NEW q \in leaving PROVE (Known(q))' /\ (q \in rows' => q.session \in left)
    BY <1>1
  <2>1. q \in Pairs /\ Known(q) /\ (q \in rows => q.session \in left)
    BY DEF Full, IInv, Base, Typed, Kept
  <2>2. q # p
    BY <1>2, <2>1
  <2>3. (Known(q))'
    BY <1>1, <1>2, <2>1 DEF Known, Pairs
  <2> QED BY <1>1, <2>1, <2>2, <2>3
<1>9. Kept'
  BY <1>6, <1>7, <1>8 DEF Kept
<1> QED BY <1>3, <1>9

LEMMA LeaveFull == ASSUME Full, Leaving PROVE Loyal' /\ Kept'
<1>1. /\ stored' \in {stored, None} /\ rows' \subseteq rows
      /\ UNCHANGED <<issued, call, flight, adrift, crossed>> /\ left \subseteq left'
  BY DEF Leaving, Logout, MailLink, SignOut, Revoked, LogoutLost, RevokeElsewhere, End, server, history
<1>2. \A q \in rows : q \in rows' \/ q.session \in left'
  BY DEF Leaving, Logout, MailLink, Revoked, LogoutLost, RevokeElsewhere, End, server, history, Full, Kept
<1>3. stored # None => stored' = stored \/ stored.session \in left' \/ rows' = {}
  BY DEF Leaving, Logout, MailLink, Revoked, LogoutLost, RevokeElsewhere, End
<1>4. \A q \in leaving' : q \in leaving \/ (stored # None /\ q = stored /\ (q \in rows' => q.session \in left'))
  BY DEF Leaving, Logout, MailLink, SignOut, Revoked, LogoutLost, RevokeElsewhere, End
<1>5. \A s : (Live(s))' => Live(s)
  BY <1>1 DEF Live
<1>6. \A s : Live(s) => (Live(s))' \/ s \in left'
  BY <1>2 DEF Live
<1>7. Loyal'
  BY <1>1, <1>5 DEF Full, Loyal, Heard
<1>8. \A n : Lost(n) => (Lost(n))'
  BY <1>1, <1>6 DEF Lost, Taken
<1>9. (Lost(stored))' /\ \A c \in Calls : (Lost(call[c].new))' /\ (Lost(flight[c].new))'
  <2>1. (Lost(stored))'
    <3>1. PICK n : n = stored
      OBVIOUS
    <3>2. (Lost(n))'
      BY <1>8, <3>1 DEF Full, Kept
    <3> QED BY <1>1, <3>1, <3>2 DEF Lost
  <2>2. ASSUME NEW c \in Calls PROVE (Lost(call[c].new))' /\ (Lost(flight[c].new))'
    <3>1. PICK n, m : n = call[c].new /\ m = flight[c].new
      OBVIOUS
    <3>2. (Lost(n))' /\ (Lost(m))'
      BY <1>8, <3>1 DEF Full, Kept
    <3> QED BY <1>1, <3>1, <3>2 DEF Lost
  <2> QED BY <2>1, <2>2
<1>10. \A q \in rows' : (Accounted(q))'
  BY <1>1, <1>3 DEF Accounted, Full, Kept
<1>11. \A q \in leaving' : (Known(q))' /\ (q \in rows' => q.session \in left')
  <2> SUFFICES ASSUME NEW q \in leaving' PROVE Known(q) /\ (q \in rows' => q.session \in left')
    BY <1>1 DEF Known
  <2>1. CASE q \in leaving
    BY <1>1, <2>1 DEF Full, Kept
  <2>2. CASE q \notin leaving
    BY <1>4, <2>2 DEF Full, IInv, Base, Numbered
  <2> QED BY <2>1, <2>2
<1>12. Kept'
  BY <1>9, <1>10, <1>11 DEF Kept
<1> QED BY <1>7, <1>12

LEMMA HandleFull == ASSUME Full, NEW c \in Calls, Handle(c) PROVE Loyal' /\ Kept'
<1>1. UNCHANGED <<stored, flight, leaving>> /\ adrift' = adrift \ {c} /\ call[c].pc = "sent"
  BY Handling DEF Full, IInv
<1>2. call[c].new = None /\ flight[c].pc = "none"
  BY <1>1 DEF Full, IInv, Base, Ready, CallReady, Adrift, InHand, Heard
<1>6. \A d \in Calls : (Heard(d))' <=> Heard(d)
  BY <1>1, <1>2 DEF Heard
<1>3. ASSUME Quiet(c) PROVE Loyal' /\ Kept'
  <2>1. \A d \in Calls : call'[d].new = call[d].new
    BY <1>2, <1>3 DEF Quiet, Full, IInv, Base, Typed
  <2>2. Trims /\ Noted
    BY <1>1, <1>2, <1>3, <2>1 DEF Quiet, Trims, Noted
  <2> QED BY <2>2, NotedFull
<1>5. ASSUME Cleared(c) PROVE Loyal' /\ Kept'
  <2>1. /\ rows' = {} /\ left' = left \cup {r.session : r \in rows} /\ UNCHANGED <<issued, crossed>>
        /\ \A d \in Calls : call'[d].new = call[d].new
    BY <1>2, <1>5 DEF Cleared, End, Full, IInv, Base, Typed
  <2>2. /\ \A s : ~(Live(s))' /\ (Live(s) => s \in left')
    BY <2>1 DEF Live
  <2>3. Loyal'
    BY <1>1, <1>6, <2>1, <2>2 DEF Full, Loyal
  <2>4. \A n : Lost(n) => (Lost(n))'
    BY <1>1, <2>1, <2>2 DEF Lost, Taken
  <2>5. (Lost(stored))' /\ \A d \in Calls : (Lost(call[d].new))' /\ (Lost(flight[d].new))'
    <3>1. (Lost(stored))'
      <4>1. PICK n : n = stored
        OBVIOUS
      <4>2. (Lost(n))'
        BY <2>4, <4>1 DEF Full, Kept
      <4> QED BY <1>1, <4>1, <4>2 DEF Lost
    <3>2. ASSUME NEW d \in Calls PROVE (Lost(call[d].new))' /\ (Lost(flight[d].new))'
      <4>1. PICK n, m : n = call[d].new /\ m = flight[d].new
        OBVIOUS
      <4>2. (Lost(n))' /\ (Lost(m))'
        BY <2>4, <4>1 DEF Full, Kept
      <4> QED BY <1>1, <2>1, <4>1, <4>2 DEF Lost
    <3> QED BY <3>1, <3>2
  <2> QED BY <1>1, <2>1, <2>3, <2>5 DEF Full, Kept, Known
<1>4. ASSUME NewPassword(c) PROVE Loyal' /\ Kept'
  <2>0. PICK p : p = Fresh(None)
    OBVIOUS
  <2>1. rows' = {p} /\ left' = left \cup {r.session : r \in rows} /\ issued' = issued + 1
    BY <1>4, <2>0 DEF NewPassword, End
  <2>2. /\ p # None /\ \A q \in Pairs : Known(q) => q # p /\ q.session # p.session
        /\ issued \in Nat
    BY <2>0, Issuing DEF Full, IInv, Base, Typed
  <2>3. /\ call'[c].new = p \/ (call'[c].new = None /\ p.session \in crossed')
        /\ \A d \in Calls : d # c => call'[d] = call[d]
        /\ crossed \subseteq crossed'
    <3>1. p.session = issued'
      BY <2>0, <2>1, Issuing DEF Full, IInv
    <3> QED BY <1>4, <2>0, <3>1 DEF NewPassword, Full, IInv, Base, Typed
  <2>4. \A s : (Live(s))' <=> s = p.session
    BY <2>1 DEF Live
  <2>5. Loyal'
    <3>1. stored # None => stored.session # p.session
      BY <2>2, Holds DEF Full, IInv
    <3> QED BY <1>1, <1>6, <2>3, <2>4, <3>1 DEF Full, Loyal
  <2>6. \A s : Live(s) => s \in left'
    BY <2>1 DEF Live
  <2>7. \A n : Lost(n) => (Lost(n))'
    BY <1>1, <2>1, <2>3, <2>6 DEF Lost, Taken
  <2>8. (Lost(stored))' /\ \A d \in Calls : (Lost(call[d].new))' /\ (Lost(flight[d].new))'
    <3>1. (Lost(p))' /\ (Lost(None))'
      BY <2>4 DEF Lost
    <3>2. (Lost(stored))'
      <4>1. PICK n : n = stored
        OBVIOUS
      <4>2. (Lost(n))'
        BY <2>7, <4>1 DEF Full, Kept
      <4> QED BY <1>1, <4>1, <4>2 DEF Lost
    <3>3. ASSUME NEW d \in Calls PROVE (Lost(call[d].new))' /\ (Lost(flight[d].new))'
      <4>1. PICK n, m : n = call[d].new /\ m = flight[d].new
        OBVIOUS
      <4>2. (Lost(n))' /\ (Lost(m))'
        BY <2>7, <4>1 DEF Full, Kept
      <4> QED BY <1>1, <2>3, <3>1, <4>1, <4>2 DEF Lost
    <3> QED BY <3>2, <3>3
  <2>9. \A q \in rows' : (Accounted(q))'
    BY <2>1, <2>2, <2>3 DEF Accounted
  <2>10. \A q \in leaving' : (Known(q))' /\ (q \in rows' => q.session \in left')
    <3> SUFFICES ASSUME NEW q \in leaving PROVE (Known(q))' /\ q # p
      BY <1>1, <2>1
    <3>1. q \in Pairs /\ Known(q)
      BY DEF Full, IInv, Base, Typed, Kept
    <3> QED BY <2>1, <2>2, <3>1 DEF Known, Pairs
  <2>11. Kept'
    BY <2>8, <2>9, <2>10 DEF Kept
  <2> QED BY <2>5, <2>11
<1> QED BY <1>3, <1>4, <1>5, Handling DEF Full, IInv

\* A token that is refused, when its session is in the store and nothing came across
\* it, is the one in the store: the session has no row any more.
LEMMA FailingFull == ASSUME Full, NEW c \in Calls, Failing(c) PROVE Loyal' /\ Kept'
<1>0. /\ UNCHANGED <<stored, rows, issued, call, leaving, left, slipped>> /\ crossed \subseteq crossed'
      /\ Aloft(c) /\ (Taken(c) \/ flight[c].new # None => flight[c].token.session \in crossed')
  BY DEF Failing
<1>1. flight[c].new # None => flight[c].new.session \in crossed'
  BY <1>0, Holds DEF Full, IInv
<1>2. CASE Vanished(c)
  <2>1. /\ adrift' = adrift \ {c} /\ flight'[c] = NoFlight /\ NoFlight.pc = "none"
        /\ \A d \in Calls : d # c => flight'[d] = flight[d]
    BY <1>2, AdvancedKeeps DEF Full, IInv, Vanished, NoFlight
  <2>2. Trims
    BY <1>0, <1>1, <2>1 DEF Trims
  <2>3. Noted
    BY <1>0, <2>1 DEF Noted
  <2> QED BY <2>2, <2>3, NotedFull
<1>3. CASE Advanced(c, "answered", None) /\ c \notin adrift
  <2>0. /\ adrift' = adrift
        /\ flight[c].token \notin rows \/ flight[c].token.session \in crossed'
    BY <1>3 DEF Advanced, Failing, Vanished
  <2>1. /\ flight'[c].pc = "answered" /\ flight'[c].token = flight[c].token /\ flight'[c].new = None
        /\ \A d \in Calls : d # c => flight'[d] = flight[d]
    BY <1>3, AdvancedKeeps DEF Full, IInv
  <2>2. \A d \in Calls : /\ flight'[d].token = flight[d].token
                         /\ d # c => flight'[d].new = flight[d].new /\ ((Taken(d))' <=> Taken(d))
                         /\ (Heard(d))' <=> Heard(d)
    BY <1>0, <2>0, <2>1 DEF Taken, Heard, Aloft
  <2>3. \A s : (Live(s))' = Live(s)
    BY <1>0 DEF Live
  <2>4. Loyal'
    <3> SUFFICES ASSUME stored # None, stored.session \notin crossed', NEW d \in Calls, Heard(d)
                 PROVE  /\ flight[d].token = stored /\ \A e \in Calls : Heard(e) => e = d
                        /\ flight'[d].pc = "answered" /\ flight'[d].new = None => ~Live(stored.session)
      BY <1>0, <2>2, <2>3 DEF Loyal
    <3>1. flight[d].token = stored /\ \A e \in Calls : Heard(e) => e = d
      BY <1>0 DEF Full, Loyal
    <3>2. d = c /\ flight[c].token = stored /\ stored \notin rows
      BY <1>0, <1>3, <2>0, <3>1 DEF Heard, Aloft
    <3>3. flight[c].new = None
      BY <1>0, <3>2
    <3>4. \A e \in Calls : flight[e].new = None
      <4>1. \A e \in Calls : flight[e].new # None => Heard(e)
        BY Holds, Hears DEF Full, IInv
      <4> QED BY <3>1, <3>2, <3>3, <4>1
    <3>5. ~Live(stored.session)
      BY <1>0, <3>2, <3>4 DEF Full, IInv, Follows
    <3> QED BY <3>1, <3>5
  <2>5. \A n : Lost(n) => (Lost(n))'
    BY <1>0, <2>2, <2>3 DEF Lost
  <2>6. (Lost(stored))' /\ \A d \in Calls : (Lost(call[d].new))' /\ (Lost(flight[d].new))'
    <3>1. (Lost(stored))'
      <4>1. PICK n : n = stored
        OBVIOUS
      <4>2. (Lost(n))'
        BY <2>5, <4>1 DEF Full, Kept
      <4> QED BY <1>0, <4>1, <4>2 DEF Lost
    <3>2. ASSUME NEW d \in Calls PROVE (Lost(call[d].new))' /\ (Lost(flight[d].new))'
      <4>1. PICK n, m : n = call[d].new /\ m = flight[d].new
        OBVIOUS
      <4>2. (Lost(n))' /\ (Lost(m))' /\ (Lost(None))'
        BY <2>5, <4>1 DEF Full, Kept, Lost
      <4> QED BY <1>0, <2>1, <4>1, <4>2 DEF Lost
    <3> QED BY <3>1, <3>2
  <2>7. \A q \in rows' : (Accounted(q))'
    BY <1>0, <1>1, <2>2 DEF Accounted, Full, Kept
  <2>8. \A q \in leaving' : (Known(q))' /\ (q \in rows' => q.session \in left')
    BY <1>0 DEF Full, Kept, Known
  <2> QED BY <2>4, <2>6, <2>7, <2>8 DEF Kept
<1> QED BY <1>2, <1>3 DEF Failing

LEMMA TakingFull == ASSUME Full, NEW c \in Calls, Taking(c) PROVE Loyal' /\ Kept'
<1>0. /\ UNCHANGED <<stored, issued, call, adrift, leaving, left, slipped>> /\ crossed \subseteq crossed'
      /\ flight[c].pc = "sent" /\ flight[c].token \in rows /\ rows' = rows \ {flight[c].token}
  BY DEF Taking, Advanced
<1>1. /\ flight'[c].pc = "consumed" /\ flight'[c].token = flight[c].token /\ flight'[c].new = None
      /\ flight[c].new = None /\ \A d \in Calls : d # c => flight'[d] = flight[d]
  BY <1>0, Holds, AdvancedKeeps DEF Full, IInv, Taking
<1>2. \A d \in Calls : /\ flight'[d].new = flight[d].new /\ flight'[d].token = flight[d].token
                       /\ (Taken(d))' <=> Taken(d) \/ d = c
                       /\ (Heard(d))' <=> Heard(d)
                       /\ flight'[d].pc = "answered" => flight[d].pc = "answered"
  BY <1>0, <1>1 DEF Taken, Heard
<1>3. \A s : /\ (Live(s))' => Live(s)
             /\ Live(s) => (Live(s))' \/ s = flight[c].token.session
  BY <1>0 DEF Live
<1>4. Loyal'
  BY <1>0, <1>2, <1>3 DEF Full, Loyal
<1>5. \A n : Lost(n) => (Lost(n))'
  BY <1>0, <1>2, <1>3 DEF Lost
<1>6. (Lost(stored))' /\ \A d \in Calls : (Lost(call[d].new))' /\ (Lost(flight[d].new))'
  <2>1. (Lost(stored))'
    <3>1. PICK n : n = stored
      OBVIOUS
    <3>2. (Lost(n))'
      BY <1>5, <3>1 DEF Full, Kept
    <3> QED BY <1>0, <3>1, <3>2 DEF Lost
  <2>2. ASSUME NEW d \in Calls PROVE (Lost(call[d].new))' /\ (Lost(flight[d].new))'
    <3>1. PICK n, m : n = call[d].new /\ m = flight[d].new
      OBVIOUS
    <3>2. (Lost(n))' /\ (Lost(m))'
      BY <1>5, <3>1 DEF Full, Kept
    <3> QED BY <1>0, <1>2, <3>1, <3>2 DEF Lost
  <2> QED BY <2>1, <2>2
<1>7. \A q \in rows' : (Accounted(q))'
  BY <1>0, <1>2 DEF Accounted, Full, Kept
<1>8. \A q \in leaving' : (Known(q))' /\ (q \in rows' => q.session \in left')
  BY <1>0 DEF Full, Kept, Known
<1>9. Kept'
  BY <1>6, <1>7, <1>8 DEF Kept
<1> QED BY <1>4, <1>9

LEMMA SucceedingFull == ASSUME Full, NEW c \in Calls, Succeeding(c) PROVE Loyal' /\ Kept'
<1>0. /\ UNCHANGED <<stored, call, leaving, left, slipped, crossed>>
      /\ flight[c].pc = "consumed" /\ issued' = issued + 1
  BY DEF Succeeding
<1>12. PICK p \in Pairs : /\ p.id = issued + 1 /\ p.session = flight[c].token.session
                          /\ rows' = rows \cup {p}
                          /\ (c \notin adrift /\ Advanced(c, "answered", p)) \/ Vanished(c)
  BY DEF Succeeding
<1>1. /\ flight[c].new = None /\ \A d \in Calls : d # c => flight'[d] = flight[d]
      /\ flight'[c].pc # "consumed"
      /\ \/ /\ c \notin adrift /\ adrift' = adrift /\ flight'[c].pc = "answered"
            /\ flight'[c].token = flight[c].token /\ flight'[c].new = p
         \/ /\ adrift' = adrift \ {c} /\ flight'[c] = NoFlight /\ p.session \in crossed'
  <2>1. flight[c].new = None
    BY <1>0, Holds DEF Full, IInv
  <2>2. Vanished(c) => p.session \in crossed'
    BY <1>0, <1>12 DEF Vanished, Full, IInv, Base, Adrift, InHand
  <2>3. Vanished(c) => adrift' = adrift \ {c}
    BY DEF Vanished
  <2>4. Advanced(c, "answered", p) => adrift' = adrift
    BY DEF Advanced
  <2> QED BY <1>12, <2>1, <2>2, <2>3, <2>4, AdvancedKeeps DEF Full, IInv, NoFlight
<1>2. \A q \in Pairs : Known(q) => q # p /\ (Known(q))'
  BY <1>0, <1>12, NotNone DEF Full, IInv, Base, Typed, Known, Pairs
<1>3. p # None /\ NoFlight.new = None /\ NoFlight.pc = "none"
  BY NotNone DEF NoFlight
<1>4. \A d \in Calls : /\ d # c => flight'[d].new = flight[d].new
                       /\ flight'[d].new \in {flight[d].new, p, None}
                       /\ (Taken(d))' <=> Taken(d) /\ d # c
                       /\ (Taken(d))' => flight'[d].token = flight[d].token
                       /\ (Heard(d))' => Heard(d) /\ flight'[d].token = flight[d].token
                       /\ (Heard(c))' => flight'[c].new = p
  BY <1>0, <1>1, <1>3 DEF Taken, Heard
<1>5. (Live(p.session))' /\ \A s : Live(s) => (Live(s))'
  BY <1>12 DEF Live
<1>6. Loyal'
  <2> SUFFICES ASSUME stored # None, stored.session \notin crossed, NEW d \in Calls, (Heard(d))'
               PROVE  /\ flight[d].token = stored /\ \A e \in Calls : (Heard(e))' => e = d
                      /\ ~(flight'[d].pc = "answered" /\ flight'[d].new = None /\ (Live(stored.session))')
    BY <1>0, <1>4 DEF Loyal
  <2>1. flight[d].token = stored /\ \A e \in Calls : Heard(e) => e = d
    BY <1>4 DEF Full, Loyal
  <2>2. CASE d = c
    BY <1>3, <1>4, <2>1, <2>2
  <2>3. CASE d # c
    <3>1. c \in adrift
      BY <1>0, <2>1, <2>3 DEF Heard
    <3>2. p.session \in crossed
      BY <1>0, <1>1, <3>1
    <3>3. stored.session # p.session
      BY <3>2
    <3>4. (Live(stored.session))' => Live(stored.session)
      BY <1>0, <1>12, <3>3 DEF Live
    <3>5. flight'[d] = flight[d] /\ Heard(d)
      BY <1>1, <1>4, <2>3
    <3> QED BY <1>4, <2>1, <3>4, <3>5 DEF Full, Loyal
  <2> QED BY <2>2, <2>3
<1>7. \A n : Lost(n) => (Lost(n))'
  BY <1>0, <1>4, <1>5, <1>12 DEF Lost
<1>8. (Lost(stored))' /\ \A d \in Calls : (Lost(call[d].new))' /\ (Lost(flight[d].new))'
  <2>1. (Lost(stored))'
    <3>1. PICK n : n = stored
      OBVIOUS
    <3>2. (Lost(n))'
      BY <1>7, <3>1 DEF Full, Kept
    <3> QED BY <1>0, <3>1, <3>2 DEF Lost
  <2>2. ASSUME NEW d \in Calls PROVE (Lost(call[d].new))' /\ (Lost(flight[d].new))'
    <3>1. PICK n, m : n = call[d].new /\ m = flight[d].new
      OBVIOUS
    <3>2. (Lost(n))' /\ (Lost(m))' /\ (Lost(p))' /\ (Lost(None))'
      BY <1>5, <1>7, <3>1 DEF Full, Kept, Lost
    <3>3. flight'[d].new \in {m, p, None}
      BY <1>4, <3>1
    <3> QED BY <1>0, <3>1, <3>2, <3>3 DEF Lost
  <2> QED BY <2>1, <2>2
<1>9. \A q \in rows' : (Accounted(q))'
  <2>1. (Accounted(p))'
    BY <1>1, <1>3 DEF Accounted
  <2>2. ASSUME NEW q \in rows PROVE (Accounted(q))'
    BY <1>0, <1>1, <1>4 DEF Accounted, Full, Kept
  <2> QED BY <1>12, <2>1, <2>2
<1>10. \A q \in leaving' : (Known(q))' /\ (q \in rows' => q.session \in left')
  <2> SUFFICES ASSUME NEW q \in leaving PROVE (Known(q))' /\ (q \in rows' => q.session \in left)
    BY <1>0
  <2>1. q \in Pairs /\ Known(q) /\ (q \in rows => q.session \in left)
    BY DEF Full, IInv, Base, Typed, Kept
  <2> QED BY <1>2, <1>12, <2>1
<1>11. Kept'
  BY <1>8, <1>9, <1>10 DEF Kept
<1> QED BY <1>6, <1>11

LEMMA FullInit == Init => Full
<1> SUFFICES ASSUME Init PROVE Full
  OBVIOUS
<1>1. \A c \in Calls : flight[c].new = None /\ call[c].new = None /\ ~Heard(c)
  BY DEF Init, NoCall, NoFlight, Heard
<1>2. Loyal /\ Kept
  BY <1>1 DEF Init, Loyal, Kept, Lost
<1> QED BY <1>2, IInvInit DEF Full

LEMMA FullStep == Full /\ [Next]_vars => Full'
<1> SUFFICES ASSUME Full, [Next]_vars PROVE Loyal' /\ Kept'
  BY IInvStep DEF Full
<1>1. CASE Aside
  BY <1>1, AsideFull
<1>2. CASE Opening
  BY <1>2, OpeningFull
<1>3. CASE Leaving
  BY <1>3, LeaveFull
<1>4. ASSUME NEW t \in Tabs, Open(t) PROVE Loyal' /\ Kept'
  BY <1>4, OpenFull
<1>5. ASSUME NEW c \in Calls, Acts(c) PROVE Loyal' /\ Kept'
  BY <1>5, BeginFull, HandleFull, GiveUpFull, ArriveFull, RefreshedFull, ExpelledFull, RejectFull,
     TakingFull, FailingFull, SucceedingFull DEF Acts
<1> QED BY <1>1, <1>2, <1>3, <1>4, <1>5, Steps DEF Full, IInv

\* What this browser keeps can be used: with nothing under way, the server rotates the
\* token in the store, or its user ended the session and there is no other to be had.
\* The sessions in crossed are excepted: the server gave out a successor, or failed to
\* make it, and the store kept the old pair.
THEOREM StoreIsGood == Spec => []StoredIsLive
<1>1. Full => StoredIsLive
  <2> SUFFICES ASSUME Full, stored # None, \A c \in Calls : call[c].pc = "idle" /\ flight[c].pc = "none",
                      stored \notin rows, stored.session \notin crossed
               PROVE  stored.session \in left /\ \A p \in rows : p.session \in left \cup crossed
    BY DEF StoredIsLive
  <2>1. \A c \in Calls : call[c].new = None /\ flight[c].new = None /\ ~Taken(c)
    BY DEF Full, IInv, Base, Ready, CallReady, FlightReady, Taken
  <2>2. ~Live(stored.session)
    BY <2>1 DEF Full, IInv, Follows
  <2>3. stored.session \in left
    BY <2>1, <2>2 DEF Full, Kept, Lost
  <2>4. \A p \in rows : p.session \in left \cup crossed
    BY <2>1, <2>2 DEF Full, Kept, Accounted, Live
  <2> QED BY <2>3, <2>4
<1> QED BY <1>1, FullInit, FullStep, PTL DEF Spec

\* The transport never throws away the tokens of a session that the server honours,
\* however many requests are refused at once, but for the sessions that crossed names:
\* another tab sent the same token, a rotation failed or was answered with an error, the
\* answer with a successor or a new pair was lost, or another session came into the store
\* while a tab refreshed, or in place of this one.
THEOREM NoneThrownAway == Spec => LiveSessionKept
<1>1. Full /\ [Next]_vars =>
        [\A c \in Calls : Expelled(c) /\ stored # None /\ Live(stored.session)
           => stored.session \in crossed]_vars
  <2> SUFFICES ASSUME Full, NEW c \in Calls, Expelled(c), stored # None, Live(stored.session)
               PROVE  stored.session \in crossed
    OBVIOUS
  <2>1. Heard(c) /\ flight[c].pc = "answered" /\ flight[c].new = None
    BY Hears DEF Expelled
  <2> QED BY <2>1 DEF Full, Loyal
<1> QED BY <1>1, FullInit, FullStep, PTL DEF Spec, LiveSessionKept

-----------------------------------------------------------------------------
(* Types: the pairs that requests under way may still need have been set aside, so *)
(* the numbers that are given out never pass the bound.                            *)

\* The requests that may yet start a refresh, those that may yet set a password, and
\* the refreshes that may yet issue a pair.
Asking   == {c \in Calls : call[c].pc \in {"sent", "answered"} /\ call[c].again}
Changing == {c \in Calls : /\ call[c].op = "password"
                           /\ \/ call[c].pc \in {"sent", "waiting"}
                              \/ call[c].pc = "answered" /\ call[c].answer = "denied"}
Renewing == {c \in Calls : flight[c].pc \in {"sent", "consumed"}}
Fits     == issued + Cardinality(Asking) + Cardinality(Changing) + Cardinality(Renewing) <= MaxPairs

LEMMA Sizes ==
  ASSUME NEW A, NEW B, IsFiniteSet(B), NEW x
  PROVE  /\ A \subseteq B => Cardinality(A) \in Nat /\ Cardinality(B) \in Nat
                             /\ Cardinality(A) <= Cardinality(B)
         /\ A \subseteq B \cup {x} => Cardinality(A) \in Nat /\ Cardinality(B) \in Nat
                                      /\ Cardinality(A) <= Cardinality(B) + 1
         /\ x \in B /\ A \subseteq B \ {x} => Cardinality(A) \in Nat /\ Cardinality(B) \in Nat
                                              /\ Cardinality(A) + 1 <= Cardinality(B)
<1>1. Cardinality(B) \in Nat
  BY FS_CardinalityType
<1>2. ASSUME A \subseteq B PROVE Cardinality(A) \in Nat /\ Cardinality(A) <= Cardinality(B)
  BY <1>2, FS_Subset, FS_CardinalityType
<1>3. ASSUME A \subseteq B \cup {x} PROVE Cardinality(A) \in Nat /\ Cardinality(A) <= Cardinality(B) + 1
  <2>1. IsFiniteSet(B \cup {x}) /\ Cardinality(B \cup {x}) \in {Cardinality(B), Cardinality(B) + 1}
    BY FS_AddElement
  <2>2. Cardinality(A) \in Nat /\ Cardinality(A) <= Cardinality(B \cup {x})
    BY <1>3, <2>1, FS_Subset, FS_CardinalityType
  <2> QED BY <1>1, <2>1, <2>2
<1>4. ASSUME x \in B, A \subseteq B \ {x} PROVE Cardinality(A) \in Nat /\ Cardinality(A) + 1 <= Cardinality(B)
  <2>1. IsFiniteSet(B \ {x}) /\ Cardinality(B \ {x}) = Cardinality(B) - 1
    BY <1>4, FS_RemoveElement
  <2>2. Cardinality(A) \in Nat /\ Cardinality(A) <= Cardinality(B \ {x})
    BY <1>4, <2>1, FS_Subset, FS_CardinalityType
  <2> QED BY <1>1, <2>1, <2>2
<1> QED BY <1>1, <1>2, <1>3, <1>4

LEMMA Finite ==
  /\ IsFiniteSet(Asking) /\ IsFiniteSet(Changing) /\ IsFiniteSet(Renewing)
  /\ Cardinality(Asking) \in Nat /\ Cardinality(Changing) \in Nat /\ Cardinality(Renewing) \in Nat
<1>1. Asking \subseteq Calls /\ Changing \subseteq Calls /\ Renewing \subseteq Calls
  BY DEF Asking, Changing, Renewing
<1> QED BY <1>1, FS_Subset, FS_CardinalityType, CallsAssumption

\* Nothing is issued and nothing more may be.
LEMMA FitsFewer ==
  ASSUME Fits, issued \in Nat, issued' = issued,
         Asking' \subseteq Asking, Changing' \subseteq Changing, Renewing' \subseteq Renewing
  PROVE  Fits'
<1>1. /\ Cardinality(Asking') \in Nat /\ Cardinality(Asking') <= Cardinality(Asking)
      /\ Cardinality(Changing') \in Nat /\ Cardinality(Changing') <= Cardinality(Changing)
      /\ Cardinality(Renewing') \in Nat /\ Cardinality(Renewing') <= Cardinality(Renewing)
  BY Finite, Sizes
<1> QED BY <1>1, Finite, PairsAssumption DEF Fits

\* What a guard leaves room for.
LEMMA RoomFor ==
  ASSUME NEW i \in Nat, NEW n \in Nat,
         NEW a \in SUBSET Calls, NEW b \in SUBSET Calls, NEW d \in SUBSET Calls,
         i + (Cardinality(a) + Cardinality(b) + Cardinality(d)) + n <= MaxPairs,
         NEW A \in SUBSET a, NEW B \in SUBSET b, NEW D \in SUBSET d
  PROVE  /\ Cardinality(A) \in Nat /\ Cardinality(B) \in Nat /\ Cardinality(D) \in Nat
         /\ i + n + Cardinality(A) + Cardinality(B) + Cardinality(D) <= MaxPairs
<1>1. IsFiniteSet(a) /\ IsFiniteSet(b) /\ IsFiniteSet(d)
  BY FS_Subset, CallsAssumption
<1>2. /\ Cardinality(a) \in Nat /\ Cardinality(A) \in Nat /\ Cardinality(A) <= Cardinality(a)
      /\ Cardinality(b) \in Nat /\ Cardinality(B) \in Nat /\ Cardinality(B) <= Cardinality(b)
      /\ Cardinality(d) \in Nat /\ Cardinality(D) \in Nat /\ Cardinality(D) <= Cardinality(d)
  BY <1>1, Sizes
<1> QED BY <1>2, PairsAssumption

LEMMA RoomLeft ==
  ASSUME issued \in Nat, NEW n \in Nat, Room(n)
  PROVE  issued + n + Cardinality(Asking) + Cardinality(Changing) + Cardinality(Renewing) <= MaxPairs
<1> DEFINE a == {c \in Calls : call[c].pc # "idle" /\ call[c].again}
           b == {c \in Calls : call[c].pc # "idle" /\ call[c].op = "password"}
           d == {c \in Calls : flight[c].pc \in {"sent", "consumed"}}
<1>1. issued + (Cardinality(a) + Cardinality(b) + Cardinality(d)) + n <= MaxPairs
  BY DEF Room, Demand
<1>2. a \subseteq Calls /\ b \subseteq Calls /\ d \subseteq Calls
  OBVIOUS
<1>3. Asking \subseteq a /\ Changing \subseteq b /\ Renewing \subseteq d
  BY DEF Asking, Changing, Renewing
<1> HIDE DEF a, b, d
<1> QED BY <1>1, <1>2, <1>3, RoomFor

LEMMA FitsOpening ==
  ASSUME Base, Fits, NEW t \in Tabs, Establish(t) \/ EstablishLost(t) PROVE Fits'
<1>1. issued \in Nat /\ issued' = issued + 1 /\ Room(1) /\ UNCHANGED <<call, flight>>
  BY DEF Base, Typed, Establish, EstablishLost
<1>2. Asking' = Asking /\ Changing' = Changing /\ Renewing' = Renewing
  BY <1>1 DEF Asking, Changing, Renewing
<1>3. issued + 1 + Cardinality(Asking) + Cardinality(Changing) + Cardinality(Renewing) <= MaxPairs
  BY <1>1, RoomLeft
<1> QED BY <1>1, <1>2, <1>3, Finite, PairsAssumption DEF Fits

LEMMA FitsBegin == ASSUME Base, Fits, NEW c \in Calls, Begin(c) PROVE Fits'
<1>1. PICK op \in Ops : /\ call' = [call EXCEPT ![c] = Sending(op)]
                        /\ Room(IF op = "password" THEN 2 ELSE 1)
  BY DEF Begin
<1>2. issued \in Nat /\ UNCHANGED <<issued, flight>> /\ call[c].pc = "idle"
  BY DEF Base, Typed, Begin, server
<1>3. /\ Sending(op).pc = "sent" /\ Sending(op).op = op
      /\ \A d \in Calls : d # c => call'[d] = call[d]
      /\ call'[c] = Sending(op)
  BY <1>1 DEF Sending, Base, Typed
<1>5. Renewing' = Renewing /\ Asking' \subseteq Asking \cup {c}
  BY <1>2, <1>3 DEF Renewing, Asking
<1>6. Cardinality(Asking') \in Nat /\ Cardinality(Asking') <= Cardinality(Asking) + 1
  BY <1>5, Finite, Sizes
<1>7. CASE op = "password"
  <2>1. issued + 2 + Cardinality(Asking) + Cardinality(Changing) + Cardinality(Renewing) <= MaxPairs
    BY <1>1, <1>2, <1>7, RoomLeft
  <2>2. Changing' \subseteq Changing \cup {c}
    BY <1>3 DEF Changing
  <2>3. Cardinality(Changing') \in Nat /\ Cardinality(Changing') <= Cardinality(Changing) + 1
    BY <2>2, Finite, Sizes
  <2> QED BY <1>2, <1>5, <1>6, <2>1, <2>3, Finite, PairsAssumption DEF Fits
<1>8. CASE op # "password"
  <2>1. issued + 1 + Cardinality(Asking) + Cardinality(Changing) + Cardinality(Renewing) <= MaxPairs
    BY <1>1, <1>2, <1>8, RoomLeft
  <2>2. Changing' \subseteq Changing
    BY <1>3, <1>8 DEF Changing
  <2>3. Cardinality(Changing') \in Nat /\ Cardinality(Changing') <= Cardinality(Changing)
    BY <2>2, Finite, Sizes
  <2> QED BY <1>2, <1>5, <1>6, <2>1, <2>3, Finite, PairsAssumption DEF Fits
<1> QED BY <1>7, <1>8

LEMMA FitsOpen == ASSUME Base, Fits, NEW t \in Tabs, Open(t) PROVE Fits'
<1> DEFINE a == {c \in Calls : call'[c].pc # "idle" /\ call'[c].again}
           b == {c \in Calls : call'[c].pc # "idle" /\ call'[c].op = "password"}
           d == {c \in Calls : flight'[c].pc \in {"sent", "consumed"}}
<1>1. issued' + (Cardinality(a) + Cardinality(b) + Cardinality(d)) + 0 <= MaxPairs
  BY DEF Open, Room, Demand
<1>2. a \subseteq Calls /\ b \subseteq Calls /\ d \subseteq Calls
  OBVIOUS
<1>3. Asking' \subseteq a /\ Changing' \subseteq b /\ Renewing' \subseteq d
  BY DEF Asking, Changing, Renewing
<1>4. issued' \in Nat
  BY DEF Open, server, Base, Typed
<1> HIDE DEF a, b, d
<1>5. issued' + 0 + Cardinality(Asking') + Cardinality(Changing') + Cardinality(Renewing') <= MaxPairs
  BY <1>1, <1>2, <1>3, <1>4, RoomFor
<1> QED BY <1>4, <1>5 DEF Fits

\* The server answers a request, or is done with one that nobody waits for.
LEMMA Replies ==
  ASSUME Base, NEW c \in Calls, NEW a \in {"ok", "denied", "failed"}, NEW p, NEW n, Reply(c, a, p, n)
  PROVE  /\ \A d \in Calls : d # c => call'[d] = call[d]
         /\ \/ call'[c] = NoCall
            \/ /\ call'[c].pc = "answered" /\ call'[c].answer = a /\ call'[c].op = call[c].op
               /\ call'[c].again = call[c].again /\ call'[c].token = call[c].token
               /\ call'[c].new = p
<1>1. call[c] \in Request /\ DOMAIN call = Calls
  BY DEF Base, Typed
<1>2. CASE c \in adrift
  BY <1>1, <1>2 DEF Reply
<1>3. CASE c \notin adrift
  <2> DEFINE q == [call[c] EXCEPT !.pc = "answered", !.answer = a, !.new = p, !.done = n]
  <2>1. call' = [call EXCEPT ![c] = q]
    BY <1>1, <1>3 DEF Reply
  <2>2. /\ q.pc = "answered" /\ q.answer = a /\ q.op = call[c].op
        /\ q.again = call[c].again /\ q.token = call[c].token /\ q.new = p
    BY <1>1 DEF Request
  <2> HIDE DEF q
  <2> QED BY <1>1, <2>1, <2>2
<1> QED BY <1>2, <1>3

\* What the server may come to with a request.
LEMMA Outcomes ==
  ASSUME Base, NEW c \in Calls, Handle(c)
  PROVE  /\ call[c].pc = "sent" /\ UNCHANGED <<stored, flight, leaving>>
         /\ \A d \in Calls : d # c => call'[d] = call[d]
         /\ \/ call'[c] = NoCall
            \/ /\ call'[c].pc = "answered" /\ call'[c].op = call[c].op
               /\ call'[c].again = call[c].again /\ call'[c].token = call[c].token
               /\ call'[c].new \in {None, Fresh(None)}
         /\ \/ /\ UNCHANGED <<rows, issued, left, slipped, crossed>>
               /\ call'[c].new = None
            \/ /\ call[c].op = "password" /\ (call'[c] = NoCall \/ call'[c].answer # "denied")
               /\ End({r.session : r \in rows}, {})
               /\ \/ rows' = {} /\ UNCHANGED <<issued, crossed>> /\ call'[c].new = None
                  \/ /\ rows' = {Fresh(None)} /\ issued' = issued + 1
                     /\ crossed' \subseteq crossed \cup {issued'}
<1> DEFINE k == call[c].done + 1
           Told(a, p) == \/ call'[c] = NoCall
                         \/ /\ call'[c].pc = "answered" /\ call'[c].answer = a
                            /\ call'[c].op = call[c].op /\ call'[c].again = call[c].again
                            /\ call'[c].token = call[c].token /\ call'[c].new = p
           Rest == \A d \in Calls : d # c => call'[d] = call[d]
<1>1. call[c].pc = "sent" /\ UNCHANGED <<stored, flight, leaving>>
  BY DEF Handle
<1>2. ASSUME NEW a \in {"ok", "denied", "failed"}, NEW p, NEW n, Reply(c, a, p, n)
      PROVE  Told(a, p) /\ Rest
  BY <1>2, Replies
<1>3. NoCall.new = None
  BY DEF NoCall
<1>4. CASE call[c].op = "password" /\ ReplacePassword(c)
  <2>1. End({r.session : r \in rows}, {})
    BY <1>4 DEF ReplacePassword
  <2>2. CASE rows' = {} /\ Reply(c, "failed", None, k) /\ UNCHANGED <<issued, crossed>>
    <3>1. Told("failed", None) /\ Rest
      BY <1>2, <2>2
    <3> QED BY <1>1, <1>3, <1>4, <2>1, <2>2, <3>1
  <2>3. CASE /\ rows' = {Fresh(None)} /\ issued' = issued + 1
             /\ Reply(c, "ok", Fresh(None), k)
             /\ crossed' = IF c \in adrift THEN crossed \cup {issued'} ELSE crossed
    <3>1. Told("ok", Fresh(None)) /\ Rest
      BY <1>2, <2>3
    <3> QED BY <1>1, <1>3, <1>4, <2>1, <2>3, <3>1
  <2>4. CASE /\ rows' = {Fresh(None)} /\ issued' = issued + 1
             /\ Reply(c, "failed", None, k) /\ crossed' = crossed \cup {issued'}
    <3>1. Told("failed", None) /\ Rest
      BY <1>2, <2>4
    <3> QED BY <1>1, <1>3, <1>4, <2>1, <2>4, <3>1
  <2> QED BY <1>4, <2>2, <2>3, <2>4 DEF ReplacePassword
<1>5. CASE /\ \E a \in {"ok", "denied", "failed"} : \E n : Reply(c, a, None, n)
           /\ UNCHANGED <<rows, issued, left, slipped, crossed>>
  <2>1. PICK a \in {"ok", "denied", "failed"} : Told(a, None) /\ Rest
    BY <1>2, <1>5
  <2> QED BY <1>1, <1>3, <1>5, <2>1
<1> HIDE DEF Told, Rest
<1>6. \/ call[c].op = "password" /\ ReplacePassword(c)
      \/ /\ \E a \in {"ok", "denied", "failed"} : \E n : Reply(c, a, None, n)
         /\ UNCHANGED <<rows, issued, left, slipped, crossed>>
  BY DEF Handle
<1> QED BY <1>4, <1>5, <1>6

LEMMA FitsHandle == ASSUME Base, Fits, NEW c \in Calls, Handle(c) PROVE Fits'
<1>0. NoCall.pc = "idle"
  BY DEF NoCall
<1>1. issued \in Nat /\ call[c].pc = "sent" /\ flight' = flight
  BY Outcomes DEF Base, Typed
<1>2. /\ \A d \in Calls : d # c => call'[d] = call[d]
      /\ call'[c].pc \in {"idle", "answered"}
      /\ call'[c].pc = "answered" => call'[c].op = call[c].op /\ call'[c].again = call[c].again
  BY <1>0, Outcomes
<1>3. Asking' \subseteq Asking /\ Renewing' \subseteq Renewing /\ Changing' \subseteq Changing
  BY <1>1, <1>2 DEF Asking, Renewing, Changing
<1>4. CASE issued' = issued
  BY <1>1, <1>3, <1>4, FitsFewer
<1>5. CASE issued' # issued
  <2>1. /\ call[c].op = "password" /\ issued' = issued + 1
        /\ call'[c].pc = "answered" => call'[c].answer # "denied"
    BY <1>0, <1>1, <1>5, Outcomes
  <2>2. c \in Changing /\ Changing' \subseteq Changing \ {c}
    BY <1>1, <1>2, <1>3, <2>1 DEF Changing
  <2>3. /\ Cardinality(Changing') \in Nat /\ Cardinality(Changing') + 1 <= Cardinality(Changing)
        /\ Cardinality(Asking') \in Nat /\ Cardinality(Asking') <= Cardinality(Asking)
        /\ Cardinality(Renewing') \in Nat /\ Cardinality(Renewing') <= Cardinality(Renewing)
    BY <1>3, <2>2, Finite, Sizes
  <2> QED BY <1>1, <2>1, <2>3, Finite, PairsAssumption DEF Fits
<1> QED BY <1>4, <1>5

LEMMA FitsGiveUp == ASSUME Base, Fits, NEW c \in Calls, GiveUp(c) PROVE Fits'
<1>1. /\ call \in [Calls -> Request] /\ issued \in Nat /\ UNCHANGED <<issued, flight>>
      /\ call' = [call EXCEPT ![c].again = FALSE]
  BY DEF Base, Typed, GiveUp, server
<1>2. \A d \in Calls : /\ call'[d].pc = call[d].pc /\ call'[d].op = call[d].op
                       /\ call'[d].answer = call[d].answer
                       /\ call'[d].again = call[d].again \/ call'[d].again = FALSE
  BY <1>1 DEF Request
<1>3. Asking' \subseteq Asking /\ Changing' \subseteq Changing /\ Renewing' = Renewing
  BY <1>1, <1>2 DEF Asking, Changing, Renewing
<1> QED BY <1>1, <1>3, FitsFewer

LEMMA FitsReject == ASSUME Base, Fits, NEW c \in Calls, Rejected(c) PROVE Fits'
<1>1. /\ issued \in Nat /\ issued' = issued
      /\ \A d \in Calls : call'[d] \in {NoCall, call[d]} /\ flight'[d] \in {NoFlight, flight[d]}
  BY Rejecting DEF Base, Typed
<1>2. NoCall.pc = "idle" /\ NoFlight.pc = "none"
  BY DEF NoCall, NoFlight
<1>3. Asking' \subseteq Asking /\ Changing' \subseteq Changing /\ Renewing' \subseteq Renewing
  BY <1>1, <1>2 DEF Asking, Changing, Renewing
<1> QED BY <1>1, <1>3, FitsFewer

LEMMA FitsArrive == ASSUME Base, Fits, NEW c \in Calls, Arrive(c) PROVE Fits'
<1>1. /\ call \in [Calls -> Request] /\ flight \in [Calls -> Refresh] /\ issued \in Nat
      /\ call[c].pc = "answered" /\ issued' = issued
  BY DEF Base, Typed, Arrive, server
<1>2. CASE Settle(c) /\ UNCHANGED flight
  <2>1. \A d \in Calls : call'[d] = IF d = c THEN NoCall ELSE call[d]
    BY <1>1, <1>2 DEF Settle
  <2>2. Asking' \subseteq Asking /\ Changing' \subseteq Changing /\ Renewing' \subseteq Renewing
    BY <1>2, <2>1 DEF Asking, Changing, Renewing, NoCall
  <2> QED BY <1>1, <2>2, FitsFewer
<1>3. CASE call[c].answer = "denied" /\ call[c].again /\ JoinRefresh(c)
  <2>1. /\ \A d \in Calls : d # c => call'[d] = call[d]
        /\ call'[c].pc = "waiting" /\ call'[c].op = call[c].op
    BY <1>1, <1>3 DEF JoinRefresh, Request
  <2>2. \A d \in Calls : flight'[d] = flight[d] \/ d = c
    BY <1>1, <1>3 DEF JoinRefresh
  <2>3. c \in Asking /\ Asking' \subseteq Asking \ {c}
    BY <1>1, <1>3, <2>1 DEF Asking
  <2>4. Changing' \subseteq Changing
    BY <1>1, <1>3, <2>1 DEF Changing
  <2>5. Renewing' \subseteq Renewing \cup {c}
    BY <2>2 DEF Renewing
  <2>6. /\ Cardinality(Asking') \in Nat /\ Cardinality(Asking') + 1 <= Cardinality(Asking)
        /\ Cardinality(Changing') \in Nat /\ Cardinality(Changing') <= Cardinality(Changing)
        /\ Cardinality(Renewing') \in Nat /\ Cardinality(Renewing') <= Cardinality(Renewing) + 1
    BY <2>3, <2>4, <2>5, Finite, Sizes
  <2> QED BY <1>1, <2>6, Finite, PairsAssumption DEF Fits
<1> QED BY <1>2, <1>3 DEF Arrive

LEMMA Answers ==
  ASSUME Base, NEW c \in Calls, NEW p, Answer(c, p)
  PROVE  /\ \A d \in Calls : d # c => flight'[d] = flight[d]
         /\ \/ flight'[c] = NoFlight
            \/ /\ flight'[c].pc = "answered" /\ flight'[c].token = flight[c].token
               /\ flight'[c].new = p
<1>1. flight[c] \in Refresh /\ DOMAIN flight = Calls
  BY DEF Base, Typed
<1> QED BY <1>1 DEF Answer, Refresh

LEMMA FitsRefresh ==
  ASSUME Base, Fits, NEW c \in Calls, Consume(c) \/ Outage(c) \/ Rotate(c) \/ RotateFails(c)
  PROVE  Fits'
<1>1. flight \in [Calls -> Refresh] /\ issued \in Nat /\ call' = call
  BY DEF Base, Typed, Consume, Outage, Rotate, RotateFails
<1>2. Asking' \subseteq Asking /\ Changing' \subseteq Changing
  BY <1>1 DEF Asking, Changing
<1>3. ASSUME NEW p, Answer(c, p)
      PROVE  Renewing' \subseteq Renewing \ {c}
  BY <1>3, Answers DEF Renewing, NoFlight
<1>4. CASE Consume(c) /\ flight[c].token \in rows
  <2>1. flight[c].pc = "sent" /\ issued' = issued /\ \A d \in Calls : d # c => flight'[d] = flight[d]
    BY <1>1, <1>4 DEF Consume
  <2>2. Renewing' \subseteq Renewing
    BY <2>1 DEF Renewing
  <2> QED BY <1>1, <1>2, <2>1, <2>2, FitsFewer
<1>5. CASE (Consume(c) /\ flight[c].token \notin rows) \/ Outage(c) \/ RotateFails(c)
  <2>1. issued' = issued /\ Answer(c, None)
    BY <1>5 DEF Consume, Outage, RotateFails, server
  <2>2. Renewing' \subseteq Renewing
    BY <1>3, <2>1
  <2> QED BY <1>1, <1>2, <2>1, <2>2, FitsFewer
<1>6. CASE Rotate(c)
  <2>1. /\ flight[c].pc = "consumed" /\ issued' = issued + 1
        /\ Answer(c, Fresh(flight[c].token.session))
    BY <1>6 DEF Rotate
  <2>2. c \in Renewing /\ Renewing' \subseteq Renewing \ {c}
    BY <1>3, <2>1 DEF Renewing
  <2>3. /\ Cardinality(Asking') \in Nat /\ Cardinality(Asking') <= Cardinality(Asking)
        /\ Cardinality(Changing') \in Nat /\ Cardinality(Changing') <= Cardinality(Changing)
        /\ Cardinality(Renewing') \in Nat /\ Cardinality(Renewing') + 1 <= Cardinality(Renewing)
    BY <1>2, <2>2, Finite, Sizes
  <2> QED BY <1>1, <2>1, <2>3, Finite, PairsAssumption DEF Fits
<1> QED BY <1>4, <1>5, <1>6

LEMMA FitsConclude ==
  ASSUME Base, Fits, NEW c \in Calls, Refreshed(c) \/ Expelled(c) PROVE Fits'
<1>1. /\ call \in [Calls -> Request] /\ flight \in [Calls -> Refresh] /\ issued \in Nat
      /\ issued' = issued /\ flight' = [flight EXCEPT ![c] = NoFlight]
  BY DEF Base, Typed, Refreshed, Expelled, server
<1>2. Renewing' \subseteq Renewing
  BY <1>1 DEF Renewing, NoFlight
<1>3. ASSUME NEW d \in Calls
      PROVE  \/ call'[d] = call[d]
             \/ call'[d].pc = "idle"
             \/ /\ call[d].pc = "waiting" /\ call'[d].again = FALSE
                /\ call'[d].pc = "sent" /\ call'[d].op = call[d].op
  <2>1. CASE Refreshed(c)
    <3>1. call'[d] = IF d \in Waiting(c)
                     THEN [call[d] EXCEPT !.pc = "sent", !.token = flight[c].new, !.again = FALSE,
                                          !.on = None]
                     ELSE call[d]
      BY <2>1 DEF Refreshed
    <3>2. d \in Waiting(c) => call[d].pc = "waiting"
      BY DEF Waiting
    <3>3. call[d] \in Request
      BY <1>1
    <3> QED BY <3>1, <3>2, <3>3 DEF Request
  <2>2. CASE Expelled(c)
    BY <2>2 DEF Expelled, NoCall
  <2> QED BY <2>1, <2>2
<1>4. Asking' \subseteq Asking /\ Changing' \subseteq Changing
  BY <1>3 DEF Asking, Changing
<1> QED BY <1>1, <1>2, <1>4, FitsFewer

LEMMA FitsStep == Base /\ Fits /\ [Next]_vars => Fits'
<1> SUFFICES ASSUME Base, Fits, [Next]_vars PROVE Fits'
  OBVIOUS
<1>1. ASSUME UNCHANGED <<issued, call, flight>> PROVE Fits'
  BY <1>1 DEF Fits, Asking, Changing, Renewing
<1>2. CASE Aside
  BY <1>1, <1>2 DEF Aside, core
<1>3. CASE Leaving
  <2>1. UNCHANGED <<issued, call, flight>>
    BY <1>3 DEF Leaving, Logout, MailLink, Revoked, LogoutLost, RevokeElsewhere, server
  <2> QED BY <1>1, <2>1
<1>4. ASSUME NEW t \in Tabs, Establish(t) \/ EstablishLost(t) \/ Open(t) PROVE Fits'
  BY <1>4, FitsOpening, FitsOpen
<1>5. ASSUME NEW c \in Calls, \/ Begin(c) \/ Handle(c) \/ GiveUp(c) \/ Arrive(c)
                              \/ Consume(c) \/ Rotate(c) \/ RotateFails(c) \/ Outage(c)
                              \/ Refreshed(c) \/ Expelled(c) \/ Rejected(c)
      PROVE  Fits'
  BY <1>5, FitsBegin, FitsHandle, FitsGiveUp, FitsArrive, FitsRefresh, FitsConclude, FitsReject
<1> QED BY <1>2, <1>3, <1>4, <1>5, Moves

LEMMA FitsInit == Init => Fits
<1> SUFFICES ASSUME Init PROVE Fits
  OBVIOUS
<1>1. Asking = {} /\ Changing = {} /\ Renewing = {} /\ issued = 0
  BY DEF Init, Asking, Changing, Renewing, NoCall, NoFlight
<1> QED BY <1>1, FS_EmptySet, PairsAssumption DEF Fits

\* Every pair anywhere is one that was issued, and so is every session.
Given == [id : 1..issued, session : 1..issued]
Held(p) == p = None \/ p \in Given
Placed ==
  /\ Held(stored) /\ rows \subseteq Given /\ leaving \subseteq Given
  /\ \A c \in Calls : /\ Held(call[c].token) /\ Held(call[c].new)
                      /\ Held(flight[c].token) /\ Held(flight[c].new)
  /\ left \subseteq 1..issued /\ slipped \subseteq 1..issued /\ crossed \subseteq 1..issued
\* What the tabs show, and the clock.
Shown ==
  /\ user \in [Tabs -> BOOLEAN] /\ ready \in [Tabs -> BOOLEAN]
  /\ login \in [Tabs -> {"form", "busy", "challenge"}]
  /\ expired \subseteq 1..issued

LEMMA Parts == \A p \in Given : p # None /\ p.id \in 1..issued /\ p.session \in 1..issued
BY NotNone DEF Given, Pairs

LEMMA Same == ASSUME issued' = issued PROVE Given' = Given /\ \A p : (Held(p))' <=> Held(p)
BY DEF Given, Held

LEMMA Wider ==
  ASSUME issued \in Nat, issued' = issued + 1
  PROVE  /\ Given \subseteq Given' /\ 1..issued \subseteq 1..issued'
         /\ \A p : Held(p) => (Held(p))'
         /\ \A s \in {None} \cup (1..issued) : Fresh(s) \in Given'
<1>1. Given \subseteq Given' /\ 1..issued \subseteq 1..issued'
  BY DEF Given
<1>2. \A p : Held(p) => (Held(p))'
  BY <1>1 DEF Held
<1>3. ASSUME NEW s \in {None} \cup (1..issued) PROVE Fresh(s) \in Given'
  <2> DEFINE n == IF s = None THEN issued + 1 ELSE s
  <2>1. Given' = [id : 1..issued', session : 1..issued']
    BY DEF Given
  <2>2. issued + 1 \in 1..issued' /\ n \in 1..issued'
    <3>1. issued + 1 \in 1..issued' /\ 1..issued \subseteq 1..issued'
      OBVIOUS
    <3>2. CASE s = None
      BY <3>1, <3>2
    <3>3. CASE s # None
      BY <3>1, <3>3
    <3> QED BY <3>2, <3>3
  <2>3. Fresh(s) = [id |-> issued + 1, session |-> n]
    BY DEF Fresh
  <2> HIDE DEF n
  <2> QED BY <2>1, <2>2, <2>3
<1> QED BY <1>1, <1>2, <1>3

LEMMA PlacedLeave == ASSUME Placed, Leaving PROVE Placed'
<1>1. UNCHANGED <<issued, call, flight, crossed>>
  BY DEF Leaving, Logout, MailLink, Revoked, LogoutLost, RevokeElsewhere, server, history
<1>2. /\ stored' \in {stored, None} /\ rows' \subseteq rows
      /\ \A p \in leaving' : p \in leaving \/ (stored # None /\ p = stored)
  BY DEF Leaving, Logout, MailLink, SignOut, Revoked, LogoutLost, RevokeElsewhere, server
<1>3. \A s \in left' \cup slipped' : \/ s \in left \cup slipped
                                     \/ stored # None /\ s = stored.session
                                     \/ \E p \in rows : s = p.session
  BY DEF Leaving, Logout, MailLink, SignOut, Revoked, LogoutLost, RevokeElsewhere, End, history
<1>4. ASSUME NEW s \in left' \cup slipped' PROVE s \in 1..issued
  <2>1. \A p \in rows : p.session \in 1..issued
    BY Parts DEF Placed
  <2>2. stored # None => stored.session \in 1..issued
    BY Parts DEF Placed, Held
  <2> QED BY <1>3, <2>1, <2>2 DEF Placed
<1>5. stored' \in {None} \cup Given /\ rows' \subseteq Given /\ leaving' \subseteq Given
  BY <1>2 DEF Placed, Held
<1> QED BY <1>1, <1>4, <1>5, Same DEF Placed, Held

LEMMA PlacedOpening ==
  ASSUME Base, Placed, NEW t \in Tabs, Establish(t) \/ EstablishLost(t) PROVE Placed'
<1>1. /\ issued \in Nat /\ issued' = issued + 1
      /\ stored' \in {stored, Fresh(None)} /\ rows' = rows \cup {Fresh(None)}
      /\ UNCHANGED <<call, flight, leaving, left, slipped>>
      /\ crossed' \subseteq crossed \cup {issued'} \cup Replaced
  BY DEF Base, Typed, Establish, EstablishLost, Overlaid
<1>2. Replaced \subseteq 1..issued
  BY Parts DEF Replaced, Placed, Held
<1>3. crossed' \subseteq 1..issued'
  BY <1>1, <1>2, Wider DEF Placed
<1>4. (Held(stored))' /\ rows' \subseteq Given' /\ leaving' \subseteq Given'
  BY <1>1, Wider DEF Placed, Held
<1>5. \A c \in Calls : /\ (Held(call[c].token))' /\ (Held(call[c].new))'
                       /\ (Held(flight[c].token))' /\ (Held(flight[c].new))'
  BY <1>1, Wider DEF Placed
<1>6. left' \subseteq 1..issued' /\ slipped' \subseteq 1..issued'
  BY <1>1, Wider DEF Placed
<1> QED BY <1>3, <1>4, <1>5, <1>6 DEF Placed

LEMMA PlacedGiveUp == ASSUME Base, Placed, NEW c \in Calls, GiveUp(c) PROVE Placed'
<1>1. /\ call \in [Calls -> Request] /\ call' = [call EXCEPT ![c].again = FALSE]
      /\ UNCHANGED <<stored, rows, issued, flight, leaving, left, slipped, crossed>>
  BY DEF Base, Typed, GiveUp, server, history
<1>2. \A d \in Calls : call'[d].token = call[d].token /\ call'[d].new = call[d].new
  BY <1>1 DEF Request
<1> QED BY <1>1, <1>2, Same DEF Placed

\* The sessions whose successor is missed are among those that were issued.
LEMMA MissedIn == ASSUME Base, Placed, NEW C \in SUBSET Calls PROVE Missed(C) \subseteq 1..issued
<1>1. \A c \in Calls : /\ flight[c].pc = "consumed" => flight[c].token # None
                       /\ flight[c].new # None => flight[c].token # None
  BY DEF Base, Ready, FlightReady
<1>2. \A c \in Calls : /\ flight[c].token # None => flight[c].token.session \in 1..issued
                       /\ call[c].new # None => call[c].new.session \in 1..issued
  BY Parts DEF Placed, Held
<1> QED BY <1>1, <1>2 DEF Missed

LEMMA PlacedBegin == ASSUME Base, Placed, NEW c \in Calls, Begin(c) PROVE Placed'
<1>1. PICK op \in Ops : call' = [call EXCEPT ![c] = Sending(op)]
  BY DEF Begin
<1>2. UNCHANGED <<stored, rows, issued, flight, leaving, left, slipped, crossed>>
  BY DEF Begin, server, history
<1>3. Held(Sending(op).token) /\ Held(Sending(op).new)
  BY DEF Sending, Placed, Held
<1>4. \A d \in Calls : Held(call'[d].token) /\ Held(call'[d].new)
  BY <1>1, <1>3 DEF Base, Typed, Placed
<1> QED BY <1>2, <1>4, Same DEF Placed

LEMMA PlacedOpen == ASSUME Base, Placed, NEW t \in Tabs, Open(t) PROVE Placed'
<1>1. UNCHANGED <<stored, rows, issued, leaving, left, slipped>>
  BY DEF Open, server
<1>2. \A c \in Calls : /\ call'[c].token \in {call[c].token, stored, None}
                       /\ call'[c].new \in {call[c].new, None}
                       /\ flight'[c] \in {flight[c], NoFlight}
  BY Opened
<1>3. \A c \in Calls : /\ Held(call'[c].token) /\ Held(call'[c].new)
                       /\ Held(flight'[c].token) /\ Held(flight'[c].new)
  BY <1>2 DEF Placed, Held, NoFlight
<1>4. crossed' = crossed \cup Missed({c \in Calls : TabOf[c] = t})
  BY DEF Open
<1>5. crossed' \subseteq 1..issued
  BY <1>4, MissedIn DEF Placed
<1> QED BY <1>1, <1>3, <1>5, Same DEF Placed

LEMMA PlacedReject == ASSUME Base, Placed, NEW c \in Calls, Rejected(c) PROVE Placed'
<1>1. /\ UNCHANGED <<stored, rows, issued, leaving, left, slipped>>
      /\ \A d \in Calls : call'[d] \in {NoCall, call[d]} /\ flight'[d] \in {NoFlight, flight[d]}
  BY Rejecting
<1>2. \A d \in Calls : /\ Held(call'[d].token) /\ Held(call'[d].new)
                       /\ Held(flight'[d].token) /\ Held(flight'[d].new)
  BY <1>1 DEF Placed, Held, NoCall, NoFlight
<1>3. crossed' = crossed \cup Missed({c})
  BY DEF Rejected
<1>4. crossed' \subseteq 1..issued
  BY <1>3, MissedIn DEF Placed
<1> QED BY <1>1, <1>2, <1>4, Same DEF Placed

LEMMA PlacedHandle == ASSUME Base, Placed, NEW c \in Calls, Handle(c) PROVE Placed'
<1>0. NoCall.token = None /\ NoCall.new = None
  BY DEF NoCall
<1>1. /\ issued \in Nat /\ UNCHANGED <<stored, flight, leaving>>
      /\ \A d \in Calls : d # c => call'[d] = call[d]
      /\ call'[c].token \in {None, call[c].token} /\ call'[c].new \in {None, Fresh(None)}
  BY <1>0, Outcomes DEF Base, Typed
<1>2. UNCHANGED <<rows, left, slipped>> \/ End({r.session : r \in rows}, {})
  BY Outcomes
<1>3. \A s \in left' \cup slipped' : s \in left \cup slipped \/ \E p \in rows : s = p.session
  BY <1>2 DEF End
<1>4. left' \subseteq 1..issued /\ slipped' \subseteq 1..issued
  BY <1>3, Parts DEF Placed
<1>5. CASE issued' = issued
  <2>0. issued' # issued + 1
    BY <1>1, <1>5
  <2>1. rows' \subseteq rows /\ call'[c].new = None /\ crossed' = crossed
    BY <2>0, Outcomes
  <2>2. \A d \in Calls : /\ Held(call'[d].token) /\ Held(call'[d].new)
                         /\ Held(flight'[d].token) /\ Held(flight'[d].new)
    BY <1>1, <2>1 DEF Placed, Held
  <2> QED BY <1>1, <1>4, <1>5, <2>1, <2>2, Same DEF Placed
<1>6. CASE issued' # issued
  <2>1. issued' = issued + 1 /\ rows' = {Fresh(None)} /\ crossed' \subseteq crossed \cup {issued'}
    BY <1>6, Outcomes
  <2>2. Fresh(None) \in Given' /\ Given \subseteq Given' /\ 1..issued \subseteq 1..issued'
        /\ \A p : Held(p) => (Held(p))'
    BY <1>1, <2>1, Wider
  <2>3. \A d \in Calls : (Held(call[d].token))' /\ (Held(call[d].new))'
    BY <1>1, <2>2 DEF Placed, Held
  <2>4. \A d \in Calls : (Held(flight[d].token))' /\ (Held(flight[d].new))'
    BY <1>1, <2>2 DEF Placed
  <2>5. (Held(stored))' /\ rows' \subseteq Given' /\ leaving' \subseteq Given'
    BY <1>1, <2>1, <2>2 DEF Placed
  <2>6. issued' \in 1..issued'
    BY <1>1, <2>1
  <2>7. left' \subseteq 1..issued' /\ slipped' \subseteq 1..issued' /\ crossed' \subseteq 1..issued'
    BY <1>4, <2>1, <2>2, <2>6 DEF Placed
  <2> QED BY <2>3, <2>4, <2>5, <2>7 DEF Placed
<1> QED BY <1>5, <1>6

LEMMA PlacedArrive == ASSUME Base, Placed, NEW c \in Calls, Arrive(c) PROVE Placed'
<1>1. /\ call \in [Calls -> Request] /\ flight \in [Calls -> Refresh]
      /\ UNCHANGED <<rows, issued, leaving, left, slipped>>
  BY DEF Base, Typed, Arrive, server
<1>2. CASE Settle(c) /\ UNCHANGED flight
  <2>1. \A d \in Calls : call'[d] = IF d = c THEN NoCall ELSE call[d]
    BY <1>1, <1>2 DEF Settle
  <2>2. \A d \in Calls : Held(call'[d].token) /\ Held(call'[d].new)
    BY <2>1 DEF Placed, NoCall, Held
  <2>3. Held(stored')
    BY <1>2 DEF Settle, Placed
  <2>4. crossed' \subseteq 1..issued
    BY <1>2, Parts DEF Settle, Overlaid, Replaced, Placed, Held
  <2> QED BY <1>1, <1>2, <2>2, <2>3, <2>4, Same DEF Placed
<1>3. CASE stored # None /\ JoinRefresh(c) /\ UNCHANGED stored
  <2>1. \A d \in Calls : call'[d].token = call[d].token /\ call'[d].new = call[d].new
    BY <1>1, <1>3 DEF JoinRefresh, Request
  <2>2. \A d \in Calls : flight'[d] = flight[d] \/ flight'[d] = Refreshing
    BY <1>1, <1>3 DEF JoinRefresh
  <2>3. Held(Refreshing.token) /\ Held(Refreshing.new)
    BY DEF Refreshing, Placed, Held
  <2>4. \A d \in Calls : Held(flight'[d].token) /\ Held(flight'[d].new)
    BY <2>2, <2>3 DEF Placed
  <2>5. crossed' \subseteq crossed \cup {stored.session}
    BY <1>3 DEF JoinRefresh, Raced
  <2>6. crossed' \subseteq 1..issued
    BY <1>3, <2>5, Parts DEF Placed, Held
  <2> QED BY <1>1, <1>3, <2>1, <2>4, <2>6, Same DEF Placed
<1> QED BY <1>2, <1>3 DEF Arrive

LEMMA PlacedRefresh ==
  ASSUME Base, Placed, NEW c \in Calls, Consume(c) \/ Outage(c) \/ Rotate(c) \/ RotateFails(c)
  PROVE  Placed'
<1>0. NoFlight.token = None /\ NoFlight.new = None
  BY DEF NoFlight
<1>1. /\ flight \in [Calls -> Refresh] /\ issued \in Nat
      /\ UNCHANGED <<stored, call, leaving, left, slipped>>
  BY DEF Base, Typed, Consume, Outage, Rotate, RotateFails, history
<1>2. flight[c].token # None
  BY DEF Base, Ready, FlightReady, Consume, Outage, Rotate, RotateFails
<1>3. flight[c].token.session \in 1..issued
  BY <1>2, Parts DEF Placed, Held
<1>4. CASE Consume(c) \/ Outage(c) \/ RotateFails(c)
  <2>1. /\ issued' = issued /\ rows' \subseteq rows
        /\ crossed' \subseteq crossed \cup {flight[c].token.session}
    BY <1>4 DEF Consume, Outage, RotateFails, server, history
  <2>2. ASSUME Answer(c, None), NEW d \in Calls
        PROVE  flight'[d].token \in {None, flight[d].token} /\ flight'[d].new \in {None, flight[d].new}
    BY <1>0, <2>2, Answers
  <2>3. ASSUME flight' = [flight EXCEPT ![c].pc = "consumed"], NEW d \in Calls
        PROVE  flight'[d].token = flight[d].token /\ flight'[d].new = flight[d].new
    BY <1>1, <2>3 DEF Refresh
  <2>4. \A d \in Calls : /\ flight'[d].token \in {None, flight[d].token}
                         /\ flight'[d].new \in {None, flight[d].new}
    BY <1>4, <2>2, <2>3 DEF Consume, Outage, RotateFails
  <2>5. \A d \in Calls : Held(flight'[d].token) /\ Held(flight'[d].new)
    BY <2>4 DEF Placed, Held
  <2>6. crossed' \subseteq 1..issued
    BY <1>3, <2>1 DEF Placed
  <2> QED BY <1>1, <2>1, <2>5, <2>6, Same DEF Placed
<1>5. CASE Rotate(c)
  <2> DEFINE p == Fresh(flight[c].token.session)
  <2>1. /\ issued' = issued + 1 /\ rows' = rows \cup {p} /\ crossed' = crossed /\ Answer(c, p)
    BY <1>5 DEF Rotate, history
  <2>2. /\ \A d \in Calls : d # c => flight'[d] = flight[d]
        /\ flight'[c].token \in {None, flight[c].token} /\ flight'[c].new \in {None, p}
    <3> HIDE DEF p
    <3> QED BY <1>0, <2>1, Answers
  <2>3. /\ p \in Given' /\ Given \subseteq Given' /\ 1..issued \subseteq 1..issued'
        /\ \A q : Held(q) => (Held(q))'
    BY <1>1, <1>3, <2>1, Wider
  <2> HIDE DEF p
  <2>4. \A d \in Calls : (Held(flight[d].token))' /\ (Held(flight[d].new))'
    BY <2>2, <2>3 DEF Placed, Held
  <2>5. \A d \in Calls : (Held(call[d].token))' /\ (Held(call[d].new))'
    BY <1>1, <2>3 DEF Placed
  <2>6. (Held(stored))' /\ rows' \subseteq Given' /\ leaving' \subseteq Given'
    BY <1>1, <2>1, <2>3 DEF Placed
  <2>7. left' \subseteq 1..issued' /\ slipped' \subseteq 1..issued' /\ crossed' \subseteq 1..issued'
    BY <1>1, <2>1, <2>3 DEF Placed
  <2> QED BY <2>4, <2>5, <2>6, <2>7 DEF Placed
<1> QED BY <1>4, <1>5

LEMMA PlacedConclude ==
  ASSUME Base, Placed, NEW c \in Calls, Refreshed(c) \/ Expelled(c) PROVE Placed'
<1>1. /\ call \in [Calls -> Request] /\ flight \in [Calls -> Refresh]
      /\ UNCHANGED <<rows, issued, leaving, left, slipped>>
      /\ \A d \in Calls : flight'[d] = IF d = c THEN NoFlight ELSE flight[d]
  BY DEF Base, Typed, Refreshed, Expelled, server
<1>2. \A d \in Calls : Held(flight'[d].token) /\ Held(flight'[d].new)
  BY <1>1 DEF Placed, NoFlight, Held
<1>3. CASE Expelled(c)
  <2>1. \A d \in Calls : call'[d] \in {NoCall, call[d]}
    BY <1>3 DEF Expelled
  <2>2. \A d \in Calls : Held(call'[d].token) /\ Held(call'[d].new)
    BY <2>1 DEF Placed, NoCall, Held
  <2> QED BY <1>1, <1>2, <1>3, <2>2, Same DEF Placed, Expelled, Held
<1>4. CASE Refreshed(c)
  <2>1. stored' = flight[c].new /\ flight[c].new # None
        /\ crossed' \subseteq crossed \cup {flight[c].new.session}
    BY <1>4 DEF Refreshed, Overlaid
  <2>2. ASSUME NEW d \in Calls
        PROVE  call'[d].token \in {call[d].token, flight[c].new} /\ call'[d].new = call[d].new
    <3>1. call[d] \in Request
      BY <1>1
    <3>2. call'[d] = IF d \in Waiting(c)
                     THEN [call[d] EXCEPT !.pc = "sent", !.token = flight[c].new, !.again = FALSE,
                                          !.on = None]
                     ELSE call[d]
      BY <1>4 DEF Refreshed
    <3> QED BY <3>1, <3>2 DEF Request
  <2>3. Held(flight[c].new)
    BY DEF Placed
  <2>4. \A d \in Calls : Held(call'[d].token) /\ Held(call'[d].new)
    BY <2>2, <2>3 DEF Placed
  <2>5. crossed' \subseteq 1..issued
    BY <2>1, <2>3, Parts DEF Placed, Held
  <2> QED BY <1>1, <1>2, <2>1, <2>3, <2>4, <2>5, Same DEF Placed
<1> QED BY <1>3, <1>4

LEMMA PlacedStep == Base /\ Placed /\ [Next]_vars => Placed'
<1> SUFFICES ASSUME Base, Placed, [Next]_vars PROVE Placed'
  OBVIOUS
<1>1. CASE Aside
  BY <1>1, Same DEF Aside, core, Placed
<1>2. CASE Leaving
  BY <1>2, PlacedLeave
<1>3. ASSUME NEW t \in Tabs, Establish(t) \/ EstablishLost(t) \/ Open(t) PROVE Placed'
  BY <1>3, PlacedOpening, PlacedOpen
<1>4. ASSUME NEW c \in Calls, \/ Begin(c) \/ Handle(c) \/ GiveUp(c) \/ Arrive(c)
                              \/ Consume(c) \/ Rotate(c) \/ RotateFails(c) \/ Outage(c)
                              \/ Refreshed(c) \/ Expelled(c) \/ Rejected(c)
      PROVE  Placed'
  BY <1>4, PlacedBegin, PlacedHandle, PlacedGiveUp, PlacedArrive, PlacedRefresh, PlacedConclude,
     PlacedReject
<1> QED BY <1>1, <1>2, <1>3, <1>4, Moves

LEMMA ShownStep == Base /\ Placed /\ Shown /\ [Next]_vars => Shown'
<1> SUFFICES ASSUME Base, Placed, Shown, [Next]_vars PROVE Shown'
  OBVIOUS
<1> DEFINE Screens == /\ user \in [Tabs -> BOOLEAN] /\ ready \in [Tabs -> BOOLEAN]
                      /\ login \in [Tabs -> {"form", "busy", "challenge"}]
           Clock   == expired \subseteq 1..issued
<1>1. ASSUME NEW t \in Doors, Submit(t) \/ Answered(t) \/ Verify(t) PROVE Screens'
  BY <1>1 DEF Submit, Answered, Verify, Establish, EstablishLost, Shown
<1>2. ASSUME NEW t \in Tabs, Logout(t) \/ MailLink(t) \/ Open(t) PROVE Screens'
  BY <1>2 DEF Logout, MailLink, SignOut, Open, Shown
<1>3. ASSUME NEW c \in Calls, \/ Begin(c) \/ Handle(c) \/ GiveUp(c) \/ Arrive(c)
                              \/ Consume(c) \/ Rotate(c) \/ RotateFails(c) \/ Outage(c)
                              \/ Refreshed(c) \/ Expelled(c) \/ Rejected(c)
      PROVE  Screens'
  <2>1. CASE Arrive(c)
    BY <2>1 DEF Arrive, Settle, Shown
  <2>2. CASE Expelled(c) \/ Rejected(c)
    BY <2>2 DEF Expelled, Rejected, Shown
  <2>3. CASE ~(Arrive(c) \/ Expelled(c) \/ Rejected(c))
    <3>1. UNCHANGED <<user, ready, login>>
      BY <1>3, <2>3 DEF Begin, Handle, GiveUp, Consume, Rotate, RotateFails, Outage, Refreshed
    <3> QED BY <3>1 DEF Shown
  <2> QED BY <2>1, <2>2, <2>3
<1>4. ASSUME \/ \E p \in leaving : Revoked(p) \/ LogoutLost(p)
             \/ \E p \in rows : RevokeElsewhere({p.session})
             \/ ResetLink \/ Expire \/ UNCHANGED vars
      PROVE  Screens'
  <2>1. UNCHANGED <<user, ready, login>>
    BY <1>4 DEF Revoked, LogoutLost, ResetLink, RevokeElsewhere, Expire, vars
  <2> QED BY <2>1 DEF Shown
<1>5. Screens'
  <2> HIDE DEF Screens
  <2> QED BY <1>1, <1>2, <1>3, <1>4 DEF Next
<1>6. Clock'
  <2>1. CASE Expire
    BY <2>1, Parts DEF Expire, Honoured, Placed, Held, Shown
  <2>2. CASE ~Expire
    <3>1. expired' = expired
      BY <2>2 DEF Next, vars, Submit, Answered, Verify, Establish, EstablishLost, Logout, MailLink,
                  Open, Revoked, LogoutLost, RevokeElsewhere, ResetLink, Begin, Handle, GiveUp,
                  Arrive, Consume, Rotate, RotateFails, Outage, Refreshed, Expelled, Rejected, server
    <3>2. issued \in Nat /\ issued' \in {issued, issued + 1}
      <4>1. ASSUME NEW c \in Calls, Handle(c) PROVE issued' \in {issued, issued + 1}
        BY <4>1, Outcomes
      <4>2. ASSUME Leaving PROVE issued' = issued
        BY <4>2 DEF Leaving, Logout, MailLink, Revoked, LogoutLost, RevokeElsewhere, server
      <4>3. ASSUME Aside PROVE issued' = issued
        BY <4>3 DEF Aside, core
      <4>4. ASSUME NEW c \in Calls, \/ Begin(c) \/ GiveUp(c) \/ Arrive(c)
                                    \/ Consume(c) \/ Rotate(c) \/ RotateFails(c) \/ Outage(c)
                                    \/ Refreshed(c) \/ Expelled(c) \/ Rejected(c)
            PROVE  issued' \in {issued, issued + 1}
        BY <4>4 DEF Begin, GiveUp, Arrive, Consume, Rotate, RotateFails, Outage, Refreshed,
                    Expelled, Rejected, server
      <4>5. ASSUME NEW t \in Tabs, Establish(t) \/ EstablishLost(t) \/ Open(t)
            PROVE  issued' \in {issued, issued + 1}
        BY <4>5 DEF Establish, EstablishLost, Open, server
      <4> QED BY <4>1, <4>2, <4>3, <4>4, <4>5, Moves DEF Base, Typed
    <3> QED BY <3>1, <3>2 DEF Shown
  <2> QED BY <2>1, <2>2
<1> QED BY <1>5, <1>6 DEF Shown

\* The values of every variable, for any number of tabs, requests and pairs: no pair is
\* stored, sent or kept by the server that was not issued, and what a request under way
\* may still need is never given to another.
THEOREM Typing == Spec => []TypeOK
<1> DEFINE TInv == Base /\ Fits /\ Placed /\ Shown
<1>1. Init => TInv
  <2> SUFFICES ASSUME Init PROVE Placed /\ Shown
    BY BaseInit, FitsInit
  <2> QED BY DEF Init, Placed, Held, Shown, NoCall, NoFlight
<1>2. TInv /\ [Next]_vars => TInv'
  BY BaseStep, FitsStep, PlacedStep, ShownStep
<1>3. TInv => TypeOK
  <2> SUFFICES ASSUME Base, Fits, Placed, Shown PROVE TypeOK
    OBVIOUS
  <2>1. issued \in 0..MaxPairs
    BY Finite, PairsAssumption DEF Fits, Base, Typed
  <2>2. Given \subseteq Pair /\ 1..issued \subseteq 1..MaxPairs
    BY <2>1, PairsAssumption DEF Given, Pair
  <2>3. ASSUME NEW c \in Calls PROVE call[c] \in Call /\ flight[c] \in Flight
    <3>1. call[c] \in Request /\ flight[c] \in Refresh /\ call[c].done <= 1
      BY DEF Base, Typed, Ready, CallReady
    <3>2. /\ call[c].token \in Pair \cup {None} /\ call[c].new \in Pair \cup {None}
          /\ flight[c].token \in Pair \cup {None} /\ flight[c].new \in Pair \cup {None}
      BY <2>2 DEF Placed, Held
    <3>3. call[c].done \in 0..2
      BY <3>1 DEF Request
    <3> QED BY <3>1, <3>2, <3>3 DEF Request, Call, Refresh, Flight
  <2>4. call \in [Calls -> Call] /\ flight \in [Calls -> Flight]
    BY <2>3 DEF Base, Typed
  <2>5. stored \in Pair \cup {None} /\ rows \subseteq Pair /\ leaving \subseteq Pair
    BY <2>2 DEF Placed, Held
  <2>6. /\ expired \subseteq 1..MaxPairs /\ left \subseteq 1..MaxPairs
        /\ slipped \subseteq 1..MaxPairs /\ crossed \subseteq 1..MaxPairs
    BY <2>2 DEF Placed, Shown
  <2> QED BY <2>1, <2>4, <2>5, <2>6 DEF TypeOK, Shown, Base, Typed
<1> QED BY <1>1, <1>2, <1>3, PTL DEF Spec
=============================================================================

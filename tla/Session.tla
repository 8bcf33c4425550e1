------------------------------- MODULE Session -------------------------------
(* The signed-in session of the web client: the token pair that all tabs of a *)
(* browser keep in localStorage (lib/api.ts), the transport that refreshes it *)
(* once for every request of a tab that was refused, the user each tab shows  *)
(* (lib/AuthProvider.tsx), the screens that sign in and out, and the server's  *)
(* rows of refresh tokens (service/auth.go).  An access token is honoured       *)
(* while it has not expired and its session has a row; a refresh consumes the   *)
(* row and then inserts its successor, in two statements.  A request may be      *)
(* given up in the browser while the server still works on it, and its answer     *)
(* may be lost after that work.                                                   *)
EXTENDS Naturals, FiniteSets

CONSTANTS
  Tabs,       \* the tabs of one browser
  Calls,      \* authenticated requests that may be open at once
  TabOf,      \* the tab each of them belongs to
  Ops,        \* what they ask for, see Op
  Doors,      \* bound: the tabs whose sign-in screen is used
  MaxPairs,   \* bound: token pairs ever issued
  None

Op == {"read", "password"}

ASSUME CallsAssumption == IsFiniteSet(Calls) /\ TabOf \in [Calls -> Tabs]
ASSUME OpsAssumption   == Ops \subseteq Op /\ Doors \subseteq Tabs
ASSUME PairsAssumption == MaxPairs \in Nat /\ None \notin Tabs \cup Calls
ASSUME NoneAssumption  == None \notin Nat \cup [id : Nat, session : Nat]

\* A token pair: its number, and the session it belongs to, which is the number of
\* the pair the sign-in issued and survives every rotation.
Pair == [id : 1..MaxPairs, session : 1..MaxPairs]

VARIABLES
  stored,     \* tokenStore: the pair in localStorage, or None
  rows,       \* the server's refresh tokens
  expired,    \* numbers of the pairs whose access token is past its time
  issued,     \* number of pairs issued
  user,       \* user[t]: tab t shows a signed-in user
  ready,      \* ready[t]: what there was to restore has been looked for
  login,      \* login[t]: where the sign-in screen of t stands
  call,       \* call[c]: an authenticated request and its answer
  flight,     \* flight[c]: the refresh that request c started
  adrift,     \* those whose refresh, or whose request, the server works on and nobody waits for
  leaving,    \* refresh tokens of /auth/logout requests that are under way
  \* History, read by the properties only.
  left,       \* sessions ended by their user: signed out, revoked, mail link, new password
  slipped,    \* those of them with a rotation under way at that moment, or one the store
              \* missed, or whose logout was lost
  crossed     \* sessions one of whose rotations was raced by another tab, failed, or has its
              \* answer lost; that were opened by an answer that was lost; that came into the
              \* store while a refresh of another was under way; or that were replaced there

vars == <<stored, rows, expired, issued, user, ready, login, call, flight, adrift, leaving, left,
          slipped, crossed>>
server  == <<rows, expired, issued>>
history == <<left, slipped, crossed>>

NoCall   == [pc |-> "idle", op |-> "read", token |-> None, again |-> FALSE, answer |-> "ok",
             new |-> None, on |-> None, done |-> 0]
NoFlight == [pc |-> "none", token |-> None, new |-> None]

Call == [pc     : {"idle", "sent", "answered", "waiting"},
         op     : Op \cup {"me"},
         token  : Pair \cup {None},          \* the bearer of the header
         again  : BOOLEAN,                   \* the one retry is still to be had
         answer : {"ok", "denied", "failed"},
         new    : Pair \cup {None},          \* the pair that the answer carries
         on     : Calls \cup {None},         \* whose refresh it waits for
         done   : 0..2]                      \* history: how often it has been carried out
Flight == [pc     : {"none", "sent", "consumed", "answered"},
           token  : Pair \cup {None},
           new    : Pair \cup {None}]         \* the successor, None: refused or failed

TypeOK ==
  /\ stored \in Pair \cup {None} /\ rows \subseteq Pair /\ leaving \subseteq Pair
  /\ expired \subseteq 1..MaxPairs /\ issued \in 0..MaxPairs
  /\ user \in [Tabs -> BOOLEAN] /\ ready \in [Tabs -> BOOLEAN]
  /\ login \in [Tabs -> {"form", "busy", "challenge"}]
  /\ call \in [Calls -> Call] /\ flight \in [Calls -> Flight] /\ adrift \subseteq Calls
  /\ left \subseteq 1..MaxPairs /\ slipped \subseteq 1..MaxPairs
  /\ crossed \subseteq 1..MaxPairs

-----------------------------------------------------------------------------
(* Helpers *)

Live(s)    == \E p \in rows : p.session = s
\* middleware and CurrentUser: the signature and the time, then the session.
Honoured(p) == p # None /\ p.id \notin expired /\ Live(p.session)
Heard(c)   == flight[c].pc # "none" /\ c \notin adrift
Flying(t)  == {c \in Calls : TabOf[c] = t /\ Heard(c)}
Rotating   == {flight[c].token.session : c \in {d \in Calls : flight[d].pc \in {"sent", "consumed"}}}
              \cup {flight[c].new.session : c \in {d \in Calls : flight[d].new # None}}
              \cup {call[c].new.session : c \in {d \in Calls : call[d].new # None}}
\* The pairs that requests already under way may still need (bound).
Demand(C) == Cardinality({c \in C : call[c].pc # "idle" /\ call[c].again})
             + Cardinality({c \in C : call[c].pc # "idle" /\ call[c].op = "password"})
             + Cardinality({c \in C : flight[c].pc \in {"sent", "consumed"}})
Room(n) == issued + Demand(Calls) + n <= MaxPairs

\* Session n comes into the store while one of C refreshes: what that comes to may be
\* about another session.
Overlaid(n, C) == IF \E c \in C : Heard(c) THEN {n} ELSE {}

\* The session in the store when another comes in its place.
Replaced == IF stored = None THEN {} ELSE {stored.session}

\* issue: a rotation keeps the identity of its session, a sign-in starts one.
Fresh(s) == [id |-> issued + 1, session |-> IF s = None THEN issued + 1 ELSE s]

\* Ends the sessions S on the server, which is what its user asked for.  Those of loose
\* may have a token that the one sent does not name.
End(S, loose) ==
  /\ left' = left \cup S
  /\ slipped' = slipped \cup (S \cap (Rotating \cup loose))

Init ==
  /\ stored = None /\ rows = {} /\ expired = {} /\ issued = 0
  /\ user = [t \in Tabs |-> FALSE] /\ ready = [t \in Tabs |-> TRUE]
  /\ login = [t \in Tabs |-> "form"]
  /\ call = [c \in Calls |-> NoCall] /\ flight = [c \in Calls |-> NoFlight]
  /\ adrift = {} /\ leaving = {} /\ left = {} /\ slipped = {} /\ crossed = {}

-----------------------------------------------------------------------------
(* Signing in.  The sign-in requests carry no bearer and are never repeated:  *)
(* one step is the request, what the server does and the answer.               *)

\* RequireAuth and RequireSignedOut: what a tab offers once it is ready.
Inside(t) == ready[t] /\ user[t]
AtDoor(t) == ready[t] /\ ~user[t]

Establish(t) ==
  /\ Room(1)
  /\ LET p == Fresh(None) IN /\ stored' = p /\ rows' = rows \cup {p}
  /\ issued' = issued + 1
  /\ user' = [user EXCEPT ![t] = TRUE]
  /\ login' = [login EXCEPT ![t] = "form"]
  /\ crossed' = crossed \cup Overlaid(issued', Calls) \cup Replaced
  /\ UNCHANGED <<expired, ready, call, flight, adrift, leaving, left, slipped>>

\* The session is opened, and its answer lost: the screen says that it failed.
EstablishLost(t) ==
  /\ Room(1)
  /\ rows' = rows \cup {Fresh(None)} /\ issued' = issued + 1
  /\ login' = [login EXCEPT ![t] = "form"]
  /\ crossed' = crossed \cup {issued'}
  /\ UNCHANGED <<stored, expired, user, ready, call, flight, adrift, leaving, left, slipped>>

\* onSubmit and onPasskey: the buttons are off while busy.
Submit(t) ==
  /\ AtDoor(t) /\ login[t] = "form" /\ Room(1)
  /\ login' = [login EXCEPT ![t] = "busy"]
  /\ UNCHANGED <<stored, user, ready, call, flight, adrift, leaving>>
  /\ UNCHANGED server /\ UNCHANGED history

\* The answer: a session, a second factor that is owed, or a refusal.
Answered(t) ==
  /\ login[t] = "busy"
  /\ \/ Establish(t) \/ EstablishLost(t)
     \/ /\ \E next \in {"challenge", "form"} : login' = [login EXCEPT ![t] = next]
        /\ UNCHANGED <<stored, user, ready, call, flight, adrift, leaving>>
        /\ UNCHANGED server /\ UNCHANGED history

\* The challenge lives in the state of the screen.  A wrong code may be retried; one
\* that has expired or is exhausted (400), or Back, returns to the password.
Verify(t) ==
  /\ login[t] = "challenge" /\ AtDoor(t)
  /\ \E next \in {"busy", "form"} : login' = [login EXCEPT ![t] = next]
  /\ UNCHANGED <<stored, user, ready, call, flight, adrift, leaving>>
  /\ UNCHANGED server /\ UNCHANGED history

-----------------------------------------------------------------------------
(* Signing out *)

\* Fault: the tokens are removed before the one to revoke is read.
ForgetfulSignOut(t) ==
  /\ stored' = None
  /\ user' = [user EXCEPT ![t] = FALSE]
  /\ UNCHANGED leaving

\* Fault: a logout without a token to revoke sends one all the same.
AlwaysSignOut(t) ==
  /\ leaving' = leaving \cup {stored}
  /\ stored' = None
  /\ user' = [user EXCEPT ![t] = FALSE]

\* logout: the refresh token is read first, sent and not waited for; then both are
\* removed and the user is forgotten.
SignOut(t) ==
  /\ leaving' = IF stored # None THEN leaving \cup {stored} ELSE leaving
  /\ stored' = None
  /\ user' = [user EXCEPT ![t] = FALSE]

Logout(t) ==
  /\ Inside(t)
  /\ SignOut(t)
  /\ IF stored # None THEN End({stored.session}, crossed) ELSE UNCHANGED <<left, slipped>>
  /\ UNCHANGED <<ready, login, call, flight, adrift, crossed>>
  /\ UNCHANGED server

\* The server's Logout: DeleteByHash of the one token.
Revoked(p) ==
  /\ p \in leaving
  /\ leaving' = leaving \ {p}
  /\ rows' = rows \ {p}
  /\ UNCHANGED <<stored, expired, issued, user, ready, login, call, flight, adrift>>
  /\ UNCHANGED history

\* The logout does not come through, or is answered with an error, which nobody hears of:
\* the row stays (AuthProvider.tsx:77).
LogoutLost(p) ==
  /\ p \in leaving
  /\ leaving' = leaving \ {p}
  /\ slipped' = slipped \cup (IF p \in rows THEN {p.session} ELSE {})
  /\ UNCHANGED <<stored, user, ready, login, call, flight, adrift, left, crossed>>
  /\ UNCHANGED server

\* The mailed links that end in logout(): a confirmed deletion, a new address.  They
\* open in any tab, signed in or not, and the server ends every session first.
MailLink(t) ==
  /\ rows # {}
  /\ rows' = {}
  /\ SignOut(t)
  /\ End({p.session : p \in rows}, {})
  /\ UNCHANGED <<expired, issued, ready, login, call, flight, adrift, crossed>>

\* Sessions are ended in another one: one of them, or all the others.
RevokeElsewhere(S) ==
  /\ S # {}
  /\ rows' = {p \in rows : p.session \notin S}
  /\ End(S, {})
  /\ UNCHANGED <<stored, expired, issued, user, ready, login, call, flight, adrift, leaving,
                 crossed>>

\* The mailed link that sets a new password ends them all, and leaves what this
\* browser keeps as it is.
ResetLink == RevokeElsewhere({p.session : p \in rows})

\* The access token comes to its time (bound: while its session is live, as the time
\* of one that is refused anyhow changes nothing).
Expire ==
  /\ Honoured(stored)
  /\ expired' = expired \cup {stored.id}
  /\ UNCHANGED <<stored, rows, issued, user, ready, login, call, flight, adrift, leaving>>
  /\ UNCHANGED history

-----------------------------------------------------------------------------
(* An authenticated request: authedFetch *)

\* A request on its way with the token that is stored, and a refresh of that token.
Sending(op) == [pc |-> "sent", op |-> op, token |-> stored, again |-> TRUE, answer |-> "ok",
                new |-> None, on |-> None, done |-> 0]
Refreshing  == [pc |-> "sent", token |-> stored, new |-> None]

\* Any request of a screen behind RequireAuth (bound: its place is free once the server
\* is through with what was adrift).
Begin(c) ==
  /\ Inside(TabOf[c]) /\ call[c].pc = "idle" /\ c \notin adrift
  /\ \E op \in Ops : /\ call' = [call EXCEPT ![c] = Sending(op)]
                     /\ Room(IF op = "password" THEN 2 ELSE 1)
  /\ UNCHANGED <<stored, user, ready, login, flight, adrift, leaving>>
  /\ UNCHANGED server /\ UNCHANGED history

\* What the server is working on, and goes on with when nobody waits for it any more: a
\* refresh, or a change of the password.
AtServer(c) == flight[c].pc \in {"sent", "consumed"} \/ (call[c].pc = "sent" /\ call[c].op = "password")

\* The sessions whose successor, or whose new pair, is lost when nobody waits for those of
\* C any more: it was given out, or the token it follows is gone.
Missed(C) == {flight[c].token.session :
                c \in {d \in C : flight[d].pc = "consumed" \/ flight[d].new # None}}
             \cup {call[c].new.session : c \in {d \in C : call[d].new # None}}

\* A tab is loaded, or loaded again: whatever it was waiting for is lost.  With a
\* token in the store the user is asked for, and ready waits for the answer (bound: one of
\* the tab's places is free for that).
Open(t) ==
  LET mine == {c \in Calls : TabOf[c] = t} IN
  /\ \A c \in mine : call[c].pc # "idle" => call[c].op # "me"   \* bound: not over and over
  /\ adrift' = adrift \cup {c \in mine : AtServer(c)}
  /\ \E boot \in mine \ adrift' :
       call' = [c \in Calls |->
                  IF c \notin mine THEN call[c]
                  ELSE IF c = boot /\ stored # None THEN Sending("me")
                  ELSE IF AtServer(c) /\ flight[c].pc = "none" THEN [call[c] EXCEPT !.again = FALSE]
                  ELSE NoCall]
  /\ flight' = [c \in Calls |-> IF c \in mine /\ ~AtServer(c) THEN NoFlight ELSE flight[c]]
  /\ crossed' = crossed \cup Missed(mine)
  /\ ready' = [ready EXCEPT ![t] = stored = None]
  /\ user' = [user EXCEPT ![t] = FALSE]
  /\ login' = [login EXCEPT ![t] = "form"]
  /\ UNCHANGED <<stored, leaving, left, slipped>> /\ UNCHANGED server
  /\ Room(0)'

\* The answer a, with pair p, n times carried out by now; nobody waits for one adrift.
Reply(c, a, p, n) ==
  IF c \in adrift THEN call' = [call EXCEPT ![c] = NoCall] /\ adrift' = adrift \ {c}
  ELSE /\ call' = [call EXCEPT ![c].pc = "answered", ![c].answer = a, ![c].new = p, ![c].done = n]
       /\ UNCHANGED adrift

\* replacePassword revokes everything, then issues; the second may fail, and its answer may
\* be lost.  What others do between the two comes to the same after them.
ReplacePassword(c) ==
  /\ End({r.session : r \in rows}, {})
  /\ \/ /\ rows' = {} /\ Reply(c, "failed", None, call[c].done + 1)
        /\ UNCHANGED <<issued, crossed>>
     \/ /\ rows' = {Fresh(None)} /\ issued' = issued + 1
        /\ \/ /\ Reply(c, "ok", Fresh(None), call[c].done + 1)
              /\ crossed' = IF c \in adrift THEN crossed \cup {issued'} ELSE crossed
           \/ /\ Reply(c, "failed", None, call[c].done + 1)
              /\ crossed' = crossed \cup {issued'}

\* The server: the middleware's 401, the handler's own 401 for a wrong password, or
\* the request carried out, whose answer may still be lost; or a failure before that.
Handle(c) ==
  LET unharmed == UNCHANGED <<rows, issued, left, slipped, crossed>>
      n == call[c].done IN
  /\ call[c].pc = "sent"
  /\ \/ Honoured(call[c].token) /\ call[c].op = "password" /\ ReplacePassword(c)
     \/ /\ Honoured(call[c].token) /\ call[c].op \in {"read", "me"}
        /\ \E a \in {"ok", "failed"} : Reply(c, a, None, n + 1)
        /\ unharmed
     \/ /\ ~Honoured(call[c].token) \/ call[c].op = "password"
        /\ Reply(c, "denied", None, n) /\ unharmed
     \/ Reply(c, "failed", None, n) /\ unharmed
  /\ UNCHANGED <<stored, expired, user, ready, login, flight, leaving>>

\* The connection of a change of password breaks while the server works on it: the caller
\* is told that it failed.
GiveUp(c) ==
  /\ call[c].pc = "sent" /\ call[c].op = "password" /\ c \notin adrift
  /\ call' = [call EXCEPT ![c].again = FALSE]
  /\ adrift' = adrift \cup {c}
  /\ UNCHANGED <<stored, user, ready, login, flight, leaving>>
  /\ UNCHANGED server /\ UNCHANGED history

\* The session in the store, if another tab is sending the same refresh token.
Raced(t) == IF \E d \in Calls : TabOf[d] # t /\ d \notin adrift /\ flight[d].token = stored
            THEN {stored.session} ELSE {}

\* Fault: each request that was refused sends a refresh of its own.
RefreshAlone(c) ==
  /\ flight' = [flight EXCEPT ![c] = Refreshing]
  /\ call' = [call EXCEPT ![c].pc = "waiting", ![c].on = c]
  /\ crossed' = crossed \cup Raced(TabOf[c])

\* A refusal starts the tab's refresh, or joins the one that is under way.
JoinRefresh(c) ==
  LET t == TabOf[c] IN
  IF Flying(t) # {}
  THEN /\ \E d \in Flying(t) : call' = [call EXCEPT ![c].pc = "waiting", ![c].on = d]
       /\ UNCHANGED <<flight, crossed>>
  ELSE /\ flight' = [flight EXCEPT ![c] = Refreshing]
       /\ call' = [call EXCEPT ![c].pc = "waiting", ![c].on = c]
       /\ crossed' = crossed \cup Raced(t)

\* Fault: the new pair is not stored.
SettleUnstored(c) ==
  LET t == TabOf[c]  a == call[c].answer IN
  /\ user' = IF call[c].op = "me" /\ a = "ok" THEN [user EXCEPT ![t] = TRUE] ELSE user
  /\ ready' = IF call[c].op = "me" THEN [ready EXCEPT ![t] = TRUE] ELSE ready
  /\ call' = [call EXCEPT ![c] = NoCall]
  /\ crossed' = crossed \cup (IF call[c].new # None THEN Overlaid(call[c].new.session, Calls) ELSE {})
  /\ UNCHANGED stored

\* What the caller does with its answer: useChangePassword stores the new pair, the
\* boot shows the user and, whatever came, becomes ready.
Settle(c) ==
  LET t == TabOf[c]  a == call[c].answer IN
  /\ stored' = IF call[c].new # None THEN call[c].new ELSE stored
  /\ user' = IF call[c].op = "me" /\ a = "ok" THEN [user EXCEPT ![t] = TRUE] ELSE user
  /\ ready' = IF call[c].op = "me" THEN [ready EXCEPT ![t] = TRUE] ELSE ready
  /\ call' = [call EXCEPT ![c] = NoCall]
  /\ crossed' = IF call[c].new # None
                THEN crossed \cup Overlaid(call[c].new.session, Calls) \cup Replaced ELSE crossed

\* Fault: whatever went wrong, the request is sent again.
ArriveAnyway(c) ==
  /\ call[c].pc = "answered"
  /\ IF call[c].again /\ stored # None
     THEN JoinRefresh(c) /\ UNCHANGED <<stored, user, ready>>
     ELSE Settle(c) /\ UNCHANGED flight
  /\ UNCHANGED <<login, adrift, leaving, left, slipped>> /\ UNCHANGED server

\* The transport: a 401 is refreshed and retried once while there is a token to
\* refresh with; everything else goes to the caller.
Arrive(c) ==
  /\ call[c].pc = "answered"
  /\ IF call[c].answer = "denied" /\ call[c].again /\ stored # None
     THEN JoinRefresh(c) /\ UNCHANGED <<stored, user, ready>>
     ELSE Settle(c) /\ UNCHANGED flight
  /\ UNCHANGED <<login, adrift, leaving, left, slipped>> /\ UNCHANGED server

-----------------------------------------------------------------------------
(* The refresh: Refresh of service/auth.go, and the end of refreshTokens *)

\* The refresh of c is answered with pair p, None for a refusal; nobody hears one adrift.
Answer(c, p) ==
  IF c \in adrift THEN flight' = [flight EXCEPT ![c] = NoFlight] /\ adrift' = adrift \ {c}
  ELSE flight' = [flight EXCEPT ![c].pc = "answered", ![c].new = p] /\ UNCHANGED adrift

\* Consume deletes the row, and exactly one request deletes it.  The successor of one that
\* is adrift will be lost.
Consume(c) ==
  /\ flight[c].pc = "sent"
  /\ IF flight[c].token \in rows
     THEN /\ rows' = rows \ {flight[c].token}
          /\ flight' = [flight EXCEPT ![c].pc = "consumed"]
          /\ crossed' = IF c \in adrift THEN crossed \cup {flight[c].token.session} ELSE crossed
          /\ UNCHANGED adrift
     ELSE Answer(c, None) /\ UNCHANGED <<rows, crossed>>
  /\ UNCHANGED <<stored, expired, issued, user, ready, login, call, leaving, left, slipped>>

Rotate(c) ==
  LET p == Fresh(flight[c].token.session) IN
  /\ flight[c].pc = "consumed"
  /\ rows' = rows \cup {p} /\ issued' = issued + 1
  /\ Answer(c, p)
  /\ UNCHANGED <<stored, expired, user, ready, login, call, leaving>>
  /\ UNCHANGED history

\* The insert fails, or the server stops, after the row is gone (auth.go:495, :553).
RotateFails(c) ==
  /\ flight[c].pc = "consumed"
  /\ Answer(c, None)
  /\ crossed' = crossed \cup {flight[c].token.session}
  /\ UNCHANGED <<stored, user, ready, login, call, leaving, left, slipped>> /\ UNCHANGED server

\* The server, or a proxy before it, answers with an error: before anything is done, or in
\* place of what was.  One that nobody waits for may never arrive.
Outage(c) ==
  /\ flight[c].pc = "sent" \/ flight[c].new # None
  /\ Answer(c, None)
  /\ crossed' = IF c \in adrift THEN crossed ELSE crossed \cup {flight[c].token.session}
  /\ UNCHANGED <<stored, user, ready, login, call, leaving, left, slipped>> /\ UNCHANGED server

Waiting(c) == {d \in Calls : call[d].pc = "waiting" /\ call[d].on = c}

\* Fault: only the request that started the refresh hears of its end.
RefreshedForOne(c) ==
  /\ flight[c].pc = "answered" /\ flight[c].new # None
  /\ stored' = flight[c].new
  /\ call' = [call EXCEPT ![c] = [@ EXCEPT !.pc = "sent", !.token = flight[c].new,
                                           !.again = FALSE, !.on = None]]
  /\ flight' = [flight EXCEPT ![c] = NoFlight]
  /\ crossed' = crossed \cup Overlaid(flight[c].new.session, Calls \ {c})
  /\ UNCHANGED <<user, ready, login, adrift, leaving, left, slipped>> /\ UNCHANGED server

\* The pair is stored and every request that waited is sent once more.
Refreshed(c) ==
  /\ flight[c].pc = "answered" /\ flight[c].new # None
  /\ stored' = flight[c].new
  /\ call' = [d \in Calls |->
                IF d \in Waiting(c)
                THEN [call[d] EXCEPT !.pc = "sent", !.token = flight[c].new, !.again = FALSE,
                                     !.on = None]
                ELSE call[d]]
  /\ flight' = [flight EXCEPT ![c] = NoFlight]
  /\ crossed' = crossed \cup Overlaid(flight[c].new.session, Calls \ {c})
  /\ UNCHANGED <<user, ready, login, adrift, leaving, left, slipped>> /\ UNCHANGED server

\* Any answer that is not ok: every request that waited removes the tokens, forgets
\* the user and fails.
Expelled(c) ==
  LET t == TabOf[c] IN
  /\ flight[c].pc = "answered" /\ flight[c].new = None
  /\ flight' = [flight EXCEPT ![c] = NoFlight]
  /\ stored' = None
  /\ user' = [user EXCEPT ![t] = FALSE]
  /\ ready' = IF \E d \in Waiting(c) : call[d].op = "me" THEN [ready EXCEPT ![t] = TRUE] ELSE ready
  /\ call' = [d \in Calls |-> IF d \in Waiting(c) THEN NoCall ELSE call[d]]
  /\ UNCHANGED <<login, adrift, leaving, left, slipped, crossed>> /\ UNCHANGED server

\* The fetch is rejected, or the body of its answer is cut off: every request that waited
\* fails, the tokens stay as they are, and the next refusal starts another refresh
\* (api.ts:55-68), although the server may have rotated the token, or yet do so.
Rejected(c) ==
  LET t == TabOf[c] IN
  /\ Heard(c)
  /\ IF AtServer(c) THEN adrift' = adrift \cup {c} /\ UNCHANGED flight
     ELSE flight' = [flight EXCEPT ![c] = NoFlight] /\ UNCHANGED adrift
  /\ crossed' = crossed \cup Missed({c})
  /\ ready' = IF \E d \in Waiting(c) : call[d].op = "me" THEN [ready EXCEPT ![t] = TRUE] ELSE ready
  /\ call' = [d \in Calls |-> IF d \in Waiting(c) THEN NoCall ELSE call[d]]
  /\ UNCHANGED <<stored, user, login, leaving, left, slipped>> /\ UNCHANGED server

-----------------------------------------------------------------------------
Next ==
  \/ \E t \in Doors : Submit(t) \/ Answered(t) \/ Verify(t)
  \/ \E t \in Tabs : Logout(t) \/ MailLink(t) \/ Open(t)
  \/ \E p \in leaving : Revoked(p) \/ LogoutLost(p)
  \/ \E p \in rows : RevokeElsewhere({p.session})
  \/ ResetLink
  \/ Expire
  \/ \E c \in Calls : \/ Begin(c) \/ Handle(c) \/ GiveUp(c) \/ Arrive(c)
                      \/ Consume(c) \/ Rotate(c) \/ RotateFails(c) \/ Outage(c)
                      \/ Refreshed(c) \/ Expelled(c) \/ Rejected(c)

\* What is under way for a request is carried on: by the server, which answers, or by
\* the browser, which runs what waits for the answer.
Continue(c) == \/ Handle(c) \/ Arrive(c) \/ Consume(c) \/ Rotate(c) \/ RotateFails(c)
               \/ Refreshed(c) \/ Expelled(c)
Fairness == \A c \in Calls : WF_vars(Continue(c))

Spec == Init /\ [][Next]_vars /\ Fairness

-----------------------------------------------------------------------------
(* Properties *)

\* Requests that are refused together share one refresh (lib/api.ts:43-47): a tab removes
\* the tokens of a session that the server still honours only after one of these, which
\* crossed names.  Another tab sent the same refresh token; a rotation was answered with an
\* error, before or after it was done; the answer with the successor, or with the pair of a
\* new password or a sign-in, was lost, by a fetch that rejects (api.ts:55, :112) or a
\* reload; another session came into the store while a tab refreshed, or in place of this.
\* An error says nothing about the credentials (AuthProvider.tsx:24-32), and clears them here.
LiveSessionKept ==
  [][\A c \in Calls : Expelled(c) /\ stored # None /\ Live(stored.session)
       => stored.session \in crossed]_vars

\* A session its user ended, here, from another device, by a mailed link or with a
\* new password, has no refresh token left once the logouts under way are through.  It may
\* keep one if one of its tokens was being rotated, or was yet to be, at that very moment;
\* or, when the user signed out here, if the store had missed a rotation (crossed), as a
\* logout names one token; or if that logout failed, which nobody hears of.
EndedIsDead ==
  \A s \in left \ slipped : Live(s) => \E p \in leaving : p.session = s

\* What the browser keeps can be used: with nothing under way, the pair in the store
\* is one that the server will rotate, unless a rotation of its session is among those that
\* crossed names: the server gave out a successor, or failed to, and the store kept the old
\* pair.  If its session was ended, no session is left that the browser could have had
\* instead; so a change of password that revokes every session, issues one and is heard
\* leaves this browser signed in, and one that stops between the two leaves no session.
StoredIsLive ==
  (stored # None /\ \A c \in Calls : call[c].pc = "idle" /\ flight[c].pc = "none")
    => \/ stored \in rows
       \/ stored.session \in crossed
       \/ stored.session \in left /\ \A p \in rows : p.session \in left \cup crossed

\* No request is carried out twice, although the transport sends it again: what is
\* sent again was refused before anything was done.
CarriedOutOnce == \A c \in Calls : call[c].done <= 1

\* Every request comes to an end, those that wait for somebody else's refresh too, and
\* its place is idle again; so a tab that restores a session becomes ready.
Settles == \A c \in Calls : []<>(call[c].pc = "idle")
=============================================================================

-------------------------------- MODULE Query --------------------------------
(* One cached answer of the web client, as its screens use it (TanStack Query, *)
(* outside this repository): what is held, and the request that is under way.  *)
(* Nothing is held as fresh: a screen that mounts a query asks again, and a     *)
(* mutation that invalidates it asks again.  A request under way is joined      *)
(* while nothing is held yet, and replaced once there is.                       *)
CONSTANT None

\* pc "sent": the request is on its way; "read": the server has read got for it;
\* "failed": the request and its one retry came to nothing.
NoQuery == [pc |-> "idle", data |-> None, got |-> None]

Queries(Snapshot) == [pc   : {"idle", "sent", "read", "failed"},
                      data : Snapshot \cup {None},
                      got  : Snapshot \cup {None}]

UnderWay(q) == q.pc \in {"sent", "read"}
Settled(q)  == q.pc = "idle" /\ q.data # None

Sent(q)     == [q EXCEPT !.pc = "sent", !.got = None]
Ask(q)      == IF UnderWay(q) THEN q ELSE Sent(q)
Refetch(q)  == IF UnderWay(q) /\ q.data = None THEN q ELSE Sent(q)
Read(q, s)  == [q EXCEPT !.pc = "read", !.got = s]
Land(q)     == [q EXCEPT !.pc = "idle", !.data = q.got, !.got = None]
Fail(q)     == [q EXCEPT !.pc = "failed", !.got = None]

\* A refetch that joins a request whose answer was read already shows that answer.
Overtakes(q) == q.pc = "read" /\ q.data = None
=============================================================================

----------------------------- MODULE AccountLock -----------------------------
(***************************************************************************)
(* What callers of WithUser rely on, without how it is done: one holder    *)
(* per account, no account tied to another, and a holder that may leave at *)
(* any time.                                                               *)
(***************************************************************************)
CONSTANTS Requests, Accounts, None

\* The holder of an account's lock: a request or None.
VARIABLE holder

Init == holder = [a \in Accounts |-> None]

Enter(r, a) ==
    /\ holder[a] = None
    /\ \A b \in Accounts : holder[b] # r
    /\ holder' = [holder EXCEPT ![a] = r]

\* The holders of some accounts lose them: one when its fn returns or the
\* database ends its transaction, several when the process they run in dies.
Lose(A) ==
    /\ \A a \in A : holder[a] # None
    /\ holder' = [a \in Accounts |-> IF a \in A THEN None ELSE holder[a]]

Next ==
    \/ \E r \in Requests, a \in Accounts : Enter(r, a)
    \/ \E A \in SUBSET Accounts : Lose(A)

Spec == Init /\ [][Next]_holder
=============================================================================

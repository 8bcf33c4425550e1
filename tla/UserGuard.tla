------------------------------ MODULE UserGuard ------------------------------
(***************************************************************************)
(* The per-account lock of internal/repo/guard.go.                         *)
(*                                                                         *)
(* Every request that checks a quota and then inserts runs inside          *)
(* WithUser: an in-process lock first (a reference-counted entry in a map, *)
(* whose one-slot channel is the lock) and, on Postgres, a transaction     *)
(* that holds an advisory lock so that several instances exclude each      *)
(* other.  One action is one region of the code that nothing interrupts: a *)
(* critical section of mu, one channel operation, one statement.           *)
(***************************************************************************)
EXTENDS Naturals, FiniteSets

CONSTANTS
    Requests,       \* requests (goroutines) that may call WithUser
    Instances,      \* server processes sharing the database
    InstanceOf,     \* [Requests -> Instances]
    Accounts,       \* user ids; the admin guard's key 0 is one of them
    KeyOf,          \* [Accounts -> Keys], the int32 truncation of a user id
    Keys,           \* advisory lock keys
    Entries,        \* addresses of guardEntry values
    None,           \* nil
    Postgres        \* the dialect test of WithUser

ASSUME GuardAssumption ==
    /\ IsFiniteSet(Requests)
    /\ InstanceOf \in [Requests -> Instances]
    /\ KeyOf \in [Accounts -> Keys]
    /\ None \notin Entries \cup Requests \cup Accounts
    /\ Postgres \in BOOLEAN

\* "a deployment on [SQLite] is a single process"
ASSUME SingleProcessAssumption ==
    ~Postgres => \A r, s \in Requests : InstanceOf[r] = InstanceOf[s]

VARIABLES
    locks,      \* [Instances -> [Accounts -> entry or None]], userGuard.locks
    refs,       \* [Entries -> Nat], guardEntry.refs
    full,       \* [Entries -> BOOLEAN], the channel holds its one token
    shared,     \* [Keys -> request or None], holder of the advisory lock
    pc,         \* where each request is in WithUser
    entry,      \* the guardEntry a request has in hand
    acct        \* the userID of its call

vars == <<locks, refs, full, shared, pc, entry, acct>>

PCs == {"idle", "waiting", "locked", "inside", "leaving", "dropping"}

\* Points of WithUser at which the caller's token is in the channel.
HoldsToken(r) == pc[r] \in {"locked", "inside", "leaving"}
Inside(r) == pc[r] = "inside"
Users(e) == {r \in Requests : entry[r] = e}
KeyFor(r) == KeyOf[acct[r]]
EntryOf(r) == locks[InstanceOf[r]][acct[r]]
\* Inside fn, and on Postgres still holding the advisory lock.
Protected(r) == Inside(r) /\ (Postgres => shared[KeyFor(r)] = r)

TypeOK ==
    /\ locks \in [Instances -> [Accounts -> Entries \cup {None}]]
    /\ refs \in [Entries -> Nat]
    /\ full \in [Entries -> BOOLEAN]
    /\ shared \in [Keys -> Requests \cup {None}]
    /\ pc \in [Requests -> PCs]
    /\ entry \in [Requests -> Entries \cup {None}]
    /\ acct \in [Requests -> Accounts \cup {None}]

Init ==
    /\ locks = [i \in Instances |-> [a \in Accounts |-> None]]
    /\ refs = [e \in Entries |-> 0]
    /\ full = [e \in Entries |-> FALSE]
    /\ shared = [k \in Keys |-> None]
    /\ pc = [r \in Requests |-> "idle"]
    /\ entry = [r \in Requests |-> None]
    /\ acct = [r \in Requests |-> None]

-----------------------------------------------------------------------------
\* Fault: Join without counting the new user.
JoinUncounted(r, a) ==
    /\ pc[r] = "idle"
    /\ locks[InstanceOf[r]][a] # None
    /\ entry' = [entry EXCEPT ![r] = locks[InstanceOf[r]][a]]
    /\ acct' = [acct EXCEPT ![r] = a]
    /\ pc' = [pc EXCEPT ![r] = "waiting"]
    /\ UNCHANGED <<locks, refs, full, shared>>

\* lockLocal, the section under mu: the account has an entry already.
Join(r, a) ==
    /\ pc[r] = "idle"
    /\ locks[InstanceOf[r]][a] # None
    /\ LET e == locks[InstanceOf[r]][a] IN
         /\ refs' = [refs EXCEPT ![e] = @ + 1]
         /\ entry' = [entry EXCEPT ![r] = e]
    /\ acct' = [acct EXCEPT ![r] = a]
    /\ pc' = [pc EXCEPT ![r] = "waiting"]
    /\ UNCHANGED <<locks, full, shared>>

\* An address the collector may hand out again: nothing points to it.
Unreachable(e) ==
    /\ \A r \in Requests : entry[r] # e
    /\ \A i \in Instances, a \in Accounts : locks[i][a] # e

\* lockLocal, the section under mu: the account has no entry yet.
Open(r, a) ==
    /\ pc[r] = "idle"
    /\ locks[InstanceOf[r]][a] = None
    /\ \E e \in Entries :
         /\ Unreachable(e)
         /\ locks' = [locks EXCEPT ![InstanceOf[r]][a] = e]
         /\ refs' = [refs EXCEPT ![e] = 1]
         /\ full' = [full EXCEPT ![e] = FALSE]
         /\ entry' = [entry EXCEPT ![r] = e]
    /\ acct' = [acct EXCEPT ![r] = a]
    /\ pc' = [pc EXCEPT ![r] = "waiting"]
    /\ UNCHANGED shared

\* lockLocal, the select: the token goes into the channel.
Acquire(r) ==
    /\ pc[r] = "waiting"
    /\ ~full[entry[r]]
    /\ full' = [full EXCEPT ![entry[r]] = TRUE]
    /\ pc' = [pc EXCEPT ![r] = IF Postgres THEN "locked" ELSE "inside"]
    /\ UNCHANGED <<locks, refs, shared, entry, acct>>

\* lockLocal, the select: the request was cancelled while it waited.
GiveUp(r) ==
    /\ pc[r] = "waiting"
    /\ pc' = [pc EXCEPT ![r] = "dropping"]
    /\ UNCHANGED <<locks, refs, full, shared, entry, acct>>

\* Fault: the advisory lock does not wait for its holder.
LockSharedUnchecked(r) ==
    /\ pc[r] = "locked"
    /\ shared' = [shared EXCEPT ![KeyFor(r)] = r]
    /\ pc' = [pc EXCEPT ![r] = "inside"]
    /\ UNCHANGED <<locks, refs, full, entry, acct>>

\* WithUser: pg_advisory_xact_lock returns and fn starts.
LockShared(r) ==
    /\ pc[r] = "locked"
    /\ shared[KeyFor(r)] = None
    /\ shared' = [shared EXCEPT ![KeyFor(r)] = r]
    /\ pc' = [pc EXCEPT ![r] = "inside"]
    /\ UNCHANGED <<locks, refs, full, entry, acct>>

\* Fault: the error return skips the deferred release.
FailSharedUnreleased(r) ==
    /\ pc[r] = "locked"
    /\ pc' = [pc EXCEPT ![r] = "dropping"]
    /\ UNCHANGED <<locks, refs, full, shared, entry, acct>>

\* WithUser: no connection, or the request was cancelled while it waited for
\* the advisory lock; the deferred release runs.
FailShared(r) ==
    /\ pc[r] = "locked"
    /\ pc' = [pc EXCEPT ![r] = "leaving"]
    /\ UNCHANGED <<locks, refs, full, shared, entry, acct>>

\* shared once the transaction of r has ended.
WithoutTx(r) == [k \in Keys |-> IF shared[k] = r THEN None ELSE shared[k]]

\* fn returns, and on Postgres its transaction ends with it.
Finish(r) ==
    /\ pc[r] = "inside"
    /\ shared' = WithoutTx(r)
    /\ pc' = [pc EXCEPT ![r] = "leaving"]
    /\ UNCHANGED <<locks, refs, full, entry, acct>>

\* The transaction ends while fn still has a statement in flight on another
\* pooled connection: its connection died, or the request was cancelled and
\* database/sql rolled it back.
TxEnds(r) ==
    /\ pc[r] = "inside"
    /\ \E k \in Keys : shared[k] = r
    /\ shared' = WithoutTx(r)
    /\ UNCHANGED <<locks, refs, full, pc, entry, acct>>

\* The release closure: the token is taken out of the channel.
Release(r) ==
    /\ pc[r] = "leaving"
    /\ full' = [full EXCEPT ![entry[r]] = FALSE]
    /\ pc' = [pc EXCEPT ![r] = "dropping"]
    /\ UNCHANGED <<locks, refs, shared, entry, acct>>

\* Fault: drop deletes the entry whoever still uses it.
DropDeletes(r) ==
    /\ pc[r] = "dropping"
    /\ refs' = [refs EXCEPT ![entry[r]] = @ - 1]
    /\ locks' = [locks EXCEPT ![InstanceOf[r]][acct[r]] = None]
    /\ entry' = [entry EXCEPT ![r] = None]
    /\ acct' = [acct EXCEPT ![r] = None]
    /\ pc' = [pc EXCEPT ![r] = "idle"]
    /\ UNCHANGED <<full, shared>>

\* drop, the section under mu.
Drop(r) ==
    /\ pc[r] = "dropping"
    /\ refs' = [refs EXCEPT ![entry[r]] = @ - 1]
    /\ locks' = IF refs[entry[r]] = 1
                THEN [locks EXCEPT ![InstanceOf[r]][acct[r]] = None]
                ELSE locks
    /\ entry' = [entry EXCEPT ![r] = None]
    /\ acct' = [acct EXCEPT ![r] = None]
    /\ pc' = [pc EXCEPT ![r] = "idle"]
    /\ UNCHANGED <<full, shared>>

\* A process dies: its memory goes, and the database ends its transactions.
Crash(i) ==
    LET gone == {r \in Requests : InstanceOf[r] = i} IN
    /\ \E r \in gone : pc[r] # "idle"
    /\ locks' = [locks EXCEPT ![i] = [a \in Accounts |-> None]]
    /\ shared' = [k \in Keys |-> IF shared[k] \in gone THEN None ELSE shared[k]]
    /\ pc' = [r \in Requests |-> IF r \in gone THEN "idle" ELSE pc[r]]
    /\ entry' = [r \in Requests |-> IF r \in gone THEN None ELSE entry[r]]
    /\ acct' = [r \in Requests |-> IF r \in gone THEN None ELSE acct[r]]
    /\ UNCHANGED <<refs, full>>

Next ==
    \/ \E r \in Requests, a \in Accounts : Join(r, a) \/ Open(r, a)
    \/ \E r \in Requests :
         \/ Acquire(r) \/ GiveUp(r) \/ LockShared(r) \/ FailShared(r)
         \/ Finish(r) \/ TxEnds(r) \/ Release(r) \/ Drop(r)
    \/ \E i \in Instances : Crash(i)

Spec == Init /\ [][Next]_vars

\* Handlers return (every statement and every write has a timeout), so what a
\* request does alone is weakly fair.  Go queues the senders of a channel and
\* Postgres queues advisory waiters in order of arrival, so a waiter is not
\* passed over for ever: acquisition is strongly fair.
Fairness ==
    \A r \in Requests :
        /\ WF_vars(Finish(r)) /\ WF_vars(Release(r)) /\ WF_vars(Drop(r))
        /\ SF_vars(Acquire(r)) /\ SF_vars(LockShared(r))

FairSpec == Spec /\ Fairness

-----------------------------------------------------------------------------
(***************************************************************************)
(* What WithUser promises.                                                 *)
(***************************************************************************)

\* WithUser makes a check-and-insert pair "atomic with respect to every other
\* request for the same account": two requests for one account are inside fn
\* together only on two instances, and only once the transaction of one of
\* them has ended under its fn (see TxEnds).  On SQLite, and within one
\* process, never.
ExclusionUnlessTxEnds ==
    \A r, s \in Requests :
        (Inside(r) /\ Inside(s) /\ acct[r] = acct[s] /\ r # s) =>
            /\ InstanceOf[r] # InstanceOf[s]
            /\ ~Protected(r) \/ ~Protected(s)

\* A request in WithUser has in hand the very entry the map holds for its
\* account: dropping an entry never leaves a caller on a lock nobody else
\* can find.
EntryInMap ==
    \A r \in Requests : pc[r] # "idle" => entry[r] # None /\ entry[r] = EntryOf(r)

\* "The entry is reference-counted so the map holds only accounts with live
\* waiters": the count of a mapped entry is the number of its users, and an
\* entry without users is gone from the map.
RefsExact ==
    \A i \in Instances, a \in Accounts :
        LET e == locks[i][a] IN
        e # None => /\ refs[e] = Cardinality(Users(e))
                    /\ refs[e] > 0

\* "two accounts never wait on each other": the token of an entry is out only
\* while a request for that very account holds it.
TokenHasHolder ==
    \A i \in Instances, a \in Accounts :
        (locks[i][a] # None /\ full[locks[i][a]]) =>
            \E r \in Requests :
                HoldsToken(r) /\ InstanceOf[r] = i /\ acct[r] = a

\* A request that waits for the in-process lock gets it or gives up; one that
\* waits for the advisory lock gets in or fails.
WaitersLeave ==
    \A r \in Requests :
        /\ pc[r] = "waiting" ~> pc[r] # "waiting"
        /\ pc[r] = "locked" ~> pc[r] # "locked"

\* The lock seen from outside: for each account the request that holds it.
holderOf ==
    [a \in Accounts |->
        IF \E r \in Requests : Protected(r) /\ acct[r] = a
        THEN CHOOSE r \in Requests : Protected(r) /\ acct[r] = a
        ELSE None]

Abstract == INSTANCE AccountLock WITH holder <- holderOf

\* WithUser implements the abstract account lock: a request takes an account
\* nobody holds, and no step hands an account from one request to another.
ImplementsAccountLock == Abstract!Spec
=============================================================================

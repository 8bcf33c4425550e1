--------------------------- MODULE UserGuardProofs ---------------------------
(***************************************************************************)
(* Proofs about UserGuard, for any number of requests, instances and       *)
(* accounts.                                                               *)
(***************************************************************************)
EXTENDS UserGuard, FiniteSetTheorems, TLAPS

\* Two places of the maps never share an entry.
EntriesDistinct ==
    \A i, j \in Instances, a, b \in Accounts :
        locks[i][a] # None /\ locks[i][a] = locks[j][b] => i = j /\ a = b

\* A request outside WithUser has no entry in hand; one inside has an account.
IdleHasNothing ==
    \A r \in Requests :
        /\ pc[r] = "idle" <=> entry[r] = None
        /\ pc[r] # "idle" => acct[r] \in Accounts

\* The channel holds the token of exactly one request.
TokenUnique ==
    \A r, s \in Requests :
        /\ HoldsToken(r) => full[entry[r]]
        /\ HoldsToken(r) /\ HoldsToken(s) /\ entry[r] = entry[s] => r = s

\* The inductive invariant.
IInv ==
    /\ TypeOK
    /\ IdleHasNothing
    /\ EntryInMap
    /\ EntriesDistinct
    /\ RefsExact
    /\ TokenUnique
    /\ TokenHasHolder

-----------------------------------------------------------------------------
\* TypeOK and the shape of what a request has in hand hold after every step:
\* the part of the induction that does not count.
LEMMA Shape ==
    ASSUME IInv, [Next]_vars
    PROVE  TypeOK' /\ IdleHasNothing' /\ EntryInMap' /\ EntriesDistinct'
  <1> USE GuardAssumption DEF IInv
  <1> DEFINE Goal == TypeOK /\ IdleHasNothing /\ EntryInMap /\ EntriesDistinct
  <1> SUFFICES Goal'
    OBVIOUS
  <1>1. ASSUME NEW r \in Requests, NEW a \in Accounts, Join(r, a)
        PROVE  Goal'
    BY <1>1 DEF Join, TypeOK, IdleHasNothing, EntryInMap, EntriesDistinct,
                EntryOf, PCs
  <1>2. ASSUME NEW r \in Requests, NEW a \in Accounts, Open(r, a)
        PROVE  Goal'
    <2> PICK e \in Entries :
          /\ Unreachable(e)
          /\ locks' = [locks EXCEPT ![InstanceOf[r]][a] = e]
          /\ refs' = [refs EXCEPT ![e] = 1]
          /\ full' = [full EXCEPT ![e] = FALSE]
          /\ entry' = [entry EXCEPT ![r] = e]
      BY <1>2 DEF Open
    <2> pc[r] = "idle" /\ locks[InstanceOf[r]][a] = None
        /\ acct' = [acct EXCEPT ![r] = a]
        /\ pc' = [pc EXCEPT ![r] = "waiting"] /\ shared' = shared
      BY <1>2 DEF Open
    <2>1. TypeOK'
      BY DEF TypeOK, PCs
    <2>2. IdleHasNothing'
      BY DEF TypeOK, IdleHasNothing
    <2>3. EntryInMap'
      BY DEF TypeOK, IdleHasNothing, EntryInMap, EntryOf
    <2>4. EntriesDistinct'
      BY DEF TypeOK, EntriesDistinct, Unreachable
    <2> QED BY <2>1, <2>2, <2>3, <2>4
  <1>3. ASSUME NEW r \in Requests,
               Acquire(r) \/ GiveUp(r) \/ LockShared(r) \/ FailShared(r)
                 \/ Finish(r) \/ TxEnds(r) \/ Release(r)
        PROVE  Goal'
    <2>1. TypeOK'
      <3>1. CASE Acquire(r)
        BY <3>1 DEF Acquire, TypeOK, PCs
      <3>2. CASE GiveUp(r) \/ FailShared(r)
        BY <3>2 DEF GiveUp, FailShared, TypeOK, PCs
      <3>3. CASE LockShared(r)
        BY <3>3 DEF LockShared, TypeOK, PCs
      <3>4. CASE Finish(r) \/ TxEnds(r)
        BY <3>4 DEF Finish, TxEnds, WithoutTx, TypeOK, PCs
      <3>5. CASE Release(r)
        BY <3>5 DEF Release, TypeOK, PCs
      <3> QED BY <1>3, <3>1, <3>2, <3>3, <3>4, <3>5
    <2>2. /\ entry' = entry /\ acct' = acct /\ locks' = locks
          /\ \A s \in Requests : pc'[s] = "idle" <=> pc[s] = "idle"
      BY <1>3 DEF Acquire, GiveUp, LockShared, FailShared, Finish, TxEnds,
                  Release, TypeOK
    <2> QED BY <2>1, <2>2 DEF IdleHasNothing, EntryInMap, EntriesDistinct, EntryOf
  <1>4. ASSUME NEW r \in Requests, Drop(r)
        PROVE  Goal'
    <2> DEFINE i == InstanceOf[r]  e == entry[r]  a == acct[r]
    <2>1. e \in Entries /\ a \in Accounts /\ i \in Instances /\ e = locks[i][a]
          /\ e # None
      BY <1>4 DEF Drop, TypeOK, IdleHasNothing, EntryInMap, EntryOf
    <2>2. refs[e] = Cardinality(Users(e)) /\ refs[e] > 0
      BY <2>1 DEF RefsExact
    <2>3. TypeOK'
      BY <1>4, <2>1, <2>2 DEF Drop, TypeOK, PCs
    <2>4. IdleHasNothing'
      BY <1>4 DEF Drop, TypeOK, IdleHasNothing
    <2>5. ASSUME NEW s \in Requests, s # r, pc[s] # "idle"
          PROVE  locks'[InstanceOf[s]][acct[s]] = entry[s]
      <3>1. entry[s] # None /\ entry[s] = locks[InstanceOf[s]][acct[s]]
            /\ acct[s] \in Accounts /\ InstanceOf[s] \in Instances
        BY <2>5 DEF EntryInMap, EntryOf, IdleHasNothing
      <3>2. CASE InstanceOf[s] = i /\ acct[s] = a
        <4>1. Users(e) \subseteq Requests /\ IsFiniteSet(Users(e))
          BY FS_Subset DEF Users
        <4>2. r \in Users(e) /\ s \in Users(e)
          BY <3>1, <3>2, <2>1 DEF Users
        <4>3. Users(e) \ {r} # {} /\ IsFiniteSet(Users(e) \ {r})
          BY <2>5, <4>1, <4>2, FS_RemoveElement
        <4>4. refs[e] # 1
          <5>1. Cardinality(Users(e) \ {r}) # 0
            BY <4>3, FS_EmptySet
          <5>2. Cardinality(Users(e) \ {r}) = Cardinality(Users(e)) - 1
            BY <4>1, <4>2, FS_RemoveElement
          <5> QED BY <5>1, <5>2, <2>2
        <4>5. locks' = locks
          BY <4>4, <1>4 DEF Drop
        <4> QED BY <4>5, <3>1
      <3>3. CASE ~(InstanceOf[s] = i /\ acct[s] = a)
        BY <3>1, <3>3, <1>4 DEF Drop, TypeOK
      <3> QED BY <3>2, <3>3
    <2>6. EntryInMap'
      BY <2>5, <1>4 DEF Drop, TypeOK, EntryInMap, EntryOf, IdleHasNothing
    <2>7. EntriesDistinct'
      BY <1>4, <2>1 DEF Drop, TypeOK, EntriesDistinct
    <2> QED BY <2>3, <2>4, <2>6, <2>7
  <1>5. ASSUME NEW i \in Instances, Crash(i)
        PROVE  Goal'
    <2>1. TypeOK'
      BY <1>5 DEF Crash, TypeOK, PCs
    <2>2. IdleHasNothing' /\ EntryInMap'
      BY <1>5 DEF Crash, TypeOK, IdleHasNothing, EntryInMap, EntryOf
    <2>3. EntriesDistinct'
      BY <1>5 DEF Crash, TypeOK, EntriesDistinct
    <2> QED BY <2>1, <2>2, <2>3
  <1>6. CASE UNCHANGED vars
    BY <1>6 DEF vars, TypeOK, IdleHasNothing, EntryInMap, EntriesDistinct, EntryOf
  <1> QED BY <1>1, <1>2, <1>3, <1>4, <1>5, <1>6 DEF Next

\* Counting: a step that takes one request off an entry, or puts one on it,
\* changes the number of its users by one.
LEMMA UserLeaves ==
    ASSUME IsFiniteSet(Requests), NEW e, NEW r \in Requests,
           r \in Users(e), Users(e)' = Users(e) \ {r}
    PROVE  /\ Cardinality(Users(e)) \in Nat /\ Cardinality(Users(e)) > 0
           /\ Cardinality(Users(e)') = Cardinality(Users(e)) - 1
  <1>1. IsFiniteSet(Users(e))
    BY FS_Subset DEF Users
  <1>2. Cardinality(Users(e)) # 0
    BY <1>1, FS_EmptySet
  <1> QED BY <1>1, <1>2, FS_RemoveElement, FS_CardinalityType

LEMMA UserComes ==
    ASSUME IsFiniteSet(Requests), NEW e, NEW r \in Requests,
           r \notin Users(e), Users(e)' = Users(e) \cup {r}
    PROVE  /\ Cardinality(Users(e)) \in Nat
           /\ Cardinality(Users(e)') = Cardinality(Users(e)) + 1
  <1>1. IsFiniteSet(Users(e))
    BY FS_Subset DEF Users
  <1> QED BY <1>1, FS_AddElement, FS_CardinalityType

\* The reference counts stay exact.
LEMMA Counts ==
    ASSUME IInv, [Next]_vars
    PROVE  RefsExact'
  <1> USE GuardAssumption DEF IInv
  <1> SUFFICES ASSUME NEW j \in Instances, NEW b \in Accounts,
                      NEW f, f = locks'[j][b], f # None
               PROVE  refs'[f] = Cardinality(Users(f)') /\ refs'[f] > 0
    BY DEF RefsExact, Users
  <1>1. ASSUME NEW r \in Requests, NEW a \in Accounts, Join(r, a)
        PROVE  refs'[f] = Cardinality(Users(f)') /\ refs'[f] > 0
    <2> DEFINE e == locks[InstanceOf[r]][a]
    <2>1. f = locks[j][b] /\ f \in Entries /\ refs[f] = Cardinality(Users(f))
          /\ refs[f] > 0 /\ refs[f] \in Nat
      BY <1>1 DEF Join, TypeOK, RefsExact
    <2>2. entry[r] = None /\ f # None
      BY <1>1, <2>1 DEF Join, IdleHasNothing
    <2>3. CASE f = e
      <3>1. r \notin Users(f) /\ Users(f)' = Users(f) \cup {r}
        BY <1>1, <2>2, <2>3 DEF Join, TypeOK, Users
      <3>2. refs'[f] = refs[f] + 1
        BY <1>1, <2>1, <2>3 DEF Join, TypeOK
      <3>3. /\ Cardinality(Users(f)) \in Nat
            /\ Cardinality(Users(f)') = Cardinality(Users(f)) + 1
        BY <3>1, UserComes
      <3> QED BY <3>2, <3>3, <2>1
    <2>4. CASE f # e
      <3>1. Users(f)' = Users(f)
        BY <1>1, <2>2, <2>4 DEF Join, TypeOK, Users
      <3>2. refs'[f] = refs[f]
        BY <1>1, <2>1, <2>4 DEF Join, TypeOK
      <3> QED BY <3>1, <3>2, <2>1
    <2> QED BY <2>3, <2>4
  <1>2. ASSUME NEW r \in Requests, NEW a \in Accounts, Open(r, a)
        PROVE  refs'[f] = Cardinality(Users(f)') /\ refs'[f] > 0
    <2> PICK e \in Entries :
          /\ Unreachable(e)
          /\ locks' = [locks EXCEPT ![InstanceOf[r]][a] = e]
          /\ refs' = [refs EXCEPT ![e] = 1]
          /\ entry' = [entry EXCEPT ![r] = e]
      BY <1>2 DEF Open
    <2>1. CASE f = e
      <3>1. Users(f)' = {r}
        BY <2>1 DEF Users, TypeOK, Unreachable
      <3>2. refs'[f] = 1
        BY <2>1 DEF TypeOK
      <3> QED BY <3>1, <3>2, FS_Singleton
    <2>2. CASE f # e
      <3>1. f = locks[j][b] /\ f \in Entries
        BY <2>2 DEF TypeOK
      <3>2. entry[r] = None
        BY <1>2 DEF Open, IdleHasNothing
      <3>3. Users(f)' = Users(f)
        BY <2>2, <3>2 DEF Users, TypeOK
      <3>4. refs'[f] = refs[f]
        BY <2>2, <3>1 DEF TypeOK
      <3> QED BY <3>1, <3>3, <3>4 DEF RefsExact
    <2> QED BY <2>1, <2>2
  <1>3. ASSUME NEW r \in Requests,
               Acquire(r) \/ GiveUp(r) \/ LockShared(r) \/ FailShared(r)
                 \/ Finish(r) \/ TxEnds(r) \/ Release(r)
        PROVE  refs'[f] = Cardinality(Users(f)') /\ refs'[f] > 0
    <2>1. locks' = locks /\ refs' = refs /\ entry' = entry
      BY <1>3 DEF Acquire, GiveUp, LockShared, FailShared, Finish, TxEnds, Release
    <2> QED BY <2>1 DEF RefsExact, Users
  <1>4. ASSUME NEW r \in Requests, Drop(r)
        PROVE  refs'[f] = Cardinality(Users(f)') /\ refs'[f] > 0
    <2> DEFINE i == InstanceOf[r]  e == entry[r]  a == acct[r]
    <2>1. e \in Entries /\ a \in Accounts /\ i \in Instances /\ e = locks[i][a]
          /\ e # None
      BY <1>4 DEF Drop, TypeOK, IdleHasNothing, EntryInMap, EntryOf
    <2>2. f = locks[j][b] /\ f \in Entries /\ refs[f] = Cardinality(Users(f))
          /\ refs[f] \in Nat /\ refs[f] > 0
      BY <1>4, <2>1 DEF Drop, TypeOK, RefsExact
    <2>3. CASE f = e
      <3>1. j = i /\ b = a
        <4>1. locks[j][b] # None /\ locks[j][b] = locks[i][a]
          BY <2>1, <2>2, <2>3
        <4> HIDE DEF i, a
        <4> QED BY <4>1, <2>1 DEF EntriesDistinct
      <3>2. refs[f] # 1
        <4>1. refs[e] = 1 => locks'[i][a] = None
          BY <1>4, <2>1 DEF Drop, TypeOK
        <4> QED BY <4>1, <3>1, <2>3
      <3>3. r \in Users(f) /\ Users(f)' = Users(f) \ {r}
        BY <1>4, <2>1, <2>3 DEF Drop, TypeOK, Users
      <3>4. refs'[f] = refs[f] - 1
        BY <1>4, <2>2, <2>3 DEF Drop, TypeOK
      <3>5. /\ Cardinality(Users(f)) \in Nat /\ Cardinality(Users(f)) > 0
            /\ Cardinality(Users(f)') = Cardinality(Users(f)) - 1
        BY <3>3, UserLeaves
      <3> QED BY <3>2, <3>4, <3>5, <2>2
    <2>4. CASE f # e
      <3>1. Users(f)' = Users(f)
        BY <1>4, <2>2, <2>4 DEF Drop, TypeOK, Users
      <3>2. refs'[f] = refs[f]
        BY <1>4, <2>2, <2>4 DEF Drop, TypeOK
      <3> QED BY <3>1, <3>2, <2>2
    <2> QED BY <2>3, <2>4
  <1>5. ASSUME NEW i \in Instances, Crash(i)
        PROVE  refs'[f] = Cardinality(Users(f)') /\ refs'[f] > 0
    <2>1. j # i /\ f = locks[j][b] /\ refs' = refs
      BY <1>5 DEF Crash, TypeOK
    <2>2. \A s \in Users(f) : InstanceOf[s] = j
      <3> SUFFICES ASSUME NEW s \in Users(f) PROVE InstanceOf[s] = j
        OBVIOUS
      <3>1. s \in Requests /\ entry[s] = f /\ pc[s] # "idle"
        BY <2>1 DEF Users, IdleHasNothing
      <3>2. f = locks[InstanceOf[s]][acct[s]] /\ acct[s] \in Accounts
        BY <3>1 DEF EntryInMap, EntryOf, IdleHasNothing
      <3>3. locks[j][b] # None /\ locks[j][b] = locks[InstanceOf[s]][acct[s]]
        BY <3>2, <2>1
      <3>4. InstanceOf[s] \in Instances
        BY <3>1
      <3> HIDE DEF IInv
      <3>5. EntriesDistinct
        BY DEF IInv
      <3> QED BY <3>2, <3>3, <3>4, <3>5 DEF EntriesDistinct
    <2>3. Users(f)' = Users(f)
      BY <1>5, <2>1, <2>2 DEF Crash, Users, TypeOK
    <2> QED BY <2>1, <2>3 DEF RefsExact
  <1>6. CASE UNCHANGED vars
    BY <1>6 DEF vars, RefsExact, Users
  <1> QED BY <1>1, <1>2, <1>3, <1>4, <1>5, <1>6 DEF Next

\* The channel of an entry holds the token of one request, a holder of it.
LEMMA Tokens ==
    ASSUME IInv, [Next]_vars
    PROVE  TokenUnique' /\ TokenHasHolder'
  <1> USE GuardAssumption DEF IInv
  <1> DEFINE Goal == TokenUnique /\ TokenHasHolder
  <1> SUFFICES Goal'
    OBVIOUS
  <1>1. ASSUME NEW r \in Requests, NEW a \in Accounts, Join(r, a)
        PROVE  Goal'
    <2>1. TokenUnique'
      BY <1>1 DEF Join, TypeOK, TokenUnique, HoldsToken
    <2>2. TokenHasHolder'
      <3>1. /\ locks' = locks /\ full' = full /\ pc[r] = "idle"
            /\ acct' = [acct EXCEPT ![r] = a]
            /\ pc' = [pc EXCEPT ![r] = "waiting"]
        BY <1>1 DEF Join
      <3> SUFFICES ASSUME NEW j \in Instances, NEW b \in Accounts,
                          locks[j][b] # None, full[locks[j][b]]
                   PROVE  \E s \in Requests :
                            HoldsToken(s)' /\ InstanceOf[s] = j /\ acct'[s] = b
        BY <3>1 DEF TokenHasHolder
      <3>2. PICK s \in Requests : HoldsToken(s) /\ InstanceOf[s] = j /\ acct[s] = b
        BY DEF TokenHasHolder
      <3> QED BY <3>1, <3>2 DEF TypeOK, HoldsToken
    <2> QED BY <2>1, <2>2
  <1>2. ASSUME NEW r \in Requests, NEW a \in Accounts, Open(r, a)
        PROVE  Goal'
    <2> PICK e \in Entries :
          /\ Unreachable(e)
          /\ locks' = [locks EXCEPT ![InstanceOf[r]][a] = e]
          /\ full' = [full EXCEPT ![e] = FALSE]
          /\ entry' = [entry EXCEPT ![r] = e]
      BY <1>2 DEF Open
    <2>0. /\ pc[r] = "idle" /\ acct' = [acct EXCEPT ![r] = a]
          /\ pc' = [pc EXCEPT ![r] = "waiting"]
      BY <1>2 DEF Open
    <2>1. TokenUnique'
      BY <2>0 DEF TypeOK, TokenUnique, HoldsToken, Unreachable
    <2>2. TokenHasHolder'
      <3> SUFFICES ASSUME NEW j \in Instances, NEW b \in Accounts,
                          locks'[j][b] # None, full'[locks'[j][b]]
                   PROVE  \E s \in Requests :
                            HoldsToken(s)' /\ InstanceOf[s] = j /\ acct'[s] = b
        BY DEF TokenHasHolder
      <3>1. locks'[j][b] = locks[j][b] /\ full[locks[j][b]]
        BY DEF TypeOK, Unreachable
      <3>2. PICK s \in Requests : HoldsToken(s) /\ InstanceOf[s] = j /\ acct[s] = b
        BY <3>1 DEF TokenHasHolder
      <3> QED BY <3>2, <2>0 DEF TypeOK, HoldsToken
    <2> QED BY <2>1, <2>2
  <1>3. ASSUME NEW r \in Requests, Acquire(r)
        PROVE  Goal'
    <2>1. TokenUnique'
      BY <1>3 DEF Acquire, TypeOK, TokenUnique, HoldsToken, IdleHasNothing
    <2>2. TokenHasHolder'
      <3>1. /\ entry[r] = locks[InstanceOf[r]][acct[r]] /\ entry[r] # None
            /\ acct[r] \in Accounts /\ InstanceOf[r] \in Instances
        BY <1>3 DEF Acquire, EntryInMap, EntryOf, IdleHasNothing
      <3>2. HoldsToken(r)'
        BY <1>3 DEF Acquire, TypeOK, HoldsToken
      <3> SUFFICES ASSUME NEW i \in Instances, NEW a \in Accounts,
                          locks[i][a] # None, full'[locks[i][a]]
                   PROVE  \E s \in Requests :
                            HoldsToken(s)' /\ InstanceOf[s] = i /\ acct[s] = a
        BY <1>3 DEF Acquire, TokenHasHolder, HoldsToken
      <3>3. CASE locks[i][a] = entry[r]
        BY <3>1, <3>2, <3>3 DEF EntriesDistinct
      <3>4. CASE locks[i][a] # entry[r]
        <4>1. full[locks[i][a]]
          BY <1>3, <3>4 DEF Acquire, TypeOK
        <4>2. PICK s \in Requests :
                 HoldsToken(s) /\ InstanceOf[s] = i /\ acct[s] = a
          BY <4>1 DEF TokenHasHolder
        <4>3. HoldsToken(s)'
          BY <1>3, <4>2 DEF Acquire, TypeOK, HoldsToken
        <4> QED BY <4>2, <4>3
      <3> QED BY <3>3, <3>4
    <2> QED BY <2>1, <2>2
  <1>4. ASSUME NEW r \in Requests,
               GiveUp(r) \/ LockShared(r) \/ FailShared(r) \/ Finish(r)
                 \/ TxEnds(r)
        PROVE  Goal'
    <2>1. /\ entry' = entry /\ acct' = acct /\ locks' = locks /\ full' = full
          /\ \A s \in Requests : HoldsToken(s)' <=> HoldsToken(s)
      BY <1>4 DEF GiveUp, LockShared, FailShared, Finish, TxEnds, TypeOK, HoldsToken
    <2> QED BY <2>1 DEF TokenUnique, TokenHasHolder
  <1>5. ASSUME NEW r \in Requests, Release(r)
        PROVE  Goal'
    <2>0. HoldsToken(r) /\ entry[r] # None /\ entry[r] \in Entries
      BY <1>5 DEF Release, HoldsToken, IdleHasNothing, TypeOK
    <2>1. \A s \in Requests : HoldsToken(s)' <=> (HoldsToken(s) /\ s # r)
      BY <1>5 DEF Release, TypeOK, HoldsToken
    <2>2. /\ full' = [full EXCEPT ![entry[r]] = FALSE]
          /\ entry' = entry /\ acct' = acct /\ locks' = locks
      BY <1>5 DEF Release
    <2>3. TokenUnique'
      BY <2>0, <2>1, <2>2 DEF TokenUnique, TypeOK
    <2>4. TokenHasHolder'
      <3> SUFFICES ASSUME NEW i \in Instances, NEW a \in Accounts,
                          locks[i][a] # None, full'[locks[i][a]]
                   PROVE  \E s \in Requests :
                            HoldsToken(s)' /\ InstanceOf[s] = i /\ acct[s] = a
        BY <2>2 DEF TokenHasHolder
      <3>1. full[locks[i][a]] /\ locks[i][a] # entry[r]
        BY <2>0, <2>2 DEF TypeOK
      <3>2. PICK s \in Requests : HoldsToken(s) /\ InstanceOf[s] = i /\ acct[s] = a
        BY <3>1 DEF TokenHasHolder
      <3>3. entry[s] = locks[i][a]
        BY <3>2 DEF EntryInMap, EntryOf, HoldsToken
      <3> QED BY <3>1, <3>2, <3>3, <2>1
    <2> QED BY <2>3, <2>4
  <1>6. ASSUME NEW r \in Requests, Drop(r)
        PROVE  Goal'
    <2>1. /\ full' = full /\ entry' = [entry EXCEPT ![r] = None]
          /\ acct' = [acct EXCEPT ![r] = None]
          /\ ~HoldsToken(r) /\ ~HoldsToken(r)'
          /\ \A s \in Requests : HoldsToken(s)' <=> HoldsToken(s)
      BY <1>6 DEF Drop, TypeOK, HoldsToken
    <2>2. \A i \in Instances, a \in Accounts :
             locks'[i][a] # None => locks'[i][a] = locks[i][a]
      BY <1>6 DEF Drop, TypeOK, IdleHasNothing
    <2>3. TokenUnique'
      BY <2>1 DEF TokenUnique, TypeOK
    <2>4. TokenHasHolder'
      <3> SUFFICES ASSUME NEW i \in Instances, NEW a \in Accounts,
                          locks'[i][a] # None, full[locks[i][a]]
                   PROVE  \E s \in Requests :
                            HoldsToken(s)' /\ InstanceOf[s] = i /\ acct'[s] = a
        BY <2>1, <2>2 DEF TokenHasHolder
      <3>1. PICK s \in Requests : HoldsToken(s) /\ InstanceOf[s] = i /\ acct[s] = a
        BY <2>2 DEF TokenHasHolder
      <3> QED BY <3>1, <2>1 DEF TypeOK
    <2> QED BY <2>3, <2>4
  <1>7. ASSUME NEW i \in Instances, Crash(i)
        PROVE  Goal'
    <2>1. TokenUnique'
      BY <1>7 DEF Crash, TypeOK, TokenUnique, HoldsToken
    <2>2. TokenHasHolder'
      <3> SUFFICES ASSUME NEW j \in Instances, NEW a \in Accounts,
                          locks'[j][a] # None, full[locks'[j][a]]
                   PROVE  \E s \in Requests :
                            HoldsToken(s)' /\ InstanceOf[s] = j /\ acct'[s] = a
        BY <1>7 DEF Crash, TokenHasHolder
      <3>1. j # i /\ locks'[j][a] = locks[j][a]
        BY <1>7 DEF Crash, TypeOK
      <3>2. PICK s \in Requests : HoldsToken(s) /\ InstanceOf[s] = j /\ acct[s] = a
        BY <3>1 DEF TokenHasHolder
      <3> QED BY <3>1, <3>2, <1>7 DEF Crash, TypeOK, HoldsToken
    <2> QED BY <2>1, <2>2
  <1>8. CASE UNCHANGED vars
    BY <1>8 DEF vars, TokenUnique, TokenHasHolder, HoldsToken
  <1> QED BY <1>1, <1>2, <1>3, <1>4, <1>5, <1>6, <1>7, <1>8 DEF Next

-----------------------------------------------------------------------------
\* The inductive invariant holds in every reachable state.
THEOREM Invariance == Spec => []IInv
  <1>1. Init => IInv
    BY GuardAssumption DEF Init, IInv, TypeOK, PCs, IdleHasNothing, EntryInMap,
       EntriesDistinct, RefsExact, TokenUnique, TokenHasHolder, HoldsToken
  <1>2. IInv /\ [Next]_vars => IInv'
    BY Shape, Counts, Tokens DEF IInv
  <1> QED BY <1>1, <1>2, PTL DEF Spec

\* Every variable keeps its type; above all, the count of an entry never goes below
\* zero, for drop only runs for a request that lockLocal counted.
THEOREM Typing == Spec => []TypeOK
  BY Invariance, PTL DEF IInv

\* The entry a request has in hand is the one the map holds for its account.
THEOREM EntryStaysInMap == Spec => []EntryInMap
  BY Invariance, PTL DEF IInv

\* The map holds exactly the accounts with live users, and counts them.
THEOREM ReferenceCountsExact == Spec => []RefsExact
  BY Invariance, PTL DEF IInv

\* A token is out only while a request for that account holds it.
THEOREM NoAbandonedToken == Spec => []TokenHasHolder
  BY Invariance, PTL DEF IInv

\* Two requests for one account are never inside together in one process;
\* on two they are only after a transaction ended under its fn.
THEOREM Exclusion == Spec => []ExclusionUnlessTxEnds
  <1>1. IInv => ExclusionUnlessTxEnds
    <2> SUFFICES ASSUME IInv, NEW r \in Requests, NEW s \in Requests,
                        Inside(r), Inside(s), acct[r] = acct[s], r # s
                 PROVE  /\ InstanceOf[r] # InstanceOf[s]
                        /\ ~Protected(r) \/ ~Protected(s)
      BY DEF ExclusionUnlessTxEnds
    <2>1. entry[r] = EntryOf(r) /\ entry[s] = EntryOf(s)
          /\ HoldsToken(r) /\ HoldsToken(s)
      BY DEF IInv, EntryInMap, Inside, HoldsToken
    <2>2. InstanceOf[r] # InstanceOf[s]
      BY <2>1 DEF IInv, TokenUnique, EntryOf
    <2>3. Postgres
      BY <2>2, SingleProcessAssumption
    <2>4. ~Protected(r) \/ ~Protected(s)
      BY <2>3 DEF Protected, KeyFor
    <2> QED BY <2>2, <2>4
  <1> QED BY <1>1, Invariance, PTL

-----------------------------------------------------------------------------
\* The abstract holder of an account, as the protected request it names.
LEMMA HolderIs ==
    ASSUME ExclusionUnlessTxEnds, NEW r \in Requests, NEW a \in Accounts,
           Protected(r), acct[r] = a
    PROVE  holderOf[a] = r
  <1>1. \A s \in Requests : Protected(s) /\ acct[s] = a => s = r
    BY DEF ExclusionUnlessTxEnds, Protected
  <1> QED BY <1>1 DEF holderOf

LEMMA HolderNone ==
    ASSUME NEW a \in Accounts
    PROVE  holderOf[a] = None <=> \A r \in Requests : Protected(r) => acct[r] # a
  BY GuardAssumption DEF holderOf

\* A step after which every protected request was protected before, for the
\* same account, is a step of the abstract lock that loses holders.
LEMMA LosingSteps ==
    ASSUME ExclusionUnlessTxEnds, ExclusionUnlessTxEnds',
           \A s \in Requests : Protected(s)' => Protected(s) /\ acct'[s] = acct[s]
    PROVE  [Abstract!Next]_holderOf
  <1> DEFINE A == {a \in Accounts : holderOf[a] # None /\ holderOf'[a] = None}
  <1>1. \A a \in Accounts : holderOf'[a] = None \/ holderOf'[a] = holderOf[a]
    <2> SUFFICES ASSUME NEW a \in Accounts, holderOf'[a] # None
                 PROVE  holderOf'[a] = holderOf[a]
      OBVIOUS
    <2>1. PICK s \in Requests :
             holderOf'[a] = s /\ Protected(s)' /\ acct'[s] = a
      BY DEF holderOf
    <2> QED BY <2>1, HolderIs
  <1>2. holderOf' = [a \in Accounts |-> IF a \in A THEN None ELSE holderOf[a]]
    <2>1. holderOf' = [a \in Accounts |-> holderOf'[a]]
      BY DEF holderOf
    <2> QED BY <2>1, <1>1
  <1>3. Abstract!Lose(A)
    BY <1>2 DEF Abstract!Lose
  <1> QED BY <1>3 DEF Abstract!Next

\* A step by which an unprotected request becomes protected, and the others
\* stay as they are, enters the abstract lock of an account nobody holds.
LEMMA EnteringSteps ==
    ASSUME ExclusionUnlessTxEnds, ExclusionUnlessTxEnds',
           NEW r \in Requests, NEW a \in Accounts,
           ~Protected(r), Protected(r)', acct' = acct, acct[r] = a,
           \A s \in Requests : s # r => (Protected(s)' <=> Protected(s)),
           \A s \in Requests : Protected(s) => acct[s] # a
    PROVE  Abstract!Next
  <1>1. holderOf[a] = None
    BY HolderNone
  <1>2. \A b \in Accounts : holderOf[b] # r
    BY GuardAssumption DEF holderOf
  <1>3. holderOf'[a] = r
    <2>1. \A s \in Requests : Protected(s)' /\ acct'[s] = a => s = r
      OBVIOUS
    <2> QED BY <2>1 DEF holderOf
  <1>4. \A b \in Accounts : b # a => holderOf'[b] = holderOf[b]
    <2> SUFFICES ASSUME NEW b \in Accounts, b # a
                 PROVE  holderOf'[b] = holderOf[b]
      OBVIOUS
    <2>1. CASE \E s \in Requests : Protected(s) /\ acct[s] = b
      <3>1. PICK s \in Requests : Protected(s) /\ acct[s] = b
        BY <2>1
      <3>2. \A t \in Requests : Protected(t)' /\ acct'[t] = b => t = s
        BY <3>1 DEF ExclusionUnlessTxEnds, Protected
      <3>3. Protected(s)' /\ acct'[s] = b
        BY <3>1
      <3>4. holderOf'[b] = s
        BY <3>2, <3>3 DEF holderOf
      <3> QED BY <3>1, <3>4, HolderIs
    <2>2. CASE \A s \in Requests : Protected(s) => acct[s] # b
      <3>1. \A s \in Requests : Protected(s)' => acct'[s] # b
        BY <2>2
      <3>2. holderOf'[b] = None
        BY <3>1 DEF holderOf
      <3> QED BY <2>2, <3>2, HolderNone
    <2> QED BY <2>1, <2>2
  <1>5. holderOf' = [holderOf EXCEPT ![a] = r]
    <2>1. holderOf' = [b \in Accounts |-> holderOf'[b]]
          /\ holderOf = [b \in Accounts |-> holderOf[b]]
      BY DEF holderOf
    <2> QED BY <2>1, <1>3, <1>4
  <1> QED BY <1>1, <1>2, <1>5 DEF Abstract!Next, Abstract!Enter

\* WithUser implements the abstract account lock.
THEOREM Refinement == Spec => ImplementsAccountLock
  <1> USE GuardAssumption
  <1>1. Init => Abstract!Init
    BY DEF Init, Abstract!Init, holderOf, Protected, Inside
  <1>2. ASSUME IInv, ExclusionUnlessTxEnds, ExclusionUnlessTxEnds', [Next]_vars
        PROVE  [Abstract!Next]_holderOf
    <2> USE DEF Protected, Inside, KeyFor
    <2> TypeOK
      BY <1>2 DEF IInv
    <2>1. ASSUME NEW r \in Requests, NEW a \in Accounts, Join(r, a) \/ Open(r, a)
          PROVE  [Abstract!Next]_holderOf
      <3>1. \A s \in Requests : Protected(s)' => Protected(s) /\ acct'[s] = acct[s]
        BY <2>1 DEF Join, Open, TypeOK
      <3> QED BY <1>2, <3>1, LosingSteps
    <2>2. ASSUME NEW r \in Requests, Acquire(r)
          PROVE  [Abstract!Next]_holderOf
      <3>1. CASE Postgres
        <4>1. \A s \in Requests : Protected(s)' => Protected(s) /\ acct'[s] = acct[s]
          BY <2>2, <3>1 DEF Acquire, TypeOK
        <4> QED BY <1>2, <4>1, LosingSteps
      <3>2. CASE ~Postgres
        <4>1. ~Protected(r) /\ Protected(r)' /\ acct' = acct
              /\ \A s \in Requests : s # r => (Protected(s)' <=> Protected(s))
          BY <2>2, <3>2 DEF Acquire, TypeOK
        <4>2. acct[r] \in Accounts
          BY <1>2, <2>2 DEF Acquire, IInv, IdleHasNothing
        <4>3. \A s \in Requests : Protected(s) => acct[s] # acct[r]
          <5> SUFFICES ASSUME NEW s \in Requests, Protected(s), acct[s] = acct[r]
                       PROVE  FALSE
            OBVIOUS
          <5>1. entry[s] = entry[r]
            BY <1>2, <2>2, <3>2, SingleProcessAssumption
               DEF Acquire, IInv, EntryInMap, EntryOf
          <5>2. full[entry[s]]
            BY <1>2 DEF IInv, TokenUnique, HoldsToken
          <5> QED BY <5>1, <5>2, <2>2 DEF Acquire
        <4> HIDE DEF Protected
        <4> QED BY <1>2, <4>1, <4>2, <4>3, EnteringSteps
      <3> QED BY <3>1, <3>2
    <2>3. ASSUME NEW r \in Requests, LockShared(r)
          PROVE  [Abstract!Next]_holderOf
      <3>1. acct[r] \in Accounts /\ KeyFor(r) \in Keys
        BY <1>2, <2>3 DEF LockShared, IInv, IdleHasNothing
      <3>2. ~Protected(r) /\ Protected(r)' /\ acct' = acct
        BY <2>3, <3>1 DEF LockShared, TypeOK
      <3>3. CASE Postgres
        <4>1. \A s \in Requests : s # r => (Protected(s)' <=> Protected(s))
          BY <2>3, <3>1, <3>3 DEF LockShared, TypeOK
        <4>2. \A s \in Requests : Protected(s) => acct[s] # acct[r]
          BY <2>3, <3>3 DEF LockShared
        <4> HIDE DEF Protected
        <4> QED BY <1>2, <3>1, <3>2, <4>1, <4>2, EnteringSteps
      <3>4. CASE ~Postgres
        <4>1. \A s \in Requests : s # r => (Protected(s)' <=> Protected(s))
          BY <2>3, <3>4 DEF LockShared, TypeOK
        <4>2. \A s \in Requests : Protected(s) => acct[s] # acct[r]
          BY <1>2, <2>3, <3>4, SingleProcessAssumption
             DEF LockShared, IInv, TokenUnique, HoldsToken, EntryInMap, EntryOf
        <4> HIDE DEF Protected
        <4> QED BY <1>2, <3>1, <3>2, <4>1, <4>2, EnteringSteps
      <3> QED BY <3>3, <3>4
    <2>4. ASSUME NEW r \in Requests,
                 GiveUp(r) \/ FailShared(r) \/ Finish(r) \/ TxEnds(r)
                   \/ Release(r) \/ Drop(r)
          PROVE  [Abstract!Next]_holderOf
      <3>1. \A s \in Requests : Protected(s)' => Protected(s) /\ acct'[s] = acct[s]
        <4>1. CASE GiveUp(r) \/ FailShared(r) \/ Release(r)
          BY <4>1 DEF GiveUp, FailShared, Release, TypeOK
        <4>2. CASE Finish(r) \/ TxEnds(r)
          BY <4>2, <1>2 DEF Finish, TxEnds, WithoutTx, TypeOK, IInv, IdleHasNothing
        <4>3. CASE Drop(r)
          BY <4>3 DEF Drop, TypeOK
        <4> QED BY <2>4, <4>1, <4>2, <4>3
      <3> QED BY <1>2, <3>1, LosingSteps
    <2>5. ASSUME NEW i \in Instances, Crash(i)
          PROVE  [Abstract!Next]_holderOf
      <3>1. \A s \in Requests : Protected(s)' => Protected(s) /\ acct'[s] = acct[s]
        BY <2>5, <1>2 DEF Crash, TypeOK, IInv, IdleHasNothing
      <3> QED BY <1>2, <3>1, LosingSteps
    <2>6. CASE UNCHANGED vars
      BY <2>6 DEF vars, holderOf
    <2> QED BY <1>2, <2>1, <2>2, <2>3, <2>4, <2>5, <2>6 DEF Next
  <1>3. QED
    BY <1>1, <1>2, Invariance, Exclusion, PTL
       DEF Spec, ImplementsAccountLock, Abstract!Spec
=============================================================================
